---- MODULE RateLimiterProofs ----
(***************************************************************************)
(* The rate limiter for any number of clients, any limits, any window.     *)
(* What pruning may not break is proved under the assumption that it is    *)
(* never younger than a window, which the settings do not enforce.         *)
(***************************************************************************)
EXTENDS RateLimiter, TLAPS

Counter == [start : Int, count : Nat]

Shape ==
    /\ now \in Nat
    /\ counters \in [DOMAIN counters -> Counter]
    /\ spent \in [Keys -> Counter]

PrunesOnlyExpired == PruneAge >= Window

(* A window that is still open has one counter, which counts exactly what  *)
(* the client has had of it.                                               *)
InStep ==
    \A k \in Keys :
        /\ ~Expired(spent[k]) => k \in DOMAIN counters /\ counters[k] = spent[k]
        /\ k \in DOMAIN counters /\ ~Expired(counters[k]) => spent[k] = counters[k]

(***************************************************************************)
(* Lemmas about the operators.                                             *)
(***************************************************************************)
LEMMA ConstantFacts ==
    /\ Window \in Nat \ {0}
    /\ PruneAge \in Nat \ {0}
    /\ \A k \in Keys : Limit(k) \in Nat \ {0}
  <1>1. Window \in Nat \ {0} BY LimiterAssumption DEF Window
  <1>2. ASSUME NEW k \in Keys PROVE Limit(k) \in Nat \ {0}
    <2>1. k[1] \in DOMAIN RuleLimit /\ RuleLimit[k[1]] > 0 BY DEF Keys, Rules
    <2>2. RuleLimit[k[1]] \in Nat BY <2>1, LimiterAssumption DEF RuleLimit
    <2> QED BY <2>1, <2>2 DEF Limit
  <1> QED BY <1>1, <1>2, LimiterAssumption

(* Pruning drops old counters and keeps the others as they are.            *)
LEMMA PruneFacts ==
    ASSUME NEW c
    PROVE  /\ DOMAIN Prune(c) \subseteq DOMAIN c
           /\ \A k \in DOMAIN Prune(c) : Prune(c)[k] = c[k]
           /\ \A k \in DOMAIN c : now - c[k].start < PruneAge => k \in DOMAIN Prune(c)
           /\ Prune(c) = [k \in DOMAIN Prune(c) |-> c[k]]
  BY DEF Prune

LEMMA PutFacts ==
    ASSUME NEW c, NEW k, NEW counter
    PROVE  /\ DOMAIN Put(c, k, counter) = DOMAIN c \cup {k}
           /\ Put(c, k, counter)[k] = counter
           /\ \A j \in DOMAIN c \ {k} : Put(c, k, counter)[j] = c[j]
  BY DEF Put

LEMMA CurrentFacts ==
    ASSUME Shape, NEW k \in Keys
    PROVE  /\ Current(k) \in Counter
           /\ ~Expired(Current(k))
           /\ ~HasRoom(k) => /\ k \in DOMAIN counters /\ ~Expired(counters[k])
                             /\ Current(k) = counters[k]
  BY ConstantFacts DEF Current, Shape, Counter, Expired, HasRoom

(* A refusal leaves the counters alone: a new counter always has room.     *)
LEMMA RefuseKeeps ==
    ASSUME Shape, NEW k \in Keys, Refuse(k)
    PROVE  counters' = counters
  <1>1. k \in DOMAIN counters /\ Current(k) = counters[k]
    BY CurrentFacts DEF Refuse
  <1>2. counters' = [j \in DOMAIN counters |-> counters[j]]
    BY <1>1 DEF Refuse, Put
  <1> QED BY <1>2 DEF Shape

(* A request that goes through is counted, in a new counter if its window  *)
(* is over, and the pruning touches no open window of another key.         *)
LEMMA AllowCounts ==
    ASSUME Shape, NEW k \in Keys, Allow(k)
    PROVE  /\ counters' \in [DOMAIN counters' -> Counter]
           /\ DOMAIN counters' \subseteq DOMAIN counters \cup {k}
           /\ \A j \in DOMAIN counters' :
                counters'[j] = IF j = k
                               THEN [start |-> Current(k).start,
                                     count |-> Current(k).count + 1]
                               ELSE counters[j]
           /\ PrunesOnlyExpired =>
                /\ k \in DOMAIN counters'
                /\ \A j \in DOMAIN counters :
                     ~Expired(counters[j]) => j \in DOMAIN counters'
  <1> DEFINE counted == [Current(k) EXCEPT !.count = @ + 1]
             c == Put(counters, k, counted)
  <1>1. counters' = Prune(c) BY DEF Allow
  <1>2. /\ counted = [start |-> Current(k).start, count |-> Current(k).count + 1]
        /\ counted \in Counter
        /\ ~Expired(counted)
    BY CurrentFacts DEF Counter, Expired
  <1>3. /\ DOMAIN c = DOMAIN counters \cup {k}
        /\ c[k] = counted
        /\ \A j \in DOMAIN counters \ {k} : c[j] = counters[j]
    BY DEF Put
  <1> HIDE DEF counted, c
  <1>4. /\ DOMAIN counters' \subseteq DOMAIN c
        /\ \A j \in DOMAIN counters' : counters'[j] = c[j]
        /\ \A j \in DOMAIN c : now - c[j].start < PruneAge => j \in DOMAIN counters'
        /\ counters' = [j \in DOMAIN counters' |-> c[j]]
    BY <1>1, PruneFacts
  <1>5. \A j \in DOMAIN counters' : counters'[j] = IF j = k THEN counted ELSE counters[j]
    BY <1>3, <1>4
  <1>6. counters' \in [DOMAIN counters' -> Counter]
    <2>1. \A j \in DOMAIN c : c[j] \in Counter BY <1>2, <1>3 DEF Shape
    <2> QED BY <2>1, <1>4
  <1>7. ASSUME PrunesOnlyExpired
        PROVE  /\ k \in DOMAIN counters'
               /\ \A j \in DOMAIN counters :
                    ~Expired(counters[j]) => j \in DOMAIN counters'
    <2>1. \A j \in DOMAIN c : c[j] \in Counter BY <1>2, <1>3 DEF Shape
    <2>2. ASSUME NEW j \in DOMAIN c, ~Expired(c[j]) PROVE j \in DOMAIN counters'
      <3>1. now - c[j].start < Window BY <2>1, <2>2, ConstantFacts DEF Expired, Counter, Shape
      <3>2. now - c[j].start < PruneAge
        BY <3>1, <2>1, <1>7, ConstantFacts DEF PrunesOnlyExpired, Counter, Shape
      <3> QED BY <3>2, <1>4
    <2>3. k \in DOMAIN counters' BY <2>2, <1>2, <1>3
    <2>4. ASSUME NEW j \in DOMAIN counters, ~Expired(counters[j]) PROVE j \in DOMAIN counters'
      BY <2>2, <2>3, <2>4, <1>3
    <2> QED BY <2>3, <2>4
  <1> QED BY <1>2, <1>3, <1>4, <1>5, <1>6, <1>7

(* What the ghost notes of it.                                             *)
LEMMA AllowNotes ==
    ASSUME Shape, NEW k \in Keys, Allow(k)
    PROVE  /\ spent' \in [Keys -> Counter]
           /\ spent'[k] = Noted(k)
           /\ \A j \in Keys \ {k} : spent'[j] = spent[j]
  <1>1. Noted(k) \in Counter BY DEF Shape, Noted, Counter
  <1> QED BY <1>1 DEF Allow, Shape

(***************************************************************************)
(* Types and counts.                                                       *)
(***************************************************************************)
LEMMA ShapeStep == ASSUME Shape, [Next]_vars PROVE Shape'
  <1>1. ASSUME NEW k \in Keys, Allow(k) PROVE Shape'
    <2>1. counters' \in [DOMAIN counters' -> Counter] BY <1>1, AllowCounts
    <2>2. spent' \in [Keys -> Counter] /\ now' = now
      BY <1>1, AllowNotes DEF Allow
    <2> QED BY <2>1, <2>2 DEF Shape
  <1>2. ASSUME NEW k \in Keys, Refuse(k) PROVE Shape'
    BY <1>2, RefuseKeeps DEF Refuse, Shape
  <1>3. CASE Restart
    BY <1>3, ConstantFacts DEF Restart, Shape, NoCounters, NothingSpent, Counter
  <1>4. CASE Tick BY <1>4 DEF Tick, Shape
  <1>5. CASE UNCHANGED vars BY <1>5 DEF vars, Shape
  <1> QED BY <1>1, <1>2, <1>3, <1>4, <1>5 DEF Next

LEMMA ShapeInit == ASSUME Init PROVE Shape
  BY ConstantFacts DEF Init, Shape, NoCounters, NothingSpent, Counter

LEMMA CountersStep ==
    ASSUME Shape, CountersOK, [Next]_vars PROVE CountersOK'
  <1>1. ASSUME NEW k \in Keys, Allow(k) PROVE CountersOK'
    <2>1. now' = now BY <1>1 DEF Allow
    <2>2. DOMAIN counters' \subseteq Keys BY <1>1, AllowCounts DEF CountersOK
    <2>3. Current(k).count + 1 \in 1 .. Limit(k) /\ Current(k).start \in 0 .. now
      BY <1>1, CurrentFacts, ConstantFacts
      DEF Allow, HasRoom, Current, CountersOK, Counter, Shape
    <2>4. \A j \in DOMAIN counters' :
            counters'[j].start \in 0 .. now /\ counters'[j].count \in 1 .. Limit(j)
      BY <1>1, <2>3, AllowCounts DEF CountersOK
    <2> QED BY <2>1, <2>2, <2>4 DEF CountersOK
  <1>2. ASSUME NEW k \in Keys, Refuse(k) PROVE CountersOK'
    BY <1>2, RefuseKeeps DEF Refuse, CountersOK
  <1>3. CASE Restart BY <1>3 DEF Restart, NoCounters, CountersOK
  <1>4. CASE Tick BY <1>4, LimiterAssumption DEF Tick, CountersOK
  <1>5. CASE UNCHANGED vars BY <1>5 DEF vars, CountersOK
  <1> QED BY <1>1, <1>2, <1>3, <1>4, <1>5 DEF Next

(* No counter ever counts past its rule's limit, so no answer announces a  *)
(* negative number of requests remaining, however old counters are pruned. *)
THEOREM Counting == Spec => []CountersOK
  <1>1. Init => Shape /\ CountersOK
    BY ShapeInit, LimiterAssumption DEF Init, CountersOK, NoCounters
  <1>2. Shape /\ CountersOK /\ [Next]_vars => Shape' /\ CountersOK'
    BY ShapeStep, CountersStep
  <1> QED BY <1>1, <1>2, PTL DEF Spec

(***************************************************************************)
(* Retry-After.                                                            *)
(***************************************************************************)
LEMMA CeilFacts ==
    ASSUME NEW n \in Nat \ {0}
    PROVE  /\ CeilSeconds(n) \in Nat \ {0}
           /\ n <= CeilSeconds(n) * TicksPerSecond
           /\ CeilSeconds(n) * TicksPerSecond < n + TicksPerSecond
  <1> DEFINE a == n + TicksPerSecond - 1
             q == a \div TicksPerSecond
  <1>1. a \in Nat /\ TicksPerSecond \in Nat \ {0} /\ a >= TicksPerSecond
    BY LimiterAssumption
  <1>2. q \in Nat /\ q * TicksPerSecond <= a /\ a < q * TicksPerSecond + TicksPerSecond
    BY <1>1
  <1>3. q # 0
    <2>1. q = 0 => a < TicksPerSecond BY <1>1, <1>2
    <2> QED BY <1>1, <2>1
  <1>4. q * TicksPerSecond \in Nat BY <1>1, <1>2
  <1>5. n <= q * TicksPerSecond /\ q * TicksPerSecond < n + TicksPerSecond
    <2> DEFINE product == q * TicksPerSecond
    <2>1. product \in Nat /\ product <= a /\ a < product + TicksPerSecond
      BY <1>2, <1>4
    <2> HIDE DEF product
    <2>2. n <= product /\ product < n + TicksPerSecond BY <1>1, <2>1
    <2> QED BY <2>2 DEF product
  <1> QED BY <1>2, <1>3, <1>5 DEF CeilSeconds

LEMMA DecideIsTight ==
    ASSUME Shape, CountersOK, NEW k \in Keys, NEW allowed, NEW counter \in Counter,
           counter.start \in 0 .. now, ~Expired(counter),
           decision' = Decide(k, allowed, counter)
    PROVE  RetryAfterIsTight'
  <1> DEFINE left == counter.start + Window - now
  <1>1. left \in Nat \ {0} BY ConstantFacts DEF Expired, Shape, Counter
  <1>2. Window - (now - counter.start) = left
    BY ConstantFacts DEF Shape, Counter
  <1>3. AtLeast(0, left) = left BY <1>1 DEF AtLeast
  <1>4. RetryAfter(counter.start) = AtLeast(1, CeilSeconds(left))
    BY <1>2, <1>3 DEF RetryAfter
  <1>5. RetryAfter(counter.start) = CeilSeconds(left)
    BY <1>1, <1>4, CeilFacts DEF AtLeast
  <1>6. /\ decision'.retryAfter = CeilSeconds(left)
        /\ decision'.until - decision'.at = left
    <2>1. /\ decision'.retryAfter = RetryAfter(counter.start)
          /\ decision'.until = counter.start + Window
          /\ decision'.at = now
      BY DEF Decide
    <2>2. decision'.until - decision'.at = left
      BY <2>1, ConstantFacts DEF Shape, Counter
    <2>3. decision'.retryAfter = CeilSeconds(left) BY <1>5, <2>1
    <2> QED BY <2>2, <2>3
  <1>7. /\ left <= CeilSeconds(left) * TicksPerSecond
        /\ CeilSeconds(left) * TicksPerSecond < left + TicksPerSecond
    BY <1>1, CeilFacts
  <1> HIDE DEF left
  <1> QED BY <1>6, <1>7 DEF RetryAfterIsTight

LEMMA RetryAfterStep ==
    ASSUME Shape, CountersOK, RetryAfterIsTight, [Next]_vars
    PROVE  RetryAfterIsTight'
  <1>1. ASSUME NEW k \in Keys, Allow(k) PROVE RetryAfterIsTight'
    <2> DEFINE counted == [Current(k) EXCEPT !.count = @ + 1]
    <2>1. /\ counted \in Counter /\ counted.start \in 0 .. now
          /\ ~Expired(counted)
      BY CurrentFacts DEF Counter, Current, CountersOK, Shape, Expired
    <2>2. decision' = Decide(k, TRUE, counted) BY <1>1 DEF Allow
    <2> HIDE DEF counted
    <2> QED BY <2>1, <2>2, DecideIsTight
  <1>2. ASSUME NEW k \in Keys, Refuse(k) PROVE RetryAfterIsTight'
    <2>1. /\ Current(k) \in Counter /\ Current(k).start \in 0 .. now
          /\ ~Expired(Current(k))
      BY CurrentFacts DEF Counter, Current, CountersOK, Shape
    <2>2. decision' = Decide(k, FALSE, Current(k)) BY <1>2 DEF Refuse
    <2> QED BY <2>1, <2>2, DecideIsTight
  <1>3. CASE Restart BY <1>3 DEF Restart, NoDecision, RetryAfterIsTight
  <1>4. CASE Tick BY <1>4 DEF Tick, RetryAfterIsTight
  <1>5. CASE UNCHANGED vars BY <1>5 DEF vars, RetryAfterIsTight
  <1> QED BY <1>1, <1>2, <1>3, <1>4, <1>5 DEF Next

(* Every answer's Retry-After is the least number of whole seconds after   *)
(* which the window it was measured in is over.                            *)
THEOREM Rounding == Spec => []RetryAfterIsTight
  <1>1. Init => Shape /\ CountersOK /\ RetryAfterIsTight
    BY ShapeInit, LimiterAssumption
    DEF Init, CountersOK, NoCounters, NoDecision, RetryAfterIsTight
  <1>2. Shape /\ CountersOK /\ RetryAfterIsTight /\ [Next]_vars
            => Shape' /\ CountersOK' /\ RetryAfterIsTight'
    BY ShapeStep, CountersStep, RetryAfterStep
  <1> QED BY <1>1, <1>2, PTL DEF Spec

(***************************************************************************)
(* The limit of a window.                                                  *)
(***************************************************************************)
LEMMA InStepStep ==
    ASSUME PrunesOnlyExpired, Shape, InStep, WithinLimit, [Next]_vars
    PROVE  InStep' /\ WithinLimit'
  <1>1. ASSUME NEW k \in Keys, Allow(k) PROVE InStep' /\ WithinLimit'
    <2> DEFINE counted == [start |-> Current(k).start, count |-> Current(k).count + 1]
    <2>1. now' = now BY <1>1 DEF Allow
    <2>2. /\ k \in DOMAIN counters' /\ counters'[k] = counted
          /\ \A j \in DOMAIN counters' \ {k} : j \in DOMAIN counters /\ counters'[j] = counters[j]
          /\ \A j \in DOMAIN counters : ~Expired(counters[j]) => j \in DOMAIN counters'
      BY <1>1, AllowCounts
    <2>3. spent'[k] = counted
      <3>1. CASE Expired(spent[k])
        <4>1. Current(k) = [start |-> now, count |-> 0]
          BY <3>1 DEF InStep, Current
        <4>2. spent'[k] = [start |-> now, count |-> 1]
          BY <1>1, <3>1, AllowNotes DEF Noted
        <4>3. Current(k).start = now /\ Current(k).count + 1 = 1 BY <4>1
        <4> QED BY <4>2, <4>3
      <3>2. CASE ~Expired(spent[k])
        <4>1. Current(k) = spent[k] BY <3>2 DEF InStep, Current
        <4> QED BY <1>1, <3>2, <4>1, AllowNotes DEF Noted, Shape, Counter
      <3> QED BY <3>1, <3>2
    <2>4. \A j \in Keys \ {k} : spent'[j] = spent[j] BY <1>1, AllowNotes
    <2>5. counted.count <= Limit(k)
      BY <1>1, CurrentFacts, ConstantFacts DEF Allow, HasRoom, Counter
    <2> HIDE DEF counted
    <2>6. WithinLimit' BY <2>3, <2>4, <2>5 DEF WithinLimit
    <2>7. InStep' BY <2>1, <2>2, <2>3, <2>4 DEF InStep, Expired
    <2> QED BY <2>6, <2>7
  <1>2. ASSUME NEW k \in Keys, Refuse(k) PROVE InStep' /\ WithinLimit'
    BY <1>2, RefuseKeeps DEF Refuse, InStep, WithinLimit, Expired
  <1>3. CASE Restart
    <2>1. /\ counters' = NoCounters /\ spent' = NothingSpent /\ now' = now
      BY <1>3 DEF Restart
    <2>2. \A k \in Keys : Expired(spent[k])'
      BY <2>1, ConstantFacts DEF NothingSpent, Expired, Shape
    <2>3. InStep' BY <2>1, <2>2 DEF InStep, NoCounters
    <2>4. WithinLimit' BY <2>1, ConstantFacts DEF WithinLimit, NothingSpent
    <2> QED BY <2>3, <2>4
  <1>4. CASE Tick
    <2>1. now' = now + 1 /\ UNCHANGED <<counters, spent>> BY <1>4 DEF Tick
    <2>2. ASSUME NEW c \in Counter, Expired(c) PROVE Expired(c)'
      BY <2>1, <2>2, ConstantFacts DEF Expired, Counter, Shape
    <2>3. InStep'
      BY <2>1, <2>2 DEF InStep, Shape
    <2> QED BY <2>1, <2>3 DEF WithinLimit
  <1>5. CASE UNCHANGED vars BY <1>5 DEF vars, InStep, WithinLimit, Expired
  <1> QED BY <1>1, <1>2, <1>3, <1>4, <1>5 DEF Next

LEMMA InStepInit == ASSUME Init PROVE InStep /\ WithinLimit
  BY ConstantFacts DEF Init, InStep, WithinLimit, NothingSpent, NoCounters, Expired

(* As long as pruning spares open windows, no client gets more requests    *)
(* through in a window than the rule allows.                               *)
THEOREM Bounding == ASSUME PrunesOnlyExpired PROVE Spec => []WithinLimit
  <1>1. Init => Shape /\ InStep /\ WithinLimit BY ShapeInit, InStepInit
  <1>2. Shape /\ InStep /\ WithinLimit /\ [Next]_vars
            => Shape' /\ InStep' /\ WithinLimit'
    BY ShapeStep, InStepStep
  <1> QED BY <1>1, <1>2, PTL DEF Spec

(***************************************************************************)
(* The promise of FixedWindow.                                             *)
(***************************************************************************)

(* The windows of the other keys are left alone.                           *)
LEMMA AllowOpens ==
    ASSUME PrunesOnlyExpired, Shape, NEW k \in Keys, Allow(k)
    PROVE  OpenWindow' = [OpenWindow EXCEPT ![k] =
               {[start |-> Current(k).start, count |-> Current(k).count + 1]}]
  <1> DEFINE counted == [start |-> Current(k).start, count |-> Current(k).count + 1]
  <1>1. now' = now BY DEF Allow
  <1>2. /\ k \in DOMAIN counters' /\ counters'[k] = counted
        /\ \A j \in DOMAIN counters' \ {k} : j \in DOMAIN counters /\ counters'[j] = counters[j]
        /\ \A j \in DOMAIN counters : ~Expired(counters[j]) => j \in DOMAIN counters'
    BY AllowCounts
  <1>3. ~Expired(counters[k])' BY <1>1, <1>2, CurrentFacts DEF Expired
  <1> HIDE DEF counted
  <1>4. OpenWindow'[k] = {counted} BY <1>1, <1>2, <1>3 DEF OpenWindow
  <1>5. \A j \in Keys \ {k} : OpenWindow'[j] = OpenWindow[j]
    BY <1>1, <1>2 DEF OpenWindow, Expired
  <1>6. /\ OpenWindow' = [j \in Keys |-> OpenWindow'[j]]
        /\ OpenWindow = [j \in Keys |-> OpenWindow[j]]
    BY DEF OpenWindow
  <1> QED BY <1>4, <1>5, <1>6 DEF counted

LEMMA PromiseStep ==
    ASSUME PrunesOnlyExpired, Shape, [Next]_vars
    PROVE  [Promise!Next]_(Promise!vars)
  <1> DEFINE answer == [key |-> decision.key, allowed |-> decision.allowed]
  <1>1. ASSUME NEW k \in Keys, Allow(k) PROVE Promise!Allow(k)
    <2>1. answer' = [key |-> {k}, allowed |-> TRUE] /\ now' = now
      BY <1>1 DEF Allow, Decide
    <2>2. CASE OpenWindow[k] = {}
      <3>1. Current(k) = [start |-> now, count |-> 0]
        BY <2>2 DEF OpenWindow, Current
      <3>2. [start |-> Current(k).start, count |-> Current(k).count + 1]
              = [start |-> now, count |-> 1]
        BY <3>1
      <3>3. OpenWindow' = [OpenWindow EXCEPT ![k] = {[start |-> now, count |-> 1]}]
        BY <1>1, <3>2, AllowOpens
      <3> QED BY <2>1, <2>2, <3>3 DEF Promise!Allow
    <2>3. CASE OpenWindow[k] # {}
      <3>1. OpenWindow[k] = {counters[k]} /\ Current(k) = counters[k]
        BY <2>3 DEF OpenWindow, Current
      <3>2. counters[k].count < Limit(k) BY <1>1, <3>1 DEF Allow, HasRoom
      <3>3. Current(k) \in Counter BY CurrentFacts
      <3>4. [start |-> Current(k).start, count |-> Current(k).count + 1]
              = [counters[k] EXCEPT !.count = @ + 1]
        BY <3>1, <3>3 DEF Counter
      <3>5. OpenWindow' = [OpenWindow EXCEPT ![k] = {[counters[k] EXCEPT !.count = @ + 1]}]
        BY <1>1, <3>4, AllowOpens
      <3> QED BY <2>1, <3>1, <3>2, <3>5 DEF Promise!Allow
    <2> QED BY <2>2, <2>3
  <1>2. ASSUME NEW k \in Keys, Refuse(k) PROVE Promise!Refuse(k)
    <2>1. counters' = counters /\ now' = now BY <1>2, RefuseKeeps DEF Refuse
    <2>2. OpenWindow' = OpenWindow BY <2>1 DEF OpenWindow, Expired
    <2>3. answer' = [key |-> {k}, allowed |-> FALSE] BY <1>2 DEF Refuse, Decide
    <2>4. OpenWindow[k] = {counters[k]} /\ counters[k].count >= Limit(k)
      BY <1>2, CurrentFacts, ConstantFacts DEF Refuse, HasRoom, OpenWindow, Counter
    <2> QED BY <2>1, <2>2, <2>3, <2>4 DEF Promise!Refuse
  <1>3. CASE Restart
    <2>1. OpenWindow' = [k \in Keys |-> {}]
      BY <1>3 DEF Restart, OpenWindow, NoCounters
    <2>2. answer' = [key |-> {}, allowed |-> TRUE] /\ now' = now
      BY <1>3 DEF Restart, NoDecision
    <2> QED BY <2>1, <2>2 DEF Promise!Restart, Promise!Next
  <1>4. CASE Tick
    <2>1. now < MaxTime /\ now' = now + 1 /\ UNCHANGED <<counters, decision>>
      BY <1>4 DEF Tick
    <2>2. ASSUME NEW k \in Keys
          PROVE  OpenWindow'[k] = {w \in OpenWindow[k] : now' - w.start < Window}
      BY <2>1, ConstantFacts DEF OpenWindow, Expired, Shape, Counter
    <2>3. OpenWindow' = [k \in Keys |-> {w \in OpenWindow[k] : now' - w.start < Window}]
      BY <2>2 DEF OpenWindow
    <2> QED BY <2>1, <2>3 DEF Promise!Tick, Promise!Next
  <1>5. CASE UNCHANGED vars
    BY <1>5 DEF vars, Promise!vars, OpenWindow, Expired
  <1> QED BY <1>1, <1>2, <1>3, <1>4, <1>5 DEF Next, Promise!Next

LEMMA PromiseInit == ASSUME Init PROVE Promise!Init
  BY DEF Init, Promise!Init, NoCounters, NoDecision, OpenWindow

(* As long as pruning spares open windows, the limiter implements the      *)
(* fixed-window promise: which windows are closed, kept or forgotten makes *)
(* no difference to any answer.                                            *)
THEOREM Refinement == ASSUME PrunesOnlyExpired PROVE Spec => KeepsPromise
  <1>1. Init => Shape /\ Promise!Init BY ShapeInit, PromiseInit
  <1>2. Shape /\ [Next]_vars => Shape' /\ [Promise!Next]_(Promise!vars)
    BY ShapeStep, PromiseStep
  <1> QED BY <1>1, <1>2, PTL DEF Spec, KeepsPromise, Promise!Spec

====
