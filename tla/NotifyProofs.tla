---------------------------- MODULE NotifyProofs ----------------------------
(***************************************************************************)
(* The theorems about Notify: the queue stays well formed however passes   *)
(* are interleaved, and no announced event is lost from the books.         *)
(***************************************************************************)
EXTENDS Notify, FiniteSetTheorems, TLAPS

-----------------------------------------------------------------------------
(* The inductive invariant                                                 *)

Typed ==
    /\ channels \in [ChannelIds -> ChannelStates]
    /\ deliveries \in [Deliveries -> DeliveryRows]
    /\ raised \in 0 .. MaxEvents /\ failures \in 0 .. MaxFailures /\ created \in Nat
    /\ step \in [Schedulers ->
          {"down", "idle", "scan", "dispatch", "queue", "retry", "settle", "prune"}]
    /\ stopping \in [Schedulers -> BOOLEAN]
    /\ todo \in [Schedulers -> SUBSET Taken] /\ hand \in [Schedulers -> SUBSET Taken]
    /\ request \in [Requests -> Asked]
    /\ fate \in [Deliveries -> Fates]

\* What a pass has to do fits the step it is at, and it saves one row at a time.
Bounded(s) ==
    /\ step[s] \in {"dispatch", "retry"} => todo[s] # {}
    /\ step[s] \in {"queue", "settle"} <=> hand[s] # {}
    /\ step[s] \in {"retry", "settle"} => IsFiniteSet(todo[s]) /\ Cardinality(todo[s]) <= PassLimit
    /\ step[s] \notin {"dispatch", "queue", "retry", "settle"} => todo[s] = {}
    /\ \A x, y \in hand[s] : x = y

\* A row, in the table or in memory, against what has become of its event: it
\* never counts more attempts than were made, and it is only called delivered,
\* or given up by its counter, when that is so.
Sound(row, f) ==
    /\ row.status = "none" => row.attempts = 0
    /\ row.status = "pending" => row.attempts < maxDeliveryAttempts
    /\ row.status = "delivered" => f.is = "reached"
    /\ row.status = "failed" /\ f.is = "owed" => f.tries = maxDeliveryAttempts
    /\ f.is = "owed" => row.attempts <= f.tries

\* The copies a pass holds, however old they are.
Copies(s) ==
    /\ \A x \in todo[s] \cup hand[s] : x.id[1] <= raised /\ Sound(x.row, fate[x.id])
    /\ step[s] \in {"dispatch", "queue"} => \A x \in todo[s] \cup hand[s] : x.row = NoDelivery
    /\ step[s] = "queue" => \A x \in hand[s] : fate[x.id].is = "owed" => fate[x.id].tries >= 1
    /\ step[s] \in {"retry", "settle"} => \A x \in todo[s] : x.row.status = "pending"
    /\ step[s] \in {"retry", "settle"} => \A x \in hand[s] : x.row.status # "none"

Row(d) ==
    /\ deliveries[d].status # "none" => d[1] <= raised
    /\ Sound(deliveries[d], fate[d])
    /\ fate[d].is = "owed" => Sending(d) \/ deliveries[d].status \in {"pending", "failed"}

PassesInv == \A s \in Schedulers : Bounded(s) /\ Copies(s)
RowsInv   == \A d \in Deliveries : Row(d)
QueueInv  == Typed /\ PassesInv /\ RowsInv

-----------------------------------------------------------------------------
(* Rows, copies and fates                                                  *)

\* A delivery is an event and a channel.
LEMMA DeliveryParts ==
    ASSUME NEW d \in Deliveries
    PROVE  d[1] \in 1 .. MaxEvents /\ d[1] \in Nat /\ d[2] \in ChannelIds
<1>1. MaxEvents \in Nat
  BY NotifyBoundAssumption
<1> QED
  BY <1>1, SMT DEF Deliveries

\* There are finitely many deliveries.
LEMMA DeliveriesFinite == IsFiniteSet(Deliveries)
<1>1. IsFiniteSet(1 .. MaxEvents)
  BY FS_Interval, NotifyBoundAssumption
<1>2. IsFiniteSet(ChannelIds)
  BY FS_Union, NotifyChannelsAssumption DEF ChannelIds
<1> QED
  BY <1>1, <1>2, FS_Product DEF Deliveries

\* What a pass holds is made of typed parts.
LEMMA TakenParts ==
    ASSUME NEW x \in Taken
    PROVE  /\ x.id \in Deliveries /\ x.row \in DeliveryRows /\ x.channel \in ChannelStates
           /\ x.id[1] \in Nat /\ x.id[2] \in ChannelIds
<1>1. x.id \in Deliveries /\ x.row \in DeliveryRows /\ x.channel \in ChannelStates
  BY DEF Taken
<1> QED
  BY <1>1, DeliveryParts

\* A row that is queued or tried again waits for some number of ticks.
LEMMA BackoffTyped == ASSUME NEW n \in Nat PROVE backoffFor(n) \in Nat
<1>1. Len(retryBackoff) \in Nat \ {0} /\ \A i \in 1 .. Len(retryBackoff) : retryBackoff[i] \in Nat
  BY NotifyBackoffAssumption
<1> QED
  BY <1>1, SMT DEF backoffFor

\* A row that has an attempt left is a row after it.
LEMMA AttemptedTyped ==
    ASSUME NEW row \in DeliveryRows, row.attempts < maxDeliveryAttempts, NEW sent \in BOOLEAN
    PROVE  /\ Attempted(row, sent) \in DeliveryRows
           /\ Attempted(row, sent).attempts = row.attempts + 1
           /\ Attempted(row, sent).status =
                 IF sent THEN "delivered"
                 ELSE IF row.attempts + 1 >= maxDeliveryAttempts THEN "failed" ELSE "pending"
<1> DEFINE n == row.attempts + 1
<1>1. row.attempts \in 0 .. maxDeliveryAttempts /\ row.created \in Nat /\ maxDeliveryAttempts \in Nat
  BY NotifyBoundAssumption DEF DeliveryRows
<1>2. n \in 0 .. maxDeliveryAttempts /\ n \in Nat
  BY <1>1
<1>3. backoffFor(n) \in Nat
  BY <1>2, BackoffTyped
<1>4. (IF sent \/ n >= maxDeliveryAttempts THEN 0 ELSE backoffFor(n)) \in Nat
  BY <1>3
<1> QED
  BY <1>1, <1>2, <1>4 DEF Attempted, DeliveryRows

\* One more attempt, and what it leaves of a fate.
LEMMA TriedTyped ==
    ASSUME NEW f \in Fates, NEW sent \in BOOLEAN
    PROVE  /\ Tried(f, sent) \in Fates
           /\ sent => Tried(f, sent).is = "reached"
           /\ ~sent => Tried(f, sent).is = f.is /\ Tried(f, sent).tries >= f.tries
           /\ ~sent /\ f.is = "owed" =>
                 /\ Tried(f, sent).tries = f.tries + 1 \/ f.tries = maxDeliveryAttempts
                 /\ Tried(f, sent).tries >= 1
  BY NotifyBoundAssumption, SMT DEF Tried, Fate, Fates

\* A fate only moves on: attempts add up, and what has been reached stays so.
Onward(f, g) ==
    \/ g = f
    \/ g.is # "owed" /\ (f.is = "reached" => g.is = "reached")
    \/ f.is = "owed" /\ g.is = "owed" /\ g.tries >= f.tries

\* A row that was sound against an earlier fate is sound against the later one.
LEMMA SoundStays ==
    ASSUME NEW row \in DeliveryRows, NEW f \in Fates, NEW g \in Fates, Onward(f, g), Sound(row, f)
    PROVE  Sound(row, g)
<1>1. maxDeliveryAttempts \in Nat /\ row.attempts \in Nat /\ f.tries \in Nat /\ g.tries \in Nat
      /\ f.tries <= maxDeliveryAttempts /\ g.tries <= maxDeliveryAttempts
  BY NotifyBoundAssumption DEF DeliveryRows, Fates
<1> QED
  BY <1>1 DEF Onward, Sound

\* Excusing, sending once more and sending at last are all moving on.
LEMMA TriedOnward ==
    ASSUME NEW f \in Fates, NEW sent \in BOOLEAN
    PROVE  Onward(f, Tried(f, sent))
  BY NotifyBoundAssumption, SMT DEF Onward, Fates, Tried, Fate

-----------------------------------------------------------------------------
(* What a step leaves alone                                                *)

\* The passes of the other processes.
Others(s) ==
    \A q \in Schedulers \ {s} : step'[q] = step[q] /\ todo'[q] = todo[q] /\ hand'[q] = hand[q]

\* Time goes on: there is no fewer events, and the fates of those there are move on.
Forward ==
    /\ raised' >= raised
    /\ \A d \in Deliveries : d[1] <= raised => Onward(fate[d], fate'[d])

\* A pass that a step does not touch is as well formed after it.
LEMMA PassStands ==
    ASSUME Typed, Typed', Forward, NEW q \in Schedulers, Bounded(q), Copies(q),
           step'[q] = step[q], todo'[q] = todo[q], hand'[q] = hand[q]
    PROVE  Bounded(q)' /\ Copies(q)'
<1>1. Bounded(q)'
  BY DEF Bounded
<1>2. todo[q] \subseteq Taken /\ hand[q] \subseteq Taken /\ raised \in Nat /\ raised' \in Nat
  BY NotifyBoundAssumption DEF Typed
<1>3. ASSUME NEW x \in todo[q] \cup hand[q]
      PROVE  /\ x.id[1] <= raised' /\ Sound(x.row, fate'[x.id])
             /\ Onward(fate[x.id], fate'[x.id])
             /\ fate[x.id] \in Fates /\ fate'[x.id] \in Fates
  <2>1. x \in Taken
    BY <1>2
  <2>2. x.id \in Deliveries /\ x.row \in DeliveryRows /\ x.id[1] \in Nat
    BY <2>1, TakenParts
  <2>3. x.id[1] <= raised /\ Sound(x.row, fate[x.id])
    BY DEF Copies
  <2>4. x.id[1] <= raised'
    BY <1>2, <2>2, <2>3 DEF Forward
  <2>5. Onward(fate[x.id], fate'[x.id])
    BY <2>2, <2>3 DEF Forward
  <2>6. fate[x.id] \in Fates /\ fate'[x.id] \in Fates
    BY <2>2 DEF Typed
  <2> QED
    BY <2>2, <2>3, <2>4, <2>5, <2>6, SoundStays
<1>4. ASSUME step[q] = "queue", NEW x \in hand[q], fate'[x.id].is = "owed"
      PROVE  fate'[x.id].tries >= 1
  <2>1. /\ Onward(fate[x.id], fate'[x.id]) /\ fate[x.id] \in Fates /\ fate'[x.id] \in Fates
    BY <1>3
  <2>2. fate[x.id].is = "owed" => fate[x.id].tries >= 1
    BY <1>4 DEF Copies
  <2>3. fate[x.id].tries \in Nat /\ fate'[x.id].tries \in Nat
    BY <2>1, NotifyBoundAssumption DEF Fates
  <2> QED
    BY <1>4, <2>1, <2>2, <2>3 DEF Onward
<1>5. /\ \A x \in todo[q] \cup hand[q] : x.id[1] <= raised' /\ Sound(x.row, fate'[x.id])
      /\ step[q] = "queue" => \A x \in hand[q] : fate'[x.id].is = "owed" => fate'[x.id].tries >= 1
  BY <1>3, <1>4
<1> QED
  BY <1>1, <1>5 DEF Copies

\* What a pass is about to queue.
LEMMA UnqueuedIs ==
    ASSUME NEW s \in Schedulers, NEW d
    PROVE  d \in Unqueued(s) <=>
             step[s] \in {"dispatch", "queue"} /\ \E x \in todo[s] \cup hand[s] : x.id = d
  BY DEF Unqueued

\* A row that a step of s does not touch stands, if s itself keeps the event.
LEMMA RowStands ==
    ASSUME Typed, Typed', Forward, NEW s \in Schedulers, Others(s), NEW d \in Deliveries, Row(d),
           deliveries'[d] = deliveries[d], Onward(fate[d], fate'[d]),
           fate'[d].is = "owed" /\ d \in Unqueued(s) =>
               d \in Unqueued(s)' \/ deliveries[d].status \in {"pending", "failed"}
    PROVE  Row(d)'
<1>1. raised \in Nat /\ raised' \in Nat /\ d[1] \in Nat /\ deliveries[d] \in DeliveryRows
      /\ fate[d] \in Fates /\ fate'[d] \in Fates
  BY NotifyBoundAssumption, DeliveryParts DEF Typed
<1>3. Sound(deliveries[d], fate'[d])
  BY <1>1, SoundStays DEF Row
<1>4. deliveries[d].status # "none" => d[1] <= raised'
  BY <1>1 DEF Forward, Row
<1>5. ASSUME fate'[d].is = "owed"
      PROVE  Sending(d)' \/ deliveries'[d].status \in {"pending", "failed"}
  <2>1. fate[d].is = "owed"
    BY <1>5 DEF Onward
  <2>2. CASE deliveries[d].status \in {"pending", "failed"}
    BY <2>2
  <2>3. CASE Sending(d)
    <3>1. PICK q \in Schedulers : d \in Unqueued(q)
      BY <2>3 DEF Sending
    <3>2. CASE q = s
      BY <1>5, <3>1, <3>2 DEF Sending
    <3>3. CASE q # s
      <4>1. Unqueued(q)' = Unqueued(q)
        BY <3>3 DEF Others, Unqueued
      <4> QED
        BY <3>1, <4>1 DEF Sending
    <3> QED
      BY <3>2, <3>3
  <2> QED
    BY <2>1, <2>2, <2>3 DEF Row
<1> QED
  BY <1>3, <1>4, <1>5 DEF Row

\* A step of s is right if it is right about its own pass and about every row.
LEMMA StepOf ==
    ASSUME QueueInv, Typed', Forward, NEW s \in Schedulers, Others(s),
           Bounded(s)', Copies(s)', \A d \in Deliveries : Row(d)'
    PROVE  QueueInv'
<1>1. ASSUME NEW q \in Schedulers
      PROVE  Bounded(q)' /\ Copies(q)'
  <2>1. CASE q = s
    BY <2>1
  <2>2. CASE q # s
    <3>1. step'[q] = step[q] /\ todo'[q] = todo[q] /\ hand'[q] = hand[q]
      BY <2>2 DEF Others
    <3> QED
      BY <3>1, PassStands DEF QueueInv, PassesInv
  <2> QED
    BY <2>1, <2>2
<1>2. PassesInv'
  BY <1>1 DEF PassesInv
<1>3. RowsInv'
  BY DEF RowsInv
<1> QED
  BY <1>2, <1>3 DEF QueueInv

\* A pass that has nothing to do and holds nothing.
LEMMA EmptyPass ==
    ASSUME NEW s \in Schedulers, step'[s] \in {"down", "idle", "scan", "prune"},
           todo'[s] = {}, hand'[s] = {}
    PROVE  Bounded(s)' /\ Copies(s)'
<1>1. Bounded(s)'
  BY DEF Bounded
<1>2. Copies(s)'
  BY DEF Copies
<1> QED
  BY <1>1, <1>2

\* What every step may start from.
LEMMA Parts ==
    ASSUME QueueInv, NEW s \in Schedulers
    PROVE  /\ Typed /\ Bounded(s) /\ Copies(s) /\ \A d \in Deliveries : Row(d)
           /\ raised \in Nat /\ MaxEvents \in Nat /\ MaxFailures \in Nat /\ failures \in Nat
  BY NotifyBoundAssumption DEF QueueInv, PassesInv, RowsInv, Typed

\* Nothing happens to the fates.
LEMMA FatesStand ==
    ASSUME Typed, UNCHANGED <<raised, fate>>
    PROVE  Forward /\ \A d \in Deliveries : Onward(fate[d], fate'[d])
<1>1. raised \in Nat
  BY NotifyBoundAssumption DEF Typed
<1> QED
  BY <1>1 DEF Forward, Onward

\* Starting, stopping and the next tick touch neither rows nor fates.
LEMMA QuietStep ==
    ASSUME QueueInv, NEW s \in Schedulers, Start(s) \/ Shutdown(s) \/ Halt(s) \/ RunOnce(s)
    PROVE  QueueInv'
<1>1. /\ Typed /\ Bounded(s) /\ Copies(s) /\ \A d \in Deliveries : Row(d)
      /\ raised \in Nat /\ MaxEvents \in Nat /\ MaxFailures \in Nat /\ failures \in Nat
  BY Parts
<1>2. UNCHANGED <<channels, deliveries, created, raised, request, fate>>
  BY DEF Start, Shutdown, Halt, RunOnce, tables
<1>3. Forward /\ \A d \in Deliveries : Onward(fate[d], fate'[d])
  BY <1>1, <1>2, FatesStand
<1>4. CASE Start(s) \/ Halt(s) \/ RunOnce(s)
  <2>1. /\ step' \in [Schedulers -> {"down", "idle", "scan", "dispatch", "queue", "retry", "settle", "prune"}]
        /\ step[s] \notin {"dispatch", "queue"} /\ step'[s] \in {"down", "idle", "scan", "prune"}
        /\ stopping' \in [Schedulers -> BOOLEAN]
    BY <1>1, <1>4 DEF Start, Halt, RunOnce, Goto, Down, Typed
  <2>2. todo[s] = {} /\ hand[s] = {}
    BY <1>1, <1>4 DEF Bounded, Start, Halt, RunOnce
  <2>3. /\ todo' \in [Schedulers -> SUBSET Taken] /\ hand' \in [Schedulers -> SUBSET Taken]
        /\ todo'[s] = {} /\ hand'[s] = {} /\ Others(s)
    BY <1>1, <1>4, <2>2 DEF Start, Halt, RunOnce, Goto, Down, Keep, Hold, Typed, Others
  <2>4. UNCHANGED failures
    BY <1>4 DEF Start, Halt, RunOnce
  <2>5. Typed'
    BY <1>1, <1>2, <2>1, <2>3, <2>4 DEF Typed
  <2>6. Bounded(s)' /\ Copies(s)'
    BY <2>1, <2>3, EmptyPass
  <2>7. \A d \in Deliveries : d \notin Unqueued(s)
    BY <2>1 DEF Unqueued
  <2>8. \A d \in Deliveries : Row(d)'
    BY <1>1, <1>2, <1>3, <2>3, <2>5, <2>7, RowStands
  <2> QED
    BY <1>3, <2>3, <2>5, <2>6, <2>8, StepOf
<1>5. CASE Shutdown(s)
  <2>1. UNCHANGED <<step, todo, hand>> /\ failures' \in 0 .. MaxFailures
        /\ stopping' \in [Schedulers -> BOOLEAN]
    BY <1>1, <1>5 DEF Shutdown, Trouble, Typed
  <2>2. Typed'
    BY <1>1, <1>2, <2>1 DEF Typed
  <2>3. Others(s)
    BY <2>1 DEF Others
  <2>4. Bounded(s)' /\ Copies(s)'
    BY <1>1, <1>3, <2>1, <2>2, PassStands
  <2>5. Unqueued(s)' = Unqueued(s)
    BY <2>1 DEF Unqueued
  <2>6. \A d \in Deliveries : Row(d)'
    BY <1>1, <1>2, <1>3, <2>2, <2>3, <2>5, RowStands
  <2> QED
    BY <1>3, <2>2, <2>3, <2>4, <2>6, StepOf
<1> QED
  BY <1>4, <1>5

\* To excuse events is to move their fates on; those that were owed are not.
LEMMA ExcuseOnward ==
    ASSUME Typed, NEW D, Excuse(D)
    PROVE  /\ fate' \in [Deliveries -> Fates]
           /\ \A d \in Deliveries : Onward(fate[d], fate'[d])
           /\ \A d \in Deliveries : d \in D => fate'[d].is # "owed"
<1>1. \A d \in Deliveries :
         fate'[d] = IF d \in D /\ fate[d].is = "owed" THEN Fate("excused") ELSE fate[d]
  BY DEF Excuse
<1>2. Fate("excused") \in Fates /\ Fate("excused").is = "excused"
  BY NotifyBoundAssumption, SMT DEF Fate, Fates
<1>3. fate' = [d \in Deliveries |->
                 IF d \in D /\ fate[d].is = "owed" THEN Fate("excused") ELSE fate[d]]
  BY DEF Excuse
<1>4. \A d \in Deliveries : fate[d] \in Fates
  BY DEF Typed
<1>5. fate' \in [Deliveries -> Fates]
  BY <1>2, <1>3, <1>4
<1> QED
  BY <1>1, <1>2, <1>5 DEF Onward

\* Crash: what was about to be queued is excused with it.
LEMMA CrashStep ==
    ASSUME QueueInv, NEW s \in Schedulers, Crash(s)
    PROVE  QueueInv'
<1>1. /\ Typed /\ Bounded(s) /\ Copies(s) /\ \A d \in Deliveries : Row(d)
      /\ raised \in Nat /\ MaxEvents \in Nat /\ MaxFailures \in Nat /\ failures \in Nat
  BY Parts
<1>2. UNCHANGED <<channels, deliveries, created, raised, request>> /\ Excuse(Unqueued(s))
      /\ failures' \in 0 .. MaxFailures
  BY <1>1 DEF Crash, tables, Trouble, Typed
<1>3. /\ step' \in [Schedulers -> {"down", "idle", "scan", "dispatch", "queue", "retry", "settle", "prune"}]
      /\ stopping' \in [Schedulers -> BOOLEAN] /\ step'[s] = "down"
  BY <1>1 DEF Crash, Down, Goto, Typed
<1>4. /\ todo' \in [Schedulers -> SUBSET Taken] /\ hand' \in [Schedulers -> SUBSET Taken]
      /\ todo'[s] = {} /\ hand'[s] = {} /\ Others(s)
  BY <1>1 DEF Crash, Down, Goto, Keep, Hold, Typed, Others
<1>5. PICK D : D = Unqueued(s)
  OBVIOUS
<1>6. /\ fate' \in [Deliveries -> Fates]
      /\ \A d \in Deliveries : Onward(fate[d], fate'[d])
      /\ \A d \in Deliveries : d \in Unqueued(s) => fate'[d].is # "owed"
  BY <1>1, <1>2, <1>5, ExcuseOnward
<1>7. Typed'
  BY <1>1, <1>2, <1>3, <1>4, <1>6 DEF Typed
<1>8. Forward
  BY <1>1, <1>2, <1>6 DEF Forward
<1>9. Bounded(s)' /\ Copies(s)'
  BY <1>3, <1>4, EmptyPass
<1>10. \A d \in Deliveries : Row(d)'
  BY <1>1, <1>2, <1>4, <1>6, <1>7, <1>8, RowStands
<1> QED
  BY <1>4, <1>7, <1>8, <1>9, <1>10, StepOf

-----------------------------------------------------------------------------
(* A dispatch                                                              *)

\* A delivery nothing has been done about.
LEMMA NoDeliveryTyped ==
    /\ NoDelivery \in DeliveryRows /\ NoDelivery.status = "none" /\ NoDelivery.attempts = 0
    /\ \A f \in Fates : Sound(NoDelivery, f)
<1>1. NoDelivery \in DeliveryRows /\ NoDelivery.status = "none" /\ NoDelivery.attempts = 0
  BY NotifyBoundAssumption, SMT DEF NoDelivery, DeliveryRows
<1>2. ASSUME NEW f \in Fates
      PROVE  Sound(NoDelivery, f)
  <2>1. f.tries \in Nat
    BY NotifyBoundAssumption DEF Fates
  <2> QED
    BY <1>1, <2>1 DEF Sound
<1> QED
  BY <1>1, <1>2

\* Dispatch: the new event has neither rows nor copies yet, so that the fates
\* it sets are nobody else's.
LEMMA DispatchStep ==
    ASSUME QueueInv, NEW s \in Schedulers, Dispatch(s)
    PROVE  QueueInv'
<1>1. /\ Typed /\ Bounded(s) /\ Copies(s) /\ \A d \in Deliveries : Row(d)
      /\ raised \in Nat /\ MaxEvents \in Nat /\ MaxFailures \in Nat /\ failures \in Nat
  BY Parts
<1>2. UNCHANGED <<channels, deliveries, created, stopping, hand, request, failures>>
      /\ step[s] = "scan" /\ raised < MaxEvents /\ raised' = raised + 1
  BY DEF Dispatch, tables
<1>3. \A d \in Deliveries : d \notin Unqueued(s)
  BY <1>2 DEF Unqueued
<1>4. PICK n : n = raised + 1
  OBVIOUS
<1>5. PICK enabled : enabled = {c \in ChannelIds : channels[c] = "on"}
  OBVIOUS
<1>6. n \in 1 .. MaxEvents /\ raised' = n /\ raised' \in 0 .. MaxEvents
  BY <1>1, <1>2, <1>4
<1>7. CASE enabled = {}
  <2>1. UNCHANGED <<step, todo, fate>>
    BY <1>5, <1>7 DEF Dispatch
  <2>2. Typed'
    BY <1>1, <1>2, <1>6, <2>1 DEF Typed
  <2>3. Forward /\ Others(s)
    BY <1>1, <1>2, <2>1 DEF Forward, Others, Onward
  <2>4. Bounded(s)' /\ Copies(s)'
    BY <1>1, <1>2, <2>1, <2>2, <2>3, PassStands
  <2>5. \A d \in Deliveries : Onward(fate[d], fate'[d])
    BY <2>1 DEF Onward
  <2>6. \A d \in Deliveries : Row(d)'
    BY <1>1, <1>2, <1>3, <2>2, <2>3, <2>5, RowStands
  <2> QED
    BY <2>2, <2>3, <2>4, <2>6, StepOf
<1>8. CASE enabled # {}
  <2>1. PICK new : new = {[id |-> <<n, c>>, row |-> NoDelivery, channel |-> "on"] : c \in enabled}
    OBVIOUS
  <2>2. /\ todo' = [todo EXCEPT ![s] = new] /\ step' = [step EXCEPT ![s] = "dispatch"]
        /\ fate' = [d \in Deliveries |->
              IF d[1] = n /\ d[2] \in enabled THEN Fate("owed") ELSE fate[d]]
    BY <1>2, <1>4, <1>5, <1>8, <2>1 DEF Dispatch, Keep, Goto
  <2>3. ASSUME NEW c \in enabled
        PROVE  /\ <<n, c>> \in Deliveries
               /\ [id |-> <<n, c>>, row |-> NoDelivery, channel |-> "on"] \in Taken
    <3>1. <<n, c>> \in Deliveries
      BY <1>5, <1>6 DEF Deliveries
    <3> QED
      BY <3>1, NoDeliveryTyped DEF Taken, ChannelStates
  <2>4. new \subseteq Taken /\ new # {}
    BY <1>8, <2>1, <2>3
  <2>5. Fate("owed") \in Fates /\ Fate("owed").tries = 0 /\ Fate("owed").is = "owed"
    BY NotifyBoundAssumption, SMT DEF Fate, Fates
  <2>6. fate' \in [Deliveries -> Fates]
    BY <1>1, <2>2, <2>5 DEF Typed
  <2>7. /\ step' \in [Schedulers -> {"down", "idle", "scan", "dispatch", "queue", "retry", "settle", "prune"}]
        /\ todo' \in [Schedulers -> SUBSET Taken] /\ step'[s] = "dispatch" /\ todo'[s] = new
        /\ Others(s)
    BY <1>1, <1>2, <2>2, <2>4 DEF Typed, Others
  <2>8. Typed'
    BY <1>1, <1>2, <1>6, <2>6, <2>7 DEF Typed
  <2>9. \A d \in Deliveries : d[1] # n \/ d[2] \notin enabled => fate'[d] = fate[d]
    BY <2>2
  <2>10. Forward
    <3>1. \A d \in Deliveries : d[1] <= raised => d[1] # n
      BY <1>1, <1>4, DeliveryParts
    <3> QED
      BY <1>1, <1>2, <2>9, <3>1 DEF Forward, Onward
  <2>11. hand'[s] = {}
    BY <1>1, <1>2 DEF Bounded
  <2>12. ASSUME NEW x \in new
         PROVE  x.id[1] = n /\ x.id \in Deliveries /\ x.row = NoDelivery
    BY <2>1, <2>3
  <2>13. Bounded(s)'
    BY <2>4, <2>7, <2>11 DEF Bounded
  <2>14. Copies(s)'
    <3>1. ASSUME NEW x \in new
          PROVE  x.id[1] <= raised' /\ Sound(x.row, fate'[x.id]) /\ x.row = NoDelivery
      BY <1>6, <2>6, <2>12, NoDeliveryTyped
    <3> QED
      BY <2>7, <2>11, <3>1 DEF Copies
  <2>15. ASSUME NEW d \in Deliveries, d[1] = n, d[2] \in enabled
         PROVE  Row(d)'
    <3>1. deliveries[d].status = "none"
      BY <1>1, <1>4, <2>15, DeliveryParts DEF Row
    <3>2. deliveries[d].attempts = 0
      BY <1>1, <3>1 DEF Row, Sound
    <3>3. fate'[d].is = "owed" /\ fate'[d].tries = 0
      BY <2>2, <2>5, <2>15
    <3>4. Sound(deliveries[d], fate'[d])
      BY <3>1, <3>2, <3>3 DEF Sound
    <3>5. d = <<n, d[2]>>
      BY <2>15 DEF Deliveries
    <3>6. d \in Unqueued(s)'
      <4>1. \E x \in new : x.id = d
        <5>1. [id |-> <<n, d[2]>>, row |-> NoDelivery, channel |-> "on"] \in new
          BY <2>1, <2>15
        <5>2. [id |-> <<n, d[2]>>, row |-> NoDelivery, channel |-> "on"].id = d
          BY <3>5
        <5> QED
          BY <5>1, <5>2
      <4> QED
        BY <2>7, <4>1 DEF Unqueued
    <3>7. Sending(d)'
      BY <3>6 DEF Sending
    <3> QED
      BY <1>2, <3>1, <3>4, <3>7 DEF Row
  <2>16. \A d \in Deliveries : d[1] # n \/ d[2] \notin enabled => Row(d)'
    <3>1. \A d \in Deliveries : d[1] # n \/ d[2] \notin enabled => Onward(fate[d], fate'[d])
      BY <2>9 DEF Onward
    <3> QED
      BY <1>1, <1>2, <1>3, <2>7, <2>8, <2>10, <3>1, RowStands
  <2> QED
    BY <2>7, <2>8, <2>10, <2>13, <2>14, <2>15, <2>16, StepOf
<1> QED
  BY <1>7, <1>8

\* The send of a delivery: channels and fate.
LEMMA DeliverTyped ==
    ASSUME Typed, NEW x \in Taken, NEW sent \in BOOLEAN, Deliver(x.id, sent)
    PROVE  /\ channels' \in [ChannelIds -> ChannelStates] /\ failures' \in 0 .. MaxFailures
           /\ fate' \in [Deliveries -> Fates] /\ fate'[x.id] = Tried(fate[x.id], sent)
           /\ fate[x.id] \in Fates
           /\ \A d \in Deliveries : Onward(fate[d], fate'[d])
           /\ \A d \in Deliveries : d # x.id => fate'[d] = fate[d]
<1>1. PICK id : id = x.id
  OBVIOUS
<1>2. id \in Deliveries
  BY <1>1, TakenParts
<1>3. PICK new : new = Tried(fate[id], sent)
  OBVIOUS
<1>4. fate' = [fate EXCEPT ![id] = new]
  BY <1>1, <1>3 DEF Deliver
<1>5. fate[id] \in Fates /\ fate \in [Deliveries -> Fates]
  BY <1>2 DEF Typed
<1>6. new \in Fates /\ Onward(fate[id], new)
  BY <1>3, <1>5, TriedTyped, TriedOnward
<1>7. fate' \in [Deliveries -> Fates] /\ fate'[id] = new
      /\ \A d \in Deliveries : d # id => fate'[d] = fate[d]
  BY <1>2, <1>4, <1>5, <1>6
<1>8. \A d \in Deliveries : Onward(fate[d], fate'[d])
  BY <1>6, <1>7 DEF Onward
<1>9. failures' \in 0 .. MaxFailures
  BY NotifyBoundAssumption DEF Deliver, Trouble, Typed
<1>10. channels' \in [ChannelIds -> ChannelStates]
  BY DEF Deliver, Typed, ChannelStates
<1> QED
  BY <1>1, <1>3, <1>5, <1>7, <1>8, <1>9, <1>10

\* DispatchDeliver: sent, the event has arrived; else the pass holds it until it
\* is queued, with one attempt made.
LEMMA DispatchDeliverStep ==
    ASSUME QueueInv, NEW s \in Schedulers, DispatchDeliver(s)
    PROVE  QueueInv'
<1>1. /\ Typed /\ Bounded(s) /\ Copies(s) /\ \A d \in Deliveries : Row(d)
      /\ raised \in Nat /\ MaxEvents \in Nat /\ MaxFailures \in Nat /\ failures \in Nat
  BY Parts
<1>2. PICK x \in todo[s], sent \in BOOLEAN :
         /\ Deliver(x.id, sent) /\ Keep(s, todo[s] \ {x})
         /\ IF sent THEN NextChannel(s, todo[s] \ {x}) /\ UNCHANGED hand
                    ELSE Goto(s, "queue") /\ Hold(s, {x})
  BY DEF DispatchDeliver, Outcomes
<1>3. UNCHANGED <<deliveries, created, raised, stopping, request>> /\ step[s] = "dispatch"
  BY DEF DispatchDeliver
<1>4. x \in Taken /\ x.id \in Deliveries
  BY <1>1, TakenParts DEF Typed
<1>5. /\ channels' \in [ChannelIds -> ChannelStates] /\ failures' \in 0 .. MaxFailures
      /\ fate' \in [Deliveries -> Fates] /\ fate'[x.id] = Tried(fate[x.id], sent)
      /\ fate[x.id] \in Fates
      /\ \A d \in Deliveries : Onward(fate[d], fate'[d])
      /\ \A d \in Deliveries : d # x.id => fate'[d] = fate[d]
  BY <1>1, <1>2, <1>4, DeliverTyped
<1>6. PICK rest : rest = todo[s] \ {x}
  OBVIOUS
<1>7. rest \subseteq Taken /\ hand[s] = {}
  BY <1>1, <1>3, <1>6 DEF Typed, Bounded
<1>8. /\ todo' \in [Schedulers -> SUBSET Taken] /\ todo'[s] = rest
      /\ \A q \in Schedulers \ {s} : todo'[q] = todo[q]
  BY <1>1, <1>2, <1>6, <1>7 DEF Keep, Typed
<1>9. /\ step' \in [Schedulers -> {"down", "idle", "scan", "dispatch", "queue", "retry", "settle", "prune"}]
      /\ step'[s] = IF sent THEN (IF rest = {} THEN "scan" ELSE "dispatch") ELSE "queue"
      /\ \A q \in Schedulers \ {s} : step'[q] = step[q]
  BY <1>1, <1>2, <1>6 DEF NextChannel, Goto, Typed
<1>10. /\ hand' \in [Schedulers -> SUBSET Taken] /\ hand'[s] = IF sent THEN {} ELSE {x}
       /\ \A q \in Schedulers \ {s} : hand'[q] = hand[q]
  <2>1. CASE sent
    BY <1>1, <1>2, <1>7, <2>1 DEF Typed
  <2>2. CASE ~sent
    <3>1. PICK one : one = {x}
      OBVIOUS
    <3>2. hand' = [hand EXCEPT ![s] = one] /\ one \subseteq Taken
      BY <1>2, <1>4, <2>2, <3>1 DEF Hold
    <3> QED
      BY <1>1, <2>2, <3>1, <3>2 DEF Typed
  <2> QED
    BY <2>1, <2>2
<1>11. Typed'
  BY <1>1, <1>3, <1>5, <1>8, <1>9, <1>10 DEF Typed
<1>12. Others(s)
  BY <1>8, <1>9, <1>10 DEF Others
<1>13. Forward
  BY <1>1, <1>3, <1>5 DEF Forward
<1>14. Bounded(s)'
  BY <1>8, <1>9, <1>10 DEF Bounded
<1>15. Copies(s)'
  <2>1. ASSUME NEW y \in todo[s]
        PROVE  y.id[1] <= raised' /\ Sound(y.row, fate'[y.id]) /\ y.row = NoDelivery
    <3>1. y.id \in Deliveries
      BY <1>1, TakenParts DEF Typed
    <3>2. y.id[1] <= raised /\ y.row = NoDelivery
      BY <1>1, <1>3 DEF Copies
    <3> QED
      BY <1>3, <1>5, <3>1, <3>2, NoDeliveryTyped
  <2>2. ~sent => (fate'[x.id].is = "owed" => fate'[x.id].tries >= 1)
    BY <1>5, TriedTyped
  <2>3. \A y \in todo'[s] \cup hand'[s] : y \in todo[s]
    BY <1>6, <1>8, <1>10
  <2>4. \A y \in hand'[s] : ~sent /\ y = x
    BY <1>10
  <2>5. step'[s] \notin {"retry", "settle"}
    BY <1>9
  <2> QED
    BY <2>1, <2>2, <2>3, <2>4, <2>5 DEF Copies
<1>16. ASSUME NEW d \in Deliveries
       PROVE  Row(d)'
  <2>1. ASSUME fate'[d].is = "owed", d \in Unqueued(s)
        PROVE  d \in Unqueued(s)'
    <3>1. PICK y \in todo[s] : y.id = d
      BY <1>7, <2>1 DEF Unqueued
    <3>2. CASE y = x
      <4>1. ~sent
        BY <1>5, <2>1, <3>1, <3>2, TriedTyped
      <4> QED
        BY <1>9, <1>10, <3>1, <3>2, <4>1 DEF Unqueued
    <3>3. CASE y # x
      <4>1. y \in rest
        BY <1>6, <3>3
      <4> QED
        BY <1>8, <1>9, <3>1, <4>1 DEF Unqueued
    <3> QED
      BY <3>2, <3>3
  <2> QED
    BY <1>1, <1>3, <1>5, <1>11, <1>12, <1>13, <2>1, RowStands
<1> QED
  BY <1>11, <1>12, <1>13, <1>14, <1>15, <1>16, StepOf

\* queueRetry: the row is written with the attempt it had, or the event is
\* excused.
LEMMA QueueStep ==
    ASSUME QueueInv, NEW s \in Schedulers, queueRetry(s)
    PROVE  QueueInv'
<1>1. /\ Typed /\ Bounded(s) /\ Copies(s) /\ \A d \in Deliveries : Row(d)
      /\ raised \in Nat /\ MaxEvents \in Nat /\ MaxFailures \in Nat /\ failures \in Nat
  BY Parts
<1>2. PICK row : row = Queued
  OBVIOUS
<1>3. PICK x \in hand[s] :
         \/ /\ Insertable(x.id) /\ Write(x.id, row) /\ created' = created + 1
            /\ UNCHANGED <<failures, fate>>
         \/ /\ ~Insertable(x.id) /\ Excuse({x.id})
            /\ UNCHANGED <<deliveries, created, failures>>
         \/ /\ Trouble /\ Excuse({x.id})
            /\ UNCHANGED <<deliveries, created>>
  BY <1>2 DEF queueRetry
<1>4. UNCHANGED <<channels, raised, stopping, todo, request>> /\ step[s] = "queue"
      /\ NextChannel(s, todo[s]) /\ Hold(s, {})
  BY DEF queueRetry
<1>5. x \in Taken /\ x.id \in Deliveries /\ hand[s] = {x}
  BY <1>1, TakenParts DEF Typed, Bounded
<1>6. /\ step' \in [Schedulers -> {"down", "idle", "scan", "dispatch", "queue", "retry", "settle", "prune"}]
      /\ step'[s] = IF todo[s] = {} THEN "scan" ELSE "dispatch"
      /\ hand' \in [Schedulers -> SUBSET Taken] /\ hand'[s] = {} /\ Others(s)
  BY <1>1, <1>4 DEF NextChannel, Goto, Hold, Typed, Others
<1>7. /\ row \in DeliveryRows /\ row.status = "pending" /\ row.attempts = 1
  <2>1. 1 \in 0 .. maxDeliveryAttempts /\ backoffFor(1) \in Nat /\ created + 1 \in Nat
    BY <1>1, BackoffTyped, NotifyBoundAssumption DEF Typed
  <2> QED
    BY <1>2, <2>1 DEF Queued, DeliveryRows
<1>8. /\ failures' \in 0 .. MaxFailures /\ created' \in Nat
      /\ deliveries' \in [Deliveries -> DeliveryRows]
  BY <1>1, <1>3, <1>5, <1>7 DEF Trouble, Write, Typed
<1>9. /\ fate' \in [Deliveries -> Fates] /\ \A d \in Deliveries : Onward(fate[d], fate'[d])
      /\ UNCHANGED fate \/ (UNCHANGED deliveries /\ fate'[x.id].is # "owed")
  <2>1. CASE Excuse({x.id}) /\ UNCHANGED deliveries
    <3>1. PICK D : D = {x.id}
      OBVIOUS
    <3> QED
      BY <1>1, <1>5, <2>1, <3>1, ExcuseOnward
  <2>2. CASE UNCHANGED fate
    BY <1>1, <2>2 DEF Typed, Onward
  <2> QED
    BY <1>3, <2>1, <2>2
<1>10. Typed'
  BY <1>1, <1>4, <1>6, <1>8, <1>9 DEF Typed
<1>11. Forward
  BY <1>1, <1>4, <1>9 DEF Forward
<1>12. Bounded(s)'
  BY <1>1, <1>4, <1>6 DEF Bounded
<1>13. Copies(s)'
  <2>1. ASSUME NEW y \in todo[s]
        PROVE  y.id[1] <= raised' /\ Sound(y.row, fate'[y.id]) /\ y.row = NoDelivery
    <3>1. y.id \in Deliveries
      BY <1>1, TakenParts DEF Typed
    <3>2. y.id[1] <= raised /\ y.row = NoDelivery
      BY <1>1, <1>4 DEF Copies
    <3> QED
      BY <1>4, <1>9, <3>1, <3>2, NoDeliveryTyped
  <2> QED
    BY <1>4, <1>6, <2>1 DEF Copies
<1>14. ASSUME NEW d \in Deliveries, d # x.id \/ UNCHANGED deliveries
       PROVE  Row(d)'
  <2>1. deliveries'[d] = deliveries[d]
    BY <1>1, <1>3, <1>14 DEF Write, Typed
  <2>2. ASSUME fate'[d].is = "owed", d \in Unqueued(s)
        PROVE  d \in Unqueued(s)' \/ deliveries[d].status \in {"pending", "failed"}
    <3>1. PICK y \in todo[s] \cup hand[s] : y.id = d
      BY <2>2 DEF Unqueued
    <3>2. CASE y \in todo[s]
      BY <1>4, <1>6, <3>1, <3>2 DEF Unqueued
    <3>3. CASE d = x.id /\ UNCHANGED deliveries /\ UNCHANGED fate
      <4>1. Insertable(x.id) /\ Write(x.id, row)
        BY <1>3, <1>9, <2>2, <3>3, <1>1, ExcuseOnward
      <4>2. deliveries'[d] = row
        BY <1>1, <1>5, <3>3, <4>1 DEF Write, Typed
      <4> QED
        BY <1>7, <2>1, <4>2
    <3> QED
      BY <1>5, <1>9, <1>14, <2>2, <3>1, <3>2, <3>3
  <2> QED
    BY <1>1, <1>6, <1>9, <1>10, <1>11, <2>1, <2>2, RowStands
<1>15. ASSUME UNCHANGED fate, deliveries' # deliveries
       PROVE  Row(x.id)'
  <2>1. deliveries'[x.id] = row
    BY <1>1, <1>3, <1>5, <1>15 DEF Write, Typed
  <2>2. x.id[1] <= raised'
    BY <1>1, <1>4 DEF Copies
  <2>3. fate'[x.id].is = "owed" => fate'[x.id].tries >= 1
    BY <1>1, <1>4, <1>15 DEF Copies
  <2>4. Sound(row, fate'[x.id])
    BY <1>7, <2>3, NotifyBoundAssumption DEF Sound
  <2> QED
    BY <1>7, <2>1, <2>2, <2>4 DEF Row
<1>16. \A d \in Deliveries : Row(d)'
  BY <1>9, <1>14, <1>15
<1> QED
  BY <1>6, <1>10, <1>11, <1>12, <1>13, <1>16, StepOf

-----------------------------------------------------------------------------
(* The retries                                                             *)

\* A pass takes finitely many rows, and no more of them than there are
\* deliveries it chose.
LEMMA ReadingIsFinite ==
    ASSUME NEW D \in SUBSET Deliveries, NEW rows \in [D -> Taken]
    PROVE  LET taken == {rows[d] : d \in D}
           IN  IsFiniteSet(taken) /\ Cardinality(taken) <= Cardinality(D)
<1> DEFINE taken == {rows[d] : d \in D}
<1>1. IsFiniteSet(D)
  BY DeliveriesFinite, FS_Subset
<1>2. rows \in Surjection(D, taken)
  <2>1. rows \in [D -> taken]
    OBVIOUS
  <2>2. \A t \in taken : \E d \in D : rows[d] = t
    OBVIOUS
  <2> QED
    BY <2>1, <2>2 DEF Surjection
<1> QED
  BY <1>1, <1>2, FS_Surjection

\* RetryRead: the copies are the rows as they are.
LEMMA RetryReadStep ==
    ASSUME QueueInv, NEW s \in Schedulers, RetryRead(s)
    PROVE  QueueInv'
<1>1. /\ Typed /\ Bounded(s) /\ Copies(s) /\ \A d \in Deliveries : Row(d)
      /\ raised \in Nat /\ MaxEvents \in Nat /\ MaxFailures \in Nat /\ failures \in Nat
  BY Parts
<1>2. UNCHANGED <<channels, deliveries, created, raised, stopping, hand, request, fate>>
      /\ step[s] = "scan"
  BY DEF RetryRead, tables
<1>3. PICK D \in SUBSET Due :
         /\ (Oldest(D) /\ UNCHANGED failures) \/ (D = {} /\ Trouble)
         /\ Keep(s, {[id |-> d, row |-> deliveries[d], channel |-> channels[d[2]]] : d \in D})
         /\ NextRow(s, D)
  BY DEF RetryRead
<1>4. D \subseteq Deliveries /\ \A d \in D : deliveries[d].status = "pending"
  BY DEF Due
<1>5. PICK rows : rows = [d \in D |-> [id |-> d, row |-> deliveries[d], channel |-> channels[d[2]]]]
  OBVIOUS
<1>6. PICK taken : taken = {rows[d] : d \in D}
  OBVIOUS
<1>7. taken = {[id |-> d, row |-> deliveries[d], channel |-> channels[d[2]]] : d \in D}
  BY <1>5, <1>6
<1>8. ASSUME NEW d \in D
      PROVE  rows[d] \in Taken
  <2>1. d \in Deliveries /\ deliveries[d] \in DeliveryRows /\ channels[d[2]] \in ChannelStates
    BY <1>1, <1>4, DeliveryParts DEF Typed
  <2> QED
    BY <1>5, <2>1 DEF Taken
<1>9. rows \in [D -> Taken] /\ taken \subseteq Taken
  BY <1>5, <1>6, <1>8
<1>10. IsFiniteSet(taken) /\ Cardinality(taken) <= PassLimit
  <2>1. IsFiniteSet(taken) /\ Cardinality(taken) <= Cardinality(D)
    BY <1>4, <1>6, <1>9, ReadingIsFinite
  <2>2. Cardinality(D) \in Nat /\ Cardinality(taken) \in Nat /\ PassLimit \in Nat
    BY <1>4, <2>1, DeliveriesFinite, FS_Subset, FS_CardinalityType, NotifyBoundAssumption
  <2>3. CASE Oldest(D)
    BY <2>1, <2>2, <2>3 DEF Oldest
  <2>4. CASE D = {}
    <3>1. Cardinality(D) = 0
      BY <2>4, FS_EmptySet
    <3> QED
      BY <2>1, <2>2, <3>1, NotifyBoundAssumption
  <2> QED
    BY <1>3, <2>3, <2>4
<1>11. /\ step' \in [Schedulers -> {"down", "idle", "scan", "dispatch", "queue", "retry", "settle", "prune"}]
       /\ step'[s] = IF D = {} THEN "prune" ELSE "retry"
       /\ todo' \in [Schedulers -> SUBSET Taken] /\ todo'[s] = taken /\ Others(s)
  BY <1>1, <1>2, <1>3, <1>7, <1>9 DEF NextRow, Goto, Keep, Typed, Others
<1>12. failures' \in 0 .. MaxFailures
  BY <1>1, <1>3 DEF Trouble, Typed
<1>13. Typed'
  BY <1>1, <1>2, <1>11, <1>12 DEF Typed
<1>14. Forward /\ \A d \in Deliveries : Onward(fate[d], fate'[d])
  BY <1>1, <1>2, FatesStand
<1>15. hand'[s] = {} /\ (taken = {} <=> D = {})
  BY <1>1, <1>2, <1>6 DEF Bounded
<1>16. Bounded(s)'
  BY <1>10, <1>11, <1>15 DEF Bounded
<1>17. Copies(s)'
  <2>1. ASSUME NEW x \in taken
        PROVE  x.id[1] <= raised' /\ Sound(x.row, fate'[x.id]) /\ x.row.status = "pending"
    <3>1. PICK d \in D : x = rows[d]
      BY <1>6
    <3>2. x.id = d /\ x.row = deliveries[d]
      BY <1>5, <3>1
    <3> QED
      BY <1>1, <1>2, <1>4, <3>2 DEF Row
  <2> QED
    BY <1>11, <1>15, <2>1 DEF Copies
<1>18. \A d \in Deliveries : d \notin Unqueued(s)
  BY <1>2 DEF Unqueued
<1>19. \A d \in Deliveries : Row(d)'
  BY <1>1, <1>2, <1>11, <1>13, <1>14, <1>18, RowStands
<1> QED
  BY <1>11, <1>13, <1>14, <1>16, <1>17, <1>19, StepOf

\* One row less to do.
LEMMA OneLess ==
    ASSUME NEW T, IsFiniteSet(T), Cardinality(T) <= PassLimit, NEW x \in T
    PROVE  IsFiniteSet(T \ {x}) /\ Cardinality(T \ {x}) <= PassLimit
<1>1. IsFiniteSet(T \ {x}) /\ Cardinality(T \ {x}) = Cardinality(T) - 1
  BY FS_RemoveElement
<1>2. Cardinality(T) \in Nat /\ PassLimit \in Nat
  BY FS_CardinalityType, NotifyBoundAssumption
<1> QED
  BY <1>1, <1>2

\* A pending row after one more attempt is as sound against the fate that the
\* attempt leaves.
LEMMA AttemptedSound ==
    ASSUME NEW row \in DeliveryRows, NEW f \in Fates, NEW sent \in BOOLEAN,
           row.status = "pending", Sound(row, f)
    PROVE  /\ Attempted(row, sent) \in DeliveryRows /\ Attempted(row, sent).status # "none"
           /\ Sound(Attempted(row, sent), Tried(f, sent))
<1>1. row.attempts < maxDeliveryAttempts /\ (f.is = "owed" => row.attempts <= f.tries)
  BY DEF Sound
<1>2. /\ row.attempts \in Nat /\ f.tries \in Nat /\ maxDeliveryAttempts \in Nat
      /\ f.tries <= maxDeliveryAttempts
  BY NotifyBoundAssumption DEF DeliveryRows, Fates
<1>3. PICK after : after = Attempted(row, sent)
  OBVIOUS
<1>4. PICK g : g = Tried(f, sent)
  OBVIOUS
<1>5. /\ after \in DeliveryRows /\ after.attempts = row.attempts + 1
      /\ after.status = IF sent THEN "delivered"
                        ELSE IF row.attempts + 1 >= maxDeliveryAttempts THEN "failed" ELSE "pending"
  BY <1>1, <1>3, AttemptedTyped
<1>6. /\ g \in Fates /\ (sent => g.is = "reached") /\ (~sent => g.is = f.is /\ g.tries >= f.tries)
      /\ ~sent /\ f.is = "owed" => g.tries = f.tries + 1 \/ f.tries = maxDeliveryAttempts
  BY <1>4, TriedTyped
<1>7. g.tries \in Nat /\ g.tries <= maxDeliveryAttempts
  BY <1>2, <1>6 DEF Fates
<1>8. Sound(after, g)
  BY <1>1, <1>2, <1>5, <1>6, <1>7 DEF Sound
<1> QED
  BY <1>3, <1>4, <1>5, <1>8

\* RetryDeliver: the attempt is made, and the row with it is in hand.
LEMMA RetryDeliverStep ==
    ASSUME QueueInv, NEW s \in Schedulers, RetryDeliver(s)
    PROVE  QueueInv'
<1>1. /\ Typed /\ Bounded(s) /\ Copies(s) /\ \A d \in Deliveries : Row(d)
      /\ raised \in Nat /\ MaxEvents \in Nat /\ MaxFailures \in Nat /\ failures \in Nat
  BY Parts
<1>2. UNCHANGED <<deliveries, created, raised, stopping, request>> /\ step[s] = "retry"
      /\ Goto(s, "settle")
  BY DEF RetryDeliver
<1>3. PICK x \in todo[s], sent \in BOOLEAN :
         /\ Deliver(x.id, sent) /\ Keep(s, todo[s] \ {x})
         /\ Hold(s, {[x EXCEPT !.row = Attempted(x.row, sent)]})
  BY DEF RetryDeliver, Outcomes
<1>4. x \in Taken /\ x.id \in Deliveries /\ x.row \in DeliveryRows /\ x.channel \in ChannelStates
  BY <1>1, TakenParts DEF Typed
<1>5. /\ channels' \in [ChannelIds -> ChannelStates] /\ failures' \in 0 .. MaxFailures
      /\ fate' \in [Deliveries -> Fates] /\ fate'[x.id] = Tried(fate[x.id], sent)
      /\ fate[x.id] \in Fates
      /\ \A d \in Deliveries : Onward(fate[d], fate'[d])
      /\ \A d \in Deliveries : d # x.id => fate'[d] = fate[d]
  BY <1>1, <1>3, <1>4, DeliverTyped
<1>6. PICK after : after = Attempted(x.row, sent)
  OBVIOUS
<1>7. PICK copy : copy = [x EXCEPT !.row = after]
  OBVIOUS
<1>8. x.row.status = "pending" /\ Sound(x.row, fate[x.id]) /\ x.id[1] <= raised
  BY <1>1, <1>2 DEF Copies
<1>9. after \in DeliveryRows /\ after.status # "none" /\ Sound(after, fate'[x.id])
  BY <1>4, <1>5, <1>6, <1>8, AttemptedSound
<1>10. copy \in Taken /\ copy.id = x.id /\ copy.row = after
  BY <1>4, <1>7, <1>9 DEF Taken
<1>11. PICK one : one = {copy}
  OBVIOUS
<1>12. hand' = [hand EXCEPT ![s] = one] /\ one \subseteq Taken
  BY <1>3, <1>6, <1>7, <1>10, <1>11 DEF Hold
<1>13. hand' \in [Schedulers -> SUBSET Taken] /\ hand'[s] = {copy}
       /\ \A q \in Schedulers \ {s} : hand'[q] = hand[q]
  BY <1>1, <1>11, <1>12 DEF Typed
<1>14. PICK rest : rest = todo[s] \ {x}
  OBVIOUS
<1>15. /\ todo' \in [Schedulers -> SUBSET Taken] /\ todo'[s] = rest
       /\ \A q \in Schedulers \ {s} : todo'[q] = todo[q]
  BY <1>1, <1>3, <1>14 DEF Keep, Typed
<1>16. /\ step' \in [Schedulers -> {"down", "idle", "scan", "dispatch", "queue", "retry", "settle", "prune"}]
       /\ step'[s] = "settle" /\ Others(s)
  BY <1>1, <1>2, <1>13, <1>15 DEF Goto, Typed, Others
<1>17. Typed'
  BY <1>1, <1>2, <1>5, <1>13, <1>15, <1>16 DEF Typed
<1>18. Forward
  BY <1>1, <1>2, <1>5 DEF Forward
<1>19. Bounded(s)'
  <2>1. IsFiniteSet(rest) /\ Cardinality(rest) <= PassLimit
    BY <1>1, <1>2, <1>14, OneLess DEF Bounded
  <2> QED
    BY <1>13, <1>15, <1>16, <2>1 DEF Bounded
<1>20. Copies(s)'
  <2>1. ASSUME NEW y \in rest
        PROVE  y.id[1] <= raised' /\ Sound(y.row, fate'[y.id]) /\ y.row.status = "pending"
    <3>1. y \in todo[s] /\ y.id \in Deliveries /\ y.row \in DeliveryRows
      BY <1>1, <1>14, TakenParts DEF Typed
    <3>2. y.id[1] <= raised /\ Sound(y.row, fate[y.id]) /\ y.row.status = "pending"
      BY <1>1, <1>2, <3>1 DEF Copies
    <3>3. fate[y.id] \in Fates /\ fate'[y.id] \in Fates /\ Onward(fate[y.id], fate'[y.id])
      BY <1>1, <1>5, <3>1 DEF Typed
    <3> QED
      BY <1>2, <3>1, <3>2, <3>3, SoundStays
  <2> QED
    BY <1>2, <1>8, <1>9, <1>10, <1>13, <1>15, <1>16, <2>1 DEF Copies
<1>21. \A d \in Deliveries : d \notin Unqueued(s)
  BY <1>2 DEF Unqueued
<1>22. \A d \in Deliveries : Row(d)'
  BY <1>1, <1>2, <1>5, <1>16, <1>17, <1>18, <1>21, RowStands
<1> QED
  BY <1>16, <1>17, <1>18, <1>19, <1>20, <1>22, StepOf

\* RetrySettle: the table has the copy, or it has what it had.
LEMMA RetrySettleStep ==
    ASSUME QueueInv, NEW s \in Schedulers, RetrySettle(s)
    PROVE  QueueInv'
<1>1. /\ Typed /\ Bounded(s) /\ Copies(s) /\ \A d \in Deliveries : Row(d)
      /\ raised \in Nat /\ MaxEvents \in Nat /\ MaxFailures \in Nat /\ failures \in Nat
  BY Parts
<1>2. UNCHANGED <<channels, created, raised, stopping, todo, request, fate>> /\ step[s] = "settle"
      /\ NextRow(s, todo[s]) /\ Hold(s, {})
  BY DEF RetrySettle
<1>3. PICK x \in hand[s] :
         (Write(x.id, x.row) /\ UNCHANGED failures) \/ (Trouble /\ UNCHANGED deliveries)
  BY DEF RetrySettle
<1>4. x \in Taken /\ x.id \in Deliveries /\ x.row \in DeliveryRows
  BY <1>1, TakenParts DEF Typed
<1>5. /\ step' \in [Schedulers -> {"down", "idle", "scan", "dispatch", "queue", "retry", "settle", "prune"}]
      /\ step'[s] = IF todo[s] = {} THEN "prune" ELSE "retry"
      /\ hand' \in [Schedulers -> SUBSET Taken] /\ hand'[s] = {} /\ Others(s)
  BY <1>1, <1>2 DEF NextRow, Goto, Hold, Typed, Others
<1>6. PICK row : row = x.row
  OBVIOUS
<1>7. /\ deliveries' \in [Deliveries -> DeliveryRows] /\ failures' \in 0 .. MaxFailures
      /\ deliveries' = deliveries \/ deliveries'[x.id] = row
      /\ \A d \in Deliveries : d # x.id => deliveries'[d] = deliveries[d]
  BY <1>1, <1>3, <1>4, <1>6 DEF Write, Trouble, Typed
<1>8. Typed'
  BY <1>1, <1>2, <1>5, <1>7 DEF Typed
<1>9. Forward /\ \A d \in Deliveries : Onward(fate[d], fate'[d])
  BY <1>1, <1>2, FatesStand
<1>10. Bounded(s)'
  BY <1>1, <1>2, <1>5 DEF Bounded
<1>11. Copies(s)'
  BY <1>1, <1>2, <1>5 DEF Copies
<1>12. \A d \in Deliveries : d \notin Unqueued(s)
  BY <1>2 DEF Unqueued
<1>13. \A d \in Deliveries : deliveries'[d] = deliveries[d] => Row(d)'
  BY <1>1, <1>5, <1>8, <1>9, <1>12, RowStands
<1>14. ASSUME deliveries'[x.id] = row
       PROVE  Row(x.id)'
  <2>1. row.status # "none" /\ Sound(row, fate[x.id]) /\ x.id[1] <= raised /\ row \in DeliveryRows
    BY <1>1, <1>2, <1>4, <1>6 DEF Copies
  <2>2. fate[x.id].is = "owed" => row.status \in {"pending", "failed"}
    BY <2>1 DEF Sound, DeliveryRows
  <2> QED
    BY <1>2, <1>14, <2>1, <2>2 DEF Row
<1>15. \A d \in Deliveries : Row(d)'
  BY <1>7, <1>13, <1>14
<1> QED
  BY <1>5, <1>8, <1>9, <1>10, <1>11, <1>15, StepOf

\* RetryClose: the row is given up and the event excused, unless the save fails.
LEMMA RetryCloseStep ==
    ASSUME QueueInv, NEW s \in Schedulers, RetryClose(s)
    PROVE  QueueInv'
<1>1. /\ Typed /\ Bounded(s) /\ Copies(s) /\ \A d \in Deliveries : Row(d)
      /\ raised \in Nat /\ MaxEvents \in Nat /\ MaxFailures \in Nat /\ failures \in Nat
  BY Parts
<1>2. UNCHANGED <<channels, created, raised, stopping, hand, request>> /\ step[s] = "retry"
  BY DEF RetryClose
<1>3. PICK x \in todo[s] :
         /\ \/ Write(x.id, Closed(x.row)) /\ Excuse({x.id}) /\ UNCHANGED failures
            \/ Trouble /\ UNCHANGED <<deliveries, fate>>
         /\ Keep(s, todo[s] \ {x}) /\ NextRow(s, todo[s] \ {x})
  BY DEF RetryClose
<1>4. x \in Taken /\ x.id \in Deliveries /\ x.row \in DeliveryRows
  BY <1>1, TakenParts DEF Typed
<1>5. PICK rest : rest = todo[s] \ {x}
  OBVIOUS
<1>6. /\ step' \in [Schedulers -> {"down", "idle", "scan", "dispatch", "queue", "retry", "settle", "prune"}]
      /\ step'[s] = IF rest = {} THEN "prune" ELSE "retry"
      /\ todo' \in [Schedulers -> SUBSET Taken] /\ todo'[s] = rest /\ Others(s)
  BY <1>1, <1>2, <1>3, <1>5 DEF NextRow, Goto, Keep, Typed, Others
<1>7. PICK row : row = Closed(x.row)
  OBVIOUS
<1>8. row \in DeliveryRows /\ row.status = "failed" /\ row.attempts = x.row.attempts
  BY <1>4, <1>7 DEF Closed, DeliveryRows
<1>9. /\ deliveries' \in [Deliveries -> DeliveryRows] /\ failures' \in 0 .. MaxFailures
      /\ \A d \in Deliveries : d # x.id => deliveries'[d] = deliveries[d]
  BY <1>1, <1>3, <1>4, <1>7, <1>8 DEF Write, Trouble, Typed
<1>10. /\ fate' \in [Deliveries -> Fates] /\ \A d \in Deliveries : Onward(fate[d], fate'[d])
       /\ UNCHANGED <<deliveries, fate>> \/ (Write(x.id, row) /\ fate'[x.id].is # "owed")
  <2>1. CASE Excuse({x.id}) /\ Write(x.id, row)
    <3>1. PICK D : D = {x.id}
      OBVIOUS
    <3> QED
      BY <1>1, <1>4, <2>1, <3>1, ExcuseOnward
  <2>2. CASE UNCHANGED <<deliveries, fate>>
    BY <1>1, <2>2 DEF Typed, Onward
  <2> QED
    BY <1>3, <1>7, <2>1, <2>2
<1>11. Typed'
  BY <1>1, <1>2, <1>6, <1>9, <1>10 DEF Typed
<1>12. Forward
  BY <1>1, <1>2, <1>10 DEF Forward
<1>13. hand[s] = {}
  BY <1>1, <1>2 DEF Bounded
<1>14. Bounded(s)'
  <2>1. IsFiniteSet(rest) /\ Cardinality(rest) <= PassLimit
    BY <1>1, <1>2, <1>5, OneLess DEF Bounded
  <2> QED
    BY <1>2, <1>6, <1>13, <2>1 DEF Bounded
<1>15. Copies(s)'
  <2>1. ASSUME NEW y \in rest
        PROVE  y.id[1] <= raised' /\ Sound(y.row, fate'[y.id]) /\ y.row.status = "pending"
    <3>1. y \in todo[s] /\ y.id \in Deliveries /\ y.row \in DeliveryRows
      BY <1>1, <1>5, TakenParts DEF Typed
    <3>2. y.id[1] <= raised /\ Sound(y.row, fate[y.id]) /\ y.row.status = "pending"
      BY <1>1, <1>2, <3>1 DEF Copies
    <3>3. fate[y.id] \in Fates /\ fate'[y.id] \in Fates /\ Onward(fate[y.id], fate'[y.id])
      BY <1>1, <1>10, <3>1 DEF Typed
    <3> QED
      BY <1>2, <3>1, <3>2, <3>3, SoundStays
  <2> QED
    BY <1>2, <1>6, <1>13, <2>1 DEF Copies
<1>16. \A d \in Deliveries : d \notin Unqueued(s)
  BY <1>2 DEF Unqueued
<1>17. \A d \in Deliveries : deliveries'[d] = deliveries[d] => Row(d)'
  BY <1>1, <1>6, <1>10, <1>11, <1>12, <1>16, RowStands
<1>18. ASSUME deliveries'[x.id] # deliveries[x.id]
       PROVE  Row(x.id)'
  <2>1. Write(x.id, row) /\ fate'[x.id].is # "owed"
    BY <1>10, <1>18
  <2>2. deliveries'[x.id] = row
    BY <1>1, <1>4, <1>18, <2>1 DEF Write, Typed
  <2>3. x.id[1] <= raised'
    BY <1>1, <1>2 DEF Copies
  <2>4. Sound(row, fate'[x.id])
    BY <1>8, <2>1 DEF Sound
  <2> QED
    BY <2>1, <2>2, <2>3, <2>4 DEF Row
<1>19. \A d \in Deliveries : Row(d)'
  BY <1>9, <1>17, <1>18
<1> QED
  BY <1>6, <1>11, <1>12, <1>14, <1>15, <1>19, StepOf

\* Prune: what goes had reached its receiver.
LEMMA PruneStep ==
    ASSUME QueueInv, NEW s \in Schedulers, Prune(s)
    PROVE  QueueInv'
<1>1. /\ Typed /\ Bounded(s) /\ Copies(s) /\ \A d \in Deliveries : Row(d)
      /\ raised \in Nat /\ MaxEvents \in Nat /\ MaxFailures \in Nat /\ failures \in Nat
  BY Parts
<1>2. UNCHANGED <<channels, created, raised, stopping, todo, hand, request, failures, fate>>
      /\ step[s] = "prune" /\ Goto(s, "idle")
  BY DEF Prune
<1>3. PICK old \in SUBSET {d \in Deliveries : deliveries[d].status = "delivered"} :
         deliveries' = [d \in Deliveries |-> IF d \in old THEN NoDelivery ELSE deliveries[d]]
  BY DEF Prune
<1>4. /\ step' \in [Schedulers -> {"down", "idle", "scan", "dispatch", "queue", "retry", "settle", "prune"}]
      /\ step'[s] = "idle" /\ Others(s)
  BY <1>1, <1>2 DEF Goto, Typed, Others
<1>5. deliveries' \in [Deliveries -> DeliveryRows]
  BY <1>1, <1>3, NoDeliveryTyped DEF Typed
<1>6. Typed'
  BY <1>1, <1>2, <1>4, <1>5 DEF Typed
<1>7. Forward /\ \A d \in Deliveries : Onward(fate[d], fate'[d])
  BY <1>1, <1>2, FatesStand
<1>8. todo'[s] = {} /\ hand'[s] = {}
  BY <1>1, <1>2 DEF Bounded
<1>9. Bounded(s)' /\ Copies(s)'
  BY <1>4, <1>8, EmptyPass
<1>10. \A d \in Deliveries : d \notin Unqueued(s)
  BY <1>2 DEF Unqueued
<1>11. ASSUME NEW d \in Deliveries
       PROVE  Row(d)'
  <2>1. CASE d \in old
    <3>1. deliveries'[d] = NoDelivery /\ deliveries[d].status = "delivered"
      BY <1>3, <2>1
    <3>2. fate'[d] = fate[d] /\ fate[d].is = "reached" /\ fate[d] \in Fates
      BY <1>1, <1>2, <3>1 DEF Row, Sound, Typed
    <3> QED
      BY <3>1, <3>2, NoDeliveryTyped DEF Row
  <2>2. CASE d \notin old
    <3>1. deliveries'[d] = deliveries[d]
      BY <1>3, <2>2
    <3> QED
      BY <1>1, <1>4, <1>6, <1>7, <1>10, <3>1, RowStands
  <2> QED
    BY <2>1, <2>2
<1> QED
  BY <1>4, <1>6, <1>7, <1>9, <1>11, StepOf

-----------------------------------------------------------------------------
(* The clock and the API                                                   *)

\* No pass, no fate and no column of a row that Row looks at changes.
LEMMA AsideStep ==
    ASSUME QueueInv, Typed', UNCHANGED <<raised, step, todo, hand, fate>>,
           \A d \in Deliveries : deliveries'[d].status = deliveries[d].status
                                 /\ deliveries'[d].attempts = deliveries[d].attempts
    PROVE  QueueInv'
<1>1. Typed /\ PassesInv /\ RowsInv
  BY DEF QueueInv
<1>2. Forward
  BY <1>1, FatesStand
<1>3. ASSUME NEW q \in Schedulers
      PROVE  Bounded(q)' /\ Copies(q)'
  BY <1>1, <1>2, PassStands DEF PassesInv
<1>4. ASSUME NEW d \in Deliveries
      PROVE  Row(d)'
  <2>1. Sending(d)' = Sending(d)
    BY DEF Sending, Unqueued
  <2> QED
    BY <1>1, <2>1 DEF RowsInv, Row, Sound
<1>5. PassesInv' /\ RowsInv'
  BY <1>3, <1>4 DEF PassesInv, RowsInv
<1> QED
  BY <1>5 DEF QueueInv

\* Tick: only the waits run down.
LEMMA TickStep == ASSUME QueueInv, Tick PROVE QueueInv'
<1>1. Typed
  BY DEF QueueInv
<1>2. UNCHANGED <<channels, created, raised, step, stopping, todo, hand, request, failures, fate>>
      /\ deliveries' = [d \in Deliveries |->
            [deliveries[d] EXCEPT !.wait = IF @ > 0 THEN @ - 1 ELSE 0]]
  BY DEF Tick, pass
<1>3. ASSUME NEW d \in Deliveries
      PROVE  /\ deliveries'[d] \in DeliveryRows /\ deliveries'[d].status = deliveries[d].status
             /\ deliveries'[d].attempts = deliveries[d].attempts
  <2>1. PICK row \in DeliveryRows : row = deliveries[d]
    BY <1>1 DEF Typed
  <2>2. PICK w \in Nat : w = IF row.wait > 0 THEN row.wait - 1 ELSE 0
    <3>1. row.wait \in Nat
      BY DEF DeliveryRows
    <3> QED
      BY <3>1
  <2>3. deliveries'[d] = [row EXCEPT !.wait = w]
    BY <1>2, <2>1, <2>2
  <2> QED
    BY <2>1, <2>3 DEF DeliveryRows
<1>4. deliveries' \in [Deliveries -> DeliveryRows]
  BY <1>2, <1>3
<1>5. Typed'
  BY <1>1, <1>2, <1>4 DEF Typed
<1> QED
  BY <1>2, <1>3, <1>5, AsideStep

\* The calls of the API only write channels.
LEMMA RequestStep ==
    ASSUME QueueInv, NEW r \in Requests,
           CreateNotification(r) \/ RequestRead(r) \/ SaveNotification(r) \/ DeleteNotification(r)
    PROVE  QueueInv'
<1>1. Typed
  BY DEF QueueInv
<1>2. UNCHANGED <<deliveries, created, raised, step, stopping, todo, hand, failures, fate>>
  BY DEF CreateNotification, RequestRead, SaveNotification, DeleteNotification, pass, tables
<1>3. r \in ChannelIds /\ request[r] \in Asked
  BY <1>1 DEF ChannelIds, Typed
<1>4. channels' \in [ChannelIds -> ChannelStates]
  <2>1. request[r].channel \in ChannelIds /\ request[r].state \in ChannelStates
    BY <1>3 DEF Asked
  <2>2. CASE CreateNotification(r)
    BY <1>1, <1>3, <2>2 DEF CreateNotification, Typed, ChannelStates
  <2>3. CASE RequestRead(r)
    BY <1>1, <2>3 DEF RequestRead, tables, Typed
  <2>4. CASE SaveNotification(r)
    BY <1>1, <2>1, <2>4 DEF SaveNotification, Typed
  <2>5. CASE DeleteNotification(r)
    BY <1>1, <2>1, <2>5 DEF DeleteNotification, Typed, ChannelStates
  <2> QED
    BY <2>2, <2>3, <2>4, <2>5
<1>5. request' \in [Requests -> Asked]
  <2>1. CASE RequestRead(r)
    <3>1. PICK l \in {"save", "test", "delete"}, c \in ChannelIds, state \in ChannelStates :
             Set(r, l, c, state)
      BY <1>1, <2>1 DEF RequestRead, Kept, Typed, ChannelStates
    <3>2. [step |-> l, channel |-> c, state |-> state] \in Asked
      BY DEF Asked
    <3> QED
      BY <1>1, <3>1, <3>2 DEF Set, Typed
  <2>2. CASE Answer(r)
    <3>1. PICK a \in Asked : a = [request[r] EXCEPT !.step = "done"]
      BY <1>3 DEF Asked
    <3>2. request' = [request EXCEPT ![r] = a]
      BY <1>1, <2>2, <3>1 DEF Answer, Typed
    <3> QED
      BY <1>1, <3>2 DEF Typed
  <2> QED
    BY <2>1, <2>2 DEF CreateNotification, SaveNotification, DeleteNotification
<1>6. Typed'
  BY <1>1, <1>2, <1>4, <1>5 DEF Typed
<1> QED
  BY <1>2, <1>6, AsideStep

-----------------------------------------------------------------------------
(* The theorems                                                            *)

\* The books are right at the start.
LEMMA InitQueue == ASSUME Init PROVE QueueInv
<1>1. Fate("none") \in Fates /\ Fate("none").is = "none" /\ Fate("none").tries = 0
  BY NotifyBoundAssumption, SMT DEF Fate, Fates
<1>2. ASSUME NEW r \in Requests
      PROVE  [step |-> "idle", channel |-> r, state |-> "none"] \in Asked
  BY DEF Asked, ChannelIds, ChannelStates
<1>3. Typed
  <2>1. channels \in [ChannelIds -> ChannelStates]
    BY DEF Init, ChannelStates
  <2>2. deliveries \in [Deliveries -> DeliveryRows]
    BY NoDeliveryTyped DEF Init
  <2>3. raised \in 0 .. MaxEvents /\ failures \in 0 .. MaxFailures /\ created \in Nat
    BY NotifyBoundAssumption DEF Init
  <2>4. /\ step \in [Schedulers -> {"down", "idle", "scan", "dispatch", "queue", "retry", "settle", "prune"}]
        /\ stopping \in [Schedulers -> BOOLEAN]
        /\ todo \in [Schedulers -> SUBSET Taken] /\ hand \in [Schedulers -> SUBSET Taken]
    BY DEF Init
  <2>5. request \in [Requests -> Asked]
    BY <1>2 DEF Init
  <2>6. fate \in [Deliveries -> Fates]
    BY <1>1 DEF Init
  <2> QED
    BY <2>1, <2>2, <2>3, <2>4, <2>5, <2>6 DEF Typed
<1>4. PassesInv
  BY DEF Init, PassesInv, Bounded, Copies
<1>5. RowsInv
  <2>1. ASSUME NEW d \in Deliveries
        PROVE  Row(d)
    <3>1. deliveries[d] = NoDelivery /\ fate[d] = Fate("none")
      BY DEF Init
    <3> QED
      BY <1>1, <3>1, NoDeliveryTyped DEF Row
  <2> QED
    BY <2>1 DEF RowsInv
<1> QED
  BY <1>3, <1>4, <1>5 DEF QueueInv

\* And every step leaves them right.
LEMMA NextQueue == ASSUME QueueInv, [Next]_vars PROVE QueueInv'
<1>1. ASSUME NEW s \in Schedulers, Work(s) \/ Shutdown(s) \/ Crash(s)
      PROVE  QueueInv'
  BY <1>1, QuietStep, CrashStep, DispatchStep, DispatchDeliverStep, QueueStep, RetryReadStep,
     RetryDeliverStep, RetrySettleStep, RetryCloseStep, PruneStep DEF Work
<1>2. CASE UNCHANGED vars
  <2>1. UNCHANGED <<channels, deliveries, created, raised, step, stopping, todo, hand, request,
                    failures, fate>>
    BY <1>2 DEF vars, tables, pass
  <2>2. Typed'
    BY <2>1 DEF QueueInv, Typed
  <2> QED
    BY <2>1, <2>2, AsideStep
<1> QED
  BY <1>1, <1>2, TickStep, RequestStep DEF Next

\* The inductive invariant holds of every behaviour.
LEMMA QueueAlways == Spec => []QueueInv
  BY InitQueue, NextQueue, PTL DEF Spec

\* Type correctness of service/notification.go's queue and the passes over it:
\* a pass never holds more rows than RetryDeliveries asked for, and an attempt
\* is only ever counted up to maxDeliveryAttempts, whichever replica's copy of
\* the row is saved last.
THEOREM NotifyTypeCorrect == Spec => []TypeOK
<1>1. QueueInv => TypeOK
  BY DEF QueueInv, PassesInv, Typed, Bounded, TypeOK
<1> QED
  BY <1>1, QueueAlways, PTL

\* An event for which Dispatch found a channel is not forgotten: it has been
\* received, is being sent, waits in the queue, or was given up after all its
\* attempts or because the channel was off (service/notification.go:160-293);
\* and only what a receiver accepted is called delivered.
THEOREM NothingForgotten == Spec => []Accounted
<1>1. QueueInv => Accounted
  <2>1. ASSUME QueueInv, NEW d \in Deliveries
        PROVE  /\ fate[d].is = "owed" =>
                    \/ Sending(d)
                    \/ deliveries[d].status = "pending"
                    \/ deliveries[d].status = "failed" /\ fate[d].tries = maxDeliveryAttempts
               /\ deliveries[d].status = "delivered" => fate[d].is = "reached"
    BY <2>1 DEF QueueInv, RowsInv, Row, Sound
  <2> QED
    BY <2>1 DEF Accounted
<1> QED
  BY <1>1, QueueAlways, PTL
=============================================================================
