------------------------------- MODULE Notify -------------------------------
(***************************************************************************)
(* Notification channels and the queue of failed deliveries                *)
(* (service/notification.go, notify/notify.go, store/repo_auth.go), driven *)
(* by the passes of the scheduler (schedule/scheduler.go): each pass       *)
(* announces what expires, tries again what could not be delivered, and    *)
(* prunes.  Several replicas, or `certio scan` beside one, run passes over *)
(* the same tables; each may be shut down or die in the middle.            *)
(*                                                                         *)
(* One action is one statement of the database with the send before it.    *)
(* Every channel subscribes to every event; the history of jobs, the text  *)
(* of messages and the sealed settings are left out.                       *)
(***************************************************************************)
EXTENDS Naturals, Sequences, FiniteSets

CONSTANTS
    Schedulers,           \* the processes that run passes
    Requests,             \* the API calls on channels, each made at most once
    FirstChannels,        \* the channels at the start, all enabled
    MaxEvents,            \* bound: how many events are announced
    maxDeliveryAttempts,
    retryBackoff,         \* ticks of the clock before each further attempt
    PassLimit,            \* how many due deliveries one pass takes
    MaxFailures           \* bound: how often a process stops or a statement fails

ASSUME NotifyChannelsAssumption ==
    IsFiniteSet(FirstChannels) /\ IsFiniteSet(Requests) /\ FirstChannels \cap Requests = {}
ASSUME NotifyBoundAssumption ==
    /\ MaxEvents \in Nat /\ MaxFailures \in Nat
    /\ maxDeliveryAttempts \in Nat \ {0, 1} /\ PassLimit \in Nat \ {0}
ASSUME NotifyBackoffAssumption == retryBackoff \in Seq(Nat) /\ retryBackoff # <<>>

ChannelIds == FirstChannels \cup Requests  \* a channel is known by the request that made it
Deliveries == (1 .. MaxEvents) \X ChannelIds

ChannelStates == {"none", "off", "on"}

\* created: how many rows there had been when it was queued, for created_at;
\* wait: the ticks until next_attempt_at.
DeliveryRows ==
    [status : {"none", "pending", "delivered", "failed"}, attempts : 0 .. maxDeliveryAttempts,
     wait : Nat, created : Nat]
NoDelivery == [status |-> "none", attempts |-> 0, wait |-> 0, created |-> 0]

\* What a pass has in memory: a delivery, its row (NoDelivery in a dispatch) and
\* its channel as they were read.
Taken == [id : Deliveries, row : DeliveryRows, channel : ChannelStates]

VARIABLES
    channels,    \* the notifications table
    deliveries,  \* the deliveries table
    created,     \* how many rows that table has ever had
    raised,      \* how many events there have been
    step,        \* what each scheduler does next
    stopping,    \* whether it has been told to stop
    todo,        \* what it still has to send in this loop
    hand,        \* what it has sent and has to save, if anything
    request,     \* what each API call does next, with the channel and state it read
    failures,    \* history, bounded by MaxFailures
    fate         \* history: what has become of the event for the channel, see Fates

tables == <<channels, deliveries, created>>
pass   == <<step, stopping, todo, hand>>
vars   == <<tables, raised, pass, request, failures, fate>>

\* none: no dispatch found the channel.  owed: the attempts made so far, all in
\* vain.  reached: a receiver accepted it.  excused: the channel was found off
\* or gone, or the process died before it queued the event.
Fates == [is : {"none", "owed", "reached", "excused"}, tries : 0 .. maxDeliveryAttempts]
Fate(is) == [is |-> is, tries |-> 0]

Asked == [step : {"idle", "save", "delete", "test", "done"}, channel : ChannelIds, state : ChannelStates]

\* A pass never holds more than it may take.
TypeOK ==
    /\ channels \in [ChannelIds -> ChannelStates]
    /\ deliveries \in [Deliveries -> DeliveryRows]
    /\ raised \in 0 .. MaxEvents /\ failures \in 0 .. MaxFailures /\ created \in Nat
    /\ step \in [Schedulers ->
          {"down", "idle", "scan", "dispatch", "queue", "retry", "settle", "prune"}]
    /\ stopping \in [Schedulers -> BOOLEAN]
    /\ todo \in [Schedulers -> SUBSET Taken] /\ hand \in [Schedulers -> SUBSET Taken]
    /\ \A s \in Schedulers :
          /\ step[s] \in {"dispatch", "retry"} => todo[s] # {}
          /\ step[s] \in {"queue", "settle"} <=> hand[s] # {}
          /\ step[s] \in {"retry", "settle"} => Cardinality(todo[s]) <= PassLimit
    /\ request \in [Requests -> Asked]
    /\ fate \in [Deliveries -> Fates]

Init ==
    /\ channels = [c \in ChannelIds |-> IF c \in FirstChannels THEN "on" ELSE "none"]
    /\ deliveries = [d \in Deliveries |-> NoDelivery] /\ created = 0
    /\ raised = 0 /\ failures = 0
    /\ step = [s \in Schedulers |-> "down"] /\ stopping = [s \in Schedulers |-> FALSE]
    /\ todo = [s \in Schedulers |-> {}] /\ hand = [s \in Schedulers |-> {}]
    /\ request = [r \in Requests |-> [step |-> "idle", channel |-> r, state |-> "none"]]
    /\ fate = [d \in Deliveries |-> Fate("none")]

-----------------------------------------------------------------------------
(* Sending                                                                 *)

Goto(s, label) == step' = [step EXCEPT ![s] = label]
Keep(s, rest)  == todo' = [todo EXCEPT ![s] = rest]
Hold(s, copy)  == hand' = [hand EXCEPT ![s] = copy]

\* A statement fails, or the process does.
Trouble == failures < MaxFailures /\ failures' = failures + 1

\* backoffFor holds at the longest interval once the table runs out.
backoffFor(attempts) ==
    LET last == Len(retryBackoff)
    IN  retryBackoff[IF attempts < 1 THEN 1 ELSE IF attempts > last THEN last ELSE attempts]

\* Every transport ends in an answer or an error; with its context cancelled
\* only in an error.
Outcomes(cancelled) == IF cancelled THEN {FALSE} ELSE BOOLEAN

\* What one more attempt makes of a fate.
Tried(f, sent) ==
    IF sent THEN Fate("reached")
    ELSE IF f.is = "owed" /\ f.tries < maxDeliveryAttempts THEN [f EXCEPT !.tries = @ + 1] ELSE f

\* deliver and recordDelivery: whoever is sent to was enabled when its row was
\* read, and that row is saved whole, inserted if it is gone; an error of that
\* save is logged.
Deliver(d, sent) ==
    /\ \/ channels' = [channels EXCEPT ![d[2]] = "on"] /\ UNCHANGED failures
       \/ Trouble /\ UNCHANGED channels
    /\ fate' = [fate EXCEPT ![d] = Tried(@, sent)]

Excuse(D) ==
    fate' = [d \in Deliveries |-> IF d \in D /\ fate[d].is = "owed" THEN Fate("excused") ELSE fate[d]]

\* A row that is inserted needs its channel: the foreign key refuses it else.
Insertable(d) == deliveries[d].status # "none" \/ channels[d[2]] # "none"
Write(d, row) ==
    deliveries' = IF Insertable(d) THEN [deliveries EXCEPT ![d] = row] ELSE deliveries

-----------------------------------------------------------------------------
(* The scheduler                                                           *)

\* Start: the loop makes a pass at once.
Start(s) ==
    /\ step[s] = "down"
    /\ Goto(s, "scan")
    /\ UNCHANGED <<tables, raised, stopping, todo, hand, request, failures, fate>>

\* The signal cancels the context of the loop; a pass under way is waited for.
\* (A ticker that is due as well may start one more pass: it is the one whose
\* shutdown comes right after its start.)
Shutdown(s) ==
    /\ step[s] # "down" /\ ~stopping[s] /\ Trouble
    /\ stopping' = [stopping EXCEPT ![s] = TRUE]
    /\ UNCHANGED <<tables, raised, step, todo, hand, request, fate>>

Down(s) ==
    /\ Goto(s, "down") /\ Keep(s, {}) /\ Hold(s, {})
    /\ stopping' = [stopping EXCEPT ![s] = FALSE]

Halt(s) ==
    /\ step[s] = "idle" /\ stopping[s]
    /\ Down(s)
    /\ UNCHANGED <<tables, raised, request, failures, fate>>

\* What a process was about to queue dies with it.
Unqueued(s) ==
    IF step[s] \in {"dispatch", "queue"} THEN {x.id : x \in todo[s] \cup hand[s]} ELSE {}

Crash(s) ==
    /\ step[s] # "down" /\ Trouble
    /\ Down(s) /\ Excuse(Unqueued(s))
    /\ UNCHANGED <<tables, raised, request>>

RunOnce(s) ==
    /\ step[s] = "idle" /\ ~stopping[s]
    /\ Goto(s, "scan")
    /\ UNCHANGED <<tables, raised, stopping, todo, hand, request, failures, fate>>

\* expiryScan and autoRenew: one Dispatch for each thing they have to tell,
\* again on every pass, to the channels that are enabled.
Dispatch(s) ==
    /\ step[s] = "scan" /\ ~stopping[s] /\ raised < MaxEvents
    /\ raised' = raised + 1
    /\ LET enabled == {c \in ChannelIds : channels[c] = "on"} IN
       IF enabled = {} THEN UNCHANGED <<step, todo, fate>>
       ELSE /\ Keep(s, {[id |-> <<raised', c>>, row |-> NoDelivery, channel |-> "on"] : c \in enabled})
            /\ Goto(s, "dispatch")
            /\ fate' = [d \in Deliveries |->
                  IF d[1] = raised' /\ d[2] \in enabled THEN Fate("owed") ELSE fate[d]]
    /\ UNCHANGED <<tables, stopping, hand, request, failures>>

NextChannel(s, rest) == Goto(s, IF rest = {} THEN "scan" ELSE "dispatch")

\* Dispatch sends under a context of its own.
DispatchDeliver(s) ==
    /\ step[s] = "dispatch"
    /\ \E x \in todo[s], sent \in Outcomes(FALSE) :
          /\ Deliver(x.id, sent)
          /\ Keep(s, todo[s] \ {x})
          /\ IF sent THEN NextChannel(s, todo[s] \ {x}) /\ UNCHANGED hand
                     ELSE Goto(s, "queue") /\ Hold(s, {x})
    /\ UNCHANGED <<deliveries, created, raised, stopping, request>>

\* A delivery to a channel that was deleted meanwhile is refused by its foreign
\* key and only logged.
Queued == [status |-> "pending", attempts |-> 1, wait |-> backoffFor(1), created |-> created + 1]
queueRetry(s) ==
    /\ step[s] = "queue"
    /\ \E x \in hand[s] :
       \/ /\ Insertable(x.id) /\ Write(x.id, Queued) /\ created' = created + 1
          /\ UNCHANGED <<failures, fate>>
       \/ /\ ~Insertable(x.id) /\ Excuse({x.id})
          /\ UNCHANGED <<deliveries, created, failures>>
       \/ /\ Trouble /\ Excuse({x.id})
          /\ UNCHANGED <<deliveries, created>>
    /\ NextChannel(s, todo[s]) /\ Hold(s, {})
    /\ UNCHANGED <<channels, raised, stopping, todo, request>>

Due == {d \in Deliveries : deliveries[d].status = "pending" /\ deliveries[d].wait = 0}

\* "oldest first so a backlog drains in the order it accumulated".
Oldest(D) ==
    /\ \A d \in D, e \in Due \ D : deliveries[d].created <= deliveries[e].created
    /\ Cardinality(D) <= PassLimit
    /\ Cardinality(D) = PassLimit \/ D = Due

NextRow(s, rest) == Goto(s, IF rest = {} THEN "prune" ELSE "retry")

\* RetryDeliveries: Due preloads the channel of every row.  A query that fails
\* ends the job, and the pass goes on with the next one.
RetryRead(s) ==
    /\ step[s] = "scan"
    /\ \E D \in SUBSET Due :
          /\ \/ Oldest(D) /\ UNCHANGED failures
             \/ D = {} /\ Trouble
          /\ Keep(s, {[id |-> d, row |-> deliveries[d], channel |-> channels[d[2]]] : d \in D})
          /\ NextRow(s, D)
    /\ UNCHANGED <<tables, raised, stopping, hand, request, fate>>

Attempted_TooFew(row, sent) ==
    LET n == row.attempts + 1 IN
    [attempts |-> n, created |-> row.created,
     status   |-> IF sent THEN "delivered" ELSE IF n >= maxDeliveryAttempts - 1 THEN "failed" ELSE "pending",
     wait     |-> IF sent \/ n >= maxDeliveryAttempts - 1 THEN 0 ELSE backoffFor(n)]
Attempted_Unbounded(row, sent) ==
    LET n == row.attempts + 1 IN
    [attempts |-> n, created |-> row.created, status |-> IF sent THEN "delivered" ELSE "pending",
     wait |-> IF sent THEN 0 ELSE backoffFor(n)]
Attempted_Uncounted(row, sent) ==
    [attempts |-> row.attempts, created |-> row.created, status |-> IF sent THEN "delivered" ELSE "pending",
     wait |-> IF sent THEN 0 ELSE backoffFor(row.attempts)]
\* The row after one more attempt.
Attempted(row, sent) ==
    LET n == row.attempts + 1 IN
    [attempts |-> n, created |-> row.created,
     status   |-> IF sent THEN "delivered" ELSE IF n >= maxDeliveryAttempts THEN "failed" ELSE "pending",
     wait     |-> IF sent \/ n >= maxDeliveryAttempts THEN 0 ELSE backoffFor(n)]

\* The loop does not look at its context: after a shutdown every row that is
\* left is charged an attempt that fails at once.
RetryDeliver(s) ==
    /\ step[s] = "retry"
    /\ \E x \in todo[s], sent \in Outcomes(stopping[s]) :
          /\ x.channel = "on"
          /\ Deliver(x.id, sent)
          /\ Keep(s, todo[s] \ {x})
          /\ Hold(s, {[x EXCEPT !.row = Attempted(x.row, sent)]})
    /\ Goto(s, "settle")
    /\ UNCHANGED <<deliveries, created, raised, stopping, request>>

\* The whole row, as it was when the pass read it; a save that fails is logged.
RetrySettle(s) ==
    /\ step[s] = "settle"
    /\ \E x \in hand[s] :
       \/ Write(x.id, x.row) /\ UNCHANGED failures
       \/ Trouble /\ UNCHANGED deliveries
    /\ NextRow(s, todo[s]) /\ Hold(s, {})
    /\ UNCHANGED <<channels, created, raised, stopping, todo, request, fate>>

\* The channel was off, or gone, when the pass read it.
Closed(row) == [row EXCEPT !.status = "failed", !.wait = 0]
RetryClose(s) ==
    /\ step[s] = "retry"
    /\ \E x \in todo[s] :
          /\ x.channel # "on"
          /\ \/ Write(x.id, Closed(x.row)) /\ Excuse({x.id}) /\ UNCHANGED failures
             \/ Trouble /\ UNCHANGED <<deliveries, fate>>
          /\ Keep(s, todo[s] \ {x}) /\ NextRow(s, todo[s] \ {x})
    /\ UNCHANGED <<channels, created, raised, stopping, hand, request>>

\* Delivered rows go when they are old; how old each is is left open.
Prune(s) ==
    /\ step[s] = "prune"
    /\ \E old \in SUBSET {d \in Deliveries : deliveries[d].status = "delivered"} :
          deliveries' = [d \in Deliveries |-> IF d \in old THEN NoDelivery ELSE deliveries[d]]
    /\ Goto(s, "idle")
    /\ UNCHANGED <<channels, created, raised, stopping, todo, hand, request, failures, fate>>

\* The clock: every backoff runs down.
Tick ==
    /\ \E d \in Deliveries : deliveries[d].wait > 0
    /\ deliveries' = [d \in Deliveries |->
          [deliveries[d] EXCEPT !.wait = IF @ > 0 THEN @ - 1 ELSE 0]]
    /\ UNCHANGED <<channels, created, raised, pass, request, failures, fate>>

-----------------------------------------------------------------------------
(* The API                                                                 *)

Set(r, label, c, state) ==
    request' = [request EXCEPT ![r] = [step |-> label, channel |-> c, state |-> state]]
Answer(r) == request' = [request EXCEPT ![r].step = "done"]
Kept      == {c \in ChannelIds : channels[c] # "none"}

CreateNotification(r) ==
    /\ request[r].step = "idle"
    /\ \E state \in {"off", "on"} : channels' = [channels EXCEPT ![r] = state]
    /\ Answer(r)
    /\ UNCHANGED <<deliveries, created, raised, pass, failures, fate>>

\* UpdateNotification, DeleteNotification and TestNotification get the row
\* first.  An update may leave enabled as it was read.
RequestRead(r) ==
    /\ request[r].step = "idle"
    /\ \E c \in Kept :
          \/ \E state \in {"off", "on"} : Set(r, "save", c, state)
          \/ Set(r, "test", c, channels[c])
          \/ Set(r, "delete", c, channels[c])
    /\ UNCHANGED <<tables, raised, pass, failures, fate>>

\* The probe is sent whether the channel is on or off, and leaves what it read.
SaveNotification(r) ==
    /\ request[r].step \in {"save", "test"}
    /\ channels' = [channels EXCEPT ![request[r].channel] = request[r].state]
    /\ Answer(r)
    /\ UNCHANGED <<deliveries, created, raised, pass, failures, fate>>

\* Refused by the foreign key as long as there is a delivery, failed or not.
MayDelete(c) == \A d \in Deliveries : d[2] = c => deliveries[d].status = "none"
DeleteNotification(r) ==
    /\ request[r].step = "delete"
    /\ channels' = [channels EXCEPT ![request[r].channel] =
                       IF MayDelete(request[r].channel) THEN "none" ELSE @]
    /\ Answer(r)
    /\ UNCHANGED <<deliveries, created, raised, pass, failures, fate>>

-----------------------------------------------------------------------------

Work(s) ==
    \/ Start(s) \/ Halt(s) \/ RunOnce(s) \/ Dispatch(s) \/ DispatchDeliver(s) \/ queueRetry(s)
    \/ RetryRead(s) \/ RetryDeliver(s) \/ RetrySettle(s) \/ RetryClose(s) \/ Prune(s)

Next ==
    \/ \E s \in Schedulers : Work(s) \/ Shutdown(s) \/ Crash(s)
    \/ \E r \in Requests :
          CreateNotification(r) \/ RequestRead(r) \/ SaveNotification(r) \/ DeleteNotification(r)
    \/ Tick

\* The ticker fires, a send ends within its timeout, a process that stopped is
\* started again, and the clock goes on.
Fairness == (\A s \in Schedulers : WF_vars(Work(s))) /\ WF_vars(Tick)

Spec == Init /\ [][Next]_vars /\ Fairness

-----------------------------------------------------------------------------
(* Properties                                                              *)

\* Of an event for which a channel was found nothing is forgotten: it has
\* reached its receiver, is still being sent, waits for another attempt, or was
\* given up after all the attempts or because the channel was off; the dispatch
\* that died before queueing it, or whose channel was gone, is the exception.
\* And nothing is called delivered that no receiver accepted.
Sending(d) == \E s \in Schedulers : d \in Unqueued(s)
Accounted ==
    \A d \in Deliveries :
       /\ fate[d].is = "owed" =>
             \/ Sending(d)
             \/ deliveries[d].status = "pending"
             \/ deliveries[d].status = "failed" /\ fate[d].tries = maxDeliveryAttempts
       /\ deliveries[d].status = "delivered" => fate[d].is = "reached"

\* "without holding a doomed delivery forever" (service/notification.go:146):
\* whatever replicas, shutdowns and lost saves do to its counter, a queued
\* delivery is settled in the end.
EventuallySettled ==
    \A d \in Deliveries : deliveries[d].status = "pending" ~> deliveries[d].status # "pending"
=============================================================================
