------------------------- MODULE NotificationQueue -------------------------
(***************************************************************************)
(* The notification jobs in Redis (app/services/notification_queue.py) and *)
(* the worker loops that consume them (app/workers/notification_worker.py):*)
(* three Redis lists, a set of worker processes that may stop and start at *)
(* any await, a Redis that may be unreachable, and the operator script     *)
(* that empties the dead-letter list.  Every Redis command is one step.    *)
(*                                                                         *)
(* What the handler does with a job is abstract here (it succeeds or it    *)
(* raises); SosDelivery refines it.                                        *)
(***************************************************************************)
EXTENDS SequencesExt, Naturals, FiniteSets

CONSTANTS
  Msg,                  \* payloads the services enqueue
  Worker,               \* worker processes: the API's own, the standalone one
  MaxDeliveryAttempts,  \* MAX_DELIVERY_ATTEMPTS
  None,                 \* "no job in hand"
  MaxPublishes,         \* bound: how often one payload is enqueued
  MaxStops,             \* bound: worker stops, crashes and interrupted starts
  MaxOutages,           \* bound: Redis outages
  MaxRequeues,          \* bound: runs of recover_dlq.py --requeue
  MaxThefts             \* bound: recoveries of an entry a worker is handling

\* A job is a payload and the _attempts it carries.  The code only asks
\* whether _attempts has reached the limit, so the count stops there.
Job == [msg : Msg, attempts : 0..MaxDeliveryAttempts]

ASSUME QueueAssumption ==
  /\ MaxDeliveryAttempts \in Nat \ {0}
  /\ None \notin Job
  /\ IsFiniteSet(Worker)
  /\ {MaxPublishes, MaxStops, MaxOutages, MaxRequeues, MaxThefts} \subseteq Nat

VARIABLES
  queue,        \* notifications:queue, head first
  processing,   \* notifications:processing, head first
  dlq,          \* notifications:dlq, head first
  redisUp,      \* Redis answers
  step,         \* where each worker process is in its loop
  hand,         \* the job each worker holds in memory
  requeuing,    \* recover_dlq.py --requeue is running
  popped,       \* the job that script holds between LPOP and RPUSH
  published,    \* history: how often each payload reached Redis
  sends,        \* history: how often its handler succeeded, up to 2
  cleared,      \* history: payloads an operator deleted from the DLQ
  stolen,       \* history: recoveries of each payload while a worker handled it
  stops, outages, requeues \* history: faults and script runs so far

redisVars == <<queue, processing, dlq>>
workerVars == <<step, hand>>
scriptVars == <<requeuing, popped>>
faultVars == <<redisUp, stops, outages, requeues>>
historyVars == <<published, sends, cleared, stolen>>
vars == <<redisVars, workerVars, scriptVars, faultVars, historyVars>>

Step == {"stopped", "recovering", "idle", "delivering", "delivered",
         "failing", "repush"}

\* Steps in which a worker holds a job in memory.
Holding == {"delivering", "delivered", "failing", "repush"}
\* Steps in which that job should still have its entry in `processing`.
InFlight == {"delivering", "delivered", "failing"}

Init ==
  /\ queue = <<>> /\ processing = <<>> /\ dlq = <<>>
  /\ redisUp = TRUE
  /\ step = [w \in Worker |-> "stopped"]
  /\ hand = [w \in Worker |-> None]
  /\ requeuing = FALSE /\ popped = None
  /\ published = [m \in Msg |-> 0]
  /\ sends = [m \in Msg |-> 0]
  /\ cleared = {} /\ stolen = [m \in Msg |-> 0]
  /\ stops = 0 /\ outages = 0 /\ requeues = 0

Goto(w, s) == step' = [step EXCEPT ![w] = s]
\* Mutant of PutDown: the job stays in the worker's hand.
PutDownBUG(w, s) == Goto(w, s) /\ UNCHANGED hand

PutDown(w, s) == Goto(w, s) /\ hand' = [hand EXCEPT ![w] = None]
Payloads(s) == {j.msg : j \in ToSet(s)}

-----------------------------------------------------------------------------
(* The services.                                                           *)

\* enqueue: RPUSH.  When Redis does not answer the exception is logged and
\* the call returns as if it had worked: that step changes nothing.
Enqueue(m) ==
  /\ redisUp
  /\ published[m] < MaxPublishes
  /\ queue' = Append(queue, [msg |-> m, attempts |-> 0])
  /\ published' = [published EXCEPT ![m] = @ + 1]
  /\ UNCHANGED <<processing, dlq, workerVars, scriptVars, faultVars,
                 sends, cleared, stolen>>

-----------------------------------------------------------------------------
(* A worker process: start, recover_processing, the loop, stop.            *)

Start(w) ==
  /\ step[w] = "stopped"
  /\ Goto(w, "recovering")
  /\ UNCHANGED <<redisVars, hand, scriptVars, faultVars, historyVars>>

BeingHandled(job) == \E w \in Worker : step[w] \in InFlight /\ hand[w] = job

\* One RPOPLPUSH of recover_processing: the oldest entry of `processing`
\* goes to the head of `queue`, whichever worker it belongs to.
RecoverOne(w) ==
  /\ step[w] = "recovering" /\ redisUp /\ processing # <<>>
  /\ queue' = Cons(Last(processing), queue)
  /\ processing' = Front(processing)
  /\ IF BeingHandled(Last(processing))
     THEN /\ SumFunction(stolen) < MaxThefts
          /\ stolen' = [stolen EXCEPT ![Last(processing).msg] = @ + 1]
     ELSE UNCHANGED stolen
  /\ UNCHANGED <<dlq, workerVars, scriptVars, faultVars, published, sends, cleared>>

RecoverDone(w) ==
  /\ step[w] = "recovering" /\ redisUp /\ processing = <<>>
  /\ Goto(w, "idle")
  /\ UNCHANGED <<redisVars, hand, scriptVars, faultVars, historyVars>>

\* recover_processing raises: start() fails and the process with it.
StartFails(w) ==
  /\ step[w] = "recovering" /\ ~redisUp
  /\ Goto(w, "stopped")
  /\ UNCHANGED <<redisVars, hand, scriptVars, faultVars, historyVars>>

\* Mutant of TakeTail: a plain BRPOP, nothing in `processing`.
TakeTailBUG ==
  queue # <<>> /\ queue' = Front(queue) /\ UNCHANGED processing

\* BRPOPLPUSH takes the newest entry: enqueue pushes at the same end.
TakeTail ==
  /\ queue # <<>>
  /\ queue' = Front(queue)
  /\ processing' = Cons(Last(queue), processing)

Dequeue(w) ==
  /\ step[w] = "idle" /\ redisUp
  /\ TakeTail
  /\ hand' = [hand EXCEPT ![w] = Last(queue)]
  /\ Goto(w, "delivering")
  /\ UNCHANGED <<dlq, scriptVars, faultVars, historyVars>>

\* The connection breaks after Redis ran the command and before its reply:
\* the entry has moved, _run logs an error and goes on without it.
DequeueReplyLost(w) ==
  /\ step[w] = "idle" /\ redisUp /\ outages < MaxOutages
  /\ TakeTail
  /\ redisUp' = FALSE /\ outages' = outages + 1
  /\ UNCHANGED <<dlq, workerVars, scriptVars, stops, requeues, historyVars>>

\* _process up to its ack: the handler returns, or it raises.
HandleOk(w) ==
  /\ step[w] = "delivering"
  /\ Goto(w, "delivered")
  /\ sends' = [sends EXCEPT ![hand[w].msg] = IF @ < 2 THEN @ + 1 ELSE @]
  /\ UNCHANGED <<redisVars, hand, scriptVars, faultVars, published, cleared, stolen>>

HandleFail(w) ==
  /\ step[w] = "delivering"
  /\ Goto(w, "failing")
  /\ UNCHANGED <<redisVars, hand, scriptVars, faultVars, historyVars>>

\* Mutant of Ack: the LREM is forgotten.
AckBUG(w) ==
  /\ step[w] = "delivered" /\ redisUp
  /\ PutDown(w, "idle")
  /\ UNCHANGED <<redisVars, scriptVars, faultVars, historyVars>>

\* ack: LREM processing 1 raw.
Ack(w) ==
  /\ step[w] = "delivered" /\ redisUp
  /\ processing' = RemoveFirst(processing, hand[w])
  /\ PutDown(w, "idle")
  /\ UNCHANGED <<queue, dlq, scriptVars, faultVars, historyVars>>

\* The ack raises inside _process' try block: a delivered job is retried.
AckFails(w) ==
  /\ step[w] = "delivered" /\ ~redisUp
  /\ Goto(w, "failing")
  /\ UNCHANGED <<redisVars, hand, scriptVars, faultVars, historyVars>>

\* Or Redis did remove the entry and only its reply is lost.
AckReplyLost(w) ==
  /\ step[w] = "delivered" /\ redisUp /\ outages < MaxOutages
  /\ processing' = RemoveFirst(processing, hand[w])
  /\ Goto(w, "failing")
  /\ redisUp' = FALSE /\ outages' = outages + 1
  /\ UNCHANGED <<queue, dlq, hand, scriptVars, stops, requeues, historyVars>>

Attempted(job) ==
  [job EXCEPT !.attempts = IF @ < MaxDeliveryAttempts THEN @ + 1 ELSE @]

\* retry_or_dlq acks first, and counts the attempt in the payload it holds.
RetryAck(w) ==
  /\ step[w] = "failing" /\ redisUp
  /\ processing' = RemoveFirst(processing, hand[w])
  /\ hand' = [hand EXCEPT ![w] = Attempted(@)]
  /\ Goto(w, "repush")
  /\ UNCHANGED <<queue, dlq, scriptVars, faultVars, historyVars>>

\* That ack raises out of _process; _run sleeps and takes the next job.
RetryAckFails(w) ==
  /\ step[w] = "failing" /\ ~redisUp
  /\ PutDown(w, "idle")
  /\ UNCHANGED <<redisVars, scriptVars, faultVars, historyVars>>

\* Mutant of Exhausted: one attempt too many.
ExhaustedBUG(job) == job.attempts > MaxDeliveryAttempts

Exhausted(job) == job.attempts >= MaxDeliveryAttempts

Retry(w) ==
  /\ step[w] = "repush" /\ redisUp /\ ~Exhausted(hand[w])
  /\ queue' = Append(queue, hand[w])
  /\ PutDown(w, "idle")
  /\ UNCHANGED <<processing, dlq, scriptVars, faultVars, historyVars>>

\* Mutant of MoveToDlq: an exhausted job is dropped.
MoveToDlqBUG(w) ==
  /\ step[w] = "repush" /\ redisUp /\ Exhausted(hand[w])
  /\ PutDown(w, "idle")
  /\ UNCHANGED <<redisVars, scriptVars, faultVars, historyVars>>

MoveToDlq(w) ==
  /\ step[w] = "repush" /\ redisUp /\ Exhausted(hand[w])
  /\ dlq' = Append(dlq, hand[w])
  /\ PutDown(w, "idle")
  /\ UNCHANGED <<queue, processing, scriptVars, faultVars, historyVars>>

\* The second push of retry_or_dlq finds Redis gone: enqueue swallows the
\* error, move_to_dlq raises it to _run.  Either way the job is dropped.
RepushFails(w) ==
  /\ step[w] = "repush" /\ ~redisUp
  /\ PutDown(w, "idle")
  /\ UNCHANGED <<redisVars, scriptVars, faultVars, historyVars>>

\* stop() cancels the task at an await (a CancelledError is no Exception, so
\* no handler of _process runs), or the process dies.
Stop(w) ==
  /\ step[w] # "stopped" /\ stops < MaxStops
  /\ PutDown(w, "stopped")
  /\ stops' = stops + 1
  /\ UNCHANGED <<redisVars, scriptVars, redisUp, outages, requeues, historyVars>>

-----------------------------------------------------------------------------
(* recover_dlq.py, and Redis itself.                                       *)

RequeueStart ==
  /\ ~requeuing /\ requeues < MaxRequeues
  /\ requeuing' = TRUE /\ requeues' = requeues + 1
  /\ UNCHANGED <<redisVars, workerVars, popped, redisUp, stops, outages, historyVars>>

RequeuePop ==
  /\ requeuing /\ popped = None /\ redisUp /\ dlq # <<>>
  /\ popped' = Head(dlq) /\ dlq' = Tail(dlq)
  /\ UNCHANGED <<queue, processing, workerVars, requeuing, faultVars, historyVars>>

\* Mutant of RequeuePush: back to the list the script is emptying.
RequeuePushBUG ==
  /\ requeuing /\ popped # None /\ redisUp
  /\ dlq' = Append(dlq, popped) /\ popped' = None
  /\ UNCHANGED <<queue, processing, workerVars, requeuing, faultVars, historyVars>>

\* The payload drops its "error" but keeps its _attempts.
RequeuePush ==
  /\ requeuing /\ popped # None /\ redisUp
  /\ queue' = Append(queue, popped) /\ popped' = None
  /\ UNCHANGED <<processing, dlq, workerVars, requeuing, faultVars, historyVars>>

RequeueEnd ==
  /\ requeuing /\ popped = None /\ redisUp /\ dlq = <<>>
  /\ requeuing' = FALSE
  /\ UNCHANGED <<redisVars, workerVars, popped, faultVars, historyVars>>

\* A Redis error ends the script, with whatever it had popped.
RequeueFails ==
  /\ requeuing /\ ~redisUp
  /\ requeuing' = FALSE /\ popped' = None
  /\ UNCHANGED <<redisVars, workerVars, faultVars, historyVars>>

\* Mutant of ClearDlq: the queue is deleted with it.
ClearDlqBUG ==
  /\ redisUp /\ dlq # <<>>
  /\ cleared' = cleared \cup Payloads(dlq) \cup Payloads(queue)
  /\ dlq' = <<>> /\ queue' = <<>>
  /\ UNCHANGED <<processing, workerVars, scriptVars, faultVars,
                 published, sends, stolen>>

ClearDlq ==
  /\ redisUp /\ dlq # <<>>
  /\ cleared' = cleared \cup Payloads(dlq)
  /\ dlq' = <<>>
  /\ UNCHANGED <<queue, processing, workerVars, scriptVars, faultVars,
                 published, sends, stolen>>

RedisDown ==
  /\ redisUp /\ outages < MaxOutages
  /\ redisUp' = FALSE /\ outages' = outages + 1
  /\ UNCHANGED <<redisVars, workerVars, scriptVars, stops, requeues, historyVars>>

RedisBack ==
  /\ ~redisUp /\ redisUp' = TRUE
  /\ UNCHANGED <<redisVars, workerVars, scriptVars, stops, outages, requeues, historyVars>>

-----------------------------------------------------------------------------
\* Mutant of Recover: a starting worker does not look at `processing`.
RecoverBUG(w) ==
  /\ step[w] = "recovering" /\ Goto(w, "idle")
  /\ UNCHANGED <<redisVars, hand, scriptVars, faultVars, historyVars>>

Recover(w) == RecoverOne(w) \/ RecoverDone(w) \/ StartFails(w)
Handle(w) == HandleOk(w) \/ HandleFail(w)
Settle(w) ==
  \/ Ack(w) \/ AckFails(w)
  \/ RetryAck(w) \/ RetryAckFails(w)
  \/ Retry(w) \/ MoveToDlq(w) \/ RepushFails(w)
Requeue == RequeuePop \/ RequeuePush \/ RequeueEnd \/ RequeueFails

Next ==
  \/ \E m \in Msg : Enqueue(m)
  \/ \E w \in Worker : \/ Start(w) \/ Recover(w)
                       \/ Dequeue(w) \/ DequeueReplyLost(w) \/ AckReplyLost(w)
                       \/ Handle(w) \/ Settle(w) \/ Stop(w)
  \/ RequeueStart \/ Requeue \/ ClearDlq
  \/ RedisDown \/ RedisBack

Spec == Init /\ [][Next]_vars

\* The event loop keeps running a started worker, the platform restarts a
\* stopped one, the push call has a timeout, and Redis outages end.  Nothing
\* makes a service enqueue, an operator act or a handler ever succeed: the push
\* service may refuse a job however often it is tried.
FairSpec ==
  /\ Spec
  /\ \A w \in Worker :
       /\ WF_vars(Start(w)) /\ WF_vars(Recover(w))
       /\ WF_vars(Dequeue(w)) /\ WF_vars(Handle(w)) /\ WF_vars(Settle(w))
  /\ WF_vars(Requeue)
  /\ WF_vars(RedisBack)

-----------------------------------------------------------------------------
(* Properties.                                                             *)

TypeOK ==
  /\ queue \in Seq(Job) /\ processing \in Seq(Job) /\ dlq \in Seq(Job)
  /\ redisUp \in BOOLEAN
  /\ step \in [Worker -> Step]
  /\ hand \in [Worker -> Job \cup {None}]
  /\ \A w \in Worker : hand[w] = None <=> step[w] \notin Holding
  /\ requeuing \in BOOLEAN
  /\ popped \in Job \cup {None}
  /\ published \in [Msg -> Nat]
  /\ sends \in [Msg -> 0..2]
  /\ cleared \subseteq Msg
  /\ stolen \in [Msg -> Nat]
  /\ stops \in Nat /\ outages \in Nat /\ requeues \in Nat

Accepted == {m \in Msg : published[m] > 0}
Sent == {m \in Msg : sends[m] > 0}
HeldBy(steps) == {hand[w].msg : w \in {v \in Worker : step[v] \in steps}}
PoppedPayloads == IF popped = None THEN {} ELSE {popped.msg}

\* Payloads that Redis, or the only copy in some process' memory, still has.
Kept == Payloads(queue) \cup Payloads(processing) \cup Payloads(dlq)
          \cup HeldBy({"repush"}) \cup PoppedPayloads

\* Gone without a successful delivery and without an operator deleting them.
Lost == Accepted \ (Kept \cup HeldBy(InFlight) \cup Sent \cup cleared)

\* As long as no worker has been stopped and Redis has always answered, every
\* accepted payload is still in a list, in the hand of the process that moves
\* it between two lists, delivered, or deleted by an operator.  The moves of
\* several workers, recoveries and the script never drop one between them.
NoLossWithoutFault ==
  stops = 0 /\ outages = 0 => Accepted \subseteq Kept \cup Sent \cup cleared

\* The docstring of dequeue: delivery is at least once.
AtLeastOnce == Lost = {}

\* retry_or_dlq dead-letters a job exactly when its attempts are used up: the
\* DLQ holds no other, and only a requeue puts one back before a worker.
DeadLettersAreExhausted ==
  /\ \A j \in ToSet(dlq) : j.attempts = MaxDeliveryAttempts
  /\ requeues = 0 =>
       /\ \A j \in ToSet(queue) \cup ToSet(processing) : j.attempts < MaxDeliveryAttempts
       /\ \A w \in Worker :
            step[w] \in InFlight => hand[w].attempts < MaxDeliveryAttempts

\* No more workers handle a payload at once than it was enqueued and the recovery
\* of a starting worker took its entry from other hands; and one enqueued once is
\* delivered twice only after such a theft, a stop or an outage.
DuplicatesHaveACause ==
  \A m \in Msg :
    /\ Cardinality({w \in Worker : step[w] \in Holding /\ hand[w].msg = m})
         <= published[m] + stolen[m]
    /\ published[m] = 1 /\ sends[m] > 1 => stolen[m] + stops + outages > 0

\* A job being handled survives the death of its worker: it still has its
\* entry in `processing`, unless a recovery took it or an ack did not answer.
\* Such an ack is repeated, and LREM removes by value: of a payload that was
\* enqueued twice it may take the entry of the other copy then.
InFlightIsBacked ==
  \A w \in Worker : step[w] \in InFlight =>
    \/ hand[w] \in ToSet(processing)
    \/ stolen[hand[w].msg] > 0
    \/ outages > 0 /\ (step[w] = "failing" \/ published[hand[w].msg] > 1)

\* The docstring of requeue_dlq: all entries are moved, and it returns.
RequeueEnds == requeuing ~> ~requeuing

\* A job that came back from the DLQ, its attempts used up, fails again: it
\* falls back at once into the list the script is emptying.
RevivedFails ==
  \E w \in Worker :
    step[w] = "failing" /\ hand[w].attempts = MaxDeliveryAttempts

\* Nothing but such jobs keeps a requeue run from its end: one that never ends
\* sees revived jobs fail over and over, and no stop, outage or recovery delays
\* it for good.
RequeueEndsUnlessRevivedFail == requeuing ~> ~requeuing \/ RevivedFails

\* Every accepted payload is delivered, dead-lettered or deleted in the end,
\* through any number of stops; only a fault in the retry window loses it, and
\* only a Redis outage can leave it in `processing` for good.  A requeue run that
\* never ends keeps pushing where the workers take, in front of everything else.
Settled(m) == m \in Sent \cup cleared \cup Payloads(dlq)
EventuallySettled ==
  RequeueEnds =>
    \A m \in Msg : m \in Accepted ~> Settled(m) \/ m \in Lost \/ outages > 0

\* The fate of a payload that was enqueued once, as JobLifecycle sees it.
Waiting == Payloads(queue) \cup Payloads(processing) \cup HeldBy(Holding)
Buried == Payloads(dlq) \cup PoppedPayloads
FateOf(m) ==
  IF m \in Sent THEN "delivered"
  ELSE IF m \notin Accepted THEN "new"
  ELSE IF m \in Lost THEN "lost"
  ELSE IF m \in Waiting THEN "pending"
  ELSE IF m \in Buried THEN "dead"
  ELSE "discarded"

\* The Redis lists, the workers, the operator's script and their failures
\* together keep the promise of JobLifecycle.
Lifecycle == INSTANCE JobLifecycle WITH
               fate <- [m \in Msg |-> FateOf(m)],
               faulted <- stops + outages > 0
KeepsTheLifecycle == Lifecycle!Spec
=============================================================================
