------------------------- MODULE NotificationOutbox -------------------------
(***************************************************************************)
(* The transactional outbox of SOS alerts: create_alert writes its row in  *)
(* the transaction of the alert, and drainers (the loop of every worker    *)
(* process, and the background flush of every request) copy pending rows   *)
(* to Redis, outside any lock, and mark them published in a commit of      *)
(* their own.  A push is NotificationQueue!Enqueue.                        *)
(***************************************************************************)
EXTENDS Sequences, FiniteSets, Naturals

CONSTANTS
  Alert,       \* create_alert requests that reach enqueue_in_transaction
  Loop,        \* worker loops
  Batch,       \* the limit of drain_pending
  MaxFaults,   \* bound: drains cancelled, crashed or not committed
  MaxOutages   \* bound: Redis outages

ASSUME OutboxAssumption ==
  /\ IsFiniteSet(Alert) /\ IsFiniteSet(Loop)
  /\ Batch \in Nat \ {0}
  /\ Alert \cap Loop = {}
  /\ MaxFaults \in Nat /\ MaxOutages \in Nat

\* Each request has one flush, named by its alert.
Drainer == Loop \cup Alert

VARIABLES
  request,   \* the transaction of each create_alert
  opened,    \* the requests by created_at, the start of their transaction
  row,       \* the committed state of each outbox row
  drain,     \* where each drainer is
  todo,      \* rows a drainer has read and not yet published
  done,      \* rows it has marked in its session, not yet committed
  redisUp,   \* Redis answers
  pushes,    \* history: how often each payload reached Redis
  faults, outages  \* history: faults so far

requestVars == <<request, opened>>
drainVars == <<drain, todo, done>>
vars == <<requestVars, row, drainVars, redisUp, pushes, faults, outages>>

Init ==
  /\ request = [a \in Alert |-> "new"] /\ opened = <<>>
  /\ row = [a \in Alert |-> "none"]
  /\ drain = [d \in Drainer |-> "ready"]
  /\ todo = [d \in Drainer |-> {}]
  /\ done = [d \in Drainer |-> {}]
  /\ redisUp = TRUE
  /\ pushes = [a \in Alert |-> 0]
  /\ faults = 0 /\ outages = 0

-----------------------------------------------------------------------------
(* create_alert: the row shares the fate of the alert.                     *)

Open(a) ==
  /\ request[a] = "new"
  /\ request' = [request EXCEPT ![a] = "open"]
  /\ opened' = Append(opened, a)
  /\ UNCHANGED <<row, drainVars, redisUp, pushes, faults, outages>>

\* get_db commits when the endpoint is left.  Whether the background flush
\* runs before or after that depends on the FastAPI release (>=0.115.0 is all
\* that is pinned); while it runs, the request does nothing else.
Commit(a) ==
  /\ request[a] = "open" /\ drain[a] # "draining"
  /\ request' = [request EXCEPT ![a] = "committed"]
  /\ row' = [row EXCEPT ![a] = "pending"]
  /\ UNCHANGED <<opened, drainVars, redisUp, pushes, faults, outages>>

\* Mutant of Rollback: the row was written in a transaction of its own.
RollbackBUG(a) ==
  /\ request[a] = "open" /\ drain[a] # "draining"
  /\ request' = [request EXCEPT ![a] = "rolled back"]
  /\ row' = [row EXCEPT ![a] = "pending"]
  /\ UNCHANGED <<opened, drainVars, redisUp, pushes, faults, outages>>

\* Any later error of the request, the commit's own included.
Rollback(a) ==
  /\ request[a] = "open" /\ drain[a] # "draining"
  /\ request' = [request EXCEPT ![a] = "rolled back"]
  /\ UNCHANGED <<opened, row, drainVars, redisUp, pushes, faults, outages>>

-----------------------------------------------------------------------------
(* drain_pending.                                                          *)

Pending == {a \in Alert : row[a] = "pending"}
Older(a, b) == \E i, j \in DOMAIN opened : i < j /\ opened[i] = a /\ opened[j] = b

\* The n oldest of some rows, or all of them.
Choices(rows, n) ==
  {c \in SUBSET rows :
     /\ Cardinality(c) = IF Cardinality(rows) < n THEN Cardinality(rows) ELSE n
     /\ \A a \in c, b \in rows \ c : Older(a, b)}

\* Mutant of Oldest: one row short of the limit.
OldestBUG(rows) == Choices(rows, Batch - 1)

Oldest(rows) == Choices(rows, Batch)

\* A loop drains again and again; a flush once its request has got that far.
MayDrain(d) ==
  /\ drain[d] = "ready"
  /\ d \in Alert => request[d] \in {"open", "committed"}

\* A loop that finds nothing pending goes on to dequeue: no change.
DrainRead(d) ==
  /\ MayDrain(d)
  /\ d \in Loop => Pending # {}
  /\ \E c \in Oldest(Pending) : todo' = [todo EXCEPT ![d] = c]
  /\ drain' = [drain EXCEPT ![d] = "draining"]
  /\ UNCHANGED <<requestVars, row, done, redisUp, pushes, faults, outages>>

\* enqueue does not raise, so the row is marked whether it reached Redis or
\* not, and the branch that would count an attempt is never taken.
DrainPublish(d) ==
  /\ drain[d] = "draining"
  /\ \E a \in todo[d] :
       /\ \A b \in todo[d] \ {a} : Older(a, b)
       /\ pushes' = IF redisUp THEN [pushes EXCEPT ![a] = @ + 1] ELSE pushes
       /\ done' = [done EXCEPT ![d] = @ \cup {a}]
       /\ todo' = [todo EXCEPT ![d] = @ \ {a}]
  /\ UNCHANGED <<requestVars, row, drain, redisUp, faults, outages>>

\* A flush runs once; a loop comes back.
Finished(d) == IF d \in Loop THEN "ready" ELSE "finished"
Reset(d) ==
  /\ drain' = [drain EXCEPT ![d] = Finished(d)]
  /\ todo' = [todo EXCEPT ![d] = {}]
  /\ done' = [done EXCEPT ![d] = {}]

Marked(rows) == [a \in Alert |-> IF a \in rows THEN "published" ELSE row[a]]

\* Mutant of DrainCommit: the session is closed without a commit.
DrainCommitNoneBUG(d) ==
  /\ drain[d] = "draining" /\ todo[d] = {}
  /\ Reset(d)
  /\ UNCHANGED <<requestVars, row, redisUp, pushes, faults, outages>>

\* The UPDATEs name the rows by id, with no check of their status.
DrainCommit(d) ==
  /\ drain[d] = "draining" /\ todo[d] = {}
  /\ row' = Marked(done[d])
  /\ Reset(d)
  /\ UNCHANGED <<requestVars, redisUp, pushes, faults, outages>>

\* Cancelled at an await, out of memory, no database for the commit: every
\* row of the batch stays pending, also those already in Redis.
DrainFails(d) ==
  /\ drain[d] = "draining" /\ faults < MaxFaults
  /\ Reset(d)
  /\ faults' = faults + 1
  /\ UNCHANGED <<requestVars, row, redisUp, pushes, outages>>

RedisDown ==
  /\ redisUp /\ outages < MaxOutages
  /\ redisUp' = FALSE /\ outages' = outages + 1
  /\ UNCHANGED <<requestVars, row, drainVars, pushes, faults>>

RedisBack ==
  /\ ~redisUp /\ redisUp' = TRUE
  /\ UNCHANGED <<requestVars, row, drainVars, pushes, faults, outages>>

Drain(d) == DrainRead(d) \/ DrainPublish(d) \/ DrainCommit(d)

Next ==
  \/ \E a \in Alert : Open(a) \/ Commit(a) \/ Rollback(a)
  \/ \E d \in Drainer : Drain(d) \/ DrainFails(d)
  \/ RedisDown \/ RedisBack

Spec == Init /\ [][Next]_vars

\* The event loop runs every drainer on; faults are bounded.
FairSpec == Spec /\ \A d \in Drainer : WF_vars(Drain(d))

-----------------------------------------------------------------------------
(* Properties.                                                             *)

TypeOK ==
  /\ request \in [Alert -> {"new", "open", "committed", "rolled back"}]
  /\ opened \in Seq(Alert)
  /\ row \in [Alert -> {"none", "pending", "published"}]
  /\ drain \in [Drainer -> {"ready", "draining", "finished"}]
  /\ todo \in [Drainer -> SUBSET Alert]
  /\ done \in [Drainer -> SUBSET Alert]
  /\ redisUp \in BOOLEAN
  /\ pushes \in [Alert -> Nat]
  /\ faults \in Nat /\ outages \in Nat

\* No notification leaves for an alert that does not exist: what reaches
\* Redis, and what a drainer is about to push, belongs to a committed request.
OnlyCommittedAlertsPushed ==
  \A a \in Alert :
    pushes[a] > 0 \/ (\E d \in Drainer : a \in todo[d] \cup done[d])
      => request[a] = "committed"

\* Drainers that read the same pending rows push them twice, but a row that is
\* still pending was pushed by drains that are about to mark it, or that
\* failed: no drainer pushes a row again unless one of its commits failed.
PushesBounded ==
  \A a \in Alert :
    /\ row[a] = "pending" =>
         pushes[a] <= Cardinality({d \in Drainer : a \in done[d]}) + faults
    /\ pushes[a] <= Cardinality(Drainer) + faults

\* Every committed alert is published, although its own flush may run before
\* its commit, and a batch holds only the oldest rows.
EventuallyPublished ==
  \A a \in Alert : request[a] = "committed" ~> row[a] = "published"

\* The docstring of the module: the outbox is for reliable delivery.
PublishedMeansPushed ==
  \A a \in Alert : row[a] = "published" => pushes[a] > 0
=============================================================================
