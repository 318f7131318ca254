---------------------------- MODULE SosDelivery ----------------------------
(***************************************************************************)
(* NotificationWorker._process for alert_created jobs, step by step, on    *)
(* top of NotificationQueue: the device tokens it looks up, the chunks it  *)
(* posts to Expo, the delivery_status it writes for every recipient, the   *)
(* dead tokens it deletes, and what it does when any of these fails.  Its  *)
(* last step is the HandleOk or HandleFail of the queue; every other step  *)
(* leaves the queue alone, so that SosSpec implements Spec.                *)
(***************************************************************************)
EXTENDS NotificationQueue

CONSTANTS
  User,          \* the recipients of an alert
  Token,         \* device tokens
  Owner,         \* the user a token is registered for
  ExpoToken,     \* tokens with an Expo prefix: the others are never posted
  Chunk,         \* tokens per request to Expo, 100 in the code
  MaxDbFaults    \* bound: failed database calls of the workers

ASSUME DeliveryAssumption ==
  /\ Owner \in [Token -> User]
  /\ ExpoToken \subseteq Token
  /\ Chunk \in Nat \ {0} /\ MaxDbFaults \in Nat
  /\ None \notin Msg

VARIABLES
  sub,        \* where each worker is inside _process
  found,      \* tokens_by_user: what its lookup returned
  rest,       \* valid tokens it has not posted yet
  stale,      \* tokens Expo has told it are not registered any more
  owed,       \* the payload whose recipients it marks after a retry_or_dlq
  tokens,     \* the device_tokens table
  status,     \* delivery_status of each recipient of each alert
  accepted,   \* history: how often Expo took a message for a token
  dead,       \* history: tokens Expo has called not registered
  dbFaults    \* history: failed database calls

deliveryVars == <<sub, found, rest, stale, owed, tokens, status, accepted, dead,
                  dbFaults>>
sosVars == <<vars, deliveryVars>>

Sub == {"none", "lookup", "send", "mark delivered", "mark tokenless",
        "mark unreachable", "unmark", "unmark tokenless", "clean up", "raise",
        "mark all failed"}
Status == {"pending", "delivered", "failed"}

SosInit ==
  /\ Init
  /\ sub = [w \in Worker |-> "none"]
  /\ found = [w \in Worker |-> {}]
  /\ rest = [w \in Worker |-> {}]
  /\ stale = [w \in Worker |-> {}]
  /\ owed = [w \in Worker |-> None]
  /\ tokens \in SUBSET Token
  /\ status = [m \in Msg |-> [u \in User |-> "pending"]]
  /\ accepted = [t \in Token |-> 0]
  /\ dead = {}
  /\ dbFaults = 0

To(w, s) == sub' = [sub EXCEPT ![w] = s]
Forget(w) ==
  /\ To(w, "none")
  /\ found' = [found EXCEPT ![w] = {}]
  /\ rest' = [rest EXCEPT ![w] = {}]
  /\ stale' = [stale EXCEPT ![w] = {}]
  /\ owed' = [owed EXCEPT ![w] = None]

WithTokens(w) == {Owner[t] : t \in found[w]}
Tokenless(w) == User \ WithTokens(w)

\* A database call of w fails; the exception takes it to s.
DbFails(w, s) ==
  /\ dbFaults < MaxDbFaults /\ dbFaults' = dbFaults + 1
  /\ To(w, s)
  /\ UNCHANGED <<vars, found, rest, stale, owed, tokens, status, accepted, dead>>

-----------------------------------------------------------------------------
(* The handler.                                                            *)

\* _mark_recipients_delivered: the rows of the given users, in one commit,
\* whatever they say already.
Mark(m, users, s) ==
  status' = [status EXCEPT ![m] = [u \in User |-> IF u \in users THEN s ELSE @[u]]]

\* Dequeue puts the job into the handler's hands.
Begin(w) ==
  /\ sub[w] = "none"
  /\ Dequeue(w)
  /\ To(w, "lookup")
  /\ UNCHANGED <<found, rest, stale, owed, tokens, status, accepted, dead, dbFaults>>

\* _tokens_by_user; without any token nothing is posted.
Lookup(w) ==
  /\ sub[w] = "lookup"
  /\ found' = [found EXCEPT ![w] = tokens]
  /\ rest' = [rest EXCEPT ![w] = tokens \cap ExpoToken]
  /\ To(w, IF tokens = {} THEN "mark unreachable" ELSE "send")
  /\ UNCHANGED <<vars, stale, owed, tokens, status, accepted, dead, dbFaults>>

LookupFails(w) == sub[w] = "lookup" /\ DbFails(w, "raise")

\* The next request to Expo, in the order the lookup returned the tokens.
NextChunk(w) ==
  {c \in SUBSET rest[w] :
     Cardinality(c) = IF Cardinality(rest[w]) < Chunk THEN Cardinality(rest[w]) ELSE Chunk}

Posted(c) == accepted' = [t \in Token |-> accepted[t] + (IF t \in c THEN 1 ELSE 0)]

\* Mutant of SendChunk: chunks overlap by one message.
SendChunkBUG(w) ==
  /\ sub[w] = "send" /\ rest[w] # {}
  /\ \E c \in NextChunk(w) : \E extra \in rest[w] :
       /\ Posted(c \cup {extra})
       /\ rest' = [rest EXCEPT ![w] = @ \ c]
  /\ UNCHANGED <<vars, sub, found, stale, owed, tokens, status, dead, dbFaults>>

\* Expo answers below 400: a ticket per message, some of them for tokens that
\* are not registered.  Tickets with other errors count as sent.
SendChunk(w) ==
  /\ sub[w] = "send" /\ rest[w] # {}
  /\ \E c \in NextChunk(w) : \E gone \in SUBSET c :
       /\ Posted(c \ gone)
       /\ rest' = [rest EXCEPT ![w] = @ \ c]
       /\ stale' = [stale EXCEPT ![w] = @ \cup gone]
       /\ dead' = dead \cup gone
  /\ UNCHANGED <<vars, sub, found, owed, tokens, status, dbFaults>>

\* An HTTP error, or no answer although Expo may have taken the chunk, or
\* push is disabled: send_to_tokens raises and what it knew is gone.
SendFails(w) ==
  /\ sub[w] = "send" /\ rest[w] # {}
  /\ \E c \in NextChunk(w) \cup {{}} : Posted(c)
  /\ rest' = [rest EXCEPT ![w] = {}] /\ stale' = [stale EXCEPT ![w] = {}]
  /\ To(w, "unmark")
  /\ UNCHANGED <<vars, found, owed, tokens, status, dead, dbFaults>>

SendDone(w) ==
  /\ sub[w] = "send" /\ rest[w] = {}
  /\ To(w, "mark delivered")
  /\ UNCHANGED <<vars, found, rest, stale, owed, tokens, status, accepted, dead, dbFaults>>

\* The updates, each in a session of its own.
MarkStep(w, at, users, s, next) ==
  /\ sub[w] = at
  /\ Mark(hand[w].msg, users, s)
  /\ To(w, next)
  /\ UNCHANGED <<vars, found, rest, stale, owed, tokens, accepted, dead, dbFaults>>

\* Mutant of MarkDelivered: the recipients without a token as well.
MarkDeliveredBUG(w) ==
  MarkStep(w, "mark delivered", User, "delivered",
           IF Tokenless(w) = {} THEN "clean up" ELSE "mark tokenless")

MarkDelivered(w) ==
  MarkStep(w, "mark delivered", WithTokens(w), "delivered",
           IF Tokenless(w) = {} THEN "clean up" ELSE "mark tokenless")

\* Mutant of MarkTokenless: these users are forgotten.
MarkTokenlessBUG(w) == MarkStep(w, "mark tokenless", {}, "failed", "clean up")

MarkTokenless(w) == MarkStep(w, "mark tokenless", Tokenless(w), "failed", "clean up")
MarkUnreachable(w) == MarkStep(w, "mark unreachable", User, "failed", "clean up")

\* The inner except: mark what was not sent, then raise.
Unmark(w) ==
  MarkStep(w, "unmark", WithTokens(w), "failed",
           IF Tokenless(w) = {} THEN "raise" ELSE "unmark tokenless")
UnmarkTokenless(w) == MarkStep(w, "unmark tokenless", Tokenless(w), "failed", "raise")

\* Marking after the push is inside the same try block as the push: if the
\* database fails there, a delivered push is handled as a failed one.
MarkFails(w) ==
  \/ sub[w] \in {"mark delivered", "mark tokenless"} /\ DbFails(w, "unmark")
  \/ sub[w] \in {"mark unreachable", "unmark", "unmark tokenless"} /\ DbFails(w, "raise")

\* Mutant of CleanUp: all tokens of the job are deleted.
CleanUpBUG(w) ==
  /\ sub[w] = "clean up"
  /\ tokens' = tokens \ found[w]
  /\ Forget(w)
  /\ HandleOk(w)
  /\ UNCHANGED <<status, accepted, dead, dbFaults>>

\* _remove_stale_tokens, and the handler has succeeded.
CleanUp(w) ==
  /\ sub[w] = "clean up"
  /\ tokens' = tokens \ stale[w]
  /\ Forget(w)
  /\ HandleOk(w)
  /\ UNCHANGED <<status, accepted, dead, dbFaults>>

CleanUpFails(w) == sub[w] = "clean up" /\ stale[w] # {} /\ DbFails(w, "raise")

\* The exception reaches the outer except.
Raise(w) ==
  /\ sub[w] = "raise"
  /\ Forget(w)
  /\ HandleFail(w)
  /\ UNCHANGED <<tokens, status, accepted, dead, dbFaults>>

-----------------------------------------------------------------------------
(* The outer except: retry_or_dlq, and only then the recipients.           *)

\* Mutant of Repush: the loop goes on without the recipients.
RepushBUG(w) ==
  /\ Retry(w) \/ MoveToDlq(w) \/ (RepushFails(w) /\ ~Exhausted(hand[w]))
  /\ UNCHANGED deliveryVars

\* retry_or_dlq returns, also when enqueue has swallowed an error: the job is
\* in other hands before its recipients are marked.
Repush(w) ==
  /\ Retry(w) \/ MoveToDlq(w) \/ (RepushFails(w) /\ ~Exhausted(hand[w]))
  /\ To(w, "mark all failed")
  /\ owed' = [owed EXCEPT ![w] = hand[w].msg]
  /\ UNCHANGED <<found, rest, stale, tokens, status, accepted, dead, dbFaults>>

\* Every recipient, those already delivered to included.
MarkAllFailed(w) ==
  /\ sub[w] = "mark all failed"
  /\ Mark(owed[w], User, "failed")
  /\ Forget(w)
  /\ UNCHANGED <<vars, tokens, accepted, dead, dbFaults>>

\* The exception leaves _process; so does one of retry_or_dlq itself.
MarkAllFails(w) ==
  /\ sub[w] = "mark all failed" /\ dbFaults < MaxDbFaults
  /\ dbFaults' = dbFaults + 1
  /\ Forget(w)
  /\ UNCHANGED <<vars, tokens, status, accepted, dead>>

DeadLetterFails(w) == RepushFails(w) /\ Exhausted(hand[w]) /\ UNCHANGED deliveryVars

-----------------------------------------------------------------------------
(* The rest of the queue, and the devices.                                 *)

StopWorker(w) ==
  /\ Stop(w)
  /\ Forget(w)
  /\ UNCHANGED <<tokens, status, accepted, dead, dbFaults>>

\* A user's app registers its token, again or for the first time.
Register(t) ==
  /\ t \notin tokens
  /\ tokens' = tokens \cup {t}
  /\ UNCHANGED <<vars, sub, found, rest, stale, owed, status, accepted, dead, dbFaults>>

Handler(w) ==
  \/ Begin(w) \/ Lookup(w) \/ LookupFails(w)
  \/ SendChunk(w) \/ SendFails(w) \/ SendDone(w)
  \/ MarkDelivered(w) \/ MarkTokenless(w) \/ MarkUnreachable(w)
  \/ Unmark(w) \/ UnmarkTokenless(w) \/ MarkFails(w)
  \/ CleanUp(w) \/ CleanUpFails(w) \/ Raise(w)
  \/ Repush(w) \/ MarkAllFailed(w) \/ MarkAllFails(w) \/ DeadLetterFails(w)

\* What the queue does besides: none of it touches a handler's variables.
QueueStep ==
  /\ \/ \E m \in Msg : Enqueue(m)
     \/ \E w \in Worker :
          \/ Start(w) \/ Recover(w)
          \/ sub[w] = "none" /\ DequeueReplyLost(w)
          \/ Ack(w) \/ AckFails(w) \/ AckReplyLost(w)
          \/ RetryAck(w) \/ RetryAckFails(w)
     \/ RequeueStart \/ Requeue \/ ClearDlq
     \/ RedisDown \/ RedisBack
  /\ UNCHANGED deliveryVars

SosNext ==
  \/ QueueStep
  \/ \E w \in Worker : Handler(w) \/ StopWorker(w)
  \/ \E t \in Token : Register(t)

SosSpec == SosInit /\ [][SosNext]_sosVars

-----------------------------------------------------------------------------
(* Properties.                                                             *)

SosTypeOK ==
  /\ TypeOK
  /\ sub \in [Worker -> Sub]
  /\ \A w \in Worker :
       /\ sub[w] \notin {"none", "mark all failed"} <=> step[w] = "delivering"
       /\ owed[w] # None <=> sub[w] = "mark all failed"
  /\ found \in [Worker -> SUBSET Token]
  /\ rest \in [Worker -> SUBSET Token] /\ stale \in [Worker -> SUBSET Token]
  /\ owed \in [Worker -> Msg \cup {None}]
  /\ tokens \in SUBSET Token /\ dead \in SUBSET Token
  /\ status \in [Msg -> [User -> Status]]
  /\ accepted \in [Token -> Nat]
  /\ dbFaults \in Nat

\* With the handler's steps in between, worker and queue still behave as
\* NotificationQueue says.
ImplementsQueue == Spec

\* A recipient shows as delivered only if Expo has taken or rejected a message
\* for one of its tokens, in some attempt: a token whose chunk was never sent,
\* or whose post failed, does not count, and a tokenless user is not delivered.
\* Tokens without an Expo prefix are the exception: nothing was posted then.
DeliveredWasPosted ==
  \A m \in Msg, u \in User :
    status[m][u] = "delivered" =>
      \E t \in Token : Owner[t] = u /\ (accepted[t] > 0 \/ t \in dead \/ t \notin ExpoToken)

\* The copies of the alerts: one for every enqueue, and one more each time a
\* recovery takes an entry from a worker that goes on with its job.
Issued == UNION {{m} \X (1..(published[m] + stolen[m])) : m \in Msg}

\* A device rings at most once per attempt of a copy of an alert: partial
\* sends and lost answers repeat it, nothing multiplies it.
RingsBounded ==
  stops = 0 /\ outages = 0 /\ requeues = 0 =>
    \A t \in Token : accepted[t] <= MaxDeliveryAttempts * Cardinality(Issued)

\* When a job is settled and no handler is at work on it, no recipient is left
\* "pending": each is delivered or failed, whichever steps failed on the way.
\* Only a failed database call, a stop or an outage leaves one.
AtWork(m) ==
  \/ m \in Payloads(queue) \cup Payloads(processing) \cup HeldBy(Holding) \cup PoppedPayloads
  \/ \E w \in Worker : owed[w] = m
NobodyPendingAfterwards ==
  dbFaults + stops + outages = 0 =>
    \A m \in Accepted : AtWork(m) \/ \A u \in User : status[m][u] # "pending"

\* A dead-lettered alert shows no recipient as delivered, once its worker has
\* marked them, if it was a single copy.
DeadLetterShowsFailed ==
  \A m \in Payloads(dlq) :
    published[m] + stolen[m] = 1 /\ dbFaults + stops = 0 /\ ~AtWork(m) =>
      \A u \in User : status[m][u] = "failed"

\* The worker deletes no token but those Expo has called not registered.
OnlyDeadTokensRemoved == [][tokens \ tokens' \subseteq dead]_sosVars
=============================================================================
