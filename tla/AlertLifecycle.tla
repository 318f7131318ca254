--------------------------- MODULE AlertLifecycle ---------------------------
(***************************************************************************)
(* AlertService: the requests of one creator and of the recipients of the  *)
(* alerts, each a database transaction of several statements (READ         *)
(* COMMITTED, no row is locked by a read) that tells others before it      *)
(* commits: create, respond, update_location, resolve.                     *)
(***************************************************************************)
EXTENDS Naturals, FiniteSets

CONSTANTS
  Slot,          \* requests in progress at the same time
  Alert,         \* the alerts the creator may raise
  Recipient,     \* the recipients of every alert
  Creator,       \* who raises them
  Answer,        \* response types
  Nothing,       \* no alert, user or answer
  MaxRequests    \* bound: requests that start

ASSUME AlertAssumption ==
  /\ Creator \notin Recipient
  /\ Nothing \notin Alert \cup Recipient \cup {Creator} \cup Answer
  /\ IsFiniteSet(Slot)
  /\ MaxRequests \in Nat

Person == Recipient \cup {Creator}

VARIABLES
  status,      \* alerts.status of committed alerts
  recent,      \* alerts created within the cooldown
  responses,   \* committed rows of alert_responses, with their row id
  located,     \* users with a location row younger than the throttle, per alert
  txn,         \* the request each slot is serving
  held,        \* database rows its transaction has written: others wait for them
  heard,       \* history: the answer the creator was last told, per recipient of
               \* an alert; Nothing if none, or if a mishap put it in doubt
  overlapped,  \* history: pairs of alerts created by overlapping requests
  requests     \* history: requests started

rows == <<status, recent, responses, located>>
historyVars == <<heard, overlapped>>
vars == <<rows, txn, held, historyVars, requests>>

Kind == {"create", "respond", "location", "resolve"}
Idle == [kind |-> "idle", at |-> "start", alert |-> Nothing, user |-> Nothing,
         answer |-> Nothing, seen |-> Nothing]
Key(a, u) == <<a, u>>
RowsOf(a, u) == {y \in responses : y.alert = a /\ y.user = u}
Stored(a, u) ==
  IF RowsOf(a, u) = {} THEN Nothing ELSE (CHOOSE y \in RowsOf(a, u) : TRUE).answer

Init ==
  /\ status = [a \in Alert |-> "none"]
  /\ recent = {} /\ responses = {}
  /\ located = {}
  /\ txn = [s \in Slot |-> Idle]
  /\ held = [s \in Slot |-> {}]
  /\ heard = [k \in Alert \X Recipient |-> Nothing]
  /\ overlapped = {}
  /\ requests = 0

-----------------------------------------------------------------------------
(* Transactions.                                                           *)

\* A request has read what it decides on, and written nothing yet. With an
\* alert, its responses are loaded, and the session keeps them as they were.
Begin(s, kind, a, u, x) ==
  /\ txn[s] = Idle /\ requests < MaxRequests
  /\ requests' = requests + 1
  /\ txn' = [txn EXCEPT ![s] =
               [kind |-> kind, at |-> "checked", alert |-> a, user |-> u, answer |-> x,
                seen |-> Stored(a, u)]]
  /\ UNCHANGED <<rows, held, heard>>

At(s, kind, at) == txn[s].kind = kind /\ txn[s].at = at
To(s, at) == txn' = [txn EXCEPT ![s].at = at]

\* Writing a row waits for the transactions that have written it and not ended.
Free(s, row) == \A t \in Slot \ {s} : row \notin held[t]

\* The request writes a row and goes on to `at`.
Write(s, row, at) ==
  /\ Free(s, row)
  /\ held' = [held EXCEPT ![s] = @ \cup {row}]
  /\ To(s, at)
  /\ UNCHANGED <<rows, historyVars, requests>>

\* Mutant of End: the rows stay locked, as if the session were never closed.
EndBUG(s) == txn' = [txn EXCEPT ![s] = Idle] /\ UNCHANGED held

End(s) == txn' = [txn EXCEPT ![s] = Idle] /\ held' = [held EXCEPT ![s] = {}]

Answering(s) == Key(txn[s].alert, txn[s].user)
Heard(s, x) == heard' = [heard EXCEPT ![Answering(s)] = x]
\* The request has told of an answer that it has yet to commit.
HasTold(s) == At(s, "respond", "insert told") \/ At(s, "respond", "update told")

\* An error: nothing is kept of the request, but what it has pushed or
\* broadcast stays so.
Rollback(s) ==
  /\ txn[s] # Idle
  /\ IF HasTold(s) THEN Heard(s, Nothing) ELSE UNCHANGED heard
  /\ End(s)
  /\ UNCHANGED <<rows, overlapped, requests>>

-----------------------------------------------------------------------------
(* create.                                                                 *)

Create(s, a) ==
  /\ status[a] = "none" /\ \A t \in Slot : txn[t].alert # a
  /\ Begin(s, "create", a, Creator, Nothing)
  /\ overlapped' = overlapped \cup
       {{a, txn[t].alert} : t \in {x \in Slot : txn[x].kind = "create"}}

\* Mutant of CreateCheck: no cooldown.
CreateCheckBUG(s, a) == Create(s, a)

\* recent_active_by_user sees committed alerts only.
CreateCheck(s, a) == (~ \E b \in recent : status[b] = "active") /\ Create(s, a)

\* The alert, the creator's last location, the recipients and the outbox row
\* are written, and the live channel hears of the alert.
CreateWrite(s) == At(s, "create", "checked") /\ Write(s, Key("user", Creator), "written")

CreateCommit(s) ==
  /\ At(s, "create", "written")
  /\ status' = [status EXCEPT ![txn[s].alert] = "active"]
  /\ recent' = recent \cup {txn[s].alert}
  /\ End(s)
  /\ UNCHANGED <<responses, located, historyVars, requests>>

\* The cooldown of an alert is over.
Age(a) ==
  /\ a \in recent /\ recent' = recent \ {a}
  /\ UNCHANGED <<status, responses, located, txn, held, historyVars, requests>>

-----------------------------------------------------------------------------
(* respond.                                                                *)

RespondCheck(s, a, r, x) ==
  status[a] = "active" /\ Begin(s, "respond", a, r, x) /\ UNCHANGED overlapped

Present(s) == RowsOf(txn[s].alert, txn[s].user)

\* get_response finds no row: the request will insert one.
RespondNew(s) ==
  /\ At(s, "respond", "checked") /\ Present(s) = {}
  /\ To(s, "inserting")
  /\ UNCHANGED <<rows, held, historyVars, requests>>

\* Mutant of RespondInsert: no unique constraint on the table.
RespondInsertBUG(s) ==
  At(s, "respond", "inserting") /\ Write(s, Key(txn[s].alert, s), "inserted")

\* The unique constraint makes the insert wait for another one of the same key,
\* and fail if that has committed.
RespondInsert(s) ==
  /\ At(s, "respond", "inserting") /\ Present(s) = {}
  /\ Write(s, Answering(s), "inserted")

RespondConflict(s) ==
  /\ At(s, "respond", "inserting") /\ Present(s) # {}
  /\ End(s)
  /\ UNCHANGED <<rows, historyVars, requests>>

\* The stored answer, as the session has it: loaded with the alert, or now.
Loaded(s) ==
  IF txn[s].seen # Nothing THEN txn[s].seen ELSE Stored(txn[s].alert, txn[s].user)

\* get_response finds the row of an earlier answer. Only columns that change
\* are updated: another answer, at most the minutes and the distance of the
\* same one, or nothing.
RespondFound(s) ==
  /\ At(s, "respond", "checked") /\ Present(s) # {}
  /\ IF Loaded(s) # txn[s].answer THEN To(s, "updating")
     ELSE To(s, "touching") \/ To(s, "repeated")
  /\ UNCHANGED <<rows, held, historyVars, requests>>

\* Mutant of RespondUpdate: the event is not flushed, so that the row is
\* written, and locked, by the commit only.
RespondUpdateBUG(s) ==
  /\ At(s, "respond", "updating") /\ To(s, "updated")
  /\ UNCHANGED <<rows, held, historyVars, requests>>

RespondUpdate(s) == At(s, "respond", "updating") /\ Write(s, Answering(s), "updated")
RespondTouch(s) == At(s, "respond", "touching") /\ Write(s, Answering(s), "touched")

Writing(s) == At(s, "respond", "inserted") \/ At(s, "respond", "updated")
Repeating(s) == At(s, "respond", "touched") \/ At(s, "respond", "repeated")
Told(s) ==
  To(s, CASE txn[s].at = "inserted" -> "insert told"
          [] txn[s].at = "updated"  -> "update told"
          [] OTHER                  -> "repeat told")

\* Who repeats an answer may tell of it after another one was stored, or told
\* by a request that is about to commit it.
Outdated(s) ==
  \/ Stored(txn[s].alert, txn[s].user) # txn[s].answer
  \/ \E t \in Slot \ {s} : HasTold(t) /\ Answering(t) = Answering(s)

\* enqueue_alert_response goes straight to Redis, not to the outbox; if Redis
\* does not answer, the error is swallowed, and the creator knows an older answer.
RespondTell(s) ==
  /\ \/ Writing(s) /\ (Heard(s, txn[s].answer) \/ Heard(s, Nothing))
     \/ Repeating(s) /\ (UNCHANGED heard
                          \/ Heard(s, IF Outdated(s) THEN Nothing ELSE txn[s].answer))
  /\ Told(s)
  /\ UNCHANGED <<rows, held, overlapped, requests>>

Answers(s) ==
  LET row == [id |-> s, alert |-> txn[s].alert, user |-> txn[s].user,
              answer |-> txn[s].answer]
  IN  IF At(s, "respond", "insert told")
      THEN responses \cup {row}
      ELSE {IF y \in Present(s) THEN [y EXCEPT !.answer = txn[s].answer] ELSE y : y \in responses}

Respond(s) ==
  /\ \/ HasTold(s) /\ responses' = Answers(s)
     \/ At(s, "respond", "repeat told") /\ UNCHANGED responses
  /\ End(s)
  /\ UNCHANGED <<recent, located, historyVars, requests>>

\* Mutant of RespondCommit: the alert is saved as it was read.
RespondCommitBUG(s) == Respond(s) /\ status' = [status EXCEPT ![txn[s].alert] = "active"]

\* Only columns the request has set are written: the alert's status is not.
RespondCommit(s) == Respond(s) /\ UNCHANGED status

-----------------------------------------------------------------------------
(* update_location, by the creator or a recipient.                         *)

LocationCheck(s, a, u) ==
  /\ status[a] = "active" /\ Key(a, u) \notin located
  /\ Begin(s, "location", a, u, Nothing) /\ UNCHANGED overlapped

\* The position is inserted, the user's last known one updated and broadcast.
LocationWrite(s) ==
  At(s, "location", "checked") /\ Write(s, Key("user", txn[s].user), "written")

LocationCommit(s) ==
  /\ At(s, "location", "written")
  /\ located' = located \cup {Key(txn[s].alert, txn[s].user)}
  /\ End(s)
  /\ UNCHANGED <<status, recent, responses, historyVars, requests>>

\* location_min_update_seconds have passed.
LocationAge(k) ==
  /\ k \in located /\ located' = located \ {k}
  /\ UNCHANGED <<status, recent, responses, txn, held, historyVars, requests>>

-----------------------------------------------------------------------------
(* resolve: of an active alert, or of a resolved one again.                *)

ResolveCheck(s, a) ==
  status[a] # "none" /\ Begin(s, "resolve", a, Creator, Nothing) /\ UNCHANGED overlapped

ResolveWrite(s) ==
  At(s, "resolve", "checked") /\ Write(s, Key("alert", txn[s].alert), "written")

ResolveCommit(s) ==
  /\ At(s, "resolve", "written")
  /\ status' = [status EXCEPT ![txn[s].alert] = "resolved"]
  /\ End(s)
  /\ UNCHANGED <<recent, responses, located, historyVars, requests>>

-----------------------------------------------------------------------------
Arrive(s) ==
  \E a \in Alert :
    \/ CreateCheck(s, a) \/ ResolveCheck(s, a)
    \/ \E r \in Recipient, x \in Answer : RespondCheck(s, a, r, x)
    \/ \E u \in Person : LocationCheck(s, a, u)

Proceed(s) ==
  \/ CreateWrite(s) \/ CreateCommit(s)
  \/ RespondNew(s) \/ RespondInsert(s) \/ RespondConflict(s)
  \/ RespondFound(s) \/ RespondUpdate(s) \/ RespondTouch(s)
  \/ RespondTell(s) \/ RespondCommit(s)
  \/ LocationWrite(s) \/ LocationCommit(s)
  \/ ResolveWrite(s) \/ ResolveCommit(s)

Next ==
  \/ \E s \in Slot : Arrive(s) \/ Proceed(s) \/ Rollback(s)
  \/ \E a \in Alert : Age(a)
  \/ \E k \in Alert \X Person : LocationAge(k)

Spec == Init /\ [][Next]_vars

\* The event loop runs every request on; nothing makes one arrive or fail.
FairSpec == Spec /\ \A s \in Slot : WF_vars(Proceed(s))

-----------------------------------------------------------------------------
(* Properties.                                                             *)

\* The rows a transaction may hold.
Row == {Key("user", u) : u \in Person} \cup {Key("alert", a) : a \in Alert}
         \cup {Key(a, u) : a \in Alert, u \in Person}

\* Where it may hold them.
WithRow == {"inserted", "insert told", "updated", "update told", "touched", "repeat told",
            "written"}

TypeOK ==
  /\ status \in [Alert -> {"none", "active", "resolved"}]
  /\ recent \subseteq {a \in Alert : status[a] # "none"}
  /\ responses \subseteq [id : Slot, alert : Alert, user : Recipient, answer : Answer]
  /\ located \subseteq Alert \X Person
  /\ txn \in [Slot -> {Idle} \cup
                [kind : Kind,
                 at : {"checked", "inserting", "updating", "touching"} \cup WithRow
                        \cup {"repeated"},
                 alert : Alert, user : Person,
                 answer : Answer \cup {Nothing}, seen : Answer \cup {Nothing}]]
  /\ \A s \in Slot : txn[s].kind = "respond" => txn[s].user \in Recipient /\ txn[s].answer \in Answer
  /\ held \in [Slot -> SUBSET Row]
  /\ \A s \in Slot : held[s] # {} => txn[s].at \in WithRow
  /\ heard \in [Alert \X Recipient -> Answer \cup {Nothing}]
  /\ requests \in 0..MaxRequests

\* A recipient who taps twice, in two requests at once, still has one answer.
OneResponseEach ==
  \A y, z \in responses : y.alert = z.alert /\ y.user = z.user => y = z

\* Whatever requests read the alert before it was resolved, and commit after
\* that, it stays resolved.
ResolvedIsFinal ==
  [][\A a \in Alert : status[a] = "resolved" => status'[a] = "resolved"]_vars

\* The cooldown does not stop two requests that check before either commits,
\* but it does stop any other second alert.
CooldownUnlessOverlapping ==
  \A a, b \in recent :
    a # b /\ status[a] = "active" /\ status[b] = "active" => {a, b} \in overlapped

\* What the creator was last told that a recipient answers is what
\* alert_responses says, or is about to say, although it is told before the
\* commit and several requests may answer for one person at once. Excepted are
\* a push that Redis lost, one whose request was rolled back, and one that
\* repeated an answer while another was on its way (Outdated).
HeardAnswersAreStored ==
  \A a \in Alert, r \in Recipient :
    LET x == heard[Key(a, r)]
    IN  \/ x = Nothing \/ \E y \in RowsOf(a, r) : y.answer = x
        \/ \E s \in Slot : HasTold(s) /\ Answering(s) = Key(a, r) /\ txn[s].answer = x

\* No request waits for a row for ever: no two wait for each other, and every
\* way a transaction ends gives its rows back.
EveryRequestEnds == \A s \in Slot : txn[s] # Idle ~> txn[s] = Idle
=============================================================================
