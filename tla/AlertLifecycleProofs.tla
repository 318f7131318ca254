------------------------ MODULE AlertLifecycleProofs ------------------------
(***************************************************************************)
(* Theorems of AlertLifecycle, for every number of requests in progress,   *)
(* alerts and recipients.                                                  *)
(***************************************************************************)
EXTENDS AlertLifecycle, FiniteSetTheorems, TLAPS

-----------------------------------------------------------------------------
(* Type correctness.                                                       *)

Request == [kind : Kind,
            at : {"checked", "inserting", "updating", "touching"} \cup WithRow \cup {"repeated"},
            alert : Alert, user : Person, answer : Answer \cup {Nothing},
            seen : Answer \cup {Nothing}]

\* The part of TypeOK about requests and their locks.
TxnOK ==
  /\ txn \in [Slot -> {Idle} \cup Request]
  /\ \A s \in Slot : txn[s].kind = "respond" => txn[s].user \in Recipient /\ txn[s].answer \in Answer
  /\ held \in [Slot -> SUBSET Row]
  /\ \A s \in Slot : held[s] # {} => txn[s].at \in WithRow

\* The rest of it.
RowsOK ==
  /\ status \in [Alert -> {"none", "active", "resolved"}]
  /\ recent \subseteq {a \in Alert : status[a] # "none"}
  /\ responses \subseteq [id : Slot, alert : Alert, user : Recipient, answer : Answer]
  /\ located \subseteq Alert \X Person
  /\ heard \in [Alert \X Recipient -> Answer \cup {Nothing}]
  /\ requests \in 0..MaxRequests

LEMMA TypeParts == (TypeOK <=> TxnOK /\ RowsOK) /\ (TypeOK' <=> TxnOK' /\ RowsOK')
BY DEF TypeOK, TxnOK, RowsOK, Request, WithRow

LEMMA BusyRequest ==
  ASSUME TxnOK, NEW s \in Slot, txn[s] # Idle
  PROVE  txn[s] \in Request
BY DEF TxnOK

\* A request that has got anywhere is not idle.
LEMMA AtIsBusy ==
  ASSUME TxnOK, NEW s \in Slot, txn[s].kind \in Kind
  PROVE  txn[s] # Idle /\ txn[s] \in Request
BY BusyRequest DEF Idle, Kind

LEMMA StoredType ==
  ASSUME RowsOK, NEW a, NEW u PROVE Stored(a, u) \in Answer \cup {Nothing}
BY DEF RowsOK, Stored, RowsOf

LEMMA TxnBegin ==
  ASSUME TxnOK, RowsOK, NEW s \in Slot, NEW kind \in Kind, NEW a \in Alert, NEW u \in Person,
         NEW x \in Answer \cup {Nothing}, kind = "respond" => u \in Recipient /\ x \in Answer,
         Begin(s, kind, a, u, x)
  PROVE  TxnOK'
<1> DEFINE r == [kind |-> kind, at |-> "checked", alert |-> a, user |-> u, answer |-> x,
                seen |-> Stored(a, u)]
<1>1. r \in Request BY StoredType DEF Request
<1>2. txn[s] = Idle /\ txn' = [txn EXCEPT ![s] = r] /\ UNCHANGED held BY DEF Begin
<1>3. held[s] = {}
  <2>1. txn[s].at \notin WithRow BY <1>2 DEF Idle, WithRow
  <2> QED BY <2>1 DEF TxnOK
<1>4. r.kind = "respond" => r.user \in Recipient /\ r.answer \in Answer OBVIOUS
<1> HIDE DEF r
<1> QED BY <1>1, <1>2, <1>3, <1>4 DEF TxnOK

LEMMA TxnEnd ==
  ASSUME TxnOK, NEW s \in Slot, End(s) PROVE TxnOK'
BY DEF TxnOK, End, Idle

LEMMA TxnTo ==
  ASSUME TxnOK, NEW s \in Slot, txn[s] # Idle, NEW at \in WithRow, To(s, at), UNCHANGED held
  PROVE  TxnOK'
BY DEF TxnOK, To, Request, WithRow

\* A step before the request writes anything.
LEMMA TxnGo ==
  ASSUME TxnOK, NEW s \in Slot, NEW kind \in Kind, At(s, kind, "checked"),
         NEW at \in {"inserting", "updating", "touching", "repeated"}, To(s, at), UNCHANGED held
  PROVE  TxnOK'
<1>1. txn[s] \in Request BY AtIsBusy DEF At
<1>2. held[s] = {} BY DEF At, TxnOK, WithRow
<1> QED BY <1>1, <1>2 DEF To, TxnOK, Request

LEMMA TxnWrite ==
  ASSUME TxnOK, NEW s \in Slot, txn[s] # Idle, NEW at \in WithRow, NEW row \in Row,
         Write(s, row, at)
  PROVE  TxnOK'
BY DEF TxnOK, Write, To, Request, WithRow

LEMMA BeginRequests ==
  ASSUME requests \in 0..MaxRequests, NEW s, NEW kind, NEW a, NEW u, NEW x,
         Begin(s, kind, a, u, x)
  PROVE  requests' \in 0..MaxRequests
BY AlertAssumption DEF Begin

LEMMA TypeInit == Init => TypeOK
<1> SUFFICES ASSUME Init PROVE TypeOK OBVIOUS
<1> USE DEF RowsOK
<1>1. TxnOK BY DEF Init, TxnOK, Idle
<1>2. requests \in 0..MaxRequests BY AlertAssumption DEF Init
<1>3. heard \in [Alert \X Recipient -> Answer \cup {Nothing}] BY DEF Init
<1> QED BY <1>1, <1>2, <1>3, TypeParts DEF Init

LEMMA TypeArrive ==
  ASSUME TypeOK, NEW s \in Slot, Arrive(s) PROVE TypeOK'
<1> USE DEF RowsOK
<1> DEFINE Begins ==
      \E kind \in Kind, a \in Alert, u \in Person, x \in Answer \cup {Nothing} :
        (kind = "respond" => u \in Recipient /\ x \in Answer) /\ Begin(s, kind, a, u, x)
<1>1. Begins
  <2>1. PICK a \in Alert :
          \/ CreateCheck(s, a) \/ ResolveCheck(s, a)
          \/ \E r \in Recipient, x \in Answer : RespondCheck(s, a, r, x)
          \/ \E u \in Person : LocationCheck(s, a, u)
    BY DEF Arrive
  <2>2. CASE CreateCheck(s, a)
    BY <2>2 DEF CreateCheck, Create, Kind, Person
  <2>3. CASE ResolveCheck(s, a)
    BY <2>3 DEF ResolveCheck, Kind, Person
  <2>4. ASSUME NEW r \in Recipient, NEW x \in Answer, RespondCheck(s, a, r, x) PROVE Begins
    BY <2>4 DEF RespondCheck, Kind, Person
  <2>5. ASSUME NEW u \in Person, LocationCheck(s, a, u) PROVE Begins
    BY <2>5 DEF LocationCheck, Kind
  <2> QED BY <2>1, <2>2, <2>3, <2>4, <2>5
<1>2. PICK kind \in Kind, a \in Alert, u \in Person, x \in Answer \cup {Nothing} :
        (kind = "respond" => u \in Recipient /\ x \in Answer) /\ Begin(s, kind, a, u, x)
  BY <1>1
<1>3. TxnOK' BY <1>2, TypeParts, TxnBegin
<1>4. requests' \in 0..MaxRequests BY <1>2, TypeParts, BeginRequests
<1>5. UNCHANGED <<rows, heard>> BY <1>2 DEF Begin
<1> QED BY <1>3, <1>4, <1>5, TypeParts DEF rows

LEMMA TypeRespond ==
  ASSUME TypeOK, NEW s \in Slot, Respond(s)
  PROVE  /\ responses' \subseteq [id : Slot, alert : Alert, user : Recipient, answer : Answer]
         /\ TxnOK'
<1> USE DEF RowsOK
<1>1. txn[s].kind = "respond" BY DEF Respond, HasTold, At
<1>2. txn[s] \in Request /\ txn[s].user \in Recipient /\ txn[s].answer \in Answer
  BY <1>1, TypeParts, AtIsBusy DEF Kind, TxnOK
<1>3. responses \subseteq [id : Slot, alert : Alert, user : Recipient, answer : Answer]
  BY TypeParts
<1>4. ASSUME NEW y \in responses
      PROVE  [y EXCEPT !.answer = txn[s].answer]
               \in [id : Slot, alert : Alert, user : Recipient, answer : Answer]
  BY <1>2, <1>3
<1>5. [id |-> s, alert |-> txn[s].alert, user |-> txn[s].user, answer |-> txn[s].answer]
        \in [id : Slot, alert : Alert, user : Recipient, answer : Answer]
  BY <1>2 DEF Request
<1>6. Answers(s) \subseteq [id : Slot, alert : Alert, user : Recipient, answer : Answer]
  BY <1>3, <1>4, <1>5 DEF Answers, Present, RowsOf
<1> QED BY <1>3, <1>6, TypeParts, TxnEnd DEF Respond

LEMMA TypeProceed ==
  ASSUME TypeOK, NEW s \in Slot, Proceed(s) PROVE TypeOK'
<1> USE DEF RowsOK, rows, historyVars
<1>t. TxnOK BY TypeParts
<1>k. ASSUME NEW kind \in Kind, NEW at, At(s, kind, at)
      PROVE  /\ txn[s] # Idle /\ txn[s].alert \in Alert /\ txn[s].user \in Person
             /\ Key("user", txn[s].user) \in Row /\ Key("alert", txn[s].alert) \in Row
             /\ Answering(s) \in Row
  <2>1. txn[s] # Idle /\ txn[s] \in Request BY <1>t, <1>k, AtIsBusy DEF At
  <2>2. txn[s].alert \in Alert /\ txn[s].user \in Person BY <2>1 DEF Request
  <2> QED BY <2>1, <2>2 DEF Row, Answering
<1>w. ASSUME NEW row \in Row, NEW at \in WithRow, Write(s, row, at), txn[s] # Idle
      PROVE  TypeOK'
  BY <1>w, <1>t, TxnWrite, TypeParts DEF Write
<1>1. CASE CreateWrite(s)
  <2>1. Key("user", Creator) \in Row BY DEF Row, Person
  <2> QED BY <1>1, <1>k, <1>w, <2>1 DEF CreateWrite, Kind, WithRow
<1>2. CASE CreateCommit(s)
  <2>1. txn[s].alert \in Alert BY <1>2, <1>k DEF CreateCommit, Kind
  <2>2. TxnOK' BY <1>2, <1>t, TxnEnd DEF CreateCommit
  <2>3. /\ status' \in [Alert -> {"none", "active", "resolved"}]
        /\ recent' \subseteq {a \in Alert : status'[a] # "none"}
    BY <1>2, <2>1, TypeParts DEF CreateCommit
  <2> QED BY <1>2, <2>2, <2>3, TypeParts DEF CreateCommit
<1>3. CASE RespondNew(s)
  BY <1>3, <1>t, TxnGo, TypeParts DEF RespondNew, Kind
<1>4. CASE RespondInsert(s)
  BY <1>4, <1>k, <1>w DEF RespondInsert, Kind, WithRow
<1>5. CASE RespondConflict(s)
  BY <1>5, <1>t, TxnEnd, TypeParts DEF RespondConflict
<1>f. CASE RespondFound(s)
  <2>1. TxnOK' BY <1>f, <1>t, TxnGo DEF RespondFound, Kind
  <2> QED BY <1>f, <2>1, TypeParts DEF RespondFound
<1>6. CASE RespondUpdate(s)
  BY <1>6, <1>k, <1>w DEF RespondUpdate, Kind, WithRow
<1>o. CASE RespondTouch(s)
  BY <1>o, <1>k, <1>w DEF RespondTouch, Kind, WithRow
<1>7. CASE RespondTell(s)
  <2>1. txn[s].kind = "respond" BY <1>7 DEF RespondTell, Writing, Repeating, At
  <2>2. txn[s] # Idle /\ txn[s] \in Request /\ txn[s].answer \in Answer
    BY <2>1, <1>t, AtIsBusy DEF Kind, TxnOK
  <2>3. heard' \in [Alert \X Recipient -> Answer \cup {Nothing}]
    BY <1>7, <2>2, TypeParts DEF RespondTell, Heard
  <2>4. PICK at \in WithRow : To(s, at) BY <1>7 DEF RespondTell, Told, WithRow
  <2>5. TxnOK' BY <1>7, <1>t, <2>2, <2>4, TxnTo DEF RespondTell
  <2> QED BY <1>7, <2>3, <2>5, TypeParts DEF RespondTell
<1>8. CASE RespondCommit(s)
  <2>1. Respond(s) /\ UNCHANGED status BY <1>8 DEF RespondCommit
  <2> QED BY <2>1, TypeRespond, TypeParts DEF Respond
<1>9. CASE LocationWrite(s)
  BY <1>9, <1>k, <1>w DEF LocationWrite, Kind, WithRow
<1>10. CASE LocationCommit(s)
  <2>1. Key(txn[s].alert, txn[s].user) \in Alert \X Person
    BY <1>10, <1>k DEF LocationCommit, Kind, Key
  <2> QED BY <1>10, <1>t, <2>1, TxnEnd, TypeParts DEF LocationCommit
<1>11. CASE ResolveWrite(s)
  BY <1>11, <1>k, <1>w DEF ResolveWrite, Kind, WithRow
<1>12. CASE ResolveCommit(s)
  <2>1. txn[s].alert \in Alert BY <1>12, <1>k DEF ResolveCommit, Kind
  <2>2. TxnOK' BY <1>12, <1>t, TxnEnd DEF ResolveCommit
  <2>3. /\ status' \in [Alert -> {"none", "active", "resolved"}]
        /\ recent' \subseteq {a \in Alert : status'[a] # "none"}
    BY <1>12, <2>1, TypeParts DEF ResolveCommit
  <2> QED BY <1>12, <2>2, <2>3, TypeParts DEF ResolveCommit
<1> QED BY <1>1, <1>2, <1>3, <1>4, <1>5, <1>f, <1>6, <1>o, <1>7, <1>8, <1>9, <1>10, <1>11,
           <1>12 DEF Proceed

LEMMA TypeNext == TypeOK /\ [Next]_vars => TypeOK'
<1> SUFFICES ASSUME TypeOK, [Next]_vars PROVE TypeOK' OBVIOUS
<1> USE DEF RowsOK, rows, historyVars
<1>1. ASSUME NEW s \in Slot, Rollback(s) PROVE TypeOK'
  <2>1. heard' \in [Alert \X Recipient -> Answer \cup {Nothing}]
    BY <1>1, TypeParts DEF Rollback, Heard
  <2> QED BY <1>1, <2>1, TxnEnd, TypeParts DEF Rollback
<1>2. ASSUME NEW a \in Alert, Age(a) PROVE TypeOK'
  BY <1>2, TypeParts DEF Age, TxnOK
<1>3. ASSUME NEW k \in Alert \X Person, LocationAge(k) PROVE TypeOK'
  BY <1>3, TypeParts DEF LocationAge, TxnOK
<1>4. CASE UNCHANGED vars BY <1>4, TypeParts DEF vars, TxnOK
<1> QED BY <1>1, <1>2, <1>3, <1>4, TypeArrive, TypeProceed DEF Next

\* Requests keep to their steps, only those that have written hold rows, and
\* what is committed is about alerts that exist.
THEOREM TypeCorrect == Spec => []TypeOK
BY TypeInit, TypeNext, PTL DEF Spec

-----------------------------------------------------------------------------
(* One answer each. A request that inserts an answer has the key of the    *)
(* unique constraint to itself from the insert to its end, and found no    *)
(* committed row of it: that is what keeps the commit from adding another. *)

Inserted == {"inserted", "insert told"}
Answered == Inserted \cup {"updated", "update told"}

LocksExclude == \A s, t \in Slot : s # t => held[s] \cap held[t] = {}
AnswersHold ==
  \A s \in Slot : txn[s].kind = "respond" /\ txn[s].at \in Answered => Answering(s) \in held[s]
InsertsAreNew ==
  \A s \in Slot : txn[s].kind = "respond" /\ txn[s].at \in Inserted => Present(s) = {}
AnswersInv == LocksExclude /\ AnswersHold /\ InsertsAreNew /\ OneResponseEach

\* The requests go on, responses are as they were.
LEMMA AnswersBegin ==
  ASSUME TxnOK, AnswersInv, NEW s \in Slot, NEW kind, NEW a, NEW u, NEW x,
         Begin(s, kind, a, u, x)
  PROVE  AnswersInv'
<1>1. /\ txn' = [txn EXCEPT ![s] = [kind |-> kind, at |-> "checked", alert |-> a, user |-> u,
                                    answer |-> x, seen |-> Stored(a, u)]]
      /\ UNCHANGED <<responses, held>>
  BY DEF Begin, rows
<1>2. txn'[s].at = "checked" /\ \A t \in Slot \ {s} : txn'[t] = txn[t]
  <2>1. txn \in [Slot -> {Idle} \cup Request] BY DEF TxnOK
  <2> QED BY <1>1, <2>1
<1>3. LocksExclude' /\ OneResponseEach'
  BY <1>1 DEF AnswersInv, LocksExclude, OneResponseEach
<1>4. AnswersHold'
  <2> SUFFICES ASSUME NEW t \in Slot, txn'[t].kind = "respond", txn'[t].at \in Answered
               PROVE  Answering(t)' \in held'[t]
    BY DEF AnswersHold
  <2>1. t # s BY <1>2 DEF Answered, Inserted
  <2> QED BY <1>1, <1>2, <2>1 DEF AnswersInv, AnswersHold, Answering
<1>5. InsertsAreNew'
  <2> SUFFICES ASSUME NEW t \in Slot, txn'[t].kind = "respond", txn'[t].at \in Inserted
               PROVE  Present(t)' = {}
    BY DEF InsertsAreNew
  <2>1. t # s BY <1>2 DEF Inserted
  <2> QED BY <1>1, <1>2, <2>1 DEF AnswersInv, InsertsAreNew, Present, RowsOf
<1> QED BY <1>3, <1>4, <1>5 DEF AnswersInv

LEMMA AnswersEnd ==
  ASSUME TxnOK, AnswersInv, NEW s \in Slot, End(s), UNCHANGED responses
  PROVE  AnswersInv'
<1>1. txn'[s].kind = "idle" /\ \A t \in Slot \ {s} : txn'[t] = txn[t] /\ held'[t] = held[t]
  BY DEF End, TxnOK, Idle
<1>2. held'[s] = {} BY DEF End, TxnOK
<1>3. LocksExclude' /\ OneResponseEach'
  BY <1>1, <1>2 DEF AnswersInv, LocksExclude, OneResponseEach
<1>4. AnswersHold' BY <1>1 DEF AnswersInv, AnswersHold, Answering
<1>5. InsertsAreNew' BY <1>1 DEF AnswersInv, InsertsAreNew, Present, RowsOf
<1> QED BY <1>3, <1>4, <1>5 DEF AnswersInv

\* Whatever is written, the locks stay exclusive and those of others are kept.
LEMMA LocksWrite ==
  ASSUME TxnOK, LocksExclude, NEW s \in Slot, NEW row, NEW at, Write(s, row, at)
  PROVE  /\ LocksExclude'
         /\ row \in held'[s] /\ held[s] \subseteq held'[s]
         /\ \A t \in Slot \ {s} : held'[t] = held[t] /\ txn'[t] = txn[t]
         /\ txn[s] \in Request => txn'[s] = [txn[s] EXCEPT !.at = at]
         /\ UNCHANGED responses
<1>1. /\ held' = [held EXCEPT ![s] = @ \cup {row}]
      /\ txn' = [txn EXCEPT ![s].at = at]
      /\ UNCHANGED responses
      /\ \A t \in Slot \ {s} : row \notin held[t]
  BY DEF Write, To, Free, rows
<1>2. held'[s] = held[s] \cup {row} /\ \A t \in Slot \ {s} : held'[t] = held[t]
  BY <1>1 DEF TxnOK
<1>3. LocksExclude' BY <1>1, <1>2 DEF LocksExclude
<1> QED BY <1>1, <1>2, <1>3 DEF TxnOK

LEMMA AnswersWrite ==
  ASSUME TxnOK, AnswersInv, NEW s \in Slot, txn[s] \in Request, NEW row, NEW at, Write(s, row, at),
         txn[s].kind = "respond" => row = Answering(s) /\ (at \in Inserted => Present(s) = {})
  PROVE  AnswersInv'
<1>1. /\ LocksExclude' /\ row \in held'[s] /\ held[s] \subseteq held'[s]
      /\ \A t \in Slot \ {s} : held'[t] = held[t] /\ txn'[t] = txn[t]
      /\ txn'[s] = [txn[s] EXCEPT !.at = at]
      /\ UNCHANGED responses
  BY LocksWrite DEF AnswersInv
<1>2. /\ txn'[s].kind = txn[s].kind /\ txn'[s].at = at
      /\ txn'[s].alert = txn[s].alert /\ txn'[s].user = txn[s].user
  BY <1>1 DEF Request
<1>3. AnswersHold'
  <2> SUFFICES ASSUME NEW t \in Slot, txn'[t].kind = "respond", txn'[t].at \in Answered
               PROVE  Answering(t)' \in held'[t]
    BY DEF AnswersHold
  <2>1. CASE t = s BY <1>1, <1>2, <2>1 DEF AnswersInv, AnswersHold, Answering
  <2>2. CASE t # s BY <1>1, <2>2 DEF AnswersInv, AnswersHold, Answering
  <2> QED BY <2>1, <2>2
<1>4. InsertsAreNew'
  <2> SUFFICES ASSUME NEW t \in Slot, txn'[t].kind = "respond", txn'[t].at \in Inserted
               PROVE  Present(t)' = {}
    BY DEF InsertsAreNew
  <2>1. CASE t = s
    <3>1. Present(t)' = Present(s) BY <1>1, <1>2, <2>1 DEF Present, RowsOf
    <3>2. Present(s) = {} BY <1>2, <2>1 DEF AnswersInv, InsertsAreNew
    <3> QED BY <3>1, <3>2
  <2>2. CASE t # s BY <1>1, <2>2 DEF AnswersInv, InsertsAreNew, Present, RowsOf
  <2> QED BY <2>1, <2>2
<1>5. OneResponseEach' BY <1>1 DEF AnswersInv, OneResponseEach
<1> QED BY <1>1, <1>3, <1>4, <1>5 DEF AnswersInv

\* A step of the request that neither writes nor ends.
LEMMA AnswersTo ==
  ASSUME TxnOK, AnswersInv, NEW s \in Slot, txn[s] \in Request, NEW at, To(s, at),
         UNCHANGED <<held, responses>>,
         at \in Answered => txn[s].at \in Answered, at \in Inserted => txn[s].at \in Inserted
  PROVE  AnswersInv'
<1>1. /\ txn'[s] = [txn[s] EXCEPT !.at = at]
      /\ \A t \in Slot \ {s} : txn'[t] = txn[t]
  BY DEF To, TxnOK
<1>2. /\ txn'[s].kind = txn[s].kind /\ txn'[s].at = at
      /\ txn'[s].alert = txn[s].alert /\ txn'[s].user = txn[s].user
  BY <1>1 DEF Request
<1>3. AnswersHold'
  <2> SUFFICES ASSUME NEW t \in Slot, txn'[t].kind = "respond", txn'[t].at \in Answered
               PROVE  Answering(t)' \in held'[t]
    BY DEF AnswersHold
  <2>1. CASE t = s BY <1>1, <1>2, <2>1 DEF AnswersInv, AnswersHold, Answering
  <2>2. CASE t # s BY <1>1, <2>2 DEF AnswersInv, AnswersHold, Answering
  <2> QED BY <2>1, <2>2
<1>4. InsertsAreNew'
  <2> SUFFICES ASSUME NEW t \in Slot, txn'[t].kind = "respond", txn'[t].at \in Inserted
               PROVE  Present(t)' = {}
    BY DEF InsertsAreNew
  <2>1. CASE t = s
    <3>1. Present(t)' = Present(s) BY <1>1, <1>2, <2>1 DEF Present, RowsOf
    <3>2. Present(s) = {} BY <1>2, <2>1 DEF AnswersInv, InsertsAreNew
    <3> QED BY <3>1, <3>2
  <2>2. CASE t # s BY <1>1, <2>2 DEF AnswersInv, InsertsAreNew, Present, RowsOf
  <2> QED BY <2>1, <2>2
<1> QED BY <1>3, <1>4 DEF AnswersInv, LocksExclude, OneResponseEach

\* What the commit of an answer leaves: the rows of other keys, and one row.
LEMMA RowsAfterRespond ==
  ASSUME RowsOK, TxnOK, AnswersInv, NEW s \in Slot, HasTold(s), responses' = Answers(s)
  PROVE  /\ OneResponseEach'
         /\ \A y \in responses' :
              (y.alert = txn[s].alert /\ y.user = txn[s].user)
                \/ \E z \in responses : z.alert = y.alert /\ z.user = y.user
<1> DEFINE a == txn[s].alert
           u == txn[s].user
           Old == responses
           row == [id |-> s, alert |-> a, user |-> u, answer |-> txn[s].answer]
           Changed(y) == [y EXCEPT !.answer = txn[s].answer]
<1>1. \A y \in Old : Changed(y).alert = y.alert /\ Changed(y).user = y.user
  BY DEF RowsOK
<1>2. \A y, z \in Old : y.alert = z.alert /\ y.user = z.user => y = z
  BY DEF AnswersInv, OneResponseEach
<1>3. CASE At(s, "respond", "insert told")
  <2>1. responses' = Old \cup {row} BY <1>3 DEF Answers
  <2>2. Present(s) = {} BY <1>3 DEF AnswersInv, InsertsAreNew, At, Inserted
  <2>3. \A y \in Old : ~ (y.alert = a /\ y.user = u) BY <2>2 DEF Present, RowsOf
  <2>4. row.alert = a /\ row.user = u OBVIOUS
  <2> HIDE DEF row
  <2> QED BY <1>2, <2>1, <2>3, <2>4 DEF OneResponseEach
<1>4. CASE ~ At(s, "respond", "insert told")
  <2>1. responses' = {IF y \in Present(s) THEN Changed(y) ELSE y : y \in Old}
    BY <1>4 DEF Answers
  <2>3. \A x \in responses' : \E y \in Old :
          /\ x.alert = y.alert /\ x.user = y.user
          /\ x = IF y \in Present(s) THEN Changed(y) ELSE y
    <3> HIDE DEF Changed
    <3> QED BY <1>1, <2>1
  <2> HIDE DEF Changed
  <2> QED BY <1>2, <2>3 DEF OneResponseEach
<1> QED BY <1>3, <1>4

LEMMA AnswersRespond ==
  ASSUME RowsOK, TxnOK, AnswersInv, NEW s \in Slot, Respond(s)
  PROVE  AnswersInv'
<1>0. CASE At(s, "respond", "repeat told") /\ UNCHANGED responses
  BY <1>0, AnswersEnd DEF Respond
<1> SUFFICES ASSUME HasTold(s), responses' = Answers(s) PROVE AnswersInv'
  BY <1>0 DEF Respond
<1>1. /\ End(s) /\ txn[s].kind = "respond" /\ txn[s].at \in Answered
  BY DEF Respond, HasTold, At, Answered, Inserted
<1>2. /\ txn'[s].kind = "idle" /\ held'[s] = {}
      /\ \A t \in Slot \ {s} : txn'[t] = txn[t] /\ held'[t] = held[t]
  BY <1>1 DEF End, TxnOK, Idle
<1>3. LocksExclude' BY <1>2 DEF AnswersInv, LocksExclude
<1>4. AnswersHold' BY <1>2 DEF AnswersInv, AnswersHold, Answering
<1>5. InsertsAreNew'
  <2> SUFFICES ASSUME NEW t \in Slot, txn'[t].kind = "respond", txn'[t].at \in Inserted,
                      NEW y \in responses', y.alert = txn'[t].alert, y.user = txn'[t].user
               PROVE  FALSE
    BY DEF InsertsAreNew, Present, RowsOf
  <2>1. t # s /\ txn'[t] = txn[t] BY <1>2
  <2>2. Present(t) = {} BY <2>1 DEF AnswersInv, InsertsAreNew
  <2>3. ~ \E z \in responses : z.alert = y.alert /\ z.user = y.user
    BY <2>1, <2>2 DEF Present, RowsOf
  <2>4. txn[s].alert = txn[t].alert /\ txn[s].user = txn[t].user
    BY <2>1, <2>3, RowsAfterRespond
  <2>5. Answering(s) = Answering(t) BY <2>4 DEF Answering
  <2>6. Answering(s) \in held[s] /\ Answering(t) \in held[t]
    BY <1>1, <2>1 DEF AnswersInv, AnswersHold, Answered
  <2> QED BY <2>1, <2>5, <2>6 DEF AnswersInv, LocksExclude
<1> QED BY <1>3, <1>4, <1>5, RowsAfterRespond DEF AnswersInv

LEMMA AnswersProceed ==
  ASSUME TypeOK, AnswersInv, NEW s \in Slot, Proceed(s) PROVE AnswersInv'
<1> USE DEF rows, historyVars
<1>t. TxnOK /\ RowsOK BY TypeParts
<1>k. ASSUME NEW kind \in Kind, NEW at, At(s, kind, at)
      PROVE  txn[s] \in Request /\ txn[s].kind = kind /\ txn[s].at = at
  BY <1>t, <1>k, AtIsBusy DEF At
<1>1. CASE CreateWrite(s) BY <1>1, <1>k, <1>t, AnswersWrite DEF CreateWrite, Kind
<1>2. CASE CreateCommit(s) BY <1>2, <1>t, AnswersEnd DEF CreateCommit
<1>3. CASE RespondNew(s)
  BY <1>3, <1>k, <1>t, AnswersTo DEF RespondNew, Kind, Answered, Inserted
<1>4. CASE RespondInsert(s) BY <1>4, <1>k, <1>t, AnswersWrite DEF RespondInsert, Kind
<1>5. CASE RespondConflict(s) BY <1>5, <1>t, AnswersEnd DEF RespondConflict
<1>f. CASE RespondFound(s)
  BY <1>f, <1>k, <1>t, AnswersTo DEF RespondFound, Kind, Answered, Inserted
<1>6. CASE RespondUpdate(s)
  <2>1. "updated" \notin Inserted BY DEF Inserted
  <2> QED BY <1>6, <2>1, <1>k, <1>t, AnswersWrite DEF RespondUpdate, Kind
<1>o. CASE RespondTouch(s)
  <2>1. "touched" \notin Inserted BY DEF Inserted
  <2> QED BY <1>o, <2>1, <1>k, <1>t, AnswersWrite DEF RespondTouch, Kind
<1>7. CASE RespondTell(s)
  <2>1. txn[s] \in Request BY <1>7, <1>k DEF RespondTell, Writing, Repeating, Kind
  <2>2. PICK at : /\ To(s, at)
                  /\ at \in Answered => txn[s].at \in Answered
                  /\ at \in Inserted => txn[s].at \in Inserted
    <3>1. CASE txn[s].at = "inserted"
      BY <1>7, <3>1 DEF RespondTell, Told, Answered, Inserted
    <3>2. CASE txn[s].at = "updated"
      <4>1. To(s, "update told") BY <1>7, <3>2 DEF RespondTell, Told, To
      <4>2. txn[s].at \in Answered /\ "update told" \notin Inserted
        BY <3>2 DEF Answered, Inserted
      <4> QED BY <4>1, <4>2
    <3>3. CASE txn[s].at \in {"touched", "repeated"}
      <4>1. To(s, "repeat told") BY <1>7, <3>3 DEF RespondTell, Told, To
      <4>2. "repeat told" \notin Answered /\ "repeat told" \notin Inserted
        BY DEF Answered, Inserted
      <4> QED BY <4>1, <4>2
    <3> QED BY <1>7, <3>1, <3>2, <3>3 DEF RespondTell, Writing, Repeating, At
  <2> QED BY <1>7, <1>t, <2>1, <2>2, AnswersTo DEF RespondTell
<1>8. CASE RespondCommit(s) BY <1>8, <1>t, AnswersRespond DEF RespondCommit
<1>9. CASE LocationWrite(s) BY <1>9, <1>k, <1>t, AnswersWrite DEF LocationWrite, Kind
<1>10. CASE LocationCommit(s) BY <1>10, <1>t, AnswersEnd DEF LocationCommit
<1>11. CASE ResolveWrite(s) BY <1>11, <1>k, <1>t, AnswersWrite DEF ResolveWrite, Kind
<1>12. CASE ResolveCommit(s) BY <1>12, <1>t, AnswersEnd DEF ResolveCommit
<1> QED BY <1>1, <1>2, <1>3, <1>4, <1>5, <1>f, <1>6, <1>o, <1>7, <1>8, <1>9, <1>10, <1>11,
           <1>12 DEF Proceed

LEMMA AnswersNext == TypeOK /\ AnswersInv /\ [Next]_vars => AnswersInv'
<1> SUFFICES ASSUME TypeOK, AnswersInv, [Next]_vars PROVE AnswersInv' OBVIOUS
<1> USE DEF rows, historyVars
<1>t. TxnOK BY TypeParts
<1>1. ASSUME NEW s \in Slot, Arrive(s) PROVE AnswersInv'
  <2>1. \E kind, a, u, x : Begin(s, kind, a, u, x)
    BY <1>1 DEF Arrive, CreateCheck, Create, ResolveCheck, RespondCheck, LocationCheck
  <2> QED BY <2>1, <1>t, AnswersBegin
<1>2. ASSUME NEW s \in Slot, Rollback(s) PROVE AnswersInv'
  BY <1>2, <1>t, AnswersEnd DEF Rollback
<1>3. ASSUME UNCHANGED <<responses, txn, held>> PROVE AnswersInv'
  <2>1. LocksExclude' /\ OneResponseEach'
    BY <1>3 DEF AnswersInv, LocksExclude, OneResponseEach
  <2>2. AnswersHold' BY <1>3 DEF AnswersInv, AnswersHold, Answering
  <2>3. InsertsAreNew' BY <1>3 DEF AnswersInv, InsertsAreNew, Present, RowsOf
  <2> QED BY <2>1, <2>2, <2>3 DEF AnswersInv
<1>4. ASSUME NEW a \in Alert, Age(a) PROVE AnswersInv' BY <1>3, <1>4 DEF Age
<1>5. ASSUME NEW k \in Alert \X Person, LocationAge(k) PROVE AnswersInv'
  BY <1>3, <1>5 DEF LocationAge
<1>6. CASE UNCHANGED vars BY <1>3, <1>6 DEF vars
<1> QED BY <1>1, <1>2, <1>4, <1>5, <1>6, AnswersProceed DEF Next

\* However many requests answer the same alert for the same person at once,
\* alert_responses keeps one row for them.
THEOREM OneResponseCorrect == Spec => []OneResponseEach
<1>1. Init => AnswersInv
  BY DEF Init, AnswersInv, LocksExclude, AnswersHold, InsertsAreNew, OneResponseEach, Idle
<1>2. AnswersInv => OneResponseEach BY DEF AnswersInv
<1> QED BY <1>1, <1>2, AnswersNext, TypeCorrect, PTL DEF Spec

-----------------------------------------------------------------------------
(* The lifecycle of an alert. A create is the only request about its       *)
(* alert until it commits; and the creates in progress overlap each other  *)
(* and every alert that became active after their look at the cooldown.    *)

FreshAlerts ==
  \A s \in Slot : txn[s].kind = "create" =>
    /\ status[txn[s].alert] = "none"
    /\ \A t \in Slot \ {s} : txn[t].alert # txn[s].alert

CreatesOverlap ==
  \A s \in Slot : txn[s].kind = "create" =>
    /\ \A t \in Slot \ {s} : txn[t].kind = "create" => {txn[s].alert, txn[t].alert} \in overlapped
    /\ \A b \in recent : status[b] = "active" => {txn[s].alert, b} \in overlapped

CreateInv == FreshAlerts /\ CreatesOverlap /\ CooldownUnlessOverlapping

LEMMA CreateArrive ==
  ASSUME TypeOK, CreateInv, NEW s \in Slot, NEW a \in Alert, CreateCheck(s, a)
  PROVE  CreateInv'
<1>t. TxnOK /\ RowsOK BY TypeParts
<1> DEFINE Creating == {x \in Slot : txn[x].kind = "create"}
<1>1. /\ status[a] = "none" /\ \A t \in Slot : txn[t].alert # a
      /\ \A b \in recent : status[b] # "active"
      /\ overlapped' = overlapped \cup {{a, txn[t].alert} : t \in Creating}
      /\ UNCHANGED <<status, recent>>
  BY DEF CreateCheck, Create, Begin, rows
<1>2. /\ txn[s] = Idle /\ txn'[s].kind = "create" /\ txn'[s].alert = a
      /\ \A t \in Slot \ {s} : txn'[t] = txn[t]
  BY <1>t DEF CreateCheck, Create, Begin, TxnOK
<1>3. FreshAlerts' BY <1>1, <1>2 DEF CreateInv, FreshAlerts
<1>4. CreatesOverlap'
  <2> SUFFICES ASSUME NEW x \in Slot, txn'[x].kind = "create"
               PROVE  /\ \A t \in Slot \ {x} : txn'[t].kind = "create" =>
                           {txn'[x].alert, txn'[t].alert} \in overlapped'
                      /\ \A b \in recent' : status'[b] = "active" =>
                           {txn'[x].alert, b} \in overlapped'
    BY DEF CreatesOverlap
  <2>1. \A b \in recent' : status'[b] # "active" BY <1>1
  <2>2. ASSUME NEW t \in Slot \ {x}, txn'[t].kind = "create"
        PROVE  {txn'[x].alert, txn'[t].alert} \in overlapped'
    <3>1. CASE x = s
      BY <1>1, <1>2, <2>2, <3>1
    <3>2. CASE t = s
      <4>1. {a, txn[x].alert} \in overlapped' BY <1>1, <1>2, <3>2
      <4>2. {txn'[x].alert, txn'[t].alert} = {a, txn[x].alert} BY <1>2, <3>2
      <4> QED BY <4>1, <4>2
    <3>3. CASE x # s /\ t # s
      BY <1>1, <1>2, <2>2, <3>3 DEF CreateInv, CreatesOverlap
    <3> QED BY <3>1, <3>2, <3>3
  <2> QED BY <2>1, <2>2
<1>5. CooldownUnlessOverlapping' BY <1>1 DEF CooldownUnlessOverlapping
<1> QED BY <1>3, <1>4, <1>5 DEF CreateInv

\* What a step may do to keep it: requests other than creates come and go,
\* alerts that are not being created are resolved, recent alerts get fewer.
LEMMA CreateKept ==
  ASSUME TxnOK, RowsOK, CreateInv, NEW s \in Slot,
         \A t \in Slot \ {s} : txn'[t] = txn[t],
         \/ txn'[s].alert = txn[s].alert /\ txn'[s].kind = txn[s].kind
         \/ txn'[s] = Idle
         \/ txn'[s].kind # "create" /\ status[txn'[s].alert] # "none",
         \A a \in Alert : \/ status'[a] = status[a]
                          \/ /\ status'[a] = "resolved"
                             /\ \A t \in Slot : txn[t].kind = "create" => txn[t].alert # a,
         recent' \subseteq recent, UNCHANGED overlapped
  PROVE  CreateInv'
<1>1. \A t \in Slot : txn'[t].kind = "create" =>
        txn[t].kind = "create" /\ txn'[t].alert = txn[t].alert /\ txn[t].alert \in Alert
  <2>1. ASSUME NEW t \in Slot, txn'[t].kind = "create"
        PROVE  txn[t].kind = "create" /\ txn'[t].alert = txn[t].alert
    <3>1. CASE t # s BY <2>1, <3>1
    <3>2. CASE t = s BY <2>1, <3>2 DEF Idle
    <3> QED BY <3>1, <3>2
  <2>2. ASSUME NEW t \in Slot, txn[t].kind = "create" PROVE txn[t].alert \in Alert
    BY <2>2, AtIsBusy DEF Kind, Request
  <2> QED BY <2>1, <2>2
<1>2. \A b \in recent' : status'[b] = "active" => b \in recent /\ status[b] = "active"
  BY DEF RowsOK
<1>3. FreshAlerts'
  <2> SUFFICES ASSUME NEW x \in Slot, txn'[x].kind = "create"
               PROVE  /\ status'[txn[x].alert] = "none"
                      /\ \A t \in Slot \ {x} : txn'[t].alert # txn[x].alert
    BY <1>1 DEF FreshAlerts
  <2>1. /\ status[txn[x].alert] = "none" /\ txn[x].alert \in Alert
        /\ \A t \in Slot \ {x} : txn[t].alert # txn[x].alert
    BY <1>1 DEF CreateInv, FreshAlerts
  <2>2. Idle.alert # txn[x].alert BY <2>1, AlertAssumption DEF Idle
  <2>3. status'[txn[x].alert] = "none" BY <1>1, <2>1
  <2>4. txn'[s].alert # txn[x].alert \/ s = x
    BY <2>1, <2>2
  <2> QED BY <2>1, <2>3, <2>4
<1>4. CreatesOverlap' BY <1>1, <1>2 DEF CreateInv, CreatesOverlap
<1>5. CooldownUnlessOverlapping' BY <1>2 DEF CreateInv, CooldownUnlessOverlapping
<1> QED BY <1>3, <1>4, <1>5 DEF CreateInv

LEMMA CreateCommitted ==
  ASSUME TypeOK, CreateInv, NEW s \in Slot, CreateCommit(s)
  PROVE  CreateInv' /\ status[txn[s].alert] = "none"
<1>t. TxnOK /\ RowsOK BY TypeParts
<1> DEFINE a == txn[s].alert
<1>1. txn[s].kind = "create" /\ a \in Alert
  BY <1>t, AtIsBusy DEF CreateCommit, At, Kind, Request
<1>2. /\ status[a] = "none" /\ \A t \in Slot \ {s} : txn[t].alert # a
      /\ \A t \in Slot \ {s} : txn[t].kind = "create" => {a, txn[t].alert} \in overlapped
      /\ \A b \in recent : status[b] = "active" => {a, b} \in overlapped
  BY <1>1 DEF CreateInv, FreshAlerts, CreatesOverlap
<1>3. /\ status' = [status EXCEPT ![a] = "active"] /\ recent' = recent \cup {a}
      /\ UNCHANGED overlapped
  BY DEF CreateCommit, historyVars
<1>4. /\ txn'[s] = Idle /\ Idle.kind = "idle" /\ Idle.alert = Nothing
      /\ \A t \in Slot \ {s} : txn'[t] = txn[t]
  BY <1>t DEF CreateCommit, End, TxnOK, Idle
<1>5. \A b \in Alert \ {a} : status'[b] = status[b] BY <1>3, <1>t DEF RowsOK
<1>6. \A t \in Slot : txn'[t].kind = "create" => t # s /\ txn[t].alert \in Alert \ {a}
  BY <1>2, <1>4, <1>t, AtIsBusy DEF Kind, Request
<1> HIDE DEF a
<1>7. FreshAlerts'
  <2> SUFFICES ASSUME NEW x \in Slot, txn'[x].kind = "create"
               PROVE  /\ status'[txn'[x].alert] = "none"
                      /\ \A t \in Slot \ {x} : txn'[t].alert # txn'[x].alert
    BY DEF FreshAlerts
  <2>1. /\ txn'[x] = txn[x] /\ txn[x].alert \in Alert \ {a} /\ status[txn[x].alert] = "none"
        /\ \A t \in Slot \ {x} : txn[t].alert # txn[x].alert
    BY <1>4, <1>6 DEF CreateInv, FreshAlerts
  <2>2. txn[x].alert # Nothing BY <2>1, AlertAssumption
  <2> QED BY <1>4, <1>5, <2>1, <2>2
<1>8. CreatesOverlap'
  <2> SUFFICES ASSUME NEW x \in Slot, txn'[x].kind = "create"
               PROVE  /\ \A t \in Slot \ {x} : txn'[t].kind = "create" =>
                           {txn'[x].alert, txn'[t].alert} \in overlapped
                      /\ \A b \in recent' : status'[b] = "active" =>
                           {txn'[x].alert, b} \in overlapped
    BY <1>3 DEF CreatesOverlap
  <2>1. x # s /\ txn'[x] = txn[x] BY <1>4, <1>6
  <2>2. \A t \in Slot \ {x} : txn'[t].kind = "create" => {txn[x].alert, txn'[t].alert} \in overlapped
    BY <1>4, <1>6, <2>1 DEF CreateInv, CreatesOverlap
  <2>3. ASSUME NEW b \in recent', status'[b] = "active" PROVE {txn[x].alert, b} \in overlapped
    <3>1. CASE b = a
      <4>1. {a, txn[x].alert} \in overlapped BY <1>2, <2>1
      <4>2. {txn[x].alert, a} = {a, txn[x].alert} OBVIOUS
      <4> QED BY <3>1, <4>1, <4>2
    <3>2. CASE b # a
      <4>1. b \in recent /\ status[b] = "active"
        BY <1>3, <1>5, <1>t, <2>3, <3>2 DEF RowsOK
      <4> QED BY <2>1, <4>1 DEF CreateInv, CreatesOverlap
    <3> QED BY <3>1, <3>2
  <2> QED BY <2>1, <2>2, <2>3
<1>9. CooldownUnlessOverlapping'
  <2> SUFFICES ASSUME NEW b \in recent', NEW c \in recent', b # c,
                      status'[b] = "active", status'[c] = "active"
               PROVE  {b, c} \in overlapped
    BY <1>3 DEF CooldownUnlessOverlapping
  <2>1. \A d \in recent' \ {a} : status'[d] = "active" => d \in recent /\ status[d] = "active"
    BY <1>3, <1>5, <1>t DEF RowsOK
  <2>2. CASE b = a BY <1>2, <2>1, <2>2
  <2>3. CASE c = a
    <3>1. {a, b} \in overlapped BY <1>2, <2>1, <2>3
    <3>2. {b, c} = {a, b} BY <2>3
    <3> QED BY <3>1, <3>2
  <2>4. CASE b # a /\ c # a
    BY <2>1, <2>4 DEF CreateInv, CooldownUnlessOverlapping
  <2> QED BY <2>2, <2>3, <2>4
<1> QED BY <1>2, <1>7, <1>8, <1>9 DEF CreateInv, a

LEMMA CreateProceed ==
  ASSUME TypeOK, CreateInv, NEW s \in Slot, Proceed(s) PROVE CreateInv'
<1> USE DEF rows, historyVars
<1>t. TxnOK /\ RowsOK BY TypeParts
<1>e. ASSUME End(s), UNCHANGED <<status, recent, overlapped>> PROVE CreateInv'
  BY <1>e, <1>t, CreateKept DEF End, TxnOK
<1>g. ASSUME NEW at, To(s, at), txn[s] \in Request, UNCHANGED <<status, recent, overlapped>>
      PROVE  CreateInv'
  <2>1. /\ txn'[s].alert = txn[s].alert /\ txn'[s].kind = txn[s].kind
        /\ \A t \in Slot \ {s} : txn'[t] = txn[t]
    BY <1>g, <1>t DEF To, TxnOK, Request
  <2> QED BY <1>g, <1>t, <2>1, CreateKept
<1>k. ASSUME NEW kind \in Kind, NEW at, At(s, kind, at) PROVE txn[s] \in Request
  BY <1>t, <1>k, AtIsBusy DEF At
<1>1. CASE CreateWrite(s) BY <1>1, <1>k, <1>g DEF CreateWrite, Write, Kind
<1>2. CASE CreateCommit(s) BY <1>2, CreateCommitted
<1>3. CASE RespondNew(s) BY <1>3, <1>k, <1>g DEF RespondNew, Kind
<1>4. CASE RespondInsert(s) BY <1>4, <1>k, <1>g DEF RespondInsert, Write, Kind
<1>5. CASE RespondConflict(s) BY <1>5, <1>e DEF RespondConflict
<1>f. CASE RespondFound(s) BY <1>f, <1>k, <1>g DEF RespondFound, Kind
<1>6. CASE RespondUpdate(s) BY <1>6, <1>k, <1>g DEF RespondUpdate, Write, Kind
<1>o. CASE RespondTouch(s) BY <1>o, <1>k, <1>g DEF RespondTouch, Write, Kind
<1>7. CASE RespondTell(s)
  BY <1>7, <1>k, <1>g DEF RespondTell, Writing, Repeating, Told, Kind
<1>8. CASE RespondCommit(s) BY <1>8, <1>e DEF RespondCommit, Respond
<1>9. CASE LocationWrite(s) BY <1>9, <1>k, <1>g DEF LocationWrite, Write, Kind
<1>10. CASE LocationCommit(s) BY <1>10, <1>e DEF LocationCommit
<1>11. CASE ResolveWrite(s) BY <1>11, <1>k, <1>g DEF ResolveWrite, Write, Kind
<1>12. CASE ResolveCommit(s)
  <2>1. txn[s].kind = "resolve" /\ txn[s] \in Request
    BY <1>12, <1>k DEF ResolveCommit, At, Kind
  <2> DEFINE a == txn[s].alert
  <2>2. status' = [status EXCEPT ![a] = "resolved"] /\ UNCHANGED <<recent, overlapped>>
    BY <1>12 DEF ResolveCommit
  <2>3. txn'[s] = Idle /\ \A t \in Slot \ {s} : txn'[t] = txn[t]
    BY <1>12, <1>t DEF ResolveCommit, End, TxnOK
  <2>4. \A t \in Slot : txn[t].kind = "create" => txn[t].alert # a
    BY <2>1 DEF CreateInv, FreshAlerts
  <2> QED BY <1>t, <2>2, <2>3, <2>4, CreateKept DEF RowsOK
<1> QED BY <1>1, <1>2, <1>3, <1>4, <1>5, <1>f, <1>6, <1>o, <1>7, <1>8, <1>9, <1>10, <1>11,
           <1>12 DEF Proceed

LEMMA CreateNext == TypeOK /\ CreateInv /\ [Next]_vars => CreateInv'
<1> SUFFICES ASSUME TypeOK, CreateInv, [Next]_vars PROVE CreateInv' OBVIOUS
<1> USE DEF rows, historyVars
<1>t. TxnOK /\ RowsOK BY TypeParts
<1>1. ASSUME NEW s \in Slot, Arrive(s) PROVE CreateInv'
  <2>1. ASSUME NEW kind, NEW a, NEW u, NEW x, Begin(s, kind, a, u, x), UNCHANGED overlapped,
               kind # "create", status[a] # "none"
        PROVE  CreateInv'
    <3>1. /\ txn'[s].kind = kind /\ txn'[s].alert = a
          /\ \A t \in Slot \ {s} : txn'[t] = txn[t]
          /\ UNCHANGED <<status, recent>>
      BY <1>t, <2>1 DEF Begin, TxnOK
    <3> QED BY <1>t, <2>1, <3>1, CreateKept
  <2>2. ASSUME NEW a \in Alert, CreateCheck(s, a) PROVE CreateInv' BY <2>2, CreateArrive
  <2>3. ASSUME NEW a \in Alert, ResolveCheck(s, a) PROVE CreateInv'
    BY <2>1, <2>3 DEF ResolveCheck
  <2>4. ASSUME NEW a \in Alert, NEW r, NEW x, RespondCheck(s, a, r, x) PROVE CreateInv'
    BY <2>1, <2>4 DEF RespondCheck
  <2>5. ASSUME NEW a \in Alert, NEW u, LocationCheck(s, a, u) PROVE CreateInv'
    BY <2>1, <2>5 DEF LocationCheck
  <2> QED BY <1>1, <2>2, <2>3, <2>4, <2>5 DEF Arrive
<1>2. ASSUME NEW s \in Slot, Rollback(s) PROVE CreateInv'
  <2>1. txn'[s] = Idle /\ \A t \in Slot \ {s} : txn'[t] = txn[t]
    BY <1>2, <1>t DEF Rollback, End, TxnOK
  <2> QED BY <1>2, <1>t, <2>1, CreateKept DEF Rollback
<1>3. ASSUME UNCHANGED <<status, txn, overlapped>>, recent' \subseteq recent PROVE CreateInv'
  BY <1>3, <1>t DEF CreateInv, FreshAlerts, CreatesOverlap, CooldownUnlessOverlapping
<1>4. ASSUME NEW a \in Alert, Age(a) PROVE CreateInv' BY <1>3, <1>4 DEF Age
<1>5. ASSUME NEW k \in Alert \X Person, LocationAge(k) PROVE CreateInv'
  BY <1>3, <1>5 DEF LocationAge
<1>6. CASE UNCHANGED vars BY <1>3, <1>6 DEF vars
<1> QED BY <1>1, <1>2, <1>4, <1>5, <1>6, CreateProceed DEF Next

LEMMA CreateCorrect == Spec => []CreateInv
<1>1. Init => CreateInv
  BY DEF Init, CreateInv, FreshAlerts, CreatesOverlap, CooldownUnlessOverlapping, Idle
<1> QED BY <1>1, CreateNext, TypeCorrect, PTL DEF Spec

\* The cooldown lets through no second alert but those that requests raise
\* while others are still being raised.
THEOREM CooldownCorrect == Spec => []CooldownUnlessOverlapping
<1>1. CreateInv => CooldownUnlessOverlapping BY DEF CreateInv
<1> QED BY <1>1, CreateCorrect, PTL

\* No request that has read an alert before it was resolved, and writes after
\* that, brings it back: only a create writes "active", and it is the only
\* request about its alert.
THEOREM ResolvedCorrect == Spec => ResolvedIsFinal
<1> DEFINE Final == \A a \in Alert : status[a] = "resolved" => status'[a] = "resolved"
<1>1. TypeOK /\ CreateInv /\ [Next]_vars => [Final]_vars
  <2> SUFFICES ASSUME TypeOK, CreateInv, Next PROVE Final OBVIOUS
  <2> USE DEF rows, historyVars
  <2>t. TxnOK /\ RowsOK BY TypeParts
  <2>1. ASSUME UNCHANGED status PROVE Final BY <2>1
  <2>2. ASSUME NEW s \in Slot, Arrive(s) PROVE UNCHANGED status
    BY <2>2 DEF Arrive, CreateCheck, Create, ResolveCheck, RespondCheck, LocationCheck, Begin
  <2>3. ASSUME NEW s \in Slot, CreateCommit(s) PROVE Final
    <3>1. status' = [status EXCEPT ![txn[s].alert] = "active"] /\ status[txn[s].alert] = "none"
      BY <2>3, CreateCommitted DEF CreateCommit
    <3> QED BY <3>1, <2>t DEF RowsOK
  <2>4. ASSUME NEW s \in Slot, ResolveCommit(s) PROVE Final
    BY <2>4, <2>t DEF ResolveCommit, RowsOK
  <2>5. ASSUME NEW s \in Slot, Proceed(s), ~ CreateCommit(s), ~ ResolveCommit(s)
        PROVE  UNCHANGED status
    BY <2>5 DEF Proceed, CreateWrite, Write, RespondNew, RespondInsert, RespondConflict,
                RespondFound, RespondUpdate, RespondTouch, RespondTell, RespondCommit, LocationWrite, LocationCommit,
                ResolveWrite
  <2>6. ASSUME NEW s \in Slot, Rollback(s) PROVE UNCHANGED status BY <2>6 DEF Rollback
  <2>7. ASSUME NEW a, Age(a) PROVE UNCHANGED status BY <2>7 DEF Age
  <2>8. ASSUME NEW k, LocationAge(k) PROVE UNCHANGED status BY <2>8 DEF LocationAge
  <2> HIDE DEF Final
  <2> QED BY <2>1, <2>2, <2>3, <2>4, <2>5, <2>6, <2>7, <2>8 DEF Next
<1> QED BY <1>1, CreateCorrect, TypeCorrect, PTL DEF Spec, ResolvedIsFinal

-----------------------------------------------------------------------------
(* What the creator hears. A request tells of its answer while it has the  *)
(* row, so that no other one that changes the answer has told of its own   *)
(* and not ended: until the commit, what was last told is that answer, or  *)
(* in doubt. An update must also know that its row is still there.         *)

FoundAt == {"updating", "updated", "update told"}
FoundStay ==
  \A s \in Slot : txn[s].kind = "respond" /\ txn[s].at \in FoundAt => Present(s) # {}
ToldIsHeard ==
  \A s \in Slot : HasTold(s) => heard[Answering(s)] \in {Nothing, txn[s].answer}
HeardInv == FoundStay /\ ToldIsHeard /\ HeardAnswersAreStored

\* The property of one answer.
Agrees(a, r) ==
  \/ heard[Key(a, r)] = Nothing \/ \E y \in RowsOf(a, r) : y.answer = heard[Key(a, r)]
  \/ \E s \in Slot : HasTold(s) /\ Answering(s) = Key(a, r) /\ txn[s].answer = heard[Key(a, r)]

LEMMA AgreesAll ==
  /\ HeardAnswersAreStored <=> \A a \in Alert, r \in Recipient : Agrees(a, r)
  /\ HeardAnswersAreStored' <=> \A a \in Alert, r \in Recipient : Agrees(a, r)'
BY DEF HeardAnswersAreStored, Agrees

LEMMA AnsweringType ==
  ASSUME TxnOK, NEW s \in Slot, txn[s].kind = "respond"
  PROVE  /\ txn[s].alert \in Alert /\ txn[s].user \in Recipient /\ txn[s].answer \in Answer
         /\ Answering(s) \in Alert \X Recipient
<1>1. txn[s] \in Request BY AtIsBusy DEF Kind
<1> QED BY <1>1 DEF TxnOK, Request, Answering, Key

\* Two requests that have both written the answer of one person.
LEMMA OneAnswers ==
  ASSUME AnswersInv, NEW s \in Slot, NEW t \in Slot \ {s},
         txn[s].kind = "respond", txn[s].at \in Answered, HasTold(t)
  PROVE  Answering(t) # Answering(s)
<1>1. txn[t].kind = "respond" /\ txn[t].at \in Answered
  BY DEF HasTold, At, Answered, Inserted
<1>2. Answering(s) \in held[s] /\ Answering(t) \in held[t] BY <1>1 DEF AnswersInv, AnswersHold
<1>3. held[s] \cap held[t] = {} BY DEF AnswersInv, LocksExclude
<1> QED BY <1>2, <1>3

\* Steps of a request that has told of nothing, and does not.
LEMMA HeardAside ==
  ASSUME HeardInv, NEW s \in Slot, \A t \in Slot \ {s} : txn'[t] = txn[t],
         UNCHANGED <<responses, heard>>, ~ HasTold(s), ~ HasTold(s)',
         txn'[s].kind = "respond" /\ txn'[s].at \in FoundAt => Present(s)' # {}
  PROVE  HeardInv'
<1>1. \A t \in Slot \ {s} :
        /\ HasTold(t)' = HasTold(t) /\ Answering(t)' = Answering(t) /\ Present(t)' = Present(t)
  BY DEF HasTold, At, Answering, Present, RowsOf
<1>2. FoundStay' BY <1>1 DEF HeardInv, FoundStay
<1>3. ToldIsHeard' BY <1>1 DEF HeardInv, ToldIsHeard
<1>4. ASSUME NEW a \in Alert, NEW r \in Recipient PROVE Agrees(a, r)'
  <2>1. Agrees(a, r) BY AgreesAll DEF HeardInv
  <2>2. RowsOf(a, r)' = RowsOf(a, r) BY DEF RowsOf
  <2>3. \A t \in Slot : HasTold(t) => t # s /\ HasTold(t)' /\ Answering(t)' = Answering(t)
    BY <1>1
  <2> QED BY <2>1, <2>2, <2>3 DEF Agrees
<1> QED BY <1>2, <1>3, <1>4, AgreesAll DEF HeardInv

\* A step of the request that neither tells nor ends.
LEMMA HeardTo ==
  ASSUME TxnOK, HeardInv, NEW s \in Slot, txn[s] \in Request, NEW at, To(s, at),
         UNCHANGED <<responses, heard>>, ~ HasTold(s), at \notin {"insert told", "update told"},
         txn[s].kind = "respond" /\ at \in FoundAt => Present(s) # {}
  PROVE  HeardInv'
<1>1. /\ txn'[s] = [txn[s] EXCEPT !.at = at]
      /\ \A t \in Slot \ {s} : txn'[t] = txn[t]
  BY DEF To, TxnOK
<1>2. /\ txn'[s].kind = txn[s].kind /\ txn'[s].at = at
      /\ txn'[s].alert = txn[s].alert /\ txn'[s].user = txn[s].user
  BY <1>1 DEF Request
<1>3. ~ HasTold(s)' BY <1>2 DEF HasTold, At
<1>4. Present(s)' = Present(s) BY <1>2 DEF Present, RowsOf
<1> QED BY <1>1, <1>2, <1>3, <1>4, HeardAside

LEMMA HeardEnd ==
  ASSUME TxnOK, HeardInv, NEW s \in Slot, End(s), UNCHANGED <<responses, heard>>, ~ HasTold(s)
  PROVE  HeardInv'
<1>1. txn'[s].kind = "idle" /\ \A t \in Slot \ {s} : txn'[t] = txn[t]
  BY DEF End, TxnOK, Idle
<1>2. ~ HasTold(s)' BY <1>1 DEF HasTold, At
<1> QED BY <1>1, <1>2, HeardAside

LEMMA HeardTellWriting ==
  ASSUME TxnOK, RowsOK, AnswersInv, HeardInv, NEW s \in Slot, RespondTell(s), Writing(s)
  PROVE  HeardInv'
<1> DEFINE k == Answering(s)
           x == txn[s].answer
<1>1. /\ txn[s].kind = "respond" /\ txn[s].at \in Answered /\ ~ HasTold(s)
      /\ txn[s] \in Request
  BY AtIsBusy DEF Writing, At, HasTold, Answered, Inserted, Kind
<1>2. PICK v \in {x, Nothing} : heard' = [heard EXCEPT ![k] = v]
  BY DEF RespondTell, Writing, Repeating, Heard, At
<1>3. heard'[k] = v /\ \A j \in (Alert \X Recipient) \ {k} : heard'[j] = heard[j]
  BY <1>1, <1>2, AnsweringType DEF RowsOK
<1>4. PICK at \in {"insert told", "update told"} :
        To(s, at) /\ (at = "update told" => txn[s].at = "updated")
  BY DEF RespondTell, Told, Writing, At
<1>5. /\ txn'[s] = [txn[s] EXCEPT !.at = at] /\ \A t \in Slot \ {s} : txn'[t] = txn[t]
      /\ UNCHANGED responses
  BY <1>4 DEF To, TxnOK, RespondTell, rows
<1>6. /\ txn'[s].kind = "respond" /\ txn'[s].at = at /\ txn'[s].answer = x
      /\ txn'[s].alert = txn[s].alert /\ txn'[s].user = txn[s].user
  BY <1>1, <1>5 DEF Request
<1>7. HasTold(s)' /\ Answering(s)' = k /\ Present(s)' = Present(s)
  BY <1>5, <1>6 DEF HasTold, At, Answering, Present, RowsOf
<1>8. \A t \in Slot \ {s} :
        /\ HasTold(t)' = HasTold(t) /\ Answering(t)' = Answering(t) /\ Present(t)' = Present(t)
        /\ HasTold(t) => Answering(t) # k /\ Answering(t) \in Alert \X Recipient
  <2> SUFFICES ASSUME NEW t \in Slot \ {s}
               PROVE  /\ HasTold(t)' = HasTold(t) /\ Answering(t)' = Answering(t)
                      /\ Present(t)' = Present(t)
                      /\ HasTold(t) => Answering(t) # k /\ Answering(t) \in Alert \X Recipient
    OBVIOUS
  <2>1. HasTold(t)' = HasTold(t) /\ Answering(t)' = Answering(t) /\ Present(t)' = Present(t)
    BY <1>5 DEF HasTold, At, Answering, Present, RowsOf
  <2>2. HasTold(t) => Answering(t) # k BY <1>1, OneAnswers
  <2>3. HasTold(t) => Answering(t) \in Alert \X Recipient
    BY AnsweringType DEF HasTold, At
  <2> QED BY <2>1, <2>2, <2>3
<1> HIDE DEF k, x
<1>9. FoundStay'
  <2>1. txn'[s].at \in FoundAt => Present(s) # {}
    BY <1>1, <1>4, <1>6 DEF HeardInv, FoundStay, FoundAt
  <2> QED BY <1>5, <1>7, <1>8, <2>1 DEF HeardInv, FoundStay
<1>10. ToldIsHeard'
  <2> SUFFICES ASSUME NEW t \in Slot, HasTold(t)'
               PROVE  heard'[Answering(t)'] \in {Nothing, txn'[t].answer}
    BY DEF ToldIsHeard
  <2>1. CASE t = s BY <1>3, <1>6, <1>7, <2>1
  <2>2. CASE t # s
    <3>1. heard[Answering(t)] \in {Nothing, txn[t].answer}
      BY <1>8, <2>2 DEF HeardInv, ToldIsHeard
    <3>2. heard'[Answering(t)'] = heard[Answering(t)] BY <1>3, <1>8, <2>2
    <3> QED BY <1>5, <2>2, <3>1, <3>2
  <2> QED BY <2>1, <2>2
<1>11. ASSUME NEW a \in Alert, NEW r \in Recipient PROVE Agrees(a, r)'
  <2>1. CASE Key(a, r) = k
    <3>1. heard'[Key(a, r)] = Nothing \/ heard'[Key(a, r)] = x BY <1>3, <2>1
    <3>2. HasTold(s)' /\ Answering(s)' = Key(a, r) /\ txn'[s].answer = x BY <1>6, <1>7, <2>1
    <3> QED BY <3>1, <3>2 DEF Agrees
  <2>2. CASE Key(a, r) # k
    <3>1. heard'[Key(a, r)] = heard[Key(a, r)] BY <1>3, <2>2 DEF Key
    <3>2. RowsOf(a, r)' = RowsOf(a, r) BY <1>5 DEF RowsOf
    <3>3. Agrees(a, r) BY AgreesAll DEF HeardInv
    <3>4. \A t \in Slot : HasTold(t) => t # s BY <1>1
    <3> QED BY <1>5, <1>8, <3>1, <3>2, <3>3, <3>4 DEF Agrees
  <2> QED BY <2>1, <2>2
<1> QED BY <1>9, <1>10, <1>11, AgreesAll DEF HeardInv

LEMMA HeardTellRepeating ==
  ASSUME TxnOK, RowsOK, HeardInv, NEW s \in Slot, RespondTell(s), Repeating(s)
  PROVE  HeardInv'
<1> DEFINE k == Answering(s)
           x == txn[s].answer
<1>1. txn[s].kind = "respond" /\ ~ HasTold(s) /\ txn[s] \in Request /\ x \in Answer
  BY AtIsBusy, AnsweringType DEF Repeating, At, HasTold, Kind
<1>2. To(s, "repeat told") /\ UNCHANGED responses
  BY DEF RespondTell, Told, Repeating, At, rows
<1>3. CASE UNCHANGED heard BY <1>1, <1>2, <1>3, HeardTo DEF FoundAt
<1>4. CASE heard' = [heard EXCEPT ![k] = IF Outdated(s) THEN Nothing ELSE x]
  <2>1. /\ txn'[s] = [txn[s] EXCEPT !.at = "repeat told"]
        /\ \A t \in Slot \ {s} : txn'[t] = txn[t]
    BY <1>2 DEF To, TxnOK
  <2>2. txn'[s].at = "repeat told" BY <1>1, <2>1 DEF Request
  <2>3. ~ HasTold(s)' BY <2>2 DEF HasTold, At
  <2>4. \A t \in Slot \ {s} :
          /\ HasTold(t)' = HasTold(t) /\ Answering(t)' = Answering(t) /\ Present(t)' = Present(t)
    BY <1>2, <2>1 DEF HasTold, At, Answering, Present, RowsOf
  <2>5. /\ heard'[k] = IF Outdated(s) THEN Nothing ELSE x
        /\ \A j \in (Alert \X Recipient) \ {k} : heard'[j] = heard[j]
    BY <1>1, <1>4, AnsweringType DEF RowsOK
  <2>6. \A t \in Slot : HasTold(t) => t # s /\ Answering(t) \in Alert \X Recipient
    BY <1>1, AnsweringType DEF HasTold, At
  <2>7. ~ Outdated(s) =>
          /\ \E y \in Present(s) : y.answer = x
          /\ \A t \in Slot \ {s} : HasTold(t) => Answering(t) # k
    <3>1. ASSUME Stored(txn[s].alert, txn[s].user) = x PROVE \E y \in Present(s) : y.answer = x
      <4>1. Stored(txn[s].alert, txn[s].user) # Nothing BY <1>1, <3>1, AlertAssumption
      <4>2. Present(s) # {} BY <4>1 DEF Stored, Present
      <4>3. (CHOOSE y \in Present(s) : TRUE).answer = x BY <3>1, <4>2 DEF Stored, Present
      <4> QED BY <4>2, <4>3
    <3> QED BY <3>1 DEF Outdated
  <2>8. Present(s) = RowsOf(txn[s].alert, txn[s].user) /\ k = Key(txn[s].alert, txn[s].user)
    BY DEF Present, Answering
  <2> HIDE DEF k, x
  <2>9. FoundStay'
    <3>1. txn'[s].at \notin FoundAt BY <2>2 DEF FoundAt
    <3> QED BY <2>1, <2>4, <3>1 DEF HeardInv, FoundStay
  <2>10. ToldIsHeard'
    <3> SUFFICES ASSUME NEW t \in Slot, HasTold(t)'
                 PROVE  heard'[Answering(t)'] \in {Nothing, txn'[t].answer}
      BY DEF ToldIsHeard
    <3>1. t # s /\ HasTold(t) /\ Answering(t)' = Answering(t) /\ txn'[t] = txn[t]
      BY <2>1, <2>3, <2>4
    <3>2. heard[Answering(t)] \in {Nothing, txn[t].answer}
      BY <3>1 DEF HeardInv, ToldIsHeard
    <3>3. CASE Answering(t) = k BY <2>5, <2>7, <3>1, <3>3
    <3>4. CASE Answering(t) # k BY <2>5, <2>6, <3>1, <3>2, <3>4
    <3> QED BY <3>3, <3>4
  <2>11. ASSUME NEW a \in Alert, NEW r \in Recipient PROVE Agrees(a, r)'
    <3>1. RowsOf(a, r)' = RowsOf(a, r) BY <1>2 DEF RowsOf
    <3>2. CASE Key(a, r) = k
      <4>1. a = txn[s].alert /\ r = txn[s].user BY <2>8, <3>2 DEF Key
      <4>2. CASE Outdated(s) BY <2>5, <3>2, <4>2 DEF Agrees
      <4>3. CASE ~ Outdated(s) BY <2>5, <2>7, <2>8, <3>1, <3>2, <4>1, <4>3 DEF Agrees
      <4> QED BY <4>2, <4>3
    <3>3. CASE Key(a, r) # k
      <4>1. heard'[Key(a, r)] = heard[Key(a, r)] BY <2>5, <3>3 DEF Key
      <4>2. Agrees(a, r) BY AgreesAll DEF HeardInv
      <4> QED BY <2>1, <2>4, <2>6, <3>1, <4>1, <4>2 DEF Agrees
    <3> QED BY <3>2, <3>3
  <2> QED BY <2>9, <2>10, <2>11, AgreesAll DEF HeardInv
<1> QED BY <1>3, <1>4 DEF RespondTell, Writing, Repeating, Heard, At

\* A rollback after the telling leaves the creator in doubt.
LEMMA HeardRollback ==
  ASSUME TxnOK, RowsOK, HeardInv, NEW s \in Slot, Rollback(s)
  PROVE  HeardInv'
<1>1. CASE ~ HasTold(s) BY <1>1, HeardEnd DEF Rollback, rows
<1>2. CASE HasTold(s)
  <2> DEFINE k == Answering(s)
  <2>1. txn'[s] = Idle /\ \A t \in Slot \ {s} : txn'[t] = txn[t]
    BY DEF Rollback, End, TxnOK
  <2>2. UNCHANGED responses /\ heard' = [heard EXCEPT ![k] = Nothing]
    BY <1>2 DEF Rollback, Heard, rows
  <2>i. txn'[s].kind = "idle" BY <2>1 DEF Idle
  <2>a. \A t \in Slot \ {s} :
          HasTold(t)' = HasTold(t) /\ Answering(t)' = Answering(t) /\ Present(t)' = Present(t)
    BY <2>1, <2>2 DEF HasTold, At, Answering, Present, RowsOf
  <2>3. /\ ~ HasTold(s)' /\ txn'[s].kind # "respond"
        /\ \A t \in Slot \ {s} :
             HasTold(t)' = HasTold(t) /\ Answering(t)' = Answering(t) /\ Present(t)' = Present(t)
    BY <2>i, <2>a DEF HasTold, At
  <2>4. heard'[k] = Nothing /\ \A j \in (Alert \X Recipient) \ {k} : heard'[j] = heard[j]
    BY <1>2, <2>2, AnsweringType DEF RowsOK, HasTold, At
  <2>5. \A t \in Slot : HasTold(t) => Answering(t) \in Alert \X Recipient
    BY AnsweringType DEF HasTold, At
  <2> HIDE DEF k
  <2>6. FoundStay' BY <2>1, <2>3 DEF HeardInv, FoundStay
  <2>7. ToldIsHeard' BY <2>1, <2>3, <2>4, <2>5 DEF HeardInv, ToldIsHeard
  <2>8. ASSUME NEW a \in Alert, NEW r \in Recipient PROVE Agrees(a, r)'
    <3>1. CASE Key(a, r) = k BY <2>4, <3>1 DEF Agrees
    <3>2. CASE Key(a, r) # k
      <4>1. heard'[Key(a, r)] = heard[Key(a, r)] BY <2>4, <3>2 DEF Key
      <4>2. RowsOf(a, r)' = RowsOf(a, r) BY <2>2 DEF RowsOf
      <4>3. Agrees(a, r) BY AgreesAll DEF HeardInv
      <4> QED BY <2>1, <2>3, <3>2, <4>1, <4>2, <4>3 DEF Agrees, k
    <3> QED BY <3>1, <3>2
  <2> QED BY <2>6, <2>7, <2>8, AgreesAll DEF HeardInv
<1> QED BY <1>1, <1>2

\* The commit: the answer last told, or nothing, is now the stored one.
LEMMA HeardCommit ==
  ASSUME TxnOK, RowsOK, AnswersInv, HeardInv, NEW s \in Slot, End(s), HasTold(s),
         responses' = Answers(s), UNCHANGED heard
  PROVE  HeardInv'
<1> DEFINE k == Answering(s)
           x == txn[s].answer
<1>1. /\ txn[s].kind = "respond" /\ txn[s].at \in Answered /\ k \in Alert \X Recipient
  BY AnsweringType DEF HasTold, At, Answered, Inserted
<1>2. txn'[s] = Idle /\ \A t \in Slot \ {s} : txn'[t] = txn[t] BY DEF End, TxnOK
<1>i. txn'[s].kind = "idle" BY <1>2 DEF Idle
<1>3. /\ ~ HasTold(s)' /\ txn'[s].kind # "respond"
      /\ \A t \in Slot \ {s} : HasTold(t)' = HasTold(t) /\ Answering(t)' = Answering(t)
  BY <1>2, <1>i DEF HasTold, At, Answering
<1>4. heard[k] \in {Nothing, x} BY DEF HeardInv, ToldIsHeard
<1>5. \A t \in Slot \ {s} : HasTold(t) => Answering(t) # k BY <1>1, OneAnswers
<1> DEFINE row == [id |-> s, alert |-> txn[s].alert, user |-> txn[s].user, answer |-> x]
           Changed(y) == [y EXCEPT !.answer = x]
<1>6. \A y \in responses :
        /\ Changed(y).alert = y.alert /\ Changed(y).user = y.user /\ Changed(y).answer = x
  BY DEF RowsOK
<1>7. /\ \E y \in responses' : y.alert = txn[s].alert /\ y.user = txn[s].user /\ y.answer = x
      /\ \A y \in responses : \E z \in responses' :
           /\ z.alert = y.alert /\ z.user = y.user
           /\ y \notin Present(s) => z = y
  <2>1. CASE At(s, "respond", "insert told")
    <3>1. responses' = responses \cup {row} BY <2>1 DEF Answers
    <3>2. row.alert = txn[s].alert /\ row.user = txn[s].user /\ row.answer = x OBVIOUS
    <3> HIDE DEF row, x
    <3> QED BY <3>1, <3>2
  <2>2. CASE At(s, "respond", "update told")
    <3>1. ~ At(s, "respond", "insert told") BY <2>2 DEF At
    <3>2. responses' = {IF y \in Present(s) THEN Changed(y) ELSE y : y \in responses}
      BY <3>1 DEF Answers
    <3>3. Present(s) # {} BY <2>2 DEF HeardInv, FoundStay, FoundAt, At
    <3>4. \A y \in Present(s) :
            y \in responses /\ y.alert = txn[s].alert /\ y.user = txn[s].user
      BY DEF Present, RowsOf
    <3> HIDE DEF Changed, x
    <3> QED BY <1>6, <3>2, <3>3, <3>4
  <2> QED BY <2>1, <2>2 DEF HasTold
<1> HIDE DEF row, Changed
<1>8. FoundStay'
  <2> SUFFICES ASSUME NEW t \in Slot, txn'[t].kind = "respond", txn'[t].at \in FoundAt
               PROVE  \E z \in responses' : z.alert = txn'[t].alert /\ z.user = txn'[t].user
    BY DEF FoundStay, Present, RowsOf
  <2>1. t # s /\ txn'[t] = txn[t] BY <1>2, <1>3
  <2>2. Present(t) # {} BY <2>1 DEF HeardInv, FoundStay
  <2>3. PICK y \in responses : y.alert = txn[t].alert /\ y.user = txn[t].user
    BY <2>2 DEF Present, RowsOf
  <2> QED BY <1>7, <2>1, <2>3
<1>9. ToldIsHeard' BY <1>2, <1>3 DEF HeardInv, ToldIsHeard
<1>10. ASSUME NEW a \in Alert, NEW r \in Recipient PROVE Agrees(a, r)'
  <2>1. k = Key(txn[s].alert, txn[s].user) BY DEF Answering
  <2>2. Agrees(a, r) BY AgreesAll DEF HeardInv
  <2>3. CASE Key(a, r) = k
    <3>1. a = txn[s].alert /\ r = txn[s].user BY <2>1, <2>3 DEF Key
    <3>2. \E y \in RowsOf(a, r)' : y.answer = x BY <1>7, <3>1 DEF RowsOf
    <3> QED BY <1>4, <2>3, <3>2 DEF Agrees
  <2>4. CASE Key(a, r) # k
    <3>1. ~ (a = txn[s].alert /\ r = txn[s].user) BY <2>1, <2>4
    <3>2. \A y \in RowsOf(a, r) : y \in RowsOf(a, r)'
      <4> SUFFICES ASSUME NEW y \in RowsOf(a, r) PROVE y \in RowsOf(a, r)' OBVIOUS
      <4>1. y \in responses /\ y.alert = a /\ y.user = r BY DEF RowsOf
      <4>2. y \notin Present(s) BY <3>1, <4>1 DEF Present, RowsOf
      <4>3. y \in responses' BY <1>7, <4>1, <4>2
      <4> QED BY <4>1, <4>3 DEF RowsOf
    <3>3. \A t \in Slot : HasTold(t) /\ Answering(t) = Key(a, r) => t # s
      BY <2>4
    <3> HIDE DEF k
    <3> QED BY <1>2, <1>3, <2>2, <3>2, <3>3 DEF Agrees
  <2> QED BY <2>3, <2>4
<1> QED BY <1>8, <1>9, <1>10, AgreesAll DEF HeardInv

LEMMA HeardProceed ==
  ASSUME TypeOK, AnswersInv, HeardInv, NEW s \in Slot, Proceed(s) PROVE HeardInv'
<1> USE DEF rows, historyVars
<1>t. TxnOK /\ RowsOK BY TypeParts
<1>k. ASSUME NEW kind \in Kind, NEW at, At(s, kind, at),
             kind # "respond" \/ at \notin {"insert told", "update told"}
      PROVE  txn[s] \in Request /\ ~ HasTold(s) /\ txn[s].kind = kind /\ txn[s].at = at
  BY <1>t, <1>k, AtIsBusy DEF At, HasTold
<1>w. ASSUME NEW kind \in Kind, NEW from \in {"checked", "inserting", "updating", "touching"},
             At(s, kind, from), NEW row,
             NEW at \in {"inserted", "touched", "written"}, Write(s, row, at)
      PROVE  HeardInv'
  <2>1. at \notin FoundAt /\ at \notin {"insert told", "update told"} BY DEF FoundAt
  <2>2. To(s, at) /\ UNCHANGED <<responses, heard>> BY <1>w DEF Write
  <2>3. txn[s] \in Request /\ ~ HasTold(s) BY <1>w, <1>k
  <2> QED BY <1>t, <2>1, <2>2, <2>3, HeardTo
<1>1. CASE CreateWrite(s) BY <1>1, <1>w DEF CreateWrite, Kind
<1>2. CASE CreateCommit(s) BY <1>2, <1>t, <1>k, HeardEnd DEF CreateCommit, Kind
<1>3. CASE RespondNew(s)
  <2>1. "inserting" \notin FoundAt BY DEF FoundAt
  <2> QED BY <1>3, <1>t, <1>k, <2>1, HeardTo DEF RespondNew, Kind
<1>4. CASE RespondInsert(s) BY <1>4, <1>w DEF RespondInsert, Kind
<1>5. CASE RespondConflict(s) BY <1>5, <1>t, <1>k, HeardEnd DEF RespondConflict, Kind
<1>f. CASE RespondFound(s)
  <2>1. txn[s] \in Request /\ ~ HasTold(s) BY <1>f, <1>k DEF RespondFound, Kind
  <2>2. PICK at \in {"updating", "touching", "repeated"} : To(s, at)
    BY <1>f DEF RespondFound
  <2> QED BY <1>f, <1>t, <2>1, <2>2, HeardTo DEF RespondFound
<1>6. CASE RespondUpdate(s)
  <2>1. txn[s] \in Request /\ ~ HasTold(s) /\ txn[s].kind = "respond" /\ txn[s].at = "updating"
    BY <1>6, <1>k DEF RespondUpdate, Kind
  <2>2. Present(s) # {} BY <2>1 DEF HeardInv, FoundStay, FoundAt
  <2>3. To(s, "updated") /\ UNCHANGED <<responses, heard>> BY <1>6 DEF RespondUpdate, Write
  <2> QED BY <1>t, <2>1, <2>2, <2>3, HeardTo
<1>o. CASE RespondTouch(s) BY <1>o, <1>w DEF RespondTouch, Kind
<1>7. CASE RespondTell(s)
  BY <1>7, <1>t, HeardTellWriting, HeardTellRepeating DEF RespondTell
<1>8. CASE RespondCommit(s)
  <2>1. CASE At(s, "respond", "repeat told") /\ UNCHANGED responses
    BY <1>8, <1>t, <1>k, <2>1, HeardEnd DEF RespondCommit, Respond, Kind
  <2>2. CASE HasTold(s) /\ responses' = Answers(s)
    BY <1>8, <1>t, <2>2, HeardCommit DEF RespondCommit, Respond
  <2> QED BY <1>8, <2>1, <2>2 DEF RespondCommit, Respond
<1>9. CASE LocationWrite(s) BY <1>9, <1>w DEF LocationWrite, Kind
<1>10. CASE LocationCommit(s) BY <1>10, <1>t, <1>k, HeardEnd DEF LocationCommit, Kind
<1>11. CASE ResolveWrite(s) BY <1>11, <1>w DEF ResolveWrite, Kind
<1>12. CASE ResolveCommit(s) BY <1>12, <1>t, <1>k, HeardEnd DEF ResolveCommit, Kind
<1> QED BY <1>1, <1>2, <1>3, <1>4, <1>5, <1>f, <1>6, <1>o, <1>7, <1>8, <1>9, <1>10, <1>11,
           <1>12 DEF Proceed

LEMMA HeardNext == TypeOK /\ AnswersInv /\ HeardInv /\ [Next]_vars => HeardInv'
<1> SUFFICES ASSUME TypeOK, AnswersInv, HeardInv, [Next]_vars PROVE HeardInv' OBVIOUS
<1> USE DEF rows, historyVars
<1>t. TxnOK /\ RowsOK BY TypeParts
<1>1. ASSUME NEW s \in Slot, Arrive(s) PROVE HeardInv'
  <2>1. PICK kind, a, u, x : Begin(s, kind, a, u, x)
    BY <1>1 DEF Arrive, CreateCheck, Create, ResolveCheck, RespondCheck, LocationCheck
  <2>2. /\ txn[s].kind = "idle" /\ txn'[s].at = "checked"
        /\ \A t \in Slot \ {s} : txn'[t] = txn[t]
        /\ UNCHANGED <<responses, heard>>
    BY <2>1, <1>t DEF Begin, TxnOK, Idle
  <2>3. ~ HasTold(s) /\ ~ HasTold(s)' /\ txn'[s].at \notin FoundAt
    BY <2>2 DEF HasTold, At, FoundAt
  <2> QED BY <2>2, <2>3, HeardAside
<1>2. ASSUME NEW s \in Slot, Rollback(s) PROVE HeardInv' BY <1>2, <1>t, HeardRollback
<1>3. ASSUME UNCHANGED <<responses, txn, heard>> PROVE HeardInv'
  <2>1. \A t \in Slot : /\ HasTold(t)' = HasTold(t) /\ Answering(t)' = Answering(t)
                        /\ Present(t)' = Present(t)
    BY <1>3 DEF HasTold, At, Answering, Present, RowsOf
  <2>2. FoundStay' /\ ToldIsHeard' BY <1>3, <2>1 DEF HeardInv, FoundStay, ToldIsHeard
  <2>3. ASSUME NEW a \in Alert, NEW r \in Recipient PROVE Agrees(a, r)'
    <3>1. Agrees(a, r) /\ RowsOf(a, r)' = RowsOf(a, r)
      BY <1>3, AgreesAll DEF HeardInv, RowsOf
    <3> QED BY <1>3, <2>1, <3>1 DEF Agrees
  <2> QED BY <2>2, <2>3, AgreesAll DEF HeardInv
<1>4. ASSUME NEW a \in Alert, Age(a) PROVE HeardInv' BY <1>3, <1>4 DEF Age
<1>5. ASSUME NEW k \in Alert \X Person, LocationAge(k) PROVE HeardInv'
  BY <1>3, <1>5 DEF LocationAge
<1>6. CASE UNCHANGED vars BY <1>3, <1>6 DEF vars
<1> QED BY <1>1, <1>2, <1>4, <1>5, <1>6, HeardProceed DEF Next

\* The creator is told before the commit, and not in the same transaction; but
\* whoever tells has the row, so that what was told last and stands is what is
\* stored, whatever requests of one person overlap.
THEOREM HeardCorrect == Spec => []HeardAnswersAreStored
<1>1. Init => AnswersInv
  BY DEF Init, AnswersInv, LocksExclude, AnswersHold, InsertsAreNew, OneResponseEach, Idle
<1>2. Init => HeardInv
  <2> SUFFICES ASSUME Init PROVE HeardInv OBVIOUS
  <2>1. \A s \in Slot : txn[s].kind = "idle" BY DEF Init, Idle
  <2>2. FoundStay /\ ToldIsHeard BY <2>1 DEF FoundStay, ToldIsHeard, HasTold, At
  <2>3. \A a \in Alert, r \in Recipient : Agrees(a, r) BY DEF Init, Agrees, Key
  <2> QED BY <2>2, <2>3, AgreesAll DEF HeardInv
<1>3. HeardInv => HeardAnswersAreStored BY DEF HeardInv
<1> QED BY <1>1, <1>2, <1>3, AnswersNext, HeardNext, TypeCorrect, PTL DEF Spec
=============================================================================
