------------------------------- MODULE Circles -------------------------------
(***************************************************************************)
(* Circles, their invites and the identities these are addressed to:       *)
(* GroupService, the directory's writes (ContactService), phone invites    *)
(* and sign-in (IdentityService). A request is one transaction under READ  *)
(* COMMITTED: it reads the role, invite or code it is about when it        *)
(* starts, looks at memberships and pending invites later, and commits     *)
(* what it decided. Nothing it reads is locked; unique constraints are     *)
(* all that stands between two requests.                                   *)
(***************************************************************************)
EXTENDS Naturals, Sequences, FiniteSets, SequencesExt

CONSTANTS
  Person,       \* each with one phone number and one e-mail address
  Group,
  Title,        \* names of circles, trimmed and in lower case
  None,
  Slot,         \* requests in progress at the same time
  MaxRequests,  \* bound: requests that start
  MaxInvites,   \* bound: group invites
  MaxCodes      \* bound: phone invites

ASSUME CircleAssumption ==
  /\ MaxRequests \in Nat /\ MaxInvites \in Nat /\ MaxCodes \in Nat
  /\ None \notin Person \cup Group \cup Title /\ IsFiniteSet(Group)

VARIABLES
  account,     \* what a person has signed in with: an e-mail, a verified phone
  title,       \* names of the circles that exist
  creator,     \* groups.created_by
  role,        \* group_members
  invites,     \* group_invites, oldest first
  codes,       \* phone_invites, oldest first
  trusted,     \* trusted_contacts, pairs of owner and contact
  txn,         \* the request each slot is serving
  requests,    \* history: requests started
  met,         \* history: pairs of subjects of requests that overlapped
  joinedBy     \* history: invites whose acceptance was committed

dbVars == <<account, title, creator, role, invites, codes, trusted>>
vars == <<dbVars, txn, requests, met, joinedBy>>

Account == SUBSET {"mail", "phone"}

HasAccount(p) == account[p] # {}
HasPhone(p) == "phone" \in account[p]
HasMail(p) == "mail" \in account[p]
Member(g, p) == role[g][p] # "none"
Admin(g, p) == role[g][p] \in {"owner", "admin"}
Managed(p) == {g \in Group : Admin(g, p)}

Row(g, phone, mail) == [g |-> g, phone |-> phone, mail |-> mail, status |-> "pending"]
Pending == {i \in DOMAIN invites : invites[i].status = "pending"}

-----------------------------------------------------------------------------
(* What a request has decided to write.                                    *)

NoChange == [join |-> {}, leave |-> {}, named |-> {}, invited |-> {}, answer |-> {},
             code |-> {}, used |-> {}, trust |-> {}, signed |-> {}]
Refused == [raised |-> TRUE]       \* an error: everything is rolled back

Together(changes) ==
  IF Refused \in changes THEN Refused
  ELSE [f \in DOMAIN NoChange |-> UNION {c[f] : c \in changes}]

\* scalar_one_or_none raises if there are two of them.
PendingByPhone(g, p) == {i \in Pending : invites[i].g = g /\ invites[i].phone = p}
PendingByMail(g, p) == {i \in Pending : invites[i].g = g /\ invites[i].mail = p}
Ensure(found, row) ==
  IF Cardinality(found) > 1 THEN Refused
  ELSE IF found # {} THEN NoChange
  ELSE [NoChange EXCEPT !.invited = {row}]

\* Mutant of EnsureForPhone: no look at the pending invites.
EnsureForPhoneBUG(g, p) ==
  IF HasPhone(p) /\ Member(g, p) THEN NoChange ELSE Ensure({}, Row(g, p, None))
EnsureForPhone(g, p) ==
  IF HasPhone(p) /\ Member(g, p) THEN NoChange
  ELSE Ensure(PendingByPhone(g, p), Row(g, p, None))

EnsureForUser(g, p) ==
  IF Member(g, p) \/ ~HasAccount(p) THEN Refused
  ELSE IF HasPhone(p)
  THEN Ensure(PendingByPhone(g, p), Row(g, p, IF HasMail(p) THEN p ELSE None))
  ELSE Ensure(PendingByMail(g, p), Row(g, None, p))

\* invite_matches_user: by phone, or by an e-mail that is not a placeholder.
Matches(i, p) ==
  \/ HasPhone(p) /\ invites[i].phone = p
  \/ HasMail(p) /\ invites[i].mail = p

-----------------------------------------------------------------------------
(* Circles: create, rename, members.                                       *)

Owned(p, t) == {g \in Group : creator[g] = p /\ title[g] = t}

CreateDecide(r) ==
  IF Owned(r.by, r.title) # {} THEN Refused
  ELSE [NoChange EXCEPT !.named = {<<r.g, r.by, r.title>>}, !.join = {<<r.g, r.by, "owner">>}]

\* Another spelling of the name the circle had when the request started is
\* written without a look at the others; the same spelling is not written.
RenameDecide(r) ==
  IF r.title # r.was /\ Owned(creator[r.g], r.title) \ {r.g} # {} THEN Refused
  ELSE [NoChange EXCEPT !.named = {<<r.g, creator[r.g], r.title>>}]

AddDecide(r) ==
  IF ~HasAccount(r.who) \/ Member(r.g, r.who) THEN Refused
  ELSE [NoChange EXCEPT !.join = {<<r.g, r.who, r.role>>}]

RemoveDecide(r) ==
  IF ~Member(r.g, r.who) THEN Refused
  ELSE [NoChange EXCEPT !.leave = {<<r.g, r.who>>}]

-----------------------------------------------------------------------------
(* Invites: sent by user id, phone or e-mail, to one circle or several.    *)

InviteOne(g, p, via) ==
  CASE via = "id"    -> EnsureForUser(g, p)
    [] via = "phone" -> IF HasPhone(p) THEN EnsureForUser(g, p) ELSE EnsureForPhone(g, p)
    [] via = "mail"  -> IF HasMail(p) THEN EnsureForUser(g, p)
                        ELSE IF PendingByMail(g, p) # {} THEN Refused
                        ELSE [NoChange EXCEPT !.invited = {Row(g, None, p)}]

InviteDecide(r) == InviteOne(r.g, r.who, r.via)

\* From the directory: members are passed over, and so are known addresses.
AssignDecide(r) ==
  Together({NoChange} \cup
    {IF r.via = "phone" /\ HasPhone(r.who) /\ Member(g, r.who) THEN NoChange
     ELSE IF r.via = "mail" /\ HasMail(r.who) /\ Member(g, r.who) THEN NoChange
     ELSE IF r.via = "mail" /\ ~HasMail(r.who)
     THEN Ensure(PendingByMail(g, r.who), Row(g, None, r.who))
     ELSE InviteOne(g, r.who, r.via) : g \in r.groups})

AcceptDecide(r) ==
  LET g == invites[r.id].g
  IN [NoChange EXCEPT !.answer = {<<r.id, "accepted">>},
                      !.join = IF Member(g, r.by) THEN {} ELSE {<<g, r.by, "member">>}]
DeclineDecide(r) == [NoChange EXCEPT !.answer = {<<r.id, "declined">>}]

\* The directory sets which of the actor's circles a contact is in.
BringIn(g, p) ==
  LET mail == IF HasMail(p) THEN PendingByMail(g, p) ELSE {}
      phone == IF HasPhone(p) THEN PendingByPhone(g, p) ELSE {}
  IN IF Cardinality(mail) > 1 \/ (mail = {} /\ Cardinality(phone) > 1) THEN Refused
     ELSE IF mail \cup phone # {} THEN NoChange
     ELSE EnsureForUser(g, p)
\* Mutants of TakeOut: the owner is taken out too; an admin is left in.
TakeOutBUG(g, p) == [NoChange EXCEPT !.leave = {<<g, p>>}]
TakeOutAdminBUG(g, p) ==
  IF Admin(g, p) THEN NoChange ELSE [NoChange EXCEPT !.leave = {<<g, p>>}]
TakeOut(g, p) ==
  IF role[g][p] = "owner" THEN NoChange ELSE [NoChange EXCEPT !.leave = {<<g, p>>}]
SetGroupsDecide(r) ==
  Together({NoChange} \cup
    {IF g \in r.groups /\ ~Member(g, r.who) THEN BringIn(g, r.who)
     ELSE IF g \notin r.groups /\ Member(g, r.who) THEN TakeOut(g, r.who)
     ELSE NoChange : g \in r.managed})

-----------------------------------------------------------------------------
(* Phone invites, trusted contacts and sign-in.                            *)

\* For a number with an account the invitation or contact is written, and the
\* error that says so rolls it back.
PhoneInviteDecide(r) ==
  IF HasPhone(r.who) THEN Refused
  ELSE Together({[NoChange EXCEPT !.code = {[from |-> r.by, to |-> r.who, g |-> r.g]}],
                 IF r.g = None THEN NoChange ELSE EnsureForPhone(r.g, r.who)})

TrustDecide(r) ==
  IF ~HasPhone(r.who) THEN Refused
  ELSE [NoChange EXCEPT !.trust = {<<r.by, r.who>>} \ trusted]

\* Neither contact is looked for before it is inserted.
AcceptCodeDecideBUG(r) ==
  LET c == codes[r.id]
  IN [NoChange EXCEPT !.used = {r.id},
                      !.trust = {<<c.from, r.by>>, <<r.by, c.from>>} \ trusted,
                      !.join = IF c.g = None \/ Member(c.g, r.by) THEN {}
                               ELSE {<<c.g, r.by, "member">>}]
AcceptCodeDecide(r) ==
  LET c == codes[r.id]
  IN [NoChange EXCEPT !.used = {r.id},
                      !.trust = {<<c.from, r.by>>, <<r.by, c.from>>},
                      !.join = IF c.g = None \/ Member(c.g, r.by) THEN {}
                               ELSE {<<c.g, r.by, "member">>}]

\* _link_pending_invites: a group invite for every pending phone invite with a
\* circle, for a person who has the number by now.
Link(p) ==
  {IF Member(c.g, p) THEN NoChange ELSE Ensure(PendingByPhone(c.g, p), Row(c.g, p, None)) :
     c \in {codes[k] : k \in {x \in DOMAIN codes :
              codes[x].to = p /\ codes[x].status = "pending" /\ codes[x].g # None}}}

Signed(p, new, with) == [NoChange EXCEPT !.signed = {[who |-> p, new |-> new, with |-> with]}]

\* Firebase makes an account or adds to one, and so does a verified phone.
SignInDecide(r) ==
  Together({Signed(r.by, ~HasAccount(r.by), r.with)}
           \cup (IF "phone" \in r.with THEN Link(r.by) ELSE {}))
\* A code sent to a phone makes an account, once.
PhoneLoginDecide(r) ==
  IF HasPhone(r.by) THEN NoChange
  ELSE Together({Signed(r.by, TRUE, {"phone"})} \cup Link(r.by))
RegisterDecide(r) == IF HasMail(r.by) THEN Refused ELSE Signed(r.by, TRUE, {"mail"})

-----------------------------------------------------------------------------
(* Requests.                                                               *)

Idle == [at |-> "idle"]
Busy(s) == txn[s].at # "idle"

\* A circle with its owner, who may have sent another two phone invites.
Init ==
  /\ account \in [Person -> Account]
  /\ \E g \in Group, p, q \in Person, t \in Title, n \in {0, 2} :
       /\ account[p] = {"mail", "phone"} /\ p # q
       /\ title = [h \in Group |-> IF h = g THEN t ELSE None]
       /\ creator = [h \in Group |-> IF h = g THEN p ELSE None]
       /\ role = [h \in Group |-> [x \in Person |-> IF h = g /\ x = p THEN "owner" ELSE "none"]]
       /\ codes = [k \in 1..n |-> [from |-> p, to |-> q, g |-> None, status |-> "pending"]]
  /\ invites = <<>> /\ trusted = {}
  /\ txn = [s \in Slot |-> Idle]
  /\ requests = 0 /\ met = {} /\ joinedBy = {}

\* What a request is about: a person in a circle, an invite, a person's circles.
About(r) ==
  CASE r.kind \in {"create", "rename"}   -> {<<"circles of", r.owner>>}
    [] r.kind \in {"accept", "decline"}  -> {<<"invite", r.id>>, <<invites[r.id].g, r.by>>}
    [] r.kind \in {"signIn", "phoneLogin", "register", "acceptCode"} -> Group \X {r.by}
    [] OTHER                             -> Group \X {r.who}

\* A request has read what its first checks look at.
Begin(s, r) ==
  /\ txn[s] = Idle /\ requests < MaxRequests
  /\ requests' = requests + 1
  /\ txn' = [txn EXCEPT ![s] = [at |-> "started", r |-> r, todo |-> NoChange]]
  /\ met' = met \cup UNION {About(r) \cap About(txn[x].r) : x \in {y \in Slot : Busy(y)}}
  /\ UNCHANGED <<dbVars, joinedBy>>

Create(s, p, g, t) ==
  /\ HasAccount(p) /\ title[g] = None
  /\ \A x \in Slot : Busy(x) /\ txn[x].r.kind = "create" => txn[x].r.g # g     \* a new id
  /\ Begin(s, [kind |-> "create", by |-> p, owner |-> p, g |-> g, title |-> t])
Rename(s, p, g, t) ==
  /\ Admin(g, p)
  /\ Begin(s, [kind |-> "rename", by |-> p, owner |-> creator[g], g |-> g, title |-> t,
               was |-> title[g]])
AddMember(s, p, g, q, as) ==
  /\ Admin(g, p)
  /\ Begin(s, [kind |-> "add", by |-> p, g |-> g, who |-> q, role |-> as])
RemoveMember(s, p, g, q) ==
  /\ Admin(g, p)
  /\ Begin(s, [kind |-> "remove", by |-> p, g |-> g, who |-> q])
Invite(s, p, g, q, via) ==
  /\ Admin(g, p)
  /\ Begin(s, [kind |-> "invite", by |-> p, g |-> g, who |-> q, via |-> via])

\* Mutant of MayAnswer: an answered invite may be answered again.
MayAnswerBUG(p, i) == Matches(i, p)
MayAnswer(p, i) == i \in Pending /\ Matches(i, p)
CanAnswer(g, p) == \E i \in Pending : invites[i].g = g /\ MayAnswer(p, i)
Accept(s, p, i) == MayAnswer(p, i) /\ Begin(s, [kind |-> "accept", by |-> p, id |-> i])
Decline(s, p, i) == MayAnswer(p, i) /\ Begin(s, [kind |-> "decline", by |-> p, id |-> i])

SetGroups(s, p, q, gs) ==
  /\ q # p /\ HasAccount(q)
  /\ Managed(p) # {} /\ gs \subseteq Managed(p)
  /\ Begin(s, [kind |-> "setGroups", by |-> p, who |-> q, groups |-> gs, managed |-> Managed(p)])
Assign(s, p, q, gs, via) ==
  /\ Managed(p) # {} /\ gs \subseteq Managed(p)
  /\ Begin(s, [kind |-> "assign", by |-> p, who |-> q, groups |-> gs, via |-> via])

PhoneInvite(s, p, q, g) ==
  /\ HasPhone(p) /\ g \in {None} \cup {h \in Group : title[h] # None}
  /\ Begin(s, [kind |-> "phoneInvite", by |-> p, who |-> q, g |-> g])
AcceptCode(s, p, k) ==
  /\ HasPhone(p) /\ codes[k].status = "pending" /\ codes[k].to = p
  /\ Begin(s, [kind |-> "acceptCode", by |-> p, id |-> k])
Trust(s, p, q) ==
  /\ HasPhone(p) /\ p # q
  /\ Begin(s, [kind |-> "trust", by |-> p, who |-> q])
\* Nobody makes a second account: a phone or e-mail that is new to an account
\* comes with Firebase or, the phone, with a code sent to the account.
FirebaseLogin(s, p, with) ==
  with # {} /\ Begin(s, [kind |-> "signIn", by |-> p, with |-> with])
VerifyPhone(s, p) ==
  HasAccount(p) /\ Begin(s, [kind |-> "signIn", by |-> p, with |-> {"phone"}])
PhoneLogin(s, p) ==
  (HasMail(p) => HasPhone(p)) /\ Begin(s, [kind |-> "phoneLogin", by |-> p])
Register(s, p) ==
  (HasPhone(p) => HasMail(p)) /\ Begin(s, [kind |-> "register", by |-> p])

\* The later reads of the request, and its decision.
Decision(r) ==
  CASE r.kind = "create"      -> CreateDecide(r)
    [] r.kind = "rename"      -> RenameDecide(r)
    [] r.kind = "add"         -> AddDecide(r)
    [] r.kind = "remove"      -> RemoveDecide(r)
    [] r.kind = "invite"      -> InviteDecide(r)
    [] r.kind = "accept"      -> AcceptDecide(r)
    [] r.kind = "decline"     -> DeclineDecide(r)
    [] r.kind = "setGroups"   -> SetGroupsDecide(r)
    [] r.kind = "assign"      -> AssignDecide(r)
    [] r.kind = "phoneInvite" -> PhoneInviteDecide(r)
    [] r.kind = "acceptCode"  -> AcceptCodeDecide(r)
    [] r.kind = "trust"       -> TrustDecide(r)
    [] r.kind = "signIn"      -> SignInDecide(r)
    [] r.kind = "phoneLogin"  -> PhoneLoginDecide(r)
    [] r.kind = "register"    -> RegisterDecide(r)

Decide(s) ==
  /\ txn[s].at = "started"
  /\ LET todo == Decision(txn[s].r)
     IN txn' = [txn EXCEPT ![s] = IF todo = Refused THEN Idle
                                  ELSE [@ EXCEPT !.at = "decided", !.todo = todo]]
  /\ UNCHANGED <<dbVars, requests, met, joinedBy>>

\* The unique constraints of group_members, trusted_contacts and users.
Violates(todo) ==
  \/ \E j \in todo.join : Member(j[1], j[2])
  \/ todo.trust \cap trusted # {}
  \/ \E n \in todo.signed : n.new /\ HasAccount(n.who)

Answered(todo) ==
  [i \in DOMAIN invites |->
     IF \E a \in todo.answer : a[1] = i
     THEN [invites[i] EXCEPT !.status = (CHOOSE a \in todo.answer : a[1] = i)[2]]
     ELSE invites[i]]
Used(todo) ==
  [k \in DOMAIN codes |->
     IF k \in todo.used THEN [codes[k] EXCEPT !.status = "accepted"] ELSE codes[k]]
Coded(todo) == {[from |-> c.from, to |-> c.to, g |-> c.g, status |-> "pending"] : c \in todo.code}

\* Requests that found a member row which is gone delete nothing any more.
Without(gone) ==
  [x \in Slot |-> IF txn[x].at = "decided" THEN [txn[x] EXCEPT !.todo.leave = @ \ gone]
                  ELSE txn[x]]

Commit(s) ==
  /\ txn[s].at = "decided"
  /\ LET todo == txn[s].todo
     IN /\ ~Violates(todo)
        /\ Len(invites) + Cardinality(todo.invited) <= MaxInvites
        /\ Len(codes) + Cardinality(todo.code) <= MaxCodes
        /\ account' = [p \in Person |->
             account[p] \cup UNION {n.with : n \in {x \in todo.signed : x.who = p}}]
        /\ title' = [g \in Group |->
             IF \E n \in todo.named : n[1] = g
             THEN (CHOOSE n \in todo.named : n[1] = g)[3] ELSE title[g]]
        /\ creator' = [g \in Group |->
             IF \E n \in todo.named : n[1] = g
             THEN (CHOOSE n \in todo.named : n[1] = g)[2] ELSE creator[g]]
        /\ role' = [g \in Group |-> [p \in Person |->
             IF <<g, p>> \in todo.leave THEN "none"
             ELSE IF \E j \in todo.join : j[1] = g /\ j[2] = p
             THEN (CHOOSE j \in todo.join : j[1] = g /\ j[2] = p)[3]
             ELSE role[g][p]]]
        /\ \E rows \in SetToSeqs(todo.invited) : invites' = Answered(todo) \o rows
        /\ \E rows \in SetToSeqs(Coded(todo)) : codes' = Used(todo) \o rows
        /\ trusted' = trusted \cup todo.trust
        /\ joinedBy' = joinedBy \cup {a[1] : a \in {x \in todo.answer : x[2] = "accepted"}}
  /\ txn' = [Without(txn[s].todo.leave) EXCEPT ![s] = Idle]
  /\ UNCHANGED <<requests, met>>

\* A violated constraint, an error of the database, a client that is gone.
Rollback(s) ==
  /\ Busy(s)
  /\ txn' = [txn EXCEPT ![s] = Idle]
  /\ UNCHANGED <<dbVars, requests, met, joinedBy>>

\* Begin has this guard, too; with it in front, TLC tries only free slots.
Start(s) ==
  /\ txn[s] = Idle /\ requests < MaxRequests
  /\ \E p, q \in Person :
      \/ \E g \in Group, t \in Title : Create(s, p, g, t) \/ Rename(s, p, g, t)
      \/ \E g \in Group : RemoveMember(s, p, g, q)
      \/ \E g \in Group, as \in {"member", "admin"} : AddMember(s, p, g, q, as)
      \/ \E g \in Group, via \in {"id", "phone", "mail"} : Invite(s, p, g, q, via)
      \/ \E i \in DOMAIN invites : Accept(s, p, i) \/ Decline(s, p, i)
      \/ \E gs \in SUBSET Group : SetGroups(s, p, q, gs)
      \/ \E gs \in SUBSET Group, via \in {"phone", "mail"} : Assign(s, p, q, gs, via)
      \/ \E g \in Group \cup {None} : PhoneInvite(s, p, q, g)
      \/ \E k \in DOMAIN codes : AcceptCode(s, p, k)
      \/ Trust(s, p, q)
      \/ \E with \in Account : FirebaseLogin(s, p, with)
      \/ VerifyPhone(s, p) \/ PhoneLogin(s, p) \/ Register(s, p)

Next == \E s \in Slot : Start(s) \/ Decide(s) \/ Commit(s) \/ Rollback(s)

Spec == Init /\ [][Next]_vars

-----------------------------------------------------------------------------
(* Properties.                                                             *)

\* No look-up that raises when it finds two rows finds two, unless requests
\* about the same subject overlapped: pending invites of a phone or e-mail in
\* a circle, circles of one name of a creator. An e-mail has a second invite
\* when its owner was invited before and after verifying a phone.
DuplicatesHaveACause ==
  /\ \A g \in Group, p \in Person : <<g, p>> \notin met =>
       /\ Cardinality(PendingByPhone(g, p)) <= 1
       /\ Cardinality(PendingByMail(g, p) \ PendingByPhone(g, p)) <= 1
  /\ \A p \in Person, t \in Title :
       <<"circles of", p>> \notin met => Cardinality(Owned(p, t)) <= 1

\* An invite is accepted exactly if its acceptance was committed, and an
\* answer is final, unless two answers to it overlapped: the later one wins
\* then, and a member may have declined.
AnswersAgree ==
  \A i \in DOMAIN invites :
    <<"invite", i>> \notin met => (invites[i].status = "accepted" <=> i \in joinedBy)

\* An accepted phone invite has made both sides each other's contacts; and
\* of the invites between two people one is accepted at most, because the
\* next acceptance inserts the same contacts again and fails.
PhoneInvitesAgree ==
  \A k \in DOMAIN codes : codes[k].status = "accepted" =>
    /\ {<<codes[k].from, codes[k].to>>, <<codes[k].to, codes[k].from>>} \subseteq trusted
    /\ \A j \in DOMAIN codes :
         codes[j].status = "accepted" /\ codes[j].from = codes[k].from
           /\ codes[j].to = codes[k].to => j = k

\* After the directory's write the contact is in the requested circles, or has
\* an invite there that it can answer, and in no other circle of the actor,
\* but as its owner; unless other requests about the contact overlapped.
DirectoryFollowsRequest ==
  [][\A s \in Slot, p \in Person, g \in Group :
       (/\ Commit(s)
        /\ txn[s].r.kind = "setGroups" /\ txn[s].r.who = p
        /\ g \in txn[s].r.managed /\ (Group \X {p}) \cap met = {}) =>
          IF g \in txn[s].r.groups
          THEN Member(g, p)' \/ CanAnswer(g, p)'
          ELSE role'[g][p] \in {"none", "owner"}]_vars

\* Who owns a circle goes on owning it until a remove_member names it; no
\* other write, however stale what it read, takes the owner out.
OwnersLeaveByName ==
  [][\A g \in Group, p \in Person :
       role[g][p] = "owner" /\ role'[g][p] # "owner" =>
         \E s \in Slot : txn[s].at = "decided" /\ txn[s].r.kind = "remove"
                          /\ txn[s].r.g = g /\ txn[s].r.who = p]_vars

=============================================================================
