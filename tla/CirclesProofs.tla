---------------------------- MODULE CirclesProofs ----------------------------
(***************************************************************************)
(* Theorems of Circles, for every number of people, circles, requests in   *)
(* progress, invites and codes.                                            *)
(***************************************************************************)
EXTENDS Circles, FiniteSetTheorems, SequenceTheorems, TLAPS

-----------------------------------------------------------------------------
(* The tables, and what a request and its change may be.                   *)

Roles == {"none", "member", "admin", "owner"}
InviteRow == [g : Group, phone : Person \cup {None}, mail : Person \cup {None},
              status : {"pending", "accepted", "declined"}]
CodeRow == [from : Person, to : Person, g : Group \cup {None}, status : {"pending", "accepted"}]
Exists(g) == title[g] # None

TablesOK ==
  /\ account \in [Person -> Account]
  /\ title \in [Group -> Title \cup {None}] /\ creator \in [Group -> Person \cup {None}]
  /\ role \in [Group -> [Person -> Roles]]
  /\ invites \in Seq(InviteRow) /\ codes \in Seq(CodeRow)
  /\ trusted \in SUBSET (Person \X Person)
  /\ joinedBy \in SUBSET DOMAIN invites

\* Rows are about circles that exist, and an invite is for one person.
Linked ==
  /\ \A g \in Group : Exists(g) <=> creator[g] # None
  /\ \A g \in Group, p \in Person : Member(g, p) => Exists(g)
  /\ \A i \in DOMAIN invites :
       /\ Exists(invites[i].g)
       /\ \/ None \in {invites[i].phone, invites[i].mail}
          \/ invites[i].phone = invites[i].mail
  /\ \A k \in DOMAIN codes : codes[k].g # None => Exists(codes[k].g)

AboutWho == {"add", "remove", "invite", "setGroups", "assign", "phoneInvite", "trust"}
AboutSelf == {"signIn", "phoneLogin", "register", "acceptCode"}
Answers == {"accept", "decline"}
Names == {"create", "rename"}
Subject(r) == IF r.kind \in AboutWho THEN r.who ELSE r.by

RequestOK(r) ==
  /\ r.kind \in AboutWho \cup AboutSelf \cup Answers \cup Names /\ r.by \in Person
  /\ r.kind \in AboutWho => r.who \in Person
  /\ r.kind \in {"add", "remove", "invite"} => r.g \in Group /\ Exists(r.g)
  /\ r.kind = "add" => r.role \in Roles
  /\ r.kind = "invite" => r.via \in {"id", "phone", "mail"}
  /\ r.kind = "setGroups" =>
       r.groups \in SUBSET Group /\ r.managed \in SUBSET Group /\ \A g \in r.managed : Exists(g)
  /\ r.kind = "assign" =>
       /\ r.via \in {"phone", "mail"}
       /\ r.groups \in SUBSET Group /\ \A g \in r.groups : Exists(g)
  /\ r.kind = "phoneInvite" => r.g \in Group \cup {None} /\ (r.g # None => Exists(r.g))
  /\ r.kind \in Answers =>
       r.id \in DOMAIN invites /\ r.by \in {invites[r.id].phone, invites[r.id].mail}
  /\ r.kind = "acceptCode" => r.id \in DOMAIN codes /\ codes[r.id].to = r.by
  /\ r.kind = "signIn" => r.with \in Account
  /\ r.kind \in Names => r.g \in Group /\ r.owner \in Person /\ r.title \in Title
  /\ r.kind = "create" => ~Exists(r.g) /\ r.owner = r.by
  /\ r.kind = "rename" => Exists(r.g) /\ creator[r.g] = r.owner

Change ==
  [join : SUBSET (Group \X Person \X Roles), leave : SUBSET (Group \X Person),
   named : SUBSET (Group \X Person \X Title), invited : SUBSET InviteRow,
   answer : SUBSET (Nat \X {"accepted", "declined"}),
   code : SUBSET [from : Person, to : Person, g : Group \cup {None}],
   used : SUBSET Nat, trust : SUBSET (Person \X Person),
   signed : SUBSET [who : Person, new : BOOLEAN, with : Account]]

\* A change writes about the subject of its request only.
ChangeOK(r, c) ==
  /\ c \in Change
  /\ \A n \in c.named : r.kind \in Names /\ n[1] = r.g /\ n[2] = r.owner
  /\ \A j \in c.join : /\ r.kind \in {"create", "add", "accept", "acceptCode"}
                       /\ j[2] = Subject(r)
                       /\ r.kind # "create" => Exists(j[1])
                       /\ r.kind = "create" => \E n \in c.named : n[1] = j[1]
  /\ \A l \in c.leave : /\ r.kind \in {"remove", "setGroups"} /\ l[2] = r.who
                        /\ r.kind = "remove" => l[1] = r.g
  /\ \A i \in c.invited : /\ r.kind \in AboutWho \cup AboutSelf
                          /\ i.status = "pending" /\ Exists(i.g)
                          /\ {i.phone, i.mail} \subseteq {Subject(r), None}
  /\ \A i, j \in c.invited : i.g = j.g => i = j
  /\ \A a \in c.answer :
       r.kind \in Answers /\ a = <<r.id, IF r.kind = "accept" THEN "accepted" ELSE "declined">>
  /\ \A x \in c.code : x.g # None => Exists(x.g)
  /\ \A x, y \in c.code : x = y
  /\ \A k \in c.used : /\ r.kind = "acceptCode" /\ k = r.id
                       /\ {<<codes[k].from, r.by>>, <<r.by, codes[k].from>>} \subseteq c.trust

TxnOK(s) ==
  Busy(s) =>
    /\ txn[s] = [at |-> txn[s].at, r |-> txn[s].r, todo |-> txn[s].todo]
    /\ txn[s].at \in {"started", "decided"}
    /\ txn[s].at = "started" => txn[s].todo = NoChange
    /\ RequestOK(txn[s].r) /\ ChangeOK(txn[s].r, txn[s].todo)
\* Requests about the same subject are on record as overlapping.
Overlaps ==
  \A s, x \in Slot : s # x /\ Busy(s) /\ Busy(x) =>
    /\ About(txn[s].r) \cap About(txn[x].r) \subseteq met
    /\ txn[s].r.kind = "create" /\ txn[x].r.kind = "create" => txn[s].r.g # txn[x].r.g
CirclesOK ==
  /\ TablesOK /\ Linked /\ Overlaps /\ DOMAIN txn = Slot
  /\ \A s \in Slot : TxnOK(s) /\ (~Busy(s) => txn[s] = Idle)

-----------------------------------------------------------------------------
(* Starting a request.                                                     *)

\* What a request knows when it starts.
New(r) ==
  /\ RequestOK(r)
  /\ r.kind \in Answers => r.id \in Pending
  /\ r.kind = "rename" => r.was = title[r.g]
  /\ r.kind = "create" =>
       \A x \in Slot : Busy(x) /\ txn[x].r.kind = "create" => txn[x].r.g # r.g

LEMMA RowsTyped ==
  ASSUME TablesOK
  PROVE  /\ \A i \in DOMAIN invites : i \in Nat /\ invites[i] \in InviteRow
         /\ \A k \in DOMAIN codes : k \in Nat /\ codes[k] \in CodeRow
<1>1. invites \in Seq(InviteRow) /\ codes \in Seq(CodeRow) BY DEF TablesOK
<1>2. \A i \in DOMAIN invites : i \in Nat /\ invites[i] \in InviteRow BY <1>1
<1>3. \A k \in DOMAIN codes : k \in Nat /\ codes[k] \in CodeRow BY <1>1
<1> QED BY <1>2, <1>3

LEMMA AdminExists ==
  ASSUME TablesOK, Linked, NEW g \in Group, NEW p \in Person, Admin(g, p)
  PROVE  Exists(g) /\ creator[g] \in Person
<1>1. Member(g, p) BY DEF Member, Admin
<1>2. Exists(g) /\ creator[g] # None BY <1>1 DEF Linked
<1> QED BY <1>2 DEF TablesOK

LEMMA StartIs ==
  ASSUME CirclesOK, NEW s \in Slot, Start(s) PROVE \E r : Begin(s, r) /\ New(r)
<1> USE AdminExists DEF CirclesOK
<1>1. ASSUME NEW p \in Person, NEW g \in Group, NEW t \in Title, Create(s, p, g, t)
      PROVE  \E r : Begin(s, r) /\ New(r)
  <2> DEFINE r == [kind |-> "create", by |-> p, owner |-> p, g |-> g, title |-> t]
  <2>1. Begin(s, r) BY <1>1 DEF Create
  <2>2. New(r) BY <1>1 DEF New, RequestOK, AboutWho, AboutSelf, Answers, Names, Create, Exists
  <2> HIDE DEF r
  <2> QED BY <2>1, <2>2
<1>2. ASSUME NEW p \in Person, NEW g \in Group, NEW t \in Title, Rename(s, p, g, t)
      PROVE  \E r : Begin(s, r) /\ New(r)
  <2> DEFINE r == [kind |-> "rename", by |-> p, owner |-> creator[g], g |-> g, title |-> t, was |-> title[g]]
  <2>1. Begin(s, r) BY <1>2 DEF Rename
  <2>2. New(r) BY <1>2 DEF New, RequestOK, AboutWho, AboutSelf, Answers, Names, Rename, Exists
  <2> HIDE DEF r
  <2> QED BY <2>1, <2>2
<1>3. ASSUME NEW p \in Person, NEW q \in Person, NEW g \in Group, NEW as \in {"member", "admin"}, AddMember(s, p, g, q, as)
      PROVE  \E r : Begin(s, r) /\ New(r)
  <2> DEFINE r == [kind |-> "add", by |-> p, g |-> g, who |-> q, role |-> as]
  <2>1. Begin(s, r) BY <1>3 DEF AddMember
  <2>2. New(r) BY <1>3 DEF New, RequestOK, AboutWho, AboutSelf, Answers, Names, AddMember, Roles
  <2> HIDE DEF r
  <2> QED BY <2>1, <2>2
<1>4. ASSUME NEW p \in Person, NEW q \in Person, NEW g \in Group, RemoveMember(s, p, g, q)
      PROVE  \E r : Begin(s, r) /\ New(r)
  <2> DEFINE r == [kind |-> "remove", by |-> p, g |-> g, who |-> q]
  <2>1. Begin(s, r) BY <1>4 DEF RemoveMember
  <2>2. New(r) BY <1>4 DEF New, RequestOK, AboutWho, AboutSelf, Answers, Names, RemoveMember
  <2> HIDE DEF r
  <2> QED BY <2>1, <2>2
<1>5. ASSUME NEW p \in Person, NEW q \in Person, NEW g \in Group, NEW via \in {"id", "phone", "mail"}, Invite(s, p, g, q, via)
      PROVE  \E r : Begin(s, r) /\ New(r)
  <2> DEFINE r == [kind |-> "invite", by |-> p, g |-> g, who |-> q, via |-> via]
  <2>1. Begin(s, r) BY <1>5 DEF Invite
  <2>2. New(r) BY <1>5 DEF New, RequestOK, AboutWho, AboutSelf, Answers, Names, Invite
  <2> HIDE DEF r
  <2> QED BY <2>1, <2>2
<1>6. ASSUME NEW p \in Person, NEW i \in DOMAIN invites, Accept(s, p, i)
      PROVE  \E r : Begin(s, r) /\ New(r)
  <2> DEFINE r == [kind |-> "accept", by |-> p, id |-> i]
  <2>1. Begin(s, r) BY <1>6 DEF Accept
  <2>2. New(r) BY <1>6 DEF New, RequestOK, AboutWho, AboutSelf, Answers, Names, Accept, MayAnswer, Matches
  <2> HIDE DEF r
  <2> QED BY <2>1, <2>2
<1>7. ASSUME NEW p \in Person, NEW i \in DOMAIN invites, Decline(s, p, i)
      PROVE  \E r : Begin(s, r) /\ New(r)
  <2> DEFINE r == [kind |-> "decline", by |-> p, id |-> i]
  <2>1. Begin(s, r) BY <1>7 DEF Decline
  <2>2. New(r) BY <1>7 DEF New, RequestOK, AboutWho, AboutSelf, Answers, Names, Decline, MayAnswer, Matches
  <2> HIDE DEF r
  <2> QED BY <2>1, <2>2
<1>8. ASSUME NEW p \in Person, NEW q \in Person, NEW gs \in SUBSET Group, SetGroups(s, p, q, gs)
      PROVE  \E r : Begin(s, r) /\ New(r)
  <2> DEFINE r == [kind |-> "setGroups", by |-> p, who |-> q, groups |-> gs, managed |-> Managed(p)]
  <2>1. Begin(s, r) BY <1>8 DEF SetGroups
  <2>2. New(r) BY <1>8 DEF New, RequestOK, AboutWho, AboutSelf, Answers, Names, SetGroups, Managed
  <2> HIDE DEF r
  <2> QED BY <2>1, <2>2
<1>9. ASSUME NEW p \in Person, NEW q \in Person, NEW gs \in SUBSET Group, NEW via \in {"phone", "mail"}, Assign(s, p, q, gs, via)
      PROVE  \E r : Begin(s, r) /\ New(r)
  <2> DEFINE r == [kind |-> "assign", by |-> p, who |-> q, groups |-> gs, via |-> via]
  <2>1. Begin(s, r) BY <1>9 DEF Assign
  <2>2. New(r) BY <1>9 DEF New, RequestOK, AboutWho, AboutSelf, Answers, Names, Assign, Managed
  <2> HIDE DEF r
  <2> QED BY <2>1, <2>2
<1>10. ASSUME NEW p \in Person, NEW q \in Person, NEW g \in Group \cup {None}, PhoneInvite(s, p, q, g)
      PROVE  \E r : Begin(s, r) /\ New(r)
  <2> DEFINE r == [kind |-> "phoneInvite", by |-> p, who |-> q, g |-> g]
  <2>1. Begin(s, r) BY <1>10 DEF PhoneInvite
  <2>2. New(r) BY <1>10 DEF New, RequestOK, AboutWho, AboutSelf, Answers, Names, PhoneInvite, Exists
  <2> HIDE DEF r
  <2> QED BY <2>1, <2>2
<1>11. ASSUME NEW p \in Person, NEW k \in DOMAIN codes, AcceptCode(s, p, k)
      PROVE  \E r : Begin(s, r) /\ New(r)
  <2> DEFINE r == [kind |-> "acceptCode", by |-> p, id |-> k]
  <2>1. Begin(s, r) BY <1>11 DEF AcceptCode
  <2>2. New(r) BY <1>11 DEF New, RequestOK, AboutWho, AboutSelf, Answers, Names, AcceptCode
  <2> HIDE DEF r
  <2> QED BY <2>1, <2>2
<1>12. ASSUME NEW p \in Person, NEW q \in Person, Trust(s, p, q)
      PROVE  \E r : Begin(s, r) /\ New(r)
  <2> DEFINE r == [kind |-> "trust", by |-> p, who |-> q]
  <2>1. Begin(s, r) BY <1>12 DEF Trust
  <2>2. New(r) BY <1>12 DEF New, RequestOK, AboutWho, AboutSelf, Answers, Names, Trust
  <2> HIDE DEF r
  <2> QED BY <2>1, <2>2
<1>13. ASSUME NEW p \in Person, NEW with \in Account, FirebaseLogin(s, p, with)
      PROVE  \E r : Begin(s, r) /\ New(r)
  <2> DEFINE r == [kind |-> "signIn", by |-> p, with |-> with]
  <2>1. Begin(s, r) BY <1>13 DEF FirebaseLogin
  <2>2. New(r) BY <1>13 DEF New, RequestOK, AboutWho, AboutSelf, Answers, Names, FirebaseLogin
  <2> HIDE DEF r
  <2> QED BY <2>1, <2>2
<1>14. ASSUME NEW p \in Person, VerifyPhone(s, p)
      PROVE  \E r : Begin(s, r) /\ New(r)
  <2> DEFINE r == [kind |-> "signIn", by |-> p, with |-> {"phone"}]
  <2>1. Begin(s, r) BY <1>14 DEF VerifyPhone
  <2>2. New(r) BY <1>14 DEF New, RequestOK, AboutWho, AboutSelf, Answers, Names, VerifyPhone, Account
  <2> HIDE DEF r
  <2> QED BY <2>1, <2>2
<1>15. ASSUME NEW p \in Person, PhoneLogin(s, p)
      PROVE  \E r : Begin(s, r) /\ New(r)
  <2> DEFINE r == [kind |-> "phoneLogin", by |-> p]
  <2>1. Begin(s, r) BY <1>15 DEF PhoneLogin
  <2>2. New(r) BY <1>15 DEF New, RequestOK, AboutWho, AboutSelf, Answers, Names, PhoneLogin
  <2> HIDE DEF r
  <2> QED BY <2>1, <2>2
<1>16. ASSUME NEW p \in Person, Register(s, p)
      PROVE  \E r : Begin(s, r) /\ New(r)
  <2> DEFINE r == [kind |-> "register", by |-> p]
  <2>1. Begin(s, r) BY <1>16 DEF Register
  <2>2. New(r) BY <1>16 DEF New, RequestOK, AboutWho, AboutSelf, Answers, Names, Register
  <2> HIDE DEF r
  <2> QED BY <2>1, <2>2
<1> HIDE AdminExists DEF CirclesOK
<1> QED
  BY <1>1, <1>2, <1>3, <1>4, <1>5, <1>6, <1>7, <1>8, <1>9, <1>10, <1>11, <1>12, <1>13, <1>14, <1>15, <1>16
  DEF Start

-----------------------------------------------------------------------------
(* What a decision writes.                                                 *)

LEMMA NoChangeIs ==
  /\ NoChange \in Change /\ Refused \notin Change /\ Refused # NoChange
  /\ NoChange.join = {} /\ NoChange.leave = {} /\ NoChange.named = {} /\ NoChange.invited = {}
  /\ NoChange.answer = {} /\ NoChange.code = {} /\ NoChange.used = {} /\ NoChange.trust = {}
  /\ NoChange.signed = {}
  /\ DOMAIN NoChange = {"join", "leave", "named", "invited", "answer", "code", "used", "trust",
                        "signed"}
<1>1. DOMAIN NoChange = {"join", "leave", "named", "invited", "answer", "code", "used", "trust",
                         "signed"}
  BY DEF NoChange
<1>2. DOMAIN Refused = {"raised"} BY DEF Refused
<1>3. \A c \in Change : "join" \in DOMAIN c BY DEF Change
<1>4. Refused \notin Change BY <1>2, <1>3
<1>5. Refused # NoChange BY <1>1, <1>2
<1>6. NoChange \in Change BY DEF NoChange, Change
<1> QED BY <1>1, <1>4, <1>5, <1>6 DEF NoChange

LEMMA TogetherIs ==
  ASSUME NEW C \in SUBSET (Change \cup {Refused}), Together(C) # Refused
  PROVE  /\ C \in SUBSET Change /\ Together(C) \in Change
         /\ \A x : x \in Together(C).join <=> \E c \in C : x \in c.join
         /\ \A x : x \in Together(C).leave <=> \E c \in C : x \in c.leave
         /\ \A x : x \in Together(C).named <=> \E c \in C : x \in c.named
         /\ \A x : x \in Together(C).invited <=> \E c \in C : x \in c.invited
         /\ \A x : x \in Together(C).answer <=> \E c \in C : x \in c.answer
         /\ \A x : x \in Together(C).code <=> \E c \in C : x \in c.code
         /\ \A x : x \in Together(C).used <=> \E c \in C : x \in c.used
         /\ \A x : x \in Together(C).trust <=> \E c \in C : x \in c.trust
<1>1. Refused \notin C BY DEF Together
<1>2. C \in SUBSET Change BY <1>1
<1> DEFINE t == [join |-> UNION {c.join : c \in C}, leave |-> UNION {c.leave : c \in C},
                 named |-> UNION {c.named : c \in C}, invited |-> UNION {c.invited : c \in C},
                 answer |-> UNION {c.answer : c \in C}, code |-> UNION {c.code : c \in C},
                 used |-> UNION {c.used : c \in C}, trust |-> UNION {c.trust : c \in C},
                 signed |-> UNION {c.signed : c \in C}]
<1>3. Together(C) = [f \in DOMAIN NoChange |-> UNION {c[f] : c \in C}] BY <1>1 DEF Together
<1>4. Together(C) = t BY <1>3, NoChangeIs
<1>5. t \in Change BY <1>2 DEF Change
<1> QED BY <1>2, <1>4, <1>5

LEMMA EnsureIs ==
  ASSUME NEW found, NEW row
  PROVE  \/ Ensure(found, row) = Refused
         \/ found # {} /\ Ensure(found, row) = NoChange
         \/ found = {} /\ Ensure(found, row) = [NoChange EXCEPT !.invited = {row}]
BY DEF Ensure

\* A new row for p: there is no pending one of the kind it adds to.
FreshRow(i, p) ==
  /\ i \in InviteRow /\ i.status = "pending" /\ {i.phone, i.mail} \subseteq {p, None}
  /\ i.phone # None => PendingByPhone(i.g, p) = {}
  /\ i.phone = None => i.mail = p /\ PendingByMail(i.g, p) = {}
\* A row that p can answer.
Reaches(i, p) == (HasPhone(p) /\ i.phone = p) \/ (HasMail(p) /\ i.mail = p)

Inviting(i) == [NoChange EXCEPT !.invited = {i}]
\* What a look at the invites of p to g may come to.
Offer(g, p, c) ==
  c \in {Refused, NoChange} \/ \E i \in InviteRow : c = Inviting(i) /\ i.g = g /\ FreshRow(i, p)
\* If it finds p's account, p can answer then.
OfferToUser(g, p, c) ==
  \/ c = Refused
  \/ c = NoChange /\ CanAnswer(g, p)
  \/ \E i \in InviteRow : c = Inviting(i) /\ i.g = g /\ FreshRow(i, p) /\ Reaches(i, p)

LEMMA RowIs ==
  ASSUME NEW g \in Group, NEW x \in Person \cup {None}, NEW y \in Person \cup {None}
  PROVE  /\ Row(g, x, y) \in InviteRow /\ Row(g, x, y).g = g /\ Row(g, x, y).status = "pending"
         /\ Row(g, x, y).phone = x /\ Row(g, x, y).mail = y
BY DEF Row, InviteRow

LEMMA PersonIsSome == \A p \in Person : p # None
BY CircleAssumption

LEMMA OfferForPhone ==
  ASSUME NEW g \in Group, NEW p \in Person PROVE Offer(g, p, EnsureForPhone(g, p))
<1> DEFINE i == Row(g, p, None)
           e == Ensure(PendingByPhone(g, p), i)
<1>1. i \in InviteRow /\ i.g = g /\ i.status = "pending" /\ i.phone = p /\ i.mail = None
  BY RowIs
<1>2. \/ e = Refused \/ e = NoChange
      \/ PendingByPhone(g, p) = {} /\ e = [NoChange EXCEPT !.invited = {i}]
  BY EnsureIs
<1>3. EnsureForPhone(g, p) \in {NoChange, e} BY DEF EnsureForPhone
<1> HIDE DEF i, e
<1>4. PendingByPhone(g, p) = {} => FreshRow(i, p) BY <1>1, PersonIsSome DEF FreshRow
<1> QED BY <1>1, <1>2, <1>3, <1>4 DEF Offer, Inviting

LEMMA OfferByMail ==
  ASSUME NEW g \in Group, NEW p \in Person
  PROVE  /\ FreshRow(Row(g, None, p), p) \/ PendingByMail(g, p) # {}
         /\ Offer(g, p, Ensure(PendingByMail(g, p), Row(g, None, p)))
<1> DEFINE i == Row(g, None, p)
           e == Ensure(PendingByMail(g, p), i)
<1>1. i \in InviteRow /\ i.g = g /\ i.status = "pending" /\ i.phone = None /\ i.mail = p
  BY RowIs
<1>2. \/ e = Refused \/ e = NoChange
      \/ PendingByMail(g, p) = {} /\ e = [NoChange EXCEPT !.invited = {i}]
  BY EnsureIs
<1> HIDE DEF i, e
<1>3. PendingByMail(g, p) = {} => FreshRow(i, p) BY <1>1 DEF FreshRow
<1> QED BY <1>1, <1>2, <1>3 DEF Offer, Inviting, i, e

LEMMA FoundCanAnswer ==
  ASSUME NEW g \in Group, NEW p \in Person
  PROVE  /\ HasPhone(p) /\ PendingByPhone(g, p) # {} => CanAnswer(g, p)
         /\ HasMail(p) /\ PendingByMail(g, p) # {} => CanAnswer(g, p)
BY DEF PendingByPhone, PendingByMail, CanAnswer, MayAnswer, Matches

LEMMA OfferForUser ==
  ASSUME TablesOK, NEW g \in Group, NEW p \in Person PROVE OfferToUser(g, p, EnsureForUser(g, p))
<1>1. CASE Member(g, p) \/ ~HasAccount(p) BY <1>1 DEF EnsureForUser, OfferToUser
<1>2. CASE ~Member(g, p) /\ HasPhone(p)
  <2> DEFINE m == IF HasMail(p) THEN p ELSE None
             i == Row(g, p, m)
             e == Ensure(PendingByPhone(g, p), i)
  <2>1. m \in {p, None} OBVIOUS
  <2>2. i \in InviteRow /\ i.g = g /\ i.status = "pending" /\ i.phone = p /\ i.mail = m
    BY <2>1, RowIs
  <2>3. \/ e = Refused \/ (PendingByPhone(g, p) # {} /\ e = NoChange)
        \/ PendingByPhone(g, p) = {} /\ e = [NoChange EXCEPT !.invited = {i}]
    BY EnsureIs
  <2>4. EnsureForUser(g, p) = e BY <1>2 DEF EnsureForUser, HasAccount, HasPhone
  <2> HIDE DEF i, e, m
  <2>5. PendingByPhone(g, p) = {} => FreshRow(i, p) BY <2>1, <2>2, PersonIsSome DEF FreshRow
  <2>6. Reaches(i, p) BY <1>2, <2>2 DEF Reaches
  <2> QED BY <1>2, <2>2, <2>3, <2>4, <2>5, <2>6, FoundCanAnswer DEF OfferToUser, Inviting
<1>3. CASE ~Member(g, p) /\ HasAccount(p) /\ ~HasPhone(p)
  <2> DEFINE i == Row(g, None, p)
             e == Ensure(PendingByMail(g, p), i)
  <2>1. HasMail(p) BY <1>3 DEF TablesOK, Account, HasAccount, HasPhone, HasMail
  <2>2. i \in InviteRow /\ i.g = g /\ i.mail = p BY RowIs
  <2>3. \/ e = Refused \/ (PendingByMail(g, p) # {} /\ e = NoChange)
        \/ PendingByMail(g, p) = {} /\ e = [NoChange EXCEPT !.invited = {i}]
    BY EnsureIs
  <2>4. EnsureForUser(g, p) = e BY <1>3 DEF EnsureForUser
  <2>5. PendingByMail(g, p) = {} => FreshRow(i, p) BY OfferByMail
  <2> HIDE DEF i, e
  <2>6. Reaches(i, p) BY <2>1, <2>2 DEF Reaches
  <2> QED BY <2>1, <2>2, <2>3, <2>4, <2>5, <2>6, FoundCanAnswer DEF OfferToUser, Inviting
<1> QED BY <1>1, <1>2, <1>3

LEMMA OfferOfBringIn ==
  ASSUME TablesOK, NEW g \in Group, NEW p \in Person PROVE OfferToUser(g, p, BringIn(g, p))
<1>1. BringIn(g, p) \in {Refused, EnsureForUser(g, p)}
      \/ (BringIn(g, p) = NoChange /\ CanAnswer(g, p))
  BY FoundCanAnswer DEF BringIn
<1> QED BY <1>1, OfferForUser DEF OfferToUser

LEMMA UserOfferIsOffer ==
  ASSUME NEW g, NEW p, NEW c, OfferToUser(g, p, c) PROVE Offer(g, p, c)
BY DEF OfferToUser, Offer

LEMMA OfferOfInvite ==
  ASSUME TablesOK, NEW g \in Group, NEW p \in Person, NEW via \in {"id", "phone", "mail"}
  PROVE  Offer(g, p, InviteOne(g, p, via))
<1>1. Offer(g, p, EnsureForUser(g, p)) BY OfferForUser, UserOfferIsOffer
<1>2. Offer(g, p, EnsureForPhone(g, p)) BY OfferForPhone
<1>3. Offer(g, p, Refused) BY DEF Offer
<1>4. PendingByMail(g, p) = {} => Offer(g, p, [NoChange EXCEPT !.invited = {Row(g, None, p)}])
  <2>1. Row(g, None, p) \in InviteRow /\ Row(g, None, p).g = g BY RowIs
  <2> QED BY <2>1, OfferByMail DEF Offer, Inviting
<1>5. InviteOne(g, p, via) \in {EnsureForUser(g, p), EnsureForPhone(g, p), Refused}
      \/ (PendingByMail(g, p) = {}
          /\ InviteOne(g, p, via) = [NoChange EXCEPT !.invited = {Row(g, None, p)}])
  <2>1. CASE via = "id" BY <2>1 DEF InviteOne
  <2>2. CASE via = "phone" BY <2>2 DEF InviteOne
  <2>3. CASE via = "mail" BY <2>3 DEF InviteOne
  <2> QED BY <2>1, <2>2, <2>3
<1> QED BY <1>1, <1>2, <1>3, <1>4, <1>5

\* No other circle of the owner has the name, or the request found the circle
\* under it.
Free(r, n) == Owned(n[2], n[3]) \subseteq {n[1]} \/ (r.kind = "rename" /\ n[3] = r.was)

\* What a change is when it is decided.
Sound(r, c) ==
  /\ ChangeOK(r, c)
  /\ \A i \in c.invited : FreshRow(i, Subject(r))
  /\ \A n \in c.named : Free(r, n)
  /\ \A l \in c.leave : /\ Member(l[1], l[2])
                        /\ r.kind = "setGroups" => role[l[1]][l[2]] # "owner"

LEMMA NoChangeSound == ASSUME NEW r PROVE Sound(r, NoChange)
BY NoChangeIs DEF Sound, ChangeOK

\* Changes of one request add up if they do not invite to a circle twice.
LEMMA CombineSound ==
  ASSUME NEW r, NEW C, Together(C) # Refused,
         \A c \in C : c = Refused \/ Sound(r, c),
         \A c, d \in C : \A i \in c.invited, j \in d.invited : i.g = j.g => i = j,
         \A c, d \in C : \A x \in c.code, y \in d.code : x = y
  PROVE  Sound(r, Together(C))
<1> DEFINE t == Together(C)
<1>1. C \in SUBSET (Change \cup {Refused}) BY DEF Sound, ChangeOK
<1>2. C \in SUBSET Change /\ t \in Change BY <1>1, TogetherIs
<1>3. /\ \A x \in t.join : \E c \in C : x \in c.join
      /\ \A x \in t.leave : \E c \in C : x \in c.leave
      /\ \A x \in t.named : \E c \in C : x \in c.named
      /\ \A x \in t.invited : \E c \in C : x \in c.invited
      /\ \A x \in t.answer : \E c \in C : x \in c.answer
      /\ \A x \in t.code : \E c \in C : x \in c.code
      /\ \A x \in t.used : \E c \in C : x \in c.used
  BY <1>1, TogetherIs
<1>4. \A c \in C : c.named \subseteq t.named /\ c.trust \subseteq t.trust BY <1>1, TogetherIs
<1> HIDE DEF t
<1>5. \A c \in C : Sound(r, c) BY <1>2, NoChangeIs
<1>6. /\ \A n \in t.named : r.kind \in Names /\ n[1] = r.g /\ n[2] = r.owner /\ Free(r, n)
      /\ \A l \in t.leave : /\ r.kind \in {"remove", "setGroups"} /\ l[2] = r.who
                            /\ r.kind = "remove" => l[1] = r.g
                            /\ Member(l[1], l[2])
                            /\ r.kind = "setGroups" => role[l[1]][l[2]] # "owner"
  BY <1>3, <1>5 DEF Sound, ChangeOK
<1>7. \A j \in t.join : /\ r.kind \in {"create", "add", "accept", "acceptCode"}
                        /\ j[2] = Subject(r)
                        /\ r.kind # "create" => Exists(j[1])
                        /\ r.kind = "create" => \E n \in t.named : n[1] = j[1]
  BY <1>3, <1>4, <1>5 DEF Sound, ChangeOK
<1>8. \A i \in t.invited : /\ r.kind \in AboutWho \cup AboutSelf
                           /\ i.status = "pending" /\ Exists(i.g)
                           /\ {i.phone, i.mail} \subseteq {Subject(r), None}
                           /\ FreshRow(i, Subject(r))
  BY <1>3, <1>5 DEF Sound, ChangeOK
<1>9. \A i, j \in t.invited : i.g = j.g => i = j BY <1>3
<1>10. \A a \in t.answer :
         r.kind \in Answers /\ a = <<r.id, IF r.kind = "accept" THEN "accepted" ELSE "declined">>
  BY <1>3, <1>5 DEF Sound, ChangeOK
<1>11. (\A x \in t.code : x.g # None => Exists(x.g)) /\ \A x, y \in t.code : x = y
  BY <1>3, <1>5 DEF Sound, ChangeOK
<1>12. \A k \in t.used : /\ r.kind = "acceptCode" /\ k = r.id
                         /\ {<<codes[k].from, r.by>>, <<r.by, codes[k].from>>} \subseteq t.trust
  <2> SUFFICES ASSUME NEW k \in t.used
               PROVE  /\ r.kind = "acceptCode" /\ k = r.id
                      /\ {<<codes[k].from, r.by>>, <<r.by, codes[k].from>>} \subseteq t.trust
    OBVIOUS
  <2>1. PICK c \in C : k \in c.used BY <1>3
  <2>2. /\ r.kind = "acceptCode" /\ k = r.id
        /\ {<<codes[k].from, r.by>>, <<r.by, codes[k].from>>} \subseteq c.trust
    BY <1>5, <2>1 DEF Sound, ChangeOK
  <2> QED BY <1>4, <2>2
<1> QED BY <1>2, <1>6, <1>7, <1>8, <1>9, <1>10, <1>11, <1>12 DEF Sound, ChangeOK, t

LEMMA InvitingIs ==
  ASSUME NEW i \in InviteRow
  PROVE  LET c == Inviting(i)
         IN  /\ c \in Change /\ c.invited = {i} /\ c # Refused
             /\ {c.join, c.leave, c.named, c.answer, c.code, c.used, c.trust, c.signed} = {{}}
<1>1. Inviting(i) = [join |-> {}, leave |-> {}, named |-> {}, invited |-> {i}, answer |-> {},
                     code |-> {}, used |-> {}, trust |-> {}, signed |-> {}]
  BY DEF Inviting, NoChange
<1>2. Inviting(i) \in Change BY <1>1 DEF Change
<1> QED BY <1>1, <1>2, NoChangeIs

LEMMA OfferSound ==
  ASSUME NEW r, r.kind \in AboutWho \cup AboutSelf, NEW g, Exists(g), NEW c,
         Offer(g, Subject(r), c)
  PROVE  c = Refused \/ (Sound(r, c) /\ c.code = {} /\ c.leave = {}
                            /\ (\A i \in c.invited : i.g = g) /\ \A i, j \in c.invited : i = j)
<1>1. CASE c \in {Refused, NoChange} BY <1>1, NoChangeSound, NoChangeIs
<1>2. ASSUME NEW i \in InviteRow, c = Inviting(i), i.g = g, FreshRow(i, Subject(r))
      PROVE  Sound(r, c) /\ c.code = {} /\ c.leave = {} /\ c.invited = {i}
  <2>1. /\ c \in Change /\ c.invited = {i}
        /\ c.join = {} /\ c.leave = {} /\ c.named = {} /\ c.answer = {} /\ c.code = {} /\ c.used = {}
    BY <1>2, InvitingIs
  <2> QED BY <1>2, <2>1 DEF Sound, ChangeOK, FreshRow
<1> QED BY <1>1, <1>2 DEF Offer

\* The directory's decision settles every circle of the actor.
DirectoryOK(r, c) ==
  r.kind = "setGroups" => \A g \in r.managed :
    IF g \in r.groups
    THEN \/ Member(g, r.who) /\ <<g, r.who>> \notin c.leave
         \/ CanAnswer(g, r.who)
         \/ \E i \in c.invited : i.g = g /\ Reaches(i, r.who)
    ELSE role[g][r.who] \in {"none", "owner"} \/ <<g, r.who>> \in c.leave

\* A change that writes just what is named.
Writing(join, leave, named, answer, used, trust) ==
  [join |-> join, leave |-> leave, named |-> named, invited |-> {}, answer |-> answer,
   code |-> {}, used |-> used, trust |-> trust, signed |-> {}]

LEMMA CirclesDecide ==
  ASSUME CirclesOK, NEW r, RequestOK(r), r.kind \in Names \cup {"add", "remove"},
         NEW c, c = Decision(r), c # Refused
  PROVE  Sound(r, c)
<1> USE DEF CirclesOK
<1>1. CASE r.kind = "create"
  <2> DEFINE d == Writing({<<r.g, r.by, "owner">>}, {}, {<<r.g, r.by, r.title>>}, {}, {}, {})
  <2>1. c = CreateDecide(r) BY <1>1 DEF Decision
  <2>2. Owned(r.by, r.title) = {} /\ c = d
    BY <2>1 DEF CreateDecide, NoChange, Writing
  <2>3. r.g \in Group /\ r.by \in Person /\ r.title \in Title /\ Subject(r) = r.by
    BY <1>1 DEF RequestOK, Names, AboutWho, Subject
  <2>4. d \in Change BY <2>3 DEF Change, Roles, Writing
  <2>5. r.owner = r.by BY <1>1 DEF RequestOK
  <2>6. /\ c.join = {<<r.g, r.by, "owner">>} /\ c.named = {<<r.g, r.by, r.title>>}
        /\ {c.leave, c.invited, c.answer, c.code, c.used} = {{}}
    BY <2>2 DEF Writing
  <2>7. \A n \in c.named : n[1] = r.g /\ n[2] = r.by /\ n[3] = r.title BY <2>6
  <2>8. \A j \in c.join : j[1] = r.g /\ j[2] = r.by BY <2>6
  <2>9. \E n \in c.named : n[1] = r.g BY <2>6
  <2>10. \A n \in c.named : Free(r, n) BY <2>2, <2>7 DEF Free
  <2> HIDE DEF d
  <2> QED BY <1>1, <2>2, <2>3, <2>4, <2>5, <2>6, <2>7, <2>8, <2>9, <2>10 DEF Sound, ChangeOK, Names
<1>2. CASE r.kind = "rename"
  <2> DEFINE d == Writing({}, {}, {<<r.g, creator[r.g], r.title>>}, {}, {}, {})
  <2>1. c = RenameDecide(r) BY <1>2 DEF Decision
  <2>2. c = d /\ (r.title = r.was \/ Owned(creator[r.g], r.title) \subseteq {r.g})
    BY <2>1 DEF RenameDecide, NoChange, Writing
  <2>3. r.g \in Group /\ r.owner \in Person /\ r.title \in Title /\ creator[r.g] = r.owner
    BY <1>2 DEF RequestOK, Names
  <2>4. d \in Change BY <2>3 DEF Change, Writing
  <2>5. /\ c.named = {<<r.g, creator[r.g], r.title>>}
        /\ {c.join, c.leave, c.invited, c.answer, c.code, c.used} = {{}}
    BY <2>2 DEF Writing
  <2>6. \A n \in c.named : n[1] = r.g /\ n[2] = r.owner /\ n[3] = r.title BY <2>3, <2>5
  <2>7. \A n \in c.named : Free(r, n) BY <1>2, <2>2, <2>3, <2>6 DEF Free
  <2> HIDE DEF d
  <2> QED BY <1>2, <2>2, <2>4, <2>5, <2>6, <2>7 DEF Sound, ChangeOK, Names
<1>3. CASE r.kind = "add"
  <2> DEFINE d == Writing({<<r.g, r.who, r.role>>}, {}, {}, {}, {}, {})
  <2>1. c = AddDecide(r) BY <1>3 DEF Decision
  <2>2. c = d BY <2>1 DEF AddDecide, NoChange, Writing
  <2>3. r.g \in Group /\ Exists(r.g) /\ r.who \in Person /\ r.role \in Roles /\ Subject(r) = r.who
    BY <1>3 DEF RequestOK, AboutWho, Subject
  <2>4. d \in Change BY <2>3 DEF Change, Writing
  <2> QED BY <1>3, <2>2, <2>3, <2>4 DEF Sound, ChangeOK, Writing
<1>4. CASE r.kind = "remove"
  <2> DEFINE d == Writing({}, {<<r.g, r.who>>}, {}, {}, {}, {})
  <2>1. c = RemoveDecide(r) BY <1>4 DEF Decision
  <2>2. Member(r.g, r.who) /\ c = d BY <2>1 DEF RemoveDecide, NoChange, Writing
  <2>3. r.g \in Group /\ r.who \in Person BY <1>4 DEF RequestOK, AboutWho
  <2>4. d \in Change BY <2>3 DEF Change, Writing
  <2> QED BY <1>4, <2>2, <2>3, <2>4 DEF Sound, ChangeOK, Writing
<1> QED BY <1>1, <1>2, <1>3, <1>4 DEF Names

LEMMA AnswersDecide ==
  ASSUME CirclesOK, NEW r, RequestOK(r), r.kind \in Answers \cup {"acceptCode", "trust"},
         NEW c, c = Decision(r), c # Refused
  PROVE  Sound(r, c)
<1> USE DEF CirclesOK
<1>1. CASE r.kind \in Answers
  <2> DEFINE g == invites[r.id].g
             a == <<r.id, IF r.kind = "accept" THEN "accepted" ELSE "declined">>
             j == <<g, r.by, "member">>
  <2>0. r.id \in DOMAIN invites BY <1>1 DEF RequestOK
  <2>1. r.id \in Nat /\ g \in Group /\ Exists(g) BY <2>0, RowsTyped DEF Linked, InviteRow
  <2>2. r.by \in Person /\ Subject(r) = r.by /\ r.kind \notin {"create", "acceptCode"}
    BY <1>1 DEF RequestOK, Answers, AboutWho, Subject
  <2>3. \E join \in {{}, {j}} : c = Writing(join, {}, {}, {a}, {}, {})
               /\ (join # {} => r.kind = "accept")
    <3>1. CASE r.kind = "accept"
      BY <3>1 DEF Decision, AcceptDecide, NoChange, Writing
    <3>2. CASE r.kind = "decline"
      BY <3>2 DEF Decision, DeclineDecide, NoChange, Writing
    <3> QED BY <1>1, <3>1, <3>2 DEF Answers
  <2>4. PICK join \in {{}, {j}} : c = Writing(join, {}, {}, {a}, {}, {})
               /\ (join # {} => r.kind = "accept")
    BY <2>3
  <2>5. a \in Nat \X {"accepted", "declined"} /\ join \in SUBSET (Group \X Person \X Roles)
    BY <2>1, <2>2 DEF Roles
  <2>6. c \in Change BY <2>4, <2>5 DEF Change, Writing
  <2>7. \A x \in join : x[1] = g /\ x[2] = r.by OBVIOUS
  <2> HIDE DEF j, g
  <2> QED BY <1>1, <2>1, <2>2, <2>4, <2>6, <2>7 DEF Sound, ChangeOK, Writing
<1>2. CASE r.kind = "acceptCode"
  <2> DEFINE x == codes[r.id]
             ts == {<<x.from, r.by>>, <<r.by, x.from>>}
             j == <<x.g, r.by, "member">>
  <2>0. r.id \in DOMAIN codes BY <1>2 DEF RequestOK
  <2>1. r.id \in Nat /\ x.from \in Person /\ (x.g = None \/ (x.g \in Group /\ Exists(x.g)))
    BY <2>0, RowsTyped DEF Linked, CodeRow
  <2>2. r.by \in Person /\ Subject(r) = r.by
    BY <1>2 DEF RequestOK, AboutWho, Subject
  <2>3. PICK join \in {{}, {j}} : c = Writing(join, {}, {}, {}, {r.id}, ts)
               /\ (join # {} => x.g # None)
    BY <1>2 DEF Decision, AcceptCodeDecide, NoChange, Writing
  <2>4. ts \in SUBSET (Person \X Person) /\ join \in SUBSET (Group \X Person \X Roles)
    BY <2>1, <2>2, <2>3 DEF Roles
  <2>5. c \in Change BY <2>1, <2>3, <2>4 DEF Change, Writing
  <2>6. \A y \in join : y[2] = r.by /\ Exists(y[1]) BY <2>1, <2>3
  <2> HIDE DEF j
  <2> QED BY <1>2, <2>2, <2>3, <2>5, <2>6 DEF Sound, ChangeOK, Writing
<1>3. CASE r.kind = "trust"
  <2> DEFINE d == Writing({}, {}, {}, {}, {}, {<<r.by, r.who>>} \ trusted)
  <2>1. c = d BY <1>3 DEF Decision, TrustDecide, NoChange, Writing
  <2>2. r.by \in Person /\ r.who \in Person BY <1>3 DEF RequestOK, AboutWho
  <2>3. d \in Change BY <2>2 DEF Change, Writing
  <2> QED BY <2>1, <2>3 DEF Sound, ChangeOK, Writing
<1> QED BY <1>1, <1>2, <1>3

\* A part of a change that signs somebody in or leaves a circle or a code.
LEMMA SignedSound ==
  ASSUME NEW r, NEW p \in Person, NEW new \in BOOLEAN, NEW with \in Account
  PROVE  LET c == Signed(p, new, with)
         IN  Sound(r, c) /\ c.invited = {} /\ c.code = {} /\ c # Refused
<1> DEFINE x == [who |-> p, new |-> new, with |-> with]
           c == [NoChange EXCEPT !.signed = {x}]
<1>1. c = [join |-> {}, leave |-> {}, named |-> {}, invited |-> {}, answer |-> {},
           code |-> {}, used |-> {}, trust |-> {}, signed |-> {x}]
  BY DEF NoChange
<1>2. c \in Change BY <1>1 DEF Change
<1>3. Signed(p, new, with) = c BY DEF Signed
<1> HIDE DEF c, x
<1> QED BY <1>1, <1>2, <1>3, NoChangeIs DEF Sound, ChangeOK

\* What a request may write about one circle.
Part(r, g, c) ==
  \/ c = Refused
  \/ /\ Sound(r, c) /\ c.code = {}
     /\ \A i \in c.invited : i.g = g
     /\ \A i, j \in c.invited : i = j

\* One part about no circle, and at most one for each circle.
LEMMA PartsSound ==
  ASSUME NEW r, NEW s, Sound(r, s), s.invited = {}, NEW F, \A g \in DOMAIN F : Part(r, g, F[g]),
         NEW C, \A c \in C : c = s \/ \E g \in DOMAIN F : c = F[g], Together(C) # Refused
  PROVE  Sound(r, Together(C))
<1>1. Refused \notin C BY DEF Together
<1>2. \A c \in C : c = s \/ \E g \in DOMAIN F : c = F[g] /\ Sound(r, c) /\ c.code = {}
                               /\ (\A i \in c.invited : i.g = g) /\ \A i, j \in c.invited : i = j
  BY <1>1 DEF Part
<1>3. \A c \in C : c = Refused \/ Sound(r, c) BY <1>2
<1>4. \A c, d \in C : \A i \in c.invited, j \in d.invited : i.g = j.g => i = j
  <2> SUFFICES ASSUME NEW c \in C, NEW d \in C, NEW i \in c.invited, NEW j \in d.invited, i.g = j.g
               PROVE  i = j
    OBVIOUS
  <2>1. PICK g \in DOMAIN F : c = F[g] /\ i.g = g /\ \A x, y \in c.invited : x = y BY <1>2
  <2>2. PICK h \in DOMAIN F : d = F[h] /\ j.g = h BY <1>2
  <2> QED BY <2>1, <2>2
<1>5. \A x, y \in s.code : x = y BY DEF Sound, ChangeOK
<1>6. \A c, d \in C : \A x \in c.code, y \in d.code : x = y BY <1>2, <1>5
<1> QED BY <1>3, <1>4, <1>6, CombineSound

\* Linking the phone invites of p is one part for each circle they name.
LinkTo(g, p) ==
  IF Member(g, p) THEN NoChange ELSE Ensure(PendingByPhone(g, p), Row(g, p, None))

LEMMA LinkIs ==
  ASSUME TablesOK, Linked, NEW p, NEW c \in Link(p)
  PROVE  \E g \in Group : Exists(g) /\ c = LinkTo(g, p)
<1>1. PICK k \in DOMAIN codes : codes[k].g # None /\ c = LinkTo(codes[k].g, p)
  BY DEF Link, LinkTo
<1>2. codes[k].g \in Group BY <1>1, RowsTyped DEF CodeRow
<1>3. Exists(codes[k].g) BY <1>1 DEF Linked
<1> QED BY <1>1, <1>2, <1>3

LEMMA OfferOfLink ==
  ASSUME NEW g \in Group, NEW p \in Person PROVE Offer(g, p, LinkTo(g, p))
<1> DEFINE i == Row(g, p, None)
           e == Ensure(PendingByPhone(g, p), i)
<1>1. i \in InviteRow /\ i.g = g /\ i.status = "pending" /\ i.phone = p /\ i.mail = None
  BY RowIs
<1>2. \/ e = Refused \/ e = NoChange
      \/ PendingByPhone(g, p) = {} /\ e = [NoChange EXCEPT !.invited = {i}]
  BY EnsureIs
<1>3. LinkTo(g, p) \in {NoChange, e} BY DEF LinkTo
<1> HIDE DEF i, e
<1>4. PendingByPhone(g, p) = {} => FreshRow(i, p) BY <1>1, PersonIsSome DEF FreshRow
<1> QED BY <1>1, <1>2, <1>3, <1>4 DEF Offer, Inviting

LEMMA OfferIsPart ==
  ASSUME NEW r, r.kind \in AboutWho \cup AboutSelf, NEW g, Exists(g), NEW c,
         Offer(g, Subject(r), c)
  PROVE  Part(r, g, c)
BY OfferSound DEF Part

LEMMA LinkSound ==
  ASSUME TablesOK, Linked, NEW r, r.kind \in AboutSelf, r.by \in Person,
         NEW new \in BOOLEAN, NEW with \in Account, NEW C, C \subseteq Link(r.by),
         Together({Signed(r.by, new, with)} \cup C) # Refused
  PROVE  Sound(r, Together({Signed(r.by, new, with)} \cup C))
<1> DEFINE s == Signed(r.by, new, with)
           F == [g \in {h \in Group : Exists(h)} |-> LinkTo(g, r.by)]
<1>1. Sound(r, s) /\ s.invited = {} BY SignedSound
<1>2. Subject(r) = r.by BY DEF Subject, AboutWho, AboutSelf
<1>3. \A g \in DOMAIN F : Part(r, g, F[g]) BY <1>2, OfferOfLink, OfferIsPart
<1>4. \A c \in {s} \cup C : c = s \/ \E g \in DOMAIN F : c = F[g] BY LinkIs
<1> HIDE DEF s, F
<1>5. Together({s} \cup C) # Refused BY DEF s
<1>6. Sound(r, Together({s} \cup C)) BY <1>1, <1>3, <1>4, <1>5, PartsSound
<1> QED BY <1>6 DEF s

LEMMA SignInDecides ==
  ASSUME CirclesOK, NEW r, RequestOK(r), r.kind \in {"signIn", "phoneLogin", "register"},
         NEW c, c = Decision(r), c # Refused
  PROVE  Sound(r, c)
<1> USE DEF CirclesOK
<1>0. r.by \in Person /\ r.kind \in AboutSelf BY DEF RequestOK, AboutSelf
<1>1. CASE r.kind = "signIn"
  <2> DEFINE C == IF "phone" \in r.with THEN Link(r.by) ELSE {}
             new == ~HasAccount(r.by)
  <2>1. c = Together({Signed(r.by, new, r.with)} \cup C)
    BY <1>1 DEF Decision, SignInDecide
  <2>2. r.with \in Account BY <1>1 DEF RequestOK
  <2>3. C \subseteq Link(r.by) /\ new \in BOOLEAN OBVIOUS
  <2> HIDE DEF C, new
  <2> QED BY <1>0, <2>1, <2>2, <2>3, LinkSound
<1>2. CASE r.kind = "phoneLogin"
  <2> DEFINE C == Link(r.by)
  <2>1. c = NoChange \/ c = Together({Signed(r.by, TRUE, {"phone"})} \cup C)
    BY <1>2 DEF Decision, PhoneLoginDecide
  <2>2. {"phone"} \in Account BY DEF Account
  <2> HIDE DEF C
  <2>3. CASE c = Together({Signed(r.by, TRUE, {"phone"})} \cup C)
    BY <1>0, <2>2, <2>3, LinkSound DEF C
  <2> QED BY <2>1, <2>3, NoChangeSound
<1>3. CASE r.kind = "register"
  <2>1. c = Signed(r.by, TRUE, {"mail"}) BY <1>3 DEF Decision, RegisterDecide
  <2>2. {"mail"} \in Account BY DEF Account
  <2>3. \A with \in Account : Sound(r, Signed(r.by, TRUE, with)) BY <1>0, SignedSound, Zenon
  <2> QED BY <2>1, <2>2, <2>3
<1> QED BY <1>1, <1>2, <1>3

LEMMA LeavingSound ==
  ASSUME NEW r, r.kind = "setGroups", r.who \in Person, NEW g \in Group,
         Member(g, r.who), role[g][r.who] # "owner",
         NEW c, c = [NoChange EXCEPT !.leave = {<<g, r.who>>}]
  PROVE  Sound(r, c) /\ c.code = {} /\ c.invited = {}
<1>1. c = Writing({}, {<<g, r.who>>}, {}, {}, {}, {}) BY DEF NoChange, Writing
<1>2. c \in Change
  <2> DEFINE L == {<<g, r.who>>}
  <2>1. L \in SUBSET (Group \X Person) OBVIOUS
  <2>2. c = Writing({}, L, {}, {}, {}, {}) BY <1>1
  <2> HIDE DEF L
  <2>3. Writing({}, L, {}, {}, {}, {}) \in Change BY <2>1 DEF Change, Writing
  <2> QED BY <2>2, <2>3
<1>3. /\ c.leave = {<<g, r.who>>}
      /\ c.join = {} /\ c.named = {} /\ c.invited = {} /\ c.answer = {} /\ c.code = {}
      /\ c.used = {}
  BY <1>1 DEF Writing
<1> HIDE <1>1
<1>4. \A l \in c.leave : l[1] = g /\ l[2] = r.who BY <1>3
<1> QED BY <1>2, <1>3, <1>4 DEF Sound, ChangeOK

\* What the directory does about one circle.
SetOne(r, g) ==
  IF g \in r.groups /\ ~Member(g, r.who) THEN BringIn(g, r.who)
  ELSE IF g \notin r.groups /\ Member(g, r.who) THEN TakeOut(g, r.who)
  ELSE NoChange

LEMMA SetOneIsPart ==
  ASSUME TablesOK, NEW r, r.kind = "setGroups", r.who \in Person, NEW g \in Group, Exists(g)
  PROVE  Part(r, g, SetOne(r, g))
<1> DEFINE c == SetOne(r, g)
<1>0. Subject(r) = r.who /\ r.kind \in AboutWho BY DEF Subject, AboutWho
<1>1. CASE c = BringIn(g, r.who)
  <2>1. Offer(g, r.who, BringIn(g, r.who)) BY OfferOfBringIn, UserOfferIsOffer
  <2> QED BY <1>0, <1>1, <2>1, OfferIsPart
<1>2. CASE c = NoChange BY <1>2, NoChangeIs, NoChangeSound DEF Part
<1>3. CASE Member(g, r.who) /\ c = TakeOut(g, r.who) /\ role[g][r.who] # "owner"
  <2>1. c = [NoChange EXCEPT !.leave = {<<g, r.who>>}] BY <1>3 DEF TakeOut
  <2> HIDE DEF c
  <2> QED BY <1>3, <2>1, LeavingSound DEF Part, c
<1>4. \/ c = BringIn(g, r.who) \/ c = NoChange
      \/ (Member(g, r.who) /\ c = TakeOut(g, r.who) /\ role[g][r.who] # "owner")
  BY DEF SetOne, TakeOut
<1> QED BY <1>1, <1>2, <1>3, <1>4

LEMMA SetGroupsDecides ==
  ASSUME CirclesOK, NEW r, RequestOK(r), r.kind = "setGroups", NEW c, c = Decision(r), c # Refused
  PROVE  Sound(r, c) /\ DirectoryOK(r, c)
<1> USE DEF CirclesOK
<1> DEFINE F == [g \in r.managed |-> SetOne(r, g)]
           C == {NoChange} \cup {SetOne(r, g) : g \in r.managed}
<1>1. c = Together(C) BY DEF Decision, SetGroupsDecide, SetOne
<1>2. r.who \in Person /\ r.managed \subseteq Group /\ \A g \in r.managed : Exists(g)
  BY DEF RequestOK, AboutWho
<1>3. \A g \in DOMAIN F : Part(r, g, F[g]) BY <1>2, SetOneIsPart
<1>4. \A d \in C : d = NoChange \/ \E g \in DOMAIN F : d = F[g] OBVIOUS
<1>5. NoChange.invited = {} /\ Sound(r, NoChange) BY NoChangeIs, NoChangeSound
<1>6. Sound(r, c)
  <2> HIDE DEF F, C
  <2> QED BY <1>1, <1>3, <1>4, <1>5, PartsSound
<1>7. \A d \in C : d \in Change \cup {Refused}
  <2>1. \A g, d : Part(r, g, d) => d \in Change \cup {Refused} BY DEF Part, Sound, ChangeOK
  <2>2. \A g \in r.managed : SetOne(r, g) \in Change \cup {Refused} BY <1>3, <2>1
  <2> QED BY <2>2, NoChangeIs
<1>8. \A g \in r.managed : SetOne(r, g) \in C /\ SetOne(r, g) # Refused
  <2>1. Refused \notin C BY <1>1 DEF Together
  <2> QED BY <2>1
<1>9. /\ \A d \in C : d.leave \subseteq c.leave /\ d.invited \subseteq c.invited
      /\ \A l \in c.leave : \E g \in r.managed : l \in SetOne(r, g).leave
  <2>1. C \in SUBSET (Change \cup {Refused}) BY <1>7
  <2> HIDE DEF C
  <2>2. /\ \A d \in C : d.leave \subseteq c.leave /\ d.invited \subseteq c.invited
        /\ \A l \in c.leave : \E d \in C : l \in d.leave
    BY <1>1, <2>1, TogetherIs
  <2> QED BY <2>2, NoChangeIs DEF C
<1> HIDE DEF C, F
<1>10. ASSUME NEW g \in r.managed, g \in r.groups
       PROVE  \/ Member(g, r.who) /\ <<g, r.who>> \notin c.leave
              \/ CanAnswer(g, r.who)
              \/ \E i \in c.invited : i.g = g /\ Reaches(i, r.who)
  <2>1. CASE ~Member(g, r.who)
    <3>1. OfferToUser(g, r.who, SetOne(r, g)) BY <1>2, <1>10, <2>1, OfferOfBringIn DEF SetOne
    <3>2. CASE CanAnswer(g, r.who) BY <3>2
    <3>3. CASE \E i \in InviteRow : SetOne(r, g) = Inviting(i) /\ i.g = g /\ Reaches(i, r.who)
      <4>1. PICK i \in InviteRow : SetOne(r, g) = Inviting(i) /\ i.g = g /\ Reaches(i, r.who)
        BY <3>3
      <4>2. i \in SetOne(r, g).invited BY <4>1, InvitingIs
      <4> QED BY <1>8, <1>9, <4>1, <4>2
    <3> QED BY <1>8, <3>1, <3>2, <3>3 DEF OfferToUser
  <2>2. CASE Member(g, r.who)
    <3>1. ASSUME NEW h \in r.managed, <<g, r.who>> \in SetOne(r, h).leave PROVE FALSE
      <4>1. h # g BY <1>10, <2>2, <3>1, NoChangeIs DEF SetOne
      <4>2. OfferToUser(h, r.who, BringIn(h, r.who)) BY <1>2, OfferOfBringIn
      <4>3. \A i \in InviteRow : Inviting(i).leave = {} BY InvitingIs
      <4>4. BringIn(h, r.who) = Refused \/ BringIn(h, r.who).leave = {}
        BY <4>2, <4>3, NoChangeIs DEF OfferToUser
      <4>5. TakeOut(h, r.who).leave \subseteq {<<h, r.who>>}
        BY NoChangeIs DEF TakeOut, NoChange
      <4> QED BY <1>8, <3>1, <4>1, <4>4, <4>5, NoChangeIs DEF SetOne
    <3> QED BY <1>9, <2>2, <3>1
  <2> QED BY <2>1, <2>2
<1>11. ASSUME NEW g \in r.managed, g \notin r.groups
       PROVE  role[g][r.who] \in {"none", "owner"} \/ <<g, r.who>> \in c.leave
  <2>1. CASE Member(g, r.who) /\ role[g][r.who] # "owner"
    <3>1. SetOne(r, g) = [NoChange EXCEPT !.leave = {<<g, r.who>>}]
      BY <1>11, <2>1 DEF SetOne, TakeOut
    <3>2. SetOne(r, g).leave = {<<g, r.who>>} BY <3>1 DEF NoChange
    <3> QED BY <1>8, <1>9, <3>2
  <2> QED BY <2>1 DEF Member
<1>12. DirectoryOK(r, c) BY <1>10, <1>11 DEF DirectoryOK
<1> QED BY <1>6, <1>12

\* What an assignment from the directory does about one circle.
AssignOne(r, g) ==
  IF r.via = "phone" /\ HasPhone(r.who) /\ Member(g, r.who) THEN NoChange
  ELSE IF r.via = "mail" /\ HasMail(r.who) /\ Member(g, r.who) THEN NoChange
  ELSE IF r.via = "mail" /\ ~HasMail(r.who)
  THEN Ensure(PendingByMail(g, r.who), Row(g, None, r.who))
  ELSE InviteOne(g, r.who, r.via)

LEMMA InvitesDecide ==
  ASSUME CirclesOK, NEW r, RequestOK(r), r.kind \in {"invite", "assign", "phoneInvite"},
         NEW c, c = Decision(r), c # Refused
  PROVE  Sound(r, c)
<1> USE DEF CirclesOK
<1>0. r.who \in Person /\ r.kind \in AboutWho /\ Subject(r) = r.who
  BY DEF RequestOK, AboutWho, Subject
<1>1. CASE r.kind = "invite"
  <2>1. c = InviteOne(r.g, r.who, r.via) BY <1>1 DEF Decision, InviteDecide
  <2>2. r.g \in Group /\ Exists(r.g) /\ r.via \in {"id", "phone", "mail"}
    BY <1>1 DEF RequestOK
  <2>3. Offer(r.g, r.who, c) BY <1>0, <2>1, <2>2, OfferOfInvite
  <2>4. Part(r, r.g, c) BY <1>0, <2>2, <2>3, OfferIsPart
  <2> QED BY <2>4 DEF Part
<1>2. CASE r.kind = "assign"
  <2> DEFINE F == [g \in r.groups |-> AssignOne(r, g)]
             C == {NoChange} \cup {AssignOne(r, g) : g \in r.groups}
  <2>1. c = Together(C) BY <1>2 DEF Decision, AssignDecide, AssignOne
  <2>2. r.groups \subseteq Group /\ r.via \in {"phone", "mail"} /\ \A g \in r.groups : Exists(g)
    BY <1>2 DEF RequestOK
  <2>3. ASSUME NEW g \in r.groups PROVE Part(r, g, AssignOne(r, g))
    <3>1. Offer(g, r.who, Ensure(PendingByMail(g, r.who), Row(g, None, r.who)))
      BY <1>0, <2>2, OfferByMail
    <3>2. Offer(g, r.who, InviteOne(g, r.who, r.via)) BY <1>0, <2>2, OfferOfInvite
    <3>3. Offer(g, r.who, NoChange) BY DEF Offer
    <3>4. Offer(g, r.who, AssignOne(r, g)) BY <3>1, <3>2, <3>3 DEF AssignOne
    <3> QED BY <1>0, <2>2, <3>4, OfferIsPart
  <2>4. \A g \in DOMAIN F : Part(r, g, F[g]) BY <2>3
  <2>5. \A d \in C : d = NoChange \/ \E g \in DOMAIN F : d = F[g] OBVIOUS
  <2>6. NoChange.invited = {} /\ Sound(r, NoChange) BY NoChangeIs, NoChangeSound
  <2> HIDE DEF F, C
  <2> QED BY <2>1, <2>4, <2>5, <2>6, PartsSound
<1>3. CASE r.kind = "phoneInvite"
  <2> DEFINE x == [from |-> r.by, to |-> r.who, g |-> r.g]
             s == [NoChange EXCEPT !.code = {x}]
             F == [g \in {r.g} \ {None} |-> EnsureForPhone(g, r.who)]
             e == IF r.g = None THEN NoChange ELSE EnsureForPhone(r.g, r.who)
             C == {s, e}
  <2>1. c = Together(C) BY <1>3 DEF Decision, PhoneInviteDecide
  <2>2. r.by \in Person /\ r.g \in Group \cup {None} /\ (r.g # None => Exists(r.g))
    BY <1>3 DEF RequestOK
  <2>3. \A g \in DOMAIN F : Part(r, g, F[g])
    BY <1>0, <2>2, OfferForPhone, OfferIsPart
  <2>4. Sound(r, s) /\ s.invited = {}
    <3>1. x \in [from : Person, to : Person, g : Group \cup {None}] /\ x.g = r.g BY <1>0, <2>2
    <3> HIDE DEF x
    <3>2. s = [join |-> {}, leave |-> {}, named |-> {}, invited |-> {}, answer |-> {},
               code |-> {x}, used |-> {}, trust |-> {}, signed |-> {}]
      BY DEF NoChange
    <3>3. s \in Change BY <3>1, <3>2 DEF Change
    <3>4. s.code = {x} /\ {s.join, s.leave, s.named, s.invited, s.answer, s.used} = {{}} BY <3>2
    <3> HIDE DEF s
    <3> QED BY <2>2, <3>1, <3>3, <3>4 DEF Sound, ChangeOK
  <2>5. e = NoChange \/ \E g \in DOMAIN F : e = F[g] OBVIOUS
  <2>6. CASE e = NoChange
    <3> DEFINE G == [g \in {None} |-> NoChange]
    <3>1. \A g \in DOMAIN G : Part(r, g, G[g]) BY NoChangeIs, NoChangeSound DEF Part
    <3>2. \A d \in C : d = s \/ \E g \in DOMAIN G : d = G[g] BY <2>6
    <3> HIDE DEF s, C, G
    <3> QED BY <2>1, <2>4, <3>1, <3>2, PartsSound
  <2>7. CASE \E g \in DOMAIN F : e = F[g]
    <3>1. \A d \in C : d = s \/ \E g \in DOMAIN F : d = F[g] BY <2>7
    <3> HIDE DEF s, C, F
    <3> QED BY <2>1, <2>3, <2>4, <3>1, PartsSound
  <2> QED BY <2>5, <2>6, <2>7
<1> QED BY <1>1, <1>2, <1>3

\* Every decision is sound, and the directory's does what was asked.
LEMMA DecisionOK ==
  ASSUME CirclesOK, NEW r, RequestOK(r), NEW c, c = Decision(r), c # Refused
  PROVE  Sound(r, c) /\ DirectoryOK(r, c)
<1>1. r.kind \in AboutWho \cup AboutSelf \cup Answers \cup Names BY DEF RequestOK
<1>2. CASE r.kind = "setGroups" BY <1>2, SetGroupsDecides
<1>3. CASE r.kind # "setGroups"
  <2>1. DirectoryOK(r, c) BY <1>3 DEF DirectoryOK
  <2>2. \/ r.kind \in Names \cup {"add", "remove"}
        \/ r.kind \in Answers \cup {"acceptCode", "trust"}
        \/ r.kind \in {"signIn", "phoneLogin", "register"}
        \/ r.kind \in {"invite", "assign", "phoneInvite"}
    BY <1>1, <1>3 DEF AboutWho, AboutSelf
  <2> QED BY <2>1, <2>2, CirclesDecide, AnswersDecide, SignInDecides, InvitesDecide
<1> QED BY <1>2, <1>3

-----------------------------------------------------------------------------
(* What a commit does to the tables.                                       *)

\* The rows of T are added, in some order, after those of old.
Grown(old, new, T) ==
  /\ DOMAIN old \subseteq DOMAIN new
  /\ \A i \in DOMAIN old : new[i] = old[i]
  /\ \A i \in DOMAIN new : i \notin DOMAIN old => new[i] \in T
  /\ \A i, j \in DOMAIN new : i \notin DOMAIN old /\ j \notin DOMAIN old /\ new[i] = new[j] => i = j
  /\ \A t \in T : \E i \in DOMAIN new : i \notin DOMAIN old /\ new[i] = t

LEMMA RowsOfSet ==
  ASSUME NEW T, IsFiniteSet(T), NEW rows \in SetToSeqs(T)
  PROVE  /\ rows \in Seq(T)
         /\ \A i, j \in DOMAIN rows : rows[i] = rows[j] => i = j
         /\ \A t \in T : \E i \in DOMAIN rows : rows[i] = t
<1> DEFINE n == Cardinality(T)
<1>1. n \in Nat BY FS_CardinalityType
<1>2. /\ rows \in [1..n -> T]
      /\ \A i, j \in 1..n : rows[i] = rows[j] => i = j
  BY DEF SetToSeqs
<1>3. IsFiniteSet(1..n) /\ Cardinality(1..n) = n
  <2>1. /\ IsFiniteSet(1..n)
        /\ Cardinality(1..n) = IF 1 > n THEN 0 ELSE n - 1 + 1
    BY <1>1, FS_Interval
  <2> HIDE DEF n
  <2> QED BY <1>1, <2>1
<1> HIDE DEF n
<1>4. rows \in Injection(1..n, T) BY <1>2 DEF Injection, IsInjective
<1>5. rows \in Surjection(1..n, T)
  <2>1. Cardinality(1..n) = Cardinality(T) <=> rows \in Surjection(1..n, T)
    BY <1>4, FS_Injection
  <2> QED BY <1>3, <2>1 DEF n
<1>6. \A t \in T : \E i \in 1..n : rows[i] = t BY <1>5 DEF Surjection
<1>7. rows \in Seq(T) BY <1>1, <1>2
<1> QED BY <1>2, <1>6, <1>7

LEMMA Appended ==
  ASSUME NEW S, NEW old \in Seq(S), NEW T \in SUBSET S, IsFiniteSet(T),
         NEW rows \in SetToSeqs(T), NEW new, new = old \o rows
  PROVE  new \in Seq(S) /\ Grown(old, new, T)
<1>1. /\ rows \in Seq(T)
      /\ \A i, j \in DOMAIN rows : rows[i] = rows[j] => i = j
      /\ \A t \in T : \E i \in DOMAIN rows : rows[i] = t
  BY RowsOfSet
<1> DEFINE m == Len(old)
           n == Len(rows)
<1>2. rows \in Seq(S) BY <1>1
<1>3. /\ new \in Seq(S) /\ Len(new) = m + n
      /\ \A i \in 1..(m + n) : new[i] = IF i <= m THEN old[i] ELSE rows[i - m]
  BY <1>2, ConcatProperties
<1>4. /\ m \in Nat /\ n \in Nat /\ DOMAIN old = 1..m /\ DOMAIN rows = 1..n
      /\ DOMAIN new = 1..(m + n)
  BY <1>2, <1>3
<1>5. \A k \in 1..n : rows[k] \in T BY <1>1, <1>4
<1> HIDE DEF m, n
<1>6. \A i \in 1..(m + n) : i \notin 1..m => new[i] = rows[i - m] /\ i - m \in 1..n
  BY <1>3, <1>4
<1>7. \A k \in 1..n : new[m + k] = rows[k] /\ m + k \in 1..(m + n) /\ m + k \notin 1..m
  <2> TAKE k \in 1..n
  <2>1. m + k \in 1..(m + n) /\ m + k \notin 1..m /\ (m + k) - m = k BY <1>4
  <2> QED BY <1>6, <2>1
<1>8. \A i \in DOMAIN old : i \in DOMAIN new /\ new[i] = old[i] BY <1>3, <1>4
<1>9. \A i, j \in DOMAIN new : i \notin DOMAIN old /\ j \notin DOMAIN old /\ new[i] = new[j] => i = j
  <2> SUFFICES ASSUME NEW i \in 1..(m + n), NEW j \in 1..(m + n), i \notin 1..m, j \notin 1..m,
                      new[i] = new[j]
               PROVE  i = j
    BY <1>4
  <2> DEFINE x == i - m
             y == j - m
  <2>1. x \in 1..n /\ y \in 1..n /\ rows[x] = rows[y] BY <1>6
  <2> HIDE DEF x, y
  <2>2. x = y BY <1>1, <1>4, <2>1
  <2> QED BY <1>4, <2>2 DEF x, y
<1>10. ASSUME NEW t \in T PROVE \E i \in DOMAIN new : i \notin DOMAIN old /\ new[i] = t
  <2>1. PICK k \in 1..n : rows[k] = t BY <1>1, <1>4
  <2> DEFINE x == m + k
  <2>2. x \in 1..(m + n) /\ x \notin 1..m /\ new[x] = t BY <1>7, <2>1
  <2> HIDE DEF x
  <2> QED BY <1>4, <2>2
<1> QED BY <1>3, <1>4, <1>5, <1>6, <1>8, <1>9, <1>10 DEF Grown

LEMMA InvitedFinite ==
  ASSUME NEW T \in SUBSET InviteRow, \A i, j \in T : i.g = j.g => i = j PROVE IsFiniteSet(T)
<1> DEFINE f == [i \in T |-> i.g]
<1>1. f \in Injection(T, Group) BY DEF Injection, IsInjective, InviteRow
<1>2. IsFiniteSet(Group) BY CircleAssumption
<1> HIDE DEF f
<1> QED BY <1>1, <1>2, FS_Injection

LEMMA CodedIs ==
  ASSUME NEW c \in Change, \A x, y \in c.code : x = y
  PROVE  /\ Coded(c) \in SUBSET CodeRow /\ IsFiniteSet(Coded(c))
         /\ \A x \in Coded(c) : x.status = "pending" /\ \E y \in c.code : x.g = y.g
<1> DEFINE Of(x) == [from |-> x.from, to |-> x.to, g |-> x.g, status |-> "pending"]
<1>1. c.code \in SUBSET [from : Person, to : Person, g : Group \cup {None}] BY DEF Change
<1>2. Coded(c) = {Of(x) : x \in c.code} BY DEF Coded
<1>3. \A x \in c.code : Of(x) \in CodeRow /\ Of(x).status = "pending" /\ Of(x).g = x.g
  BY <1>1 DEF CodeRow
<1> HIDE DEF Of
<1>4. IsFiniteSet(Coded(c))
  <2>1. CASE c.code = {} BY <1>2, <2>1, FS_EmptySet
  <2>2. CASE c.code # {}
    <3>1. PICK x \in c.code : TRUE BY <2>2
    <3>2. Coded(c) = {Of(x)} BY <1>2, <3>1
    <3> QED BY <3>2, FS_Singleton
  <2> QED BY <2>1, <2>2
<1> QED BY <1>2, <1>3, <1>4

LEMMA AnsweredIs ==
  ASSUME TablesOK, NEW c \in Change
  PROVE  /\ Answered(c) \in Seq(InviteRow) /\ DOMAIN Answered(c) = DOMAIN invites
         /\ \A i \in DOMAIN invites :
              /\ Answered(c)[i].g = invites[i].g /\ Answered(c)[i].phone = invites[i].phone
              /\ Answered(c)[i].mail = invites[i].mail
              /\ \/ \E a \in c.answer : a[1] = i /\ Answered(c)[i].status = a[2]
                 \/ (\A a \in c.answer : a[1] # i) /\ Answered(c)[i] = invites[i]
<1> DEFINE f == Answered(c)
<1>1. /\ DOMAIN f = DOMAIN invites
      /\ \A i \in DOMAIN invites :
           f[i] = IF \E a \in c.answer : a[1] = i
                  THEN [invites[i] EXCEPT !.status = (CHOOSE a \in c.answer : a[1] = i)[2]]
                  ELSE invites[i]
  BY DEF Answered
<1>2. c.answer \in SUBSET (Nat \X {"accepted", "declined"}) BY DEF Change
<1>3. ASSUME NEW i \in DOMAIN invites
      PROVE  /\ f[i] \in InviteRow
             /\ f[i].g = invites[i].g /\ f[i].phone = invites[i].phone
             /\ f[i].mail = invites[i].mail
             /\ \/ \E a \in c.answer : a[1] = i /\ f[i].status = a[2]
                \/ (\A a \in c.answer : a[1] # i) /\ f[i] = invites[i]
  <2>0. invites[i] \in InviteRow BY RowsTyped
  <2>1. CASE \E a \in c.answer : a[1] = i
    <3> DEFINE b == CHOOSE a \in c.answer : a[1] = i
    <3>1. b \in c.answer /\ b[1] = i BY <2>1
    <3>2. b[2] \in {"accepted", "declined"} BY <1>2, <3>1
    <3>3. f[i] = [invites[i] EXCEPT !.status = b[2]] BY <1>1, <2>1
    <3> HIDE DEF b, f
    <3>4. /\ f[i] \in InviteRow /\ f[i].g = invites[i].g /\ f[i].phone = invites[i].phone
          /\ f[i].mail = invites[i].mail /\ f[i].status = b[2]
      BY <2>0, <3>2, <3>3 DEF InviteRow
    <3> QED BY <3>1, <3>4
  <2>2. CASE \A a \in c.answer : a[1] # i
    <3>1. f[i] = invites[i] BY <1>1, <2>2
    <3> HIDE DEF f
    <3> QED BY <2>0, <2>2, <3>1
  <2> QED BY <2>1, <2>2
<1>4. f \in Seq(InviteRow)
  <2>1. invites \in Seq(InviteRow) BY DEF TablesOK
  <2>2. DOMAIN f = 1..Len(invites) /\ Len(invites) \in Nat BY <1>1, <2>1
  <2>3. \A i \in 1..Len(invites) : f[i] \in InviteRow BY <1>1, <1>3, <2>2
  <2>4. f = [i \in DOMAIN f |-> f[i]] BY DEF Answered
  <2> HIDE DEF f
  <2> QED BY <2>2, <2>3, <2>4
<1> HIDE DEF f
<1>5. QED BY <1>1, <1>3, <1>4 DEF f

LEMMA UsedIs ==
  ASSUME TablesOK, NEW c
  PROVE  /\ Used(c) \in Seq(CodeRow) /\ DOMAIN Used(c) = DOMAIN codes
         /\ \A k \in DOMAIN codes :
              /\ Used(c)[k].from = codes[k].from /\ Used(c)[k].to = codes[k].to
              /\ Used(c)[k].g = codes[k].g
              /\ Used(c)[k].status = IF k \in c.used THEN "accepted" ELSE codes[k].status
<1> DEFINE f == Used(c)
<1>1. /\ DOMAIN f = DOMAIN codes
      /\ \A k \in DOMAIN codes :
           f[k] = IF k \in c.used THEN [codes[k] EXCEPT !.status = "accepted"] ELSE codes[k]
  BY DEF Used
<1>2. f = [k \in DOMAIN f |-> f[k]] BY DEF Used
<1> HIDE DEF f
<1>3. ASSUME NEW k \in DOMAIN codes
      PROVE  /\ f[k] \in CodeRow
             /\ f[k].from = codes[k].from /\ f[k].to = codes[k].to /\ f[k].g = codes[k].g
             /\ f[k].status = IF k \in c.used THEN "accepted" ELSE codes[k].status
  <2>1. codes[k] \in CodeRow BY RowsTyped
  <2> QED BY <1>1, <2>1 DEF CodeRow
<1>4. f \in Seq(CodeRow)
  <2>1. codes \in Seq(CodeRow) BY DEF TablesOK
  <2>2. DOMAIN f = 1..Len(codes) /\ Len(codes) \in Nat BY <1>1, <2>1
  <2> QED BY <1>1, <1>2, <1>3, <2>2
<1> QED BY <1>1, <1>3, <1>4 DEF f

\* The tables after a commit, row by row.
Effect(c) ==
  /\ account' \in [Person -> Account] /\ \A p \in Person : account[p] \subseteq account'[p]
  /\ title' \in [Group -> Title \cup {None}] /\ creator' \in [Group -> Person \cup {None}]
  /\ \A g \in Group :
       \/ \E n \in c.named : n[1] = g /\ creator'[g] = n[2] /\ title'[g] = n[3]
       \/ (\A n \in c.named : n[1] # g) /\ creator'[g] = creator[g] /\ title'[g] = title[g]
  /\ role' \in [Group -> [Person -> Roles]]
  /\ \A g \in Group, p \in Person :
       \/ <<g, p>> \in c.leave /\ role'[g][p] = "none"
       \/ /\ <<g, p>> \notin c.leave
          /\ \/ \E j \in c.join : j[1] = g /\ j[2] = p /\ role'[g][p] = j[3]
             \/ (\A j \in c.join : j[1] # g \/ j[2] # p) /\ role'[g][p] = role[g][p]
  /\ invites' \in Seq(InviteRow) /\ Grown(Answered(c), invites', c.invited)
  /\ codes' \in Seq(CodeRow) /\ Grown(Used(c), codes', Coded(c))
  /\ trusted' = trusted \cup c.trust
  /\ \A i : i \in joinedBy' <=> i \in joinedBy \/ \E a \in c.answer : a[1] = i /\ a[2] = "accepted"

LEMMA TxnIs ==
  ASSUME CirclesOK, NEW s \in Slot, Busy(s)
  PROVE  /\ RequestOK(txn[s].r) /\ ChangeOK(txn[s].r, txn[s].todo) /\ txn[s].todo \in Change
         /\ txn[s].at \in {"started", "decided"}
         /\ txn[s] = [at |-> txn[s].at, r |-> txn[s].r, todo |-> txn[s].todo]
         /\ txn[s].at = "started" => txn[s].todo = NoChange
<1>1. TxnOK(s) BY DEF CirclesOK
<1> QED BY <1>1 DEF TxnOK, ChangeOK

LEMMA CommitIs ==
  ASSUME CirclesOK, NEW s \in Slot, Commit(s), NEW c, c = txn[s].todo
  PROVE  Effect(c) /\ ~Violates(c) /\ Busy(s)
<1>0. Busy(s) BY DEF Commit, Busy
<1>1. c \in Change /\ ChangeOK(txn[s].r, c) BY <1>0, TxnIs
<1>t. TablesOK BY DEF CirclesOK
<1>2. /\ c.join \subseteq Group \X Person \X Roles /\ c.leave \subseteq Group \X Person
      /\ c.named \subseteq Group \X Person \X Title /\ c.invited \subseteq InviteRow
      /\ c.signed \subseteq [who : Person, new : BOOLEAN, with : Account]
  BY <1>1 DEF Change
<1>3. ~Violates(c) BY DEF Commit
<1>4. account' \in [Person -> Account] /\ \A p \in Person : account[p] \subseteq account'[p]
  <2>1. account' = [p \in Person |->
                      account[p] \cup UNION {n.with : n \in {x \in c.signed : x.who = p}}]
    BY DEF Commit
  <2>2. \A n \in c.signed : n.with \subseteq {"mail", "phone"} BY <1>2 DEF Account
  <2>3. \A p \in Person : account[p] \subseteq {"mail", "phone"} BY <1>t DEF TablesOK, Account
  <2> QED BY <2>1, <2>2, <2>3 DEF Account
<1>5. /\ title' \in [Group -> Title \cup {None}] /\ creator' \in [Group -> Person \cup {None}]
      /\ \A g \in Group :
           \/ \E n \in c.named : n[1] = g /\ creator'[g] = n[2] /\ title'[g] = n[3]
           \/ (\A n \in c.named : n[1] # g) /\ creator'[g] = creator[g] /\ title'[g] = title[g]
  <2> DEFINE The(g) == CHOOSE n \in c.named : n[1] = g
  <2>1. /\ title' = [g \in Group |-> IF \E n \in c.named : n[1] = g THEN The(g)[3] ELSE title[g]]
        /\ creator' = [g \in Group |-> IF \E n \in c.named : n[1] = g THEN The(g)[2] ELSE creator[g]]
    BY DEF Commit
  <2>2. \A g : (\E n \in c.named : n[1] = g) => The(g) \in c.named /\ The(g)[1] = g OBVIOUS
  <2> HIDE DEF The
  <2>3. \A n \in c.named : n[2] \in Person /\ n[3] \in Title BY <1>2
  <2>4. title \in [Group -> Title \cup {None}] /\ creator \in [Group -> Person \cup {None}]
    BY <1>t DEF TablesOK
  <2>5. title' \in [Group -> Title \cup {None}] /\ creator' \in [Group -> Person \cup {None}]
    BY <2>1, <2>2, <2>3, <2>4
  <2>6. ASSUME NEW g \in Group
        PROVE  \/ \E n \in c.named : n[1] = g /\ creator'[g] = n[2] /\ title'[g] = n[3]
               \/ (\A n \in c.named : n[1] # g) /\ creator'[g] = creator[g] /\ title'[g] = title[g]
    <3>1. CASE \E n \in c.named : n[1] = g BY <2>1, <2>2, <3>1
    <3>2. CASE \A n \in c.named : n[1] # g BY <2>1, <3>2
    <3> QED BY <3>1, <3>2
  <2> QED BY <2>5, <2>6
<1>6. /\ role' \in [Group -> [Person -> Roles]]
      /\ \A g \in Group, p \in Person :
           \/ <<g, p>> \in c.leave /\ role'[g][p] = "none"
           \/ /\ <<g, p>> \notin c.leave
              /\ \/ \E j \in c.join : j[1] = g /\ j[2] = p /\ role'[g][p] = j[3]
                 \/ (\A j \in c.join : j[1] # g \/ j[2] # p) /\ role'[g][p] = role[g][p]
  <2> DEFINE The(g, p) == CHOOSE j \in c.join : j[1] = g /\ j[2] = p
             As(g, p) == IF <<g, p>> \in c.leave THEN "none"
                         ELSE IF \E j \in c.join : j[1] = g /\ j[2] = p THEN The(g, p)[3]
                         ELSE role[g][p]
  <2>1. role' = [g \in Group |-> [p \in Person |-> As(g, p)]] BY DEF Commit
  <2>2. \A g, p : (\E j \in c.join : j[1] = g /\ j[2] = p) =>
          The(g, p) \in c.join /\ The(g, p)[1] = g /\ The(g, p)[2] = p
    OBVIOUS
  <2> HIDE DEF The
  <2>3. \A j \in c.join : j[3] \in Roles BY <1>2
  <2>4. role \in [Group -> [Person -> Roles]] BY <1>t DEF TablesOK
  <2>5. \A g \in Group, p \in Person : As(g, p) \in Roles BY <2>2, <2>3, <2>4 DEF Roles
  <2>6. ASSUME NEW g \in Group, NEW p \in Person
        PROVE  \/ <<g, p>> \in c.leave /\ As(g, p) = "none"
               \/ /\ <<g, p>> \notin c.leave
                  /\ \/ \E j \in c.join : j[1] = g /\ j[2] = p /\ As(g, p) = j[3]
                     \/ (\A j \in c.join : j[1] # g \/ j[2] # p) /\ As(g, p) = role[g][p]
    <3>1. CASE \E j \in c.join : j[1] = g /\ j[2] = p BY <2>2, <3>1
    <3>2. CASE \A j \in c.join : j[1] # g \/ j[2] # p BY <3>2
    <3> QED BY <3>1, <3>2
  <2> HIDE DEF As
  <2>7. \A g \in Group, p \in Person : role'[g][p] = As(g, p) BY <2>1
  <2>8. role' \in [Group -> [Person -> Roles]] BY <2>1, <2>5
  <2> QED BY <2>6, <2>7, <2>8
<1>7. invites' \in Seq(InviteRow) /\ Grown(Answered(c), invites', c.invited)
  <2>1. PICK rows \in SetToSeqs(c.invited) : invites' = Answered(c) \o rows BY DEF Commit
  <2>2. IsFiniteSet(c.invited) BY <1>1, <1>2, InvitedFinite DEF ChangeOK
  <2>3. Answered(c) \in Seq(InviteRow) BY <1>1, <1>t, AnsweredIs
  <2> QED BY <1>2, <2>1, <2>2, <2>3, Appended
<1>8. codes' \in Seq(CodeRow) /\ Grown(Used(c), codes', Coded(c))
  <2>1. PICK rows \in SetToSeqs(Coded(c)) : codes' = Used(c) \o rows BY DEF Commit
  <2>2. Coded(c) \in SUBSET CodeRow /\ IsFiniteSet(Coded(c)) BY <1>1, CodedIs DEF ChangeOK
  <2>3. Used(c) \in Seq(CodeRow) BY <1>t, UsedIs
  <2> QED BY <2>1, <2>2, <2>3, Appended
<1>9. trusted' = trusted \cup c.trust BY DEF Commit
<1>10. \A i : i \in joinedBy' <=> i \in joinedBy \/ \E a \in c.answer : a[1] = i /\ a[2] = "accepted"
  <2>1. joinedBy' = joinedBy \cup {a[1] : a \in {x \in c.answer : x[2] = "accepted"}}
    BY DEF Commit
  <2> QED BY <2>1
<1> QED BY <1>0, <1>3, <1>4, <1>5, <1>6, <1>7, <1>8, <1>9, <1>10 DEF Effect

\* What exists goes on existing, and is about what it was about.
Keeps ==
  /\ \A p \in Person : account[p] \subseteq account'[p]
  /\ \A g \in Group : Exists(g) => title'[g] # None /\ creator'[g] = creator[g]
  /\ \A i \in DOMAIN invites :
       /\ i \in DOMAIN invites' /\ invites'[i].g = invites[i].g
       /\ invites'[i].phone = invites[i].phone /\ invites'[i].mail = invites[i].mail
  /\ \A k \in DOMAIN codes :
       /\ k \in DOMAIN codes' /\ codes'[k].g = codes[k].g
       /\ codes'[k].from = codes[k].from /\ codes'[k].to = codes[k].to
  /\ trusted \subseteq trusted' /\ met \subseteq met'

LEMMA UnchangedKeeps == ASSUME UNCHANGED dbVars, met \subseteq met' PROVE Keeps
<1>1. /\ account' = account /\ title' = title /\ creator' = creator /\ invites' = invites
      /\ codes' = codes /\ trusted' = trusted
  BY DEF dbVars
<1> QED BY <1>1 DEF Keeps, Exists

LEMMA CommitKeeps ==
  ASSUME CirclesOK, NEW s \in Slot, Commit(s) PROVE Keeps
<1> DEFINE c == txn[s].todo
           r == txn[s].r
<1>t. TablesOK BY DEF CirclesOK
<1>1. Effect(c) /\ Busy(s) /\ c \in Change /\ ChangeOK(r, c) /\ RequestOK(r) BY CommitIs, TxnIs
<1>2. met' = met BY DEF Commit
<1> HIDE DEF c, r
<1>3. ASSUME NEW g \in Group, Exists(g) PROVE title'[g] # None /\ creator'[g] = creator[g]
  <2>1. CASE \A n \in c.named : n[1] # g
    BY <1>1, <1>3, <2>1 DEF Effect, Exists
  <2>2. CASE \E n \in c.named : n[1] = g
    <3>1. PICK n \in c.named : n[1] = g /\ creator'[g] = n[2] /\ title'[g] = n[3]
      BY <1>1, <2>2 DEF Effect
    <3>2. r.kind \in Names /\ g = r.g /\ n[2] = r.owner BY <1>1, <3>1 DEF ChangeOK
    <3>3. r.kind = "rename" /\ creator[g] = r.owner
      BY <1>1, <1>3, <3>2 DEF RequestOK, Names
    <3>4. n[3] \in Title BY <1>1 DEF Change
    <3> QED BY <3>1, <3>2, <3>3, <3>4, CircleAssumption
  <2> QED BY <2>1, <2>2
<1>4. ASSUME NEW i \in DOMAIN invites
      PROVE  /\ i \in DOMAIN invites' /\ invites'[i].g = invites[i].g
             /\ invites'[i].phone = invites[i].phone /\ invites'[i].mail = invites[i].mail
  <2>1. i \in DOMAIN invites' /\ invites'[i] = Answered(c)[i]
    BY <1>1, <1>4, <1>t, AnsweredIs DEF Effect, Grown
  <2> QED BY <1>1, <1>t, <2>1, AnsweredIs
<1>5. ASSUME NEW k \in DOMAIN codes
      PROVE  /\ k \in DOMAIN codes' /\ codes'[k].g = codes[k].g
             /\ codes'[k].from = codes[k].from /\ codes'[k].to = codes[k].to
  <2>1. k \in DOMAIN codes' /\ codes'[k] = Used(c)[k]
    BY <1>1, <1>5, <1>t, UsedIs DEF Effect, Grown
  <2>2. /\ Used(c)[k].from = codes[k].from /\ Used(c)[k].to = codes[k].to
        /\ Used(c)[k].g = codes[k].g
    BY <1>t, <1>5, UsedIs
  <2> QED BY <2>1, <2>2
<1>6. trusted \subseteq trusted' /\ \A p \in Person : account[p] \subseteq account'[p]
  BY <1>1 DEF Effect
<1> QED BY <1>2, <1>3, <1>4, <1>5, <1>6 DEF Keeps

LEMMA CommitTables ==
  ASSUME CirclesOK, NEW s \in Slot, Commit(s) PROVE TablesOK' /\ Linked'
<1> DEFINE c == txn[s].todo
           r == txn[s].r
<1>t. TablesOK /\ Linked BY DEF CirclesOK
<1>k. Keeps BY CommitKeeps
<1>1. Effect(c) /\ Busy(s) /\ c \in Change /\ ChangeOK(r, c) /\ RequestOK(r) BY CommitIs, TxnIs
<1> HIDE DEF c, r
<1>2. c.trust \subseteq Person \X Person /\ \A n \in c.named : n[2] \in Person /\ n[3] \in Title
  BY <1>1 DEF Change
<1>3. TablesOK'
  <2>1. trusted' \subseteq Person \X Person BY <1>1, <1>2, <1>t DEF Effect, TablesOK
  <2>2. \A i \in joinedBy' : i \in DOMAIN invites'
    <3>1. \A i \in joinedBy : i \in DOMAIN invites' BY <1>t, <1>k DEF TablesOK, Keeps
    <3>2. \A a \in c.answer : a[1] \in DOMAIN invites'
      BY <1>1, <1>k DEF ChangeOK, RequestOK, Keeps
    <3> QED BY <1>1, <3>1, <3>2 DEF Effect
  <2> QED BY <1>1, <2>1, <2>2 DEF Effect, TablesOK
<1>4. ASSUME NEW g \in Group PROVE title'[g] # None <=> creator'[g] # None
  <2>1. CASE \E n \in c.named : n[1] = g /\ creator'[g] = n[2] /\ title'[g] = n[3]
    BY <1>2, <2>1, CircleAssumption
  <2>2. CASE creator'[g] = creator[g] /\ title'[g] = title[g] BY <1>t, <2>2 DEF Linked, Exists
  <2> QED BY <1>1, <2>1, <2>2 DEF Effect
<1>5. ASSUME NEW g \in Group, NEW p \in Person, role'[g][p] # "none" PROVE title'[g] # None
  <2>1. CASE \E j \in c.join : j[1] = g
    <3>1. PICK j \in c.join : j[1] = g BY <2>1
    <3>2. CASE r.kind # "create" BY <1>1, <1>k, <3>1, <3>2 DEF ChangeOK, Keeps
    <3>3. CASE r.kind = "create"
      <4>1. \E n \in c.named : n[1] = g BY <1>1, <3>1, <3>3 DEF ChangeOK
      <4>2. \E n \in c.named : title'[g] = n[3] BY <1>1, <4>1 DEF Effect
      <4> QED BY <1>2, <4>2, CircleAssumption
    <3> QED BY <3>2, <3>3
  <2>2. CASE \A j \in c.join : j[1] # g
    <3>1. \/ <<g, p>> \in c.leave /\ role'[g][p] = "none"
          \/ \E j \in c.join : j[1] = g
          \/ role'[g][p] = role[g][p]
      BY <1>1 DEF Effect
    <3>2. role'[g][p] = role[g][p] BY <1>5, <2>2, <3>1
    <3> QED BY <1>k, <1>t, <1>5, <3>2 DEF Linked, Member, Keeps
  <2> QED BY <2>1, <2>2
<1>6. ASSUME NEW i \in DOMAIN invites'
      PROVE  /\ title'[invites'[i].g] # None
             /\ \/ None \in {invites'[i].phone, invites'[i].mail}
                \/ invites'[i].phone = invites'[i].mail
  <2>1. CASE i \in DOMAIN invites
    <3>1. invites[i].g \in Group BY <1>t, <2>1, RowsTyped DEF InviteRow
    <3> QED BY <1>k, <1>t, <2>1, <3>1 DEF Linked, Keeps
  <2>2. CASE i \notin DOMAIN invites
    <3>1. invites'[i] \in c.invited BY <1>1, <1>t, <2>2, AnsweredIs DEF Effect, Grown
    <3>2. invites'[i].g \in Group BY <1>1, <3>1 DEF Change, InviteRow
    <3> QED BY <1>1, <1>k, <3>1, <3>2 DEF ChangeOK, Keeps
  <2> QED BY <2>1, <2>2
<1>7. ASSUME NEW k \in DOMAIN codes', codes'[k].g # None PROVE title'[codes'[k].g] # None
  <2>1. CASE k \in DOMAIN codes
    <3>1. codes[k].g \in Group \cup {None} BY <1>t, <2>1, RowsTyped DEF CodeRow
    <3> QED BY <1>k, <1>t, <1>7, <2>1, <3>1 DEF Linked, Keeps
  <2>2. CASE k \notin DOMAIN codes
    <3>1. codes'[k] \in Coded(c) BY <1>1, <1>t, <2>2, UsedIs DEF Effect, Grown
    <3>2. PICK y \in c.code : codes'[k].g = y.g BY <1>1, <3>1, CodedIs DEF ChangeOK
    <3>3. y.g \in Group \cup {None} BY <1>1 DEF Change
    <3> QED BY <1>1, <1>k, <1>7, <3>2, <3>3 DEF ChangeOK, Keeps
  <2> QED BY <2>1, <2>2
<1>8. Linked' BY <1>4, <1>5, <1>6, <1>7 DEF Linked, Exists, Member
<1> QED BY <1>3, <1>8

LEMMA RequestKept ==
  ASSUME TablesOK, Keeps, NEW r, RequestOK(r), r.kind = "create" => ~(Exists(r.g))'
  PROVE  RequestOK(r)'
<1>1. /\ r.kind \in AboutWho \cup AboutSelf \cup Answers \cup Names /\ r.by \in Person
      /\ r.kind \in AboutWho => r.who \in Person
      /\ r.kind = "add" => r.role \in Roles
      /\ r.kind = "invite" => r.via \in {"id", "phone", "mail"}
      /\ r.kind = "signIn" => r.with \in Account
      /\ r.kind \in Names => r.g \in Group /\ r.owner \in Person /\ r.title \in Title
      /\ r.kind = "create" => r.owner = r.by
  BY DEF RequestOK
<1>2. /\ r.kind \in {"add", "remove", "invite"} => r.g \in Group /\ title'[r.g] # None
      /\ r.kind = "setGroups" =>
           r.groups \in SUBSET Group /\ r.managed \in SUBSET Group
           /\ \A g \in r.managed : title'[g] # None
      /\ r.kind = "assign" =>
           /\ r.via \in {"phone", "mail"}
           /\ r.groups \in SUBSET Group /\ \A g \in r.groups : title'[g] # None
      /\ r.kind = "phoneInvite" => r.g \in Group \cup {None} /\ (r.g # None => title'[r.g] # None)
      /\ r.kind = "rename" => title'[r.g] # None /\ creator'[r.g] = r.owner
  <2>1. \A g \in Group : Exists(g) => title'[g] # None /\ creator'[g] = creator[g] BY DEF Keeps
  <2>2. r.kind = "rename" => r.g \in Group BY DEF RequestOK, Names
  <2> QED BY <2>1, <2>2 DEF RequestOK
<1>3. /\ r.kind \in Answers =>
           r.id \in DOMAIN invites' /\ r.by \in {invites'[r.id].phone, invites'[r.id].mail}
      /\ r.kind = "acceptCode" => r.id \in DOMAIN codes' /\ codes'[r.id].to = r.by
  <2>1. r.kind \in Answers => r.id \in DOMAIN invites /\ r.by \in {invites[r.id].phone, invites[r.id].mail}
    BY DEF RequestOK
  <2>2. r.kind = "acceptCode" => r.id \in DOMAIN codes /\ codes[r.id].to = r.by BY DEF RequestOK
  <2> QED BY <2>1, <2>2 DEF Keeps
<1> QED BY <1>1, <1>2, <1>3 DEF RequestOK, Exists

LEMMA ChangeKept ==
  ASSUME TablesOK, Keeps, NEW r, RequestOK(r), NEW c, ChangeOK(r, c) PROVE ChangeOK(r, c)'
<1>1. \A g \in Group : Exists(g) => Exists(g)' BY DEF Keeps, Exists
<1>2. /\ c \in Change
      /\ \A n \in c.named : r.kind \in Names /\ n[1] = r.g /\ n[2] = r.owner
      /\ \A l \in c.leave : /\ r.kind \in {"remove", "setGroups"} /\ l[2] = r.who
                            /\ r.kind = "remove" => l[1] = r.g
      /\ \A i, j \in c.invited : i.g = j.g => i = j
      /\ \A a \in c.answer :
           r.kind \in Answers /\ a = <<r.id, IF r.kind = "accept" THEN "accepted" ELSE "declined">>
      /\ \A x, y \in c.code : x = y
  BY DEF ChangeOK
<1>3. \A j \in c.join : j[1] \in Group
  <2>1. c.join \subseteq Group \X Person \X Roles BY <1>2 DEF Change
  <2> QED BY <2>1
<1>4. \A j \in c.join : /\ r.kind \in {"create", "add", "accept", "acceptCode"}
                        /\ j[2] = Subject(r)
                        /\ r.kind # "create" => Exists(j[1])'
                        /\ r.kind = "create" => \E n \in c.named : n[1] = j[1]
  BY <1>1, <1>3 DEF ChangeOK
<1>5. (\A i \in c.invited : i.g \in Group) /\ \A x \in c.code : x.g \in Group \cup {None}
  BY <1>2 DEF Change, InviteRow
<1>6. \A i \in c.invited : /\ r.kind \in AboutWho \cup AboutSelf
                           /\ i.status = "pending" /\ Exists(i.g)'
                           /\ {i.phone, i.mail} \subseteq {Subject(r), None}
  BY <1>1, <1>5 DEF ChangeOK
<1>7. \A x \in c.code : x.g # None => Exists(x.g)' BY <1>1, <1>5 DEF ChangeOK
<1>8. \A k \in c.used : /\ r.kind = "acceptCode" /\ k = r.id
                        /\ {<<codes'[k].from, r.by>>, <<r.by, codes'[k].from>>} \subseteq c.trust
  <2>1. r.kind = "acceptCode" => r.id \in DOMAIN codes BY DEF RequestOK
  <2>2. \A k \in c.used : r.kind = "acceptCode" /\ k = r.id
          /\ {<<codes[k].from, r.by>>, <<r.by, codes[k].from>>} \subseteq c.trust
    BY DEF ChangeOK
  <2>3. \A k \in c.used : codes'[k].from = codes[k].from BY <2>1, <2>2 DEF Keeps
  <2> QED BY <2>2, <2>3
<1> QED BY <1>2, <1>4, <1>6, <1>7, <1>8 DEF ChangeOK

LEMMA AboutKept == ASSUME Keeps, NEW r, RequestOK(r) PROVE About(r)' = About(r)
<1>1. CASE r.kind \in Answers
  <2>1. r.id \in DOMAIN invites BY <1>1 DEF RequestOK
  <2>2. invites'[r.id].g = invites[r.id].g BY <2>1 DEF Keeps
  <2> QED BY <1>1, <2>2 DEF About, Answers
<1>2. CASE r.kind \notin Answers BY <1>2 DEF About, Answers
<1> QED BY <1>1, <1>2

\* Erasing what a change takes out leaves it a change.
LEMMA FewerLeave ==
  ASSUME NEW r, NEW c, ChangeOK(r, c), NEW gone, NEW d, d = [c EXCEPT !.leave = @ \ gone]
  PROVE  /\ ChangeOK(r, d) /\ d.leave = c.leave \ gone
         /\ d.join = c.join /\ d.named = c.named /\ d.invited = c.invited /\ d.answer = c.answer
         /\ d.code = c.code /\ d.used = c.used /\ d.trust = c.trust /\ d.signed = c.signed
<1>1. c \in Change BY DEF ChangeOK
<1>2. /\ d \in Change /\ d.leave = c.leave \ gone
      /\ d.join = c.join /\ d.named = c.named /\ d.invited = c.invited /\ d.answer = c.answer
      /\ d.code = c.code /\ d.used = c.used /\ d.trust = c.trust /\ d.signed = c.signed
  BY <1>1 DEF Change
<1> QED BY <1>2 DEF ChangeOK

-----------------------------------------------------------------------------
(* The invariant every proof rests on.                                     *)

\* Another request goes on; a commit may have erased rows it would take out.
GoesOn(x) ==
  \/ txn'[x] = txn[x]
  \/ txn[x].at = "decided" /\ \E gone : txn'[x] = [txn[x] EXCEPT !.todo.leave = @ \ gone]

LEMMA GoesOnIs ==
  ASSUME CirclesOK, NEW x \in Slot, GoesOn(x), Busy(x)
  PROVE  /\ txn'[x] = [at |-> txn[x].at, r |-> txn[x].r, todo |-> txn'[x].todo]
         /\ txn'[x].at = txn[x].at /\ txn'[x].r = txn[x].r
         /\ txn[x].at = "started" => txn'[x].todo = txn[x].todo
         /\ \E gone : txn'[x].todo = [txn[x].todo EXCEPT !.leave = @ \ gone]
<1>1. /\ txn[x] = [at |-> txn[x].at, r |-> txn[x].r, todo |-> txn[x].todo]
      /\ txn[x].todo \in Change
  BY TxnIs
<1>2. txn[x].todo = [txn[x].todo EXCEPT !.leave = @ \ {}] BY <1>1 DEF Change
<1>3. CASE txn'[x] = txn[x] BY <1>1, <1>2, <1>3
<1>4. ASSUME NEW gone, txn[x].at = "decided", txn'[x] = [txn[x] EXCEPT !.todo.leave = @ \ gone]
      PROVE  /\ txn'[x] = [at |-> txn[x].at, r |-> txn[x].r,
                           todo |-> [txn[x].todo EXCEPT !.leave = @ \ gone]]
  BY <1>1, <1>4
<1> QED BY <1>3, <1>4 DEF GoesOn

LEMMA GoesOnOK ==
  ASSUME CirclesOK, Keeps, NEW x \in Slot, GoesOn(x),
         Busy(x) /\ txn[x].r.kind = "create" => title'[txn[x].r.g] = None
  PROVE  TxnOK(x)' /\ (~Busy(x) => txn'[x] = Idle) /\ Busy(x)' = Busy(x)
<1>1. CASE ~Busy(x)
  <2>1. txn'[x] = Idle /\ txn[x] = Idle BY <1>1 DEF GoesOn, CirclesOK, Busy
  <2>2. txn'[x].at = "idle" /\ txn[x].at = "idle" BY <2>1 DEF Idle
  <2> QED BY <2>1, <2>2 DEF TxnOK, Busy
<1>2. CASE Busy(x)
  <2>t. TablesOK BY DEF CirclesOK
  <2>1. PICK r : r = txn[x].r OBVIOUS
  <2>2. PICK c : c = txn[x].todo OBVIOUS
  <2>3. PICK d : d = txn'[x].todo OBVIOUS
  <2>4. RequestOK(r) /\ ChangeOK(r, c) /\ txn[x].at \in {"started", "decided"}
        /\ (txn[x].at = "started" => c = NoChange)
    BY <1>2, <2>1, <2>2, TxnIs
  <2>5. /\ txn'[x] = [at |-> txn[x].at, r |-> r, todo |-> d]
        /\ txn'[x].at = txn[x].at /\ txn'[x].r = r
        /\ txn[x].at = "started" => d = c
        /\ \E gone : d = [c EXCEPT !.leave = @ \ gone]
    BY <1>2, <2>1, <2>2, <2>3, GoesOnIs
  <2>6. ChangeOK(r, d) BY <2>4, <2>5, FewerLeave
  <2>7. r.kind = "create" => ~(Exists(r.g))' BY <1>2, <2>1 DEF Exists
  <2>8. RequestOK(r)' BY <2>4, <2>7, <2>t, RequestKept
  <2>9. ChangeOK(r, d)' BY <2>4, <2>6, <2>t, ChangeKept
  <2>10. Busy(x)' BY <1>2, <2>5 DEF Busy
  <2> QED BY <1>2, <2>3, <2>4, <2>5, <2>8, <2>9, <2>10 DEF TxnOK
<1> QED BY <1>1, <1>2 DEF Busy

\* A step of slot s, while the others go on.
LEMMA Frame ==
  ASSUME CirclesOK, Keeps, TablesOK', Linked', DOMAIN txn' = Slot, NEW s \in Slot,
         \A x \in Slot : x # s => GoesOn(x),
         \A x \in Slot : x # s /\ Busy(x) /\ txn[x].r.kind = "create" => title'[txn[x].r.g] = None,
         TxnOK(s)' /\ (~Busy(s)' => txn'[s] = Idle),
         \A x \in Slot : x # s /\ Busy(x) /\ Busy(s)' =>
           /\ About(txn[s].r)' \cap About(txn[x].r) \subseteq met'
           /\ txn'[s].r.kind = "create" /\ txn[x].r.kind = "create" => txn'[s].r.g # txn[x].r.g
  PROVE  CirclesOK'
<1>1. ASSUME NEW x \in Slot, x # s
      PROVE  TxnOK(x)' /\ (~Busy(x) => txn'[x] = Idle) /\ Busy(x)' = Busy(x)
  BY <1>1, GoesOnOK
<1>2. \A x \in Slot : TxnOK(x)' /\ (~Busy(x)' => txn'[x] = Idle) BY <1>1
<1>3. ASSUME NEW x \in Slot, x # s, Busy(x)
      PROVE  txn'[x].r = txn[x].r /\ About(txn[x].r)' = About(txn[x].r)
  <2>1. PICK r : r = txn[x].r OBVIOUS
  <2>2. RequestOK(r) /\ txn'[x].r = r BY <1>3, <2>1, TxnIs, GoesOnIs
  <2>3. About(r)' = About(r) BY <2>2, AboutKept
  <2> QED BY <2>1, <2>2, <2>3
<1>4. ASSUME NEW x \in Slot, NEW y \in Slot, x # y, Busy(x)', Busy(y)'
      PROVE  /\ About(txn[x].r)' \cap About(txn[y].r)' \subseteq met'
             /\ txn'[x].r.kind = "create" /\ txn'[y].r.kind = "create" => txn'[x].r.g # txn'[y].r.g
  <2>1. CASE x # s /\ y # s
    <3>1. Busy(x) /\ Busy(y) BY <1>1, <1>4, <2>1
    <3>2. /\ About(txn[x].r) \cap About(txn[y].r) \subseteq met
          /\ txn[x].r.kind = "create" /\ txn[y].r.kind = "create" => txn[x].r.g # txn[y].r.g
      BY <1>4, <3>1 DEF CirclesOK, Overlaps
    <3>3. met \subseteq met' BY DEF Keeps
    <3> QED BY <1>3, <2>1, <3>1, <3>2, <3>3
  <2>2. CASE x = s
    <3>1. y # s /\ Busy(y) BY <1>1, <1>4, <2>2
    <3>2. txn'[y].r = txn[y].r /\ About(txn[y].r)' = About(txn[y].r) BY <1>3, <3>1
    <3> QED BY <1>4, <2>2, <3>1, <3>2
  <2>3. CASE y = s
    <3>1. x # s /\ Busy(x) BY <1>1, <1>4, <2>3
    <3>2. txn'[x].r = txn[x].r /\ About(txn[x].r)' = About(txn[x].r) BY <1>3, <3>1
    <3> QED BY <1>4, <2>3, <3>1, <3>2
  <2> QED BY <2>1, <2>2, <2>3
<1>5. Overlaps' BY <1>4 DEF Overlaps
<1> QED BY <1>2, <1>5 DEF CirclesOK

LEMMA NextIs ==
  ASSUME CirclesOK, Next
  PROVE  \E s \in Slot : (\E r : Begin(s, r) /\ New(r)) \/ Decide(s) \/ Commit(s) \/ Rollback(s)
BY StartIs DEF Next

LEMMA InitCircles == ASSUME Init PROVE CirclesOK
<1>1. PICK g \in Group, p \in Person, q \in Person, t \in Title, n \in {0, 2} :
        /\ account[p] = {"mail", "phone"} /\ p # q
        /\ title = [h \in Group |-> IF h = g THEN t ELSE None]
        /\ creator = [h \in Group |-> IF h = g THEN p ELSE None]
        /\ role = [h \in Group |-> [x \in Person |-> IF h = g /\ x = p THEN "owner" ELSE "none"]]
        /\ codes = [k \in 1..n |-> [from |-> p, to |-> q, g |-> None, status |-> "pending"]]
  BY DEF Init
<1> DEFINE code == [from |-> p, to |-> q, g |-> None, status |-> "pending"]
<1>2. code \in CodeRow /\ code.g = None BY DEF CodeRow
<1>3. codes = [k \in 1..n |-> code] /\ n \in Nat BY <1>1
<1> HIDE DEF code
<1>4. codes \in Seq(CodeRow) /\ \A k \in DOMAIN codes : codes[k].g = None BY <1>2, <1>3
<1>5. invites = <<>> /\ trusted = {} /\ joinedBy = {} /\ txn = [s \in Slot |-> Idle]
      /\ account \in [Person -> Account]
  BY DEF Init
<1>6. invites \in Seq(InviteRow) /\ DOMAIN invites = {} BY <1>5
<1>7. /\ title \in [Group -> Title \cup {None}] /\ creator \in [Group -> Person \cup {None}]
      /\ role \in [Group -> [Person -> Roles]]
      /\ \A h \in Group : h # g => title[h] = None /\ creator[h] = None
      /\ \A h \in Group, x \in Person : h # g => role[h][x] = "none"
      /\ title[g] = t /\ creator[g] = p
  BY <1>1 DEF Roles
<1>8. t # None /\ p # None BY CircleAssumption
<1>9. Linked BY <1>4, <1>6, <1>7, <1>8 DEF Linked, Exists, Member
<1>10. TablesOK BY <1>4, <1>5, <1>6, <1>7 DEF TablesOK
<1>11. \A s \in Slot : txn[s] = Idle /\ ~Busy(s) BY <1>5 DEF Busy, Idle
<1> QED BY <1>5, <1>9, <1>10, <1>11 DEF CirclesOK, TxnOK, Overlaps

\* While nothing is committed the tables are as they were.
LEMMA SameTables ==
  ASSUME CirclesOK, UNCHANGED <<dbVars, joinedBy>>, met \subseteq met'
  PROVE  /\ TablesOK' /\ Linked' /\ Keeps
         /\ \A x \in Slot : Busy(x) /\ txn[x].r.kind = "create" => title'[txn[x].r.g] = None
         /\ \A r : About(r)' = About(r)
<1>1. /\ account' = account /\ title' = title /\ creator' = creator /\ role' = role
      /\ invites' = invites /\ codes' = codes /\ trusted' = trusted /\ joinedBy' = joinedBy
  BY DEF dbVars
<1>2. TablesOK /\ Linked BY DEF CirclesOK
<1>3. TablesOK' BY <1>1, <1>2 DEF TablesOK
<1>4. Linked' BY <1>1, <1>2 DEF Linked, Exists, Member
<1>5. \A x \in Slot : Busy(x) /\ txn[x].r.kind = "create" => title'[txn[x].r.g] = None
  BY <1>1, TxnIs DEF RequestOK, Exists
<1>6. \A r : About(r)' = About(r) BY <1>1 DEF About
<1> QED BY <1>3, <1>4, <1>5, <1>6, UnchangedKeeps

LEMMA BeginOK ==
  ASSUME CirclesOK, NEW s \in Slot, NEW r, Begin(s, r), New(r)
  PROVE  /\ CirclesOK' /\ Keeps
         /\ txn' = [txn EXCEPT ![s] = [at |-> "started", r |-> r, todo |-> NoChange]]
         /\ ~Busy(s) /\ DOMAIN txn = Slot
         /\ \A x \in Slot : x # s /\ Busy(x) => About(r) \cap About(txn[x].r) \subseteq met'
<1> DEFINE y == [at |-> "started", r |-> r, todo |-> NoChange]
<1>1. /\ txn[s] = Idle /\ txn' = [txn EXCEPT ![s] = y]
      /\ met' = met \cup UNION {About(r) \cap About(txn[x].r) : x \in {z \in Slot : Busy(z)}}
      /\ UNCHANGED <<dbVars, joinedBy>>
  BY DEF Begin
<1>2. DOMAIN txn = Slot /\ TablesOK BY DEF CirclesOK
<1>3. met \subseteq met' BY <1>1
<1>4. /\ TablesOK' /\ Linked' /\ Keeps
      /\ \A x \in Slot : Busy(x) /\ txn[x].r.kind = "create" => title'[txn[x].r.g] = None
      /\ \A q : About(q)' = About(q)
  BY <1>1, <1>3, SameTables
<1>5. /\ y = [at |-> y.at, r |-> y.r, todo |-> y.todo] /\ y.at = "started" /\ y.r = r
      /\ y.todo = NoChange
  OBVIOUS
<1> HIDE DEF y
<1>6. txn'[s] = y /\ DOMAIN txn' = Slot /\ \A x \in Slot : x # s => txn'[x] = txn[x]
  BY <1>1, <1>2
<1>7. RequestOK(r)'
  <2>1. RequestOK(r) /\ (r.kind = "create" => ~(Exists(r.g))')
    BY <1>1 DEF New, RequestOK, Exists, dbVars
  <2> QED BY <1>2, <1>4, <2>1, RequestKept
<1>8. ChangeOK(r, NoChange)'
  <2>1. ChangeOK(r, NoChange) BY NoChangeSound DEF Sound
  <2> QED BY <1>2, <1>4, <2>1, ChangeKept DEF New
<1>9. TxnOK(s)' /\ (~Busy(s)' => txn'[s] = Idle)
  BY <1>5, <1>6, <1>7, <1>8 DEF TxnOK, Busy
<1>10. \A x \in Slot : x # s /\ Busy(x) => About(r) \cap About(txn[x].r) \subseteq met' BY <1>1
<1>11. \A x \in Slot : x # s /\ Busy(x) /\ Busy(s)' =>
         /\ About(txn[s].r)' \cap About(txn[x].r) \subseteq met'
         /\ txn'[s].r.kind = "create" /\ txn[x].r.kind = "create" => txn'[s].r.g # txn[x].r.g
  <2>1. txn'[s].r = r BY <1>5, <1>6
  <2>2. About(txn[s].r)' = About(r) BY <1>4, <2>1 DEF About
  <2> QED BY <1>10, <2>1, <2>2 DEF New
<1>12. \A x \in Slot : x # s => GoesOn(x) BY <1>6 DEF GoesOn
<1>13. CirclesOK' BY <1>4, <1>6, <1>9, <1>11, <1>12, Frame
<1>14. ~Busy(s) BY <1>1 DEF Busy, Idle
<1> QED BY <1>1, <1>2, <1>4, <1>10, <1>13, <1>14 DEF y

\* A decision ends in an error, or in a sound change to be committed.
LEMMA DecideOK ==
  ASSUME CirclesOK, NEW s \in Slot, Decide(s)
  PROVE  /\ CirclesOK' /\ Keeps /\ UNCHANGED <<dbVars, met, joinedBy>>
         /\ \A x \in Slot : x # s => txn'[x] = txn[x]
         /\ \/ ~Busy(s)'
            \/ /\ txn'[s].at = "decided" /\ txn'[s].r = txn[s].r /\ Busy(s)
               /\ Sound(txn[s].r, txn'[s].todo) /\ DirectoryOK(txn[s].r, txn'[s].todo)
<1>1. PICK r : r = txn[s].r OBVIOUS
<1>2. PICK c : c = Decision(r) OBVIOUS
<1>3. /\ txn[s].at = "started"
      /\ txn' = [txn EXCEPT ![s] = IF c = Refused THEN Idle
                                   ELSE [txn[s] EXCEPT !.at = "decided", !.todo = c]]
      /\ UNCHANGED <<dbVars, met, joinedBy>>
  BY <1>1, <1>2 DEF Decide
<1>4. Busy(s) BY <1>3 DEF Busy
<1>5. RequestOK(r) /\ txn[s] = [at |-> txn[s].at, r |-> r, todo |-> txn[s].todo]
  BY <1>1, <1>4, TxnIs
<1>6. DOMAIN txn = Slot /\ TablesOK BY DEF CirclesOK
<1>7. /\ TablesOK' /\ Linked' /\ Keeps
      /\ \A x \in Slot : Busy(x) /\ txn[x].r.kind = "create" => title'[txn[x].r.g] = None
      /\ \A q : About(q)' = About(q)
  BY <1>3, SameTables
<1>8. /\ DOMAIN txn' = Slot /\ \A x \in Slot : x # s => txn'[x] = txn[x] BY <1>3, <1>6
<1>9. c = Refused => txn'[s] = Idle BY <1>3, <1>6
<1>10. c # Refused => txn'[s] = [at |-> "decided", r |-> r, todo |-> c]
  <2> SUFFICES ASSUME c # Refused PROVE txn'[s] = [at |-> "decided", r |-> r, todo |-> c]
    OBVIOUS
  <2>1. txn'[s] = [txn[s] EXCEPT !.at = "decided", !.todo = c] BY <1>3, <1>6
  <2>2. PICK y : y = txn[s].todo OBVIOUS
  <2>3. txn[s] = [at |-> "started", r |-> r, todo |-> y] BY <1>3, <1>5, <2>2
  <2>4. txn'[s] = [[at |-> "started", r |-> r, todo |-> y] EXCEPT !.at = "decided", !.todo = c]
    BY <2>1, <2>3
  <2> QED BY <2>4
<1>11. c # Refused => Sound(r, c) /\ DirectoryOK(r, c) BY <1>2, <1>5, DecisionOK
<1>12. c # Refused => txn'[s].at = "decided" /\ txn'[s].r = r /\ txn'[s].todo = c BY <1>10
<1>13. TxnOK(s)' /\ (~Busy(s)' => txn'[s] = Idle)
  <2>1. CASE c = Refused BY <1>9, <2>1 DEF TxnOK, Busy, Idle
  <2>2. CASE c # Refused
    <3>1. r.kind = "create" => ~(Exists(r.g))' BY <1>1, <1>4, <1>7 DEF Exists
    <3>2. RequestOK(r)' BY <1>5, <1>6, <1>7, <3>1, RequestKept
    <3>3. ChangeOK(r, c)' BY <1>5, <1>6, <1>7, <1>11, <2>2, ChangeKept DEF Sound
    <3> QED BY <1>10, <1>12, <2>2, <3>2, <3>3 DEF TxnOK, Busy
  <2> QED BY <2>1, <2>2
<1>14. \A x \in Slot : x # s /\ Busy(x) /\ Busy(s)' =>
         /\ About(txn[s].r)' \cap About(txn[x].r) \subseteq met'
         /\ txn'[s].r.kind = "create" /\ txn[x].r.kind = "create" => txn'[s].r.g # txn[x].r.g
  <2> SUFFICES ASSUME NEW x \in Slot, x # s, Busy(x), Busy(s)'
               PROVE  /\ About(txn[s].r)' \cap About(txn[x].r) \subseteq met'
                      /\ txn'[s].r.kind = "create" /\ txn[x].r.kind = "create" => txn'[s].r.g # txn[x].r.g
    OBVIOUS
  <2>1. c # Refused BY <1>9 DEF Busy, Idle
  <2>2. txn'[s].r = r BY <1>12, <2>1
  <2>3. About(txn[s].r)' = About(r) BY <1>7, <2>2 DEF About
  <2>4. /\ About(r) \cap About(txn[x].r) \subseteq met
        /\ r.kind = "create" /\ txn[x].r.kind = "create" => r.g # txn[x].r.g
    BY <1>1, <1>4 DEF CirclesOK, Overlaps
  <2> QED BY <1>3, <2>2, <2>3, <2>4
<1>15. \A x \in Slot : x # s => GoesOn(x) BY <1>8 DEF GoesOn
<1>16. CirclesOK' BY <1>7, <1>8, <1>13, <1>14, <1>15, Frame
<1>17. c = Refused => ~Busy(s)' BY <1>9 DEF Busy, Idle
<1> QED BY <1>1, <1>3, <1>4, <1>7, <1>8, <1>11, <1>12, <1>16, <1>17

LEMMA RollbackOK ==
  ASSUME CirclesOK, NEW s \in Slot, Rollback(s)
  PROVE  /\ CirclesOK' /\ Keeps /\ UNCHANGED <<dbVars, met, joinedBy>> /\ ~Busy(s)'
         /\ \A x \in Slot : x # s => txn'[x] = txn[x]
<1>1. txn' = [txn EXCEPT ![s] = Idle] /\ UNCHANGED <<dbVars, met, joinedBy>> BY DEF Rollback
<1>2. DOMAIN txn = Slot BY DEF CirclesOK
<1>3. DOMAIN txn' = Slot /\ txn'[s] = Idle /\ \A x \in Slot : x # s => txn'[x] = txn[x]
  BY <1>1, <1>2
<1>4. /\ TablesOK' /\ Linked' /\ Keeps
      /\ \A x \in Slot : Busy(x) /\ txn[x].r.kind = "create" => title'[txn[x].r.g] = None
  BY <1>1, SameTables
<1>5. ~Busy(s)' BY <1>3 DEF Busy, Idle
<1>6. TxnOK(s)' /\ txn'[s] = Idle BY <1>3, <1>5 DEF TxnOK
<1>7. \A x \in Slot : x # s => GoesOn(x) BY <1>3 DEF GoesOn
<1>8. CirclesOK' BY <1>3, <1>4, <1>5, <1>6, <1>7, Frame
<1> QED BY <1>1, <1>3, <1>4, <1>5, <1>8

LEMMA CommitOK ==
  ASSUME CirclesOK, NEW s \in Slot, Commit(s)
  PROVE  /\ CirclesOK' /\ Keeps /\ ~Busy(s)' /\ Busy(s) /\ met' = met
         /\ \A x \in Slot : x # s =>
              /\ GoesOn(x)
              /\ txn[x].at = "decided" => txn'[x].todo.leave = txn[x].todo.leave \ txn[s].todo.leave
<1> DEFINE c == txn[s].todo
           r == txn[s].r
           W == Without(c.leave)
<1>1. txn' = [W EXCEPT ![s] = Idle] /\ met' = met BY DEF Commit
<1>2. W = [x \in Slot |-> IF txn[x].at = "decided" THEN [txn[x] EXCEPT !.todo.leave = @ \ c.leave]
                          ELSE txn[x]]
  BY DEF Without
<1> HIDE DEF W, c, r
<1>3. DOMAIN txn' = Slot /\ txn'[s] = Idle /\ \A x \in Slot : x # s => txn'[x] = W[x]
  BY <1>1, <1>2
<1>4. ASSUME NEW x \in Slot, x # s
      PROVE  /\ GoesOn(x)
             /\ txn[x].at = "decided" => txn'[x].todo.leave = txn[x].todo.leave \ c.leave
  <2>1. CASE txn[x].at # "decided" BY <1>2, <1>3, <1>4, <2>1 DEF GoesOn
  <2>2. CASE txn[x].at = "decided"
    <3>1. txn'[x] = [txn[x] EXCEPT !.todo.leave = @ \ c.leave] BY <1>2, <1>3, <1>4, <2>2
    <3>2. Busy(x) BY <2>2 DEF Busy
    <3>3. /\ txn[x] = [at |-> txn[x].at, r |-> txn[x].r, todo |-> txn[x].todo]
          /\ txn[x].todo \in Change
      BY <3>2, TxnIs
    <3>4. txn'[x].todo.leave = txn[x].todo.leave \ c.leave BY <3>1, <3>3 DEF Change
    <3> QED BY <2>2, <3>1, <3>4 DEF GoesOn
  <2> QED BY <2>1, <2>2
<1>5. Keeps /\ TablesOK' /\ Linked' BY CommitKeeps, CommitTables
<1>6. Effect(c) /\ Busy(s) /\ ChangeOK(r, c) /\ RequestOK(r) BY CommitIs, TxnIs DEF c, r
<1>7. ASSUME NEW x \in Slot, x # s, Busy(x), txn[x].r.kind = "create"
      PROVE  title'[txn[x].r.g] = None
  <2> DEFINE g == txn[x].r.g
  <2>1. g \in Group /\ title[g] = None BY <1>7, TxnIs DEF RequestOK, Names, Exists
  <2>2. \A n \in c.named : n[1] # g
    <3>1. r.kind = "create" => r.g # g BY <1>6, <1>7 DEF CirclesOK, Overlaps, r
    <3>2. r.kind = "rename" => r.g # g BY <1>6, <2>1 DEF RequestOK, Exists
    <3> HIDE DEF g
    <3> QED BY <1>6, <3>1, <3>2 DEF ChangeOK, Names
  <2> HIDE DEF g
  <2>3. title'[g] = None BY <1>6, <2>1, <2>2 DEF Effect
  <2> QED BY <2>3 DEF g
<1>8. ~Busy(s)' BY <1>3 DEF Busy, Idle
<1>9. TxnOK(s)' BY <1>8 DEF TxnOK
<1>10. CirclesOK' BY <1>3, <1>4, <1>5, <1>7, <1>8, <1>9, Frame
<1> QED BY <1>1, <1>4, <1>5, <1>6, <1>8, <1>10 DEF c

\* A step that commits nothing: requests start, decide or go away.
Quiet ==
  /\ UNCHANGED <<dbVars, joinedBy>> /\ met \subseteq met'
  /\ \A x \in Slot : Busy(x)' =>
       \/ Busy(x) /\ txn'[x] = txn[x]
       \/ txn'[x].at = "started" /\ txn'[x].todo = NoChange /\ New(txn'[x].r)
       \/ /\ Busy(x) /\ txn'[x].at = "decided" /\ txn'[x].r = txn[x].r
          /\ Sound(txn[x].r, txn'[x].todo) /\ DirectoryOK(txn[x].r, txn'[x].todo)

LEMMA StepIs ==
  ASSUME CirclesOK, [Next]_vars
  PROVE  CirclesOK' /\ (Quiet \/ \E s \in Slot : Commit(s))
<1>1. ASSUME NEW s \in Slot, NEW r, Begin(s, r), New(r) PROVE CirclesOK' /\ Quiet
  <2> DEFINE y == [at |-> "started", r |-> r, todo |-> NoChange]
  <2>1. /\ CirclesOK' /\ Keeps /\ txn' = [txn EXCEPT ![s] = y] /\ DOMAIN txn = Slot
    BY <1>1, BeginOK
  <2>2. y.at = "started" /\ y.todo = NoChange /\ y.r = r OBVIOUS
  <2> HIDE DEF y
  <2>3. txn'[s] = y /\ \A x \in Slot : x # s => txn'[x] = txn[x] BY <2>1
  <2>4. \A x \in Slot : x # s => Busy(x)' = Busy(x) BY <2>3 DEF Busy
  <2>5. UNCHANGED <<dbVars, joinedBy>> BY <1>1 DEF Begin
  <2> QED BY <1>1, <2>1, <2>2, <2>3, <2>4, <2>5 DEF Quiet, Keeps
<1>2. ASSUME NEW s \in Slot, Decide(s) PROVE CirclesOK' /\ Quiet
  <2>1. /\ CirclesOK' /\ UNCHANGED <<dbVars, met, joinedBy>>
        /\ \A x \in Slot : x # s => txn'[x] = txn[x]
        /\ \/ ~Busy(s)'
           \/ /\ txn'[s].at = "decided" /\ txn'[s].r = txn[s].r /\ Busy(s)
              /\ Sound(txn[s].r, txn'[s].todo) /\ DirectoryOK(txn[s].r, txn'[s].todo)
    BY <1>2, DecideOK
  <2>2. \A x \in Slot : x # s => Busy(x)' = Busy(x) BY <2>1 DEF Busy
  <2> QED BY <2>1, <2>2 DEF Quiet
<1>3. ASSUME NEW s \in Slot, Rollback(s) PROVE CirclesOK' /\ Quiet
  <2>1. /\ CirclesOK' /\ UNCHANGED <<dbVars, met, joinedBy>> /\ ~Busy(s)'
        /\ \A x \in Slot : x # s => txn'[x] = txn[x]
    BY <1>3, RollbackOK
  <2>2. \A x \in Slot : x # s => Busy(x)' = Busy(x) BY <2>1 DEF Busy
  <2> QED BY <2>1, <2>2 DEF Quiet
<1>4. ASSUME UNCHANGED vars PROVE CirclesOK' /\ Quiet
  <2>1. UNCHANGED <<dbVars, joinedBy>> /\ met' = met /\ txn' = txn BY <1>4 DEF vars
  <2>2. \A x \in Slot : Busy(x)' = Busy(x) /\ txn'[x] = txn[x] BY <2>1 DEF Busy
  <2>3. Quiet BY <2>1, <2>2 DEF Quiet
  <2>4. /\ TablesOK' /\ Linked' /\ Keeps
        /\ \A x \in Slot : Busy(x) /\ txn[x].r.kind = "create" => title'[txn[x].r.g] = None
        /\ \A q : About(q)' = About(q)
    BY <2>1, SameTables
  <2>5. \A x \in Slot : TxnOK(x)' /\ (~Busy(x)' => txn'[x] = Idle)
    BY <2>2, <2>4, GoesOnOK DEF GoesOn
  <2>6. Overlaps'
    <3>1. \A x \in Slot : About(txn[x].r)' = About(txn[x].r)
      BY <2>2, <2>4 DEF About
    <3> QED BY <2>1, <2>2, <3>1 DEF CirclesOK, Overlaps
  <2>7. DOMAIN txn' = Slot BY <2>1 DEF CirclesOK
  <2> QED BY <2>3, <2>4, <2>5, <2>6, <2>7 DEF CirclesOK
<1>5. ASSUME NEW s \in Slot, Commit(s) PROVE CirclesOK' BY <1>5, CommitOK
<1>6. CASE Next
  <2>1. PICK s \in Slot : (\E r : Begin(s, r) /\ New(r)) \/ Decide(s) \/ Commit(s) \/ Rollback(s)
    BY <1>6, NextIs
  <2> QED BY <1>1, <1>2, <1>3, <1>5, <2>1
<1> QED BY <1>4, <1>6

\* The tables stay well formed and linked, every request in progress knows
\* only rows that exist, and requests about one subject are on record.
THEOREM CirclesCorrect == Spec => []CirclesOK
<1>1. CirclesOK /\ [Next]_vars => CirclesOK' BY StepIs
<1> QED BY <1>1, InitCircles, PTL DEF Spec

-----------------------------------------------------------------------------
(* Owners leave by name.                                                   *)

\* A new member row is for nobody who has one.
LEMMA JoinsNobody ==
  ASSUME NEW c, ~Violates(c), NEW g, NEW p, Member(g, p)
  PROVE  \A j \in c.join : j[1] # g \/ j[2] # p
BY DEF Violates

\* Who a decided request takes out is still a member, and, but for
\* remove_member, not the owner.
LeaveInv ==
  \A s \in Slot : txn[s].at = "decided" =>
    \A l \in txn[s].todo.leave :
      /\ Member(l[1], l[2])
      /\ txn[s].r.kind = "setGroups" => role[l[1]][l[2]] # "owner"

LEMMA LeaveQuiet == ASSUME CirclesOK, LeaveInv, Quiet PROVE LeaveInv'
<1> SUFFICES ASSUME NEW s \in Slot, txn'[s].at = "decided", NEW l \in txn'[s].todo.leave
             PROVE  /\ Member(l[1], l[2])'
                    /\ txn'[s].r.kind = "setGroups" => role'[l[1]][l[2]] # "owner"
  BY DEF LeaveInv
<1>1. Busy(s)' BY DEF Busy
<1>2. role' = role /\ (Member(l[1], l[2])' <=> Member(l[1], l[2])) BY DEF Quiet, dbVars, Member
<1>3. CASE txn'[s] = txn[s] BY <1>2, <1>3 DEF LeaveInv
<1>4. CASE txn'[s].r = txn[s].r /\ Sound(txn[s].r, txn'[s].todo) BY <1>2, <1>4 DEF Sound
<1> QED BY <1>1, <1>3, <1>4 DEF Quiet

LEMMA LeaveCommit == ASSUME CirclesOK, LeaveInv, NEW s \in Slot, Commit(s) PROVE LeaveInv'
<1> SUFFICES ASSUME NEW x \in Slot, txn'[x].at = "decided", NEW l \in txn'[x].todo.leave
             PROVE  /\ Member(l[1], l[2])'
                    /\ txn'[x].r.kind = "setGroups" => role'[l[1]][l[2]] # "owner"
  BY DEF LeaveInv
<1>1. Busy(x)' BY DEF Busy
<1>2. x # s /\ GoesOn(x)
      /\ (txn[x].at = "decided" => txn'[x].todo.leave = txn[x].todo.leave \ txn[s].todo.leave)
  BY <1>1, CommitOK
<1>3. Busy(x)
  <2>1. Busy(x) <=> Busy(x)'
    <3>1. CASE ~Busy(x) BY <1>2, <3>1 DEF GoesOn, Busy
    <3>2. CASE Busy(x) BY <1>2, <3>2, GoesOnIs DEF Busy
    <3> QED BY <3>1, <3>2
  <2> QED BY <1>1, <2>1
<1>4. txn[x].at = "decided" /\ txn'[x].r = txn[x].r BY <1>2, <1>3, GoesOnIs
<1>5. l \in txn[x].todo.leave /\ l \notin txn[s].todo.leave BY <1>2, <1>4
<1>6. Member(l[1], l[2]) /\ (txn[x].r.kind = "setGroups" => role[l[1]][l[2]] # "owner")
  BY <1>4, <1>5 DEF LeaveInv
<1>7. l \in Group \X Person
  <2>1. txn[x].todo.leave \subseteq Group \X Person BY <1>3, TxnIs DEF Change
  <2> QED BY <1>5, <2>1
<1>8. PICK g \in Group, p \in Person : l = <<g, p>> BY <1>7
<1>9. Effect(txn[s].todo) /\ ~Violates(txn[s].todo) BY CommitIs
<1>10. role'[g][p] = role[g][p]
  <2>1. \A j \in txn[s].todo.join : j[1] # g \/ j[2] # p BY <1>6, <1>8, <1>9, JoinsNobody
  <2>2. <<g, p>> \notin txn[s].todo.leave BY <1>5, <1>8
  <2>3. \/ <<g, p>> \in txn[s].todo.leave
        \/ \E j \in txn[s].todo.join : j[1] = g /\ j[2] = p
        \/ role'[g][p] = role[g][p]
    BY <1>9 DEF Effect
  <2> QED BY <2>1, <2>2, <2>3
<1> QED BY <1>4, <1>6, <1>8, <1>10 DEF Member

\* Who owns a circle stops being its owner only in the commit of a
\* remove_member that names the circle and the person: neither the directory
\* nor a late acceptance takes an owner out.
THEOREM OwnersCorrect == Spec => OwnersLeaveByName
<1> DEFINE Inv == CirclesOK /\ LeaveInv
<1>1. Init => Inv
  <2>1. Init => LeaveInv BY DEF Init, LeaveInv, Idle
  <2> QED BY <2>1, InitCircles
<1>2. Inv /\ [Next]_vars => Inv' BY StepIs, LeaveQuiet, LeaveCommit
<1>3. ASSUME Inv, [Next]_vars
      PROVE  \A g \in Group, p \in Person :
               role[g][p] = "owner" /\ role'[g][p] # "owner" =>
                 \E s \in Slot : txn[s].at = "decided" /\ txn[s].r.kind = "remove"
                                  /\ txn[s].r.g = g /\ txn[s].r.who = p
  <2> SUFFICES ASSUME NEW g \in Group, NEW p \in Person, role[g][p] = "owner", role'[g][p] # "owner"
               PROVE  \E s \in Slot : txn[s].at = "decided" /\ txn[s].r.kind = "remove"
                                       /\ txn[s].r.g = g /\ txn[s].r.who = p
    OBVIOUS
  <2>1. PICK s \in Slot : Commit(s) BY <1>3, StepIs DEF Quiet, dbVars
  <2>2. Effect(txn[s].todo) /\ ~Violates(txn[s].todo) /\ Busy(s) BY <1>3, <2>1, CommitIs
  <2>3. txn[s].at = "decided" BY <2>1 DEF Commit
  <2>4. <<g, p>> \in txn[s].todo.leave
    <3>1. Member(g, p) BY DEF Member
    <3>2. \A j \in txn[s].todo.join : j[1] # g \/ j[2] # p BY <2>2, <3>1, JoinsNobody
    <3> QED BY <2>2, <3>2 DEF Effect
  <2>5. txn[s].r.kind # "setGroups" BY <1>3, <2>3, <2>4 DEF LeaveInv
  <2>6. /\ txn[s].r.kind \in {"remove", "setGroups"} /\ p = txn[s].r.who
        /\ txn[s].r.kind = "remove" => g = txn[s].r.g
    <3>1. ChangeOK(txn[s].r, txn[s].todo) BY <1>3, <2>2, TxnIs
    <3> QED BY <2>4, <3>1 DEF ChangeOK
  <2> QED BY <2>3, <2>5, <2>6
<1> QED BY <1>1, <1>2, <1>3, PTL DEF Spec, OwnersLeaveByName

-----------------------------------------------------------------------------
(* Phone invites and answers.                                              *)

\* A request that is busy after a commit was so before, and has decided the
\* same, but for what the commit erased.
LEMMA CommitOthers ==
  ASSUME CirclesOK, NEW s \in Slot, Commit(s), NEW x \in Slot, Busy(x)'
  PROVE  /\ x # s /\ Busy(x) /\ txn'[x].at = txn[x].at /\ txn'[x].r = txn[x].r
         /\ txn'[x].todo.named = txn[x].todo.named /\ txn'[x].todo.invited = txn[x].todo.invited
         /\ txn[x].at = "decided" => txn'[x].todo.leave = txn[x].todo.leave \ txn[s].todo.leave
<1>1. x # s /\ GoesOn(x)
      /\ (txn[x].at = "decided" => txn'[x].todo.leave = txn[x].todo.leave \ txn[s].todo.leave)
  BY CommitOK
<1>2. Busy(x) BY <1>1 DEF GoesOn, Busy
<1>3. /\ txn'[x].at = txn[x].at /\ txn'[x].r = txn[x].r
      /\ \E gone : txn'[x].todo = [txn[x].todo EXCEPT !.leave = @ \ gone]
  BY <1>1, <1>2, GoesOnIs
<1>4. PICK d : d = txn'[x].todo OBVIOUS
<1>5. ChangeOK(txn[x].r, txn[x].todo) BY <1>2, TxnIs
<1>6. d.named = txn[x].todo.named /\ d.invited = txn[x].todo.invited
  BY <1>3, <1>4, <1>5, FewerLeave
<1> QED BY <1>1, <1>2, <1>3, <1>4, <1>6

\* A phone invite has a new status after a commit if it was used, and new
\* ones are pending.
LEMMA CommitCodes ==
  ASSUME CirclesOK, NEW s \in Slot, Commit(s), NEW k \in DOMAIN codes',
         codes'[k].status = "accepted"
  PROVE  /\ k \in DOMAIN codes
         /\ codes[k].status = "accepted" \/ k \in txn[s].todo.used
         /\ codes'[k].from = codes[k].from /\ codes'[k].to = codes[k].to
<1> DEFINE c == txn[s].todo
<1>1. Effect(c) /\ Busy(s) BY CommitIs
<1>2. TablesOK /\ c \in Change /\ \A x, y \in c.code : x = y
  BY <1>1, TxnIs DEF CirclesOK, ChangeOK
<1> HIDE DEF c
<1>3. k \in DOMAIN codes
  <2> SUFFICES ASSUME k \notin DOMAIN codes PROVE FALSE OBVIOUS
  <2>1. codes'[k] \in Coded(c) BY <1>1, <1>2, UsedIs DEF Effect, Grown
  <2> QED BY <1>2, <2>1, CodedIs
<1>4. codes'[k] = Used(c)[k] BY <1>1, <1>2, <1>3, UsedIs DEF Effect, Grown
<1>5. /\ Used(c)[k].from = codes[k].from /\ Used(c)[k].to = codes[k].to
      /\ Used(c)[k].status = IF k \in c.used THEN "accepted" ELSE codes[k].status
  BY <1>2, <1>3, UsedIs
<1> QED BY <1>3, <1>4, <1>5 DEF c

LEMMA PhoneCommit ==
  ASSUME CirclesOK, PhoneInvitesAgree, NEW s \in Slot, Commit(s) PROVE PhoneInvitesAgree'
<1> DEFINE c == txn[s].todo
           r == txn[s].r
           Both(k) == {<<codes[k].from, codes[k].to>>, <<codes[k].to, codes[k].from>>}
<1>1. Effect(c) /\ ~Violates(c) /\ ChangeOK(r, c) /\ RequestOK(r) BY CommitIs, TxnIs
<1>2. trusted' = trusted \cup c.trust BY <1>1 DEF Effect
<1>3. \A k \in c.used : k = r.id /\ Both(k) \subseteq c.trust
  BY <1>1 DEF ChangeOK, RequestOK
<1>4. \A k \in DOMAIN codes : codes[k].status = "accepted" =>
        /\ Both(k) \subseteq trusted
        /\ \A j \in DOMAIN codes :
             codes[j].status = "accepted" /\ codes[j].from = codes[k].from
               /\ codes[j].to = codes[k].to => j = k
  BY DEF PhoneInvitesAgree
<1> HIDE DEF c, r
<1>5. ASSUME NEW k \in DOMAIN codes, k \in c.used, codes[k].status = "accepted" PROVE FALSE
  BY <1>1, <1>3, <1>4, <1>5 DEF Violates
<1>6. ASSUME NEW k \in DOMAIN codes, NEW j \in DOMAIN codes, k \in c.used,
             codes[j].status = "accepted", codes[j].from = codes[k].from, codes[j].to = codes[k].to
      PROVE  FALSE
  <2>1. Both(j) = Both(k) BY <1>6
  <2>2. Both(k) \subseteq c.trust /\ Both(j) \subseteq trusted BY <1>3, <1>4, <1>6
  <2> QED BY <1>1, <2>1, <2>2 DEF Violates
<1>7. ASSUME NEW k \in DOMAIN codes', codes'[k].status = "accepted"
      PROVE  {<<codes'[k].from, codes'[k].to>>, <<codes'[k].to, codes'[k].from>>} \subseteq trusted'
  <2>1. /\ k \in DOMAIN codes /\ (codes[k].status = "accepted" \/ k \in c.used)
        /\ codes'[k].from = codes[k].from /\ codes'[k].to = codes[k].to
    BY <1>7, CommitCodes DEF c
  <2>2. Both(k) \subseteq trusted' BY <1>2, <1>3, <1>4, <2>1
  <2> QED BY <2>1, <2>2
<1>8. ASSUME NEW k \in DOMAIN codes', NEW j \in DOMAIN codes',
             codes'[k].status = "accepted", codes'[j].status = "accepted",
             codes'[j].from = codes'[k].from, codes'[j].to = codes'[k].to
      PROVE  j = k
  <2>1. /\ k \in DOMAIN codes /\ (codes[k].status = "accepted" \/ k \in c.used)
        /\ codes'[k].from = codes[k].from /\ codes'[k].to = codes[k].to
    BY <1>8, CommitCodes DEF c
  <2>2. /\ j \in DOMAIN codes /\ (codes[j].status = "accepted" \/ j \in c.used)
        /\ codes'[j].from = codes[j].from /\ codes'[j].to = codes[j].to
    BY <1>8, CommitCodes DEF c
  <2>3. codes[j].from = codes[k].from /\ codes[j].to = codes[k].to BY <1>8, <2>1, <2>2
  <2>4. CASE codes[k].status = "accepted" /\ codes[j].status = "accepted" BY <1>4, <2>1, <2>2, <2>3, <2>4
  <2>5. CASE k \in c.used /\ j \in c.used BY <1>3, <2>5
  <2> QED BY <1>6, <2>1, <2>2, <2>3, <2>4, <2>5
<1> QED BY <1>7, <1>8 DEF PhoneInvitesAgree

\* An accepted phone invite has made its two people each other's contacts,
\* and of the invites from one person to another one is accepted at most,
\* whoever accepts what at the same time.
THEOREM PhoneInvitesCorrect == Spec => []PhoneInvitesAgree
<1> DEFINE Inv == CirclesOK /\ PhoneInvitesAgree
<1>1. Init => Inv
  <2>1. ASSUME Init PROVE \A k \in DOMAIN codes : codes[k].status = "pending"
    BY <2>1 DEF Init
  <2>2. Init => PhoneInvitesAgree BY <2>1 DEF PhoneInvitesAgree
  <2> QED BY <2>2, InitCircles
<1>2. ASSUME Inv, [Next]_vars PROVE Inv'
  <2>1. CASE Quiet
    <3>1. codes' = codes /\ trusted' = trusted BY <2>1 DEF Quiet, dbVars
    <3>2. PhoneInvitesAgree' BY <1>2, <3>1 DEF PhoneInvitesAgree
    <3> QED BY <1>2, <3>2, StepIs
  <2> QED BY <1>2, <2>1, StepIs, PhoneCommit
<1>3. Inv => PhoneInvitesAgree OBVIOUS
<1> QED BY <1>1, <1>2, <1>3, PTL DEF Spec

\* An invite whose answers did not overlap is pending until its one answer is
\* committed.
AnswerInv ==
  \A s \in Slot : Busy(s) /\ txn[s].r.kind \in Answers /\ <<"invite", txn[s].r.id>> \notin met =>
    invites[txn[s].r.id].status = "pending"

\* What a commit does to an invite that was there.
LEMMA CommitInvites ==
  ASSUME CirclesOK, NEW s \in Slot, Commit(s), NEW i \in DOMAIN invites
  PROVE  /\ i \in DOMAIN invites'
         /\ \/ /\ txn[s].r.kind \in Answers /\ i = txn[s].r.id
               /\ <<i, invites'[i].status>> \in txn[s].todo.answer
               /\ invites'[i].status = IF txn[s].r.kind = "accept" THEN "accepted" ELSE "declined"
            \/ (\A a \in txn[s].todo.answer : a[1] # i) /\ invites'[i] = invites[i]
<1> DEFINE c == txn[s].todo
           r == txn[s].r
<1>1. Effect(c) /\ ChangeOK(r, c) /\ c \in Change /\ TablesOK
  BY CommitIs, TxnIs DEF CirclesOK
<1> HIDE DEF c, r
<1>2. i \in DOMAIN invites' /\ invites'[i] = Answered(c)[i]
  BY <1>1, AnsweredIs DEF Effect, Grown
<1>3. \/ \E a \in c.answer : a[1] = i /\ Answered(c)[i].status = a[2]
      \/ (\A a \in c.answer : a[1] # i) /\ Answered(c)[i] = invites[i]
  BY <1>1, AnsweredIs
<1>4. ASSUME NEW a \in c.answer, a[1] = i, Answered(c)[i].status = a[2]
      PROVE  /\ r.kind \in Answers /\ i = r.id /\ <<i, invites'[i].status>> \in c.answer
             /\ invites'[i].status = IF r.kind = "accept" THEN "accepted" ELSE "declined"
  <2>1. r.kind \in Answers /\ a = <<r.id, IF r.kind = "accept" THEN "accepted" ELSE "declined">>
    BY <1>1 DEF ChangeOK
  <2> QED BY <1>2, <1>4, <2>1
<1> QED BY <1>2, <1>3, <1>4 DEF c, r

LEMMA NewInvites ==
  ASSUME CirclesOK, NEW s \in Slot, Commit(s), NEW i \in DOMAIN invites', i \notin DOMAIN invites
  PROVE  invites'[i] \in txn[s].todo.invited /\ invites'[i].status = "pending"
<1> DEFINE c == txn[s].todo
           r == txn[s].r
<1>1. Effect(c) /\ ChangeOK(r, c) /\ c \in Change /\ TablesOK
  BY CommitIs, TxnIs DEF CirclesOK
<1> HIDE DEF c, r
<1>2. invites'[i] \in c.invited BY <1>1, AnsweredIs DEF Effect, Grown
<1>3. invites'[i].status = "pending" BY <1>1, <1>2 DEF ChangeOK
<1> QED BY <1>2, <1>3 DEF c

LEMMA AnswerCommit ==
  ASSUME CirclesOK, AnswersAgree, AnswerInv, NEW s \in Slot, Commit(s)
  PROVE  AnswersAgree' /\ AnswerInv'
<1> DEFINE c == txn[s].todo
           r == txn[s].r
<1>1. Effect(c) /\ ChangeOK(r, c) /\ RequestOK(r) /\ Busy(s) BY CommitIs, TxnIs
<1>2. met' = met BY DEF Commit
<1>3. \A i : i \in joinedBy' <=> i \in joinedBy \/ \E a \in c.answer : a[1] = i /\ a[2] = "accepted"
  BY <1>1 DEF Effect
<1>4. \A a \in c.answer : r.kind \in Answers /\ a[1] = r.id
        /\ a[2] = IF r.kind = "accept" THEN "accepted" ELSE "declined"
  BY <1>1 DEF ChangeOK
<1> HIDE DEF c, r
<1>5. ASSUME NEW i \in DOMAIN invites', <<"invite", i>> \notin met
      PROVE  invites'[i].status = "accepted" <=> i \in joinedBy'
  <2>1. CASE i \notin DOMAIN invites
    <3>1. invites'[i].status = "pending" BY <2>1, NewInvites
    <3>2. i \notin joinedBy BY <2>1 DEF CirclesOK, TablesOK
    <3>3. \A a \in c.answer : a[1] # i BY <1>1, <1>4, <2>1 DEF RequestOK
    <3> QED BY <1>3, <3>1, <3>2, <3>3
  <2>2. CASE i \in DOMAIN invites
    <3>1. invites[i].status = "accepted" <=> i \in joinedBy BY <1>5, <2>2 DEF AnswersAgree
    <3>2. CASE (\A a \in c.answer : a[1] # i) /\ invites'[i] = invites[i] BY <1>3, <3>1, <3>2
    <3>3. CASE /\ r.kind \in Answers /\ i = r.id /\ <<i, invites'[i].status>> \in c.answer
               /\ invites'[i].status = IF r.kind = "accept" THEN "accepted" ELSE "declined"
      <4>1. invites[i].status = "pending" BY <1>1, <1>5, <3>3 DEF AnswerInv, r
      <4>2. i \notin joinedBy BY <3>1, <4>1
      <4>3. \A a \in c.answer : a[2] = invites'[i].status BY <1>4, <3>3
      <4> QED BY <1>3, <3>3, <4>2, <4>3
    <3> QED BY <2>2, <3>2, <3>3, CommitInvites DEF c, r
  <2> QED BY <2>1, <2>2
<1>6. ASSUME NEW x \in Slot, Busy(x)', txn'[x].r.kind \in Answers,
             <<"invite", txn'[x].r.id>> \notin met
      PROVE  invites'[txn'[x].r.id].status = "pending"
  <2>1. x # s /\ Busy(x) /\ txn'[x].r = txn[x].r BY <1>6, CommitOthers
  <2>2. PICK i : i = txn[x].r.id OBVIOUS
  <2>3. i \in DOMAIN invites BY <1>6, <2>1, <2>2, TxnIs DEF RequestOK
  <2>4. invites[i].status = "pending" BY <1>6, <2>1, <2>2 DEF AnswerInv
  <2>5. ~(r.kind \in Answers /\ i = r.id)
    <3> SUFFICES ASSUME r.kind \in Answers, i = r.id PROVE FALSE OBVIOUS
    <3>1. <<"invite", i>> \in About(r) /\ <<"invite", i>> \in About(txn[x].r)
      BY <1>6, <2>1, <2>2 DEF About, Answers
    <3>2. About(r) \cap About(txn[x].r) \subseteq met
      BY <1>1, <2>1 DEF CirclesOK, Overlaps, r
    <3> QED BY <1>6, <2>1, <2>2, <3>1, <3>2
  <2>6. invites'[i] = invites[i] BY <2>3, <2>5, CommitInvites DEF r
  <2> QED BY <2>1, <2>2, <2>4, <2>6
<1>7. AnswersAgree' BY <1>2, <1>5 DEF AnswersAgree
<1>8. AnswerInv' BY <1>2, <1>6 DEF AnswerInv
<1> QED BY <1>7, <1>8

LEMMA AnswerQuiet ==
  ASSUME CirclesOK, AnswersAgree, AnswerInv, Quiet PROVE AnswersAgree' /\ AnswerInv'
<1>1. invites' = invites /\ joinedBy' = joinedBy /\ met \subseteq met' BY DEF Quiet, dbVars
<1>2. AnswersAgree' BY <1>1 DEF AnswersAgree
<1>3. ASSUME NEW x \in Slot, Busy(x)', txn'[x].r.kind \in Answers,
             <<"invite", txn'[x].r.id>> \notin met
      PROVE  invites'[txn'[x].r.id].status = "pending"
  <2>1. CASE Busy(x) /\ txn'[x].r = txn[x].r BY <1>1, <1>3, <2>1 DEF AnswerInv
  <2>2. CASE New(txn'[x].r) BY <1>1, <1>3, <2>2 DEF New, Pending
  <2> QED BY <1>3, <2>1, <2>2 DEF Quiet
<1> QED BY <1>1, <1>2, <1>3 DEF AnswerInv

\* An invite whose answers did not overlap is accepted exactly if its
\* acceptance was committed: nothing else changes an answer.
THEOREM AnswersCorrect == Spec => []AnswersAgree
<1> DEFINE Inv == CirclesOK /\ AnswersAgree /\ AnswerInv
<1>1. Init => Inv
  <2>1. ASSUME Init PROVE AnswersAgree /\ AnswerInv
    <3>1. DOMAIN invites = {} /\ \A s \in Slot : ~Busy(s) BY <2>1 DEF Init, Busy, Idle
    <3> QED BY <3>1 DEF AnswersAgree, AnswerInv
  <2> QED BY <2>1, InitCircles
<1>2. Inv /\ [Next]_vars => Inv' BY StepIs, AnswerQuiet, AnswerCommit
<1>3. Inv => AnswersAgree OBVIOUS
<1> QED BY <1>1, <1>2, <1>3, PTL DEF Spec

-----------------------------------------------------------------------------
(* Duplicates.                                                             *)

\* What a request is about to invite is still new, the name it is about to
\* give still free and the name it found still the circle's, if nobody
\* overlapped with it.
FreshInv ==
  \A s \in Slot : Busy(s) =>
    \A i \in txn[s].todo.invited :
      <<i.g, Subject(txn[s].r)>> \notin met => FreshRow(i, Subject(txn[s].r))
NameInv ==
  \A s \in Slot : Busy(s) =>
    \A n \in txn[s].todo.named :
      <<"circles of", txn[s].r.owner>> \notin met => Owned(n[2], n[3]) \subseteq {n[1]}
WasInv ==
  \A s \in Slot : Busy(s) /\ txn[s].r.kind = "rename" =>
    (<<"circles of", txn[s].r.owner>> \notin met => title[txn[s].r.g] = txn[s].r.was)
OnePending ==
  \A g \in Group, p \in Person : <<g, p>> \notin met =>
    /\ \A i, j \in PendingByPhone(g, p) : i = j
    /\ \A i, j \in PendingByMail(g, p) \ PendingByPhone(g, p) : i = j
OneName ==
  \A p \in Person, t \in Title : <<"circles of", p>> \notin met => \A g, h \in Owned(p, t) : g = h

LEMMA AtMostOne == ASSUME NEW S, \A x, y \in S : x = y PROVE Cardinality(S) <= 1
<1>1. CASE S = {} BY <1>1, FS_EmptySet
<1>2. ASSUME NEW x \in S PROVE Cardinality(S) <= 1
  <2>1. S = {x} BY <1>2
  <2>2. Cardinality({x}) = 1 BY FS_Singleton
  <2> QED BY <2>1, <2>2
<1> QED BY <1>1, <1>2

\* A request that writes an invite is about its subject in every circle.
LEMMA InvitedIs ==
  ASSUME CirclesOK, NEW s \in Slot, Busy(s), NEW i \in txn[s].todo.invited
  PROVE  /\ i \in InviteRow /\ i.status = "pending" /\ {i.phone, i.mail} \subseteq {Subject(txn[s].r), None}
         /\ About(txn[s].r) = Group \X {Subject(txn[s].r)} /\ Subject(txn[s].r) \in Person
         /\ \A j \in txn[s].todo.invited : i.g = j.g => i = j
<1> DEFINE c == txn[s].todo
           r == txn[s].r
<1>1. ChangeOK(r, c) /\ RequestOK(r) /\ c \in Change BY TxnIs
<1> HIDE DEF c, r
<1>2. i \in c.invited BY DEF c
<1>3. /\ r.kind \in AboutWho \cup AboutSelf /\ i.status = "pending"
      /\ {i.phone, i.mail} \subseteq {Subject(r), None}
      /\ \A j \in c.invited : i.g = j.g => i = j
  BY <1>1, <1>2 DEF ChangeOK
<1>4. i \in InviteRow BY <1>1, <1>2 DEF Change
<1>5. About(r) = Group \X {Subject(r)} BY <1>3 DEF About, Subject, AboutWho, AboutSelf
<1>6. Subject(r) \in Person BY <1>1 DEF RequestOK, Subject
<1> QED BY <1>3, <1>4, <1>5, <1>6 DEF c, r

LEMMA TwoInviting ==
  ASSUME CirclesOK, NEW s \in Slot, NEW x \in Slot, s # x, Busy(s), Busy(x),
         NEW i \in txn[s].todo.invited, NEW j \in txn[x].todo.invited,
         Subject(txn[s].r) = Subject(txn[x].r), NEW g \in Group
  PROVE  <<g, Subject(txn[s].r)>> \in met
<1> DEFINE p == Subject(txn[s].r)
<1>1. About(txn[s].r) = Group \X {p} /\ About(txn[x].r) = Group \X {p} BY InvitedIs
<1>2. About(txn[s].r) \cap About(txn[x].r) \subseteq met BY DEF CirclesOK, Overlaps
<1>3. <<g, p>> \in Group \X {p} OBVIOUS
<1> QED BY <1>1, <1>2, <1>3

\* A pending invite of p after a commit was one before, or is new and written
\* by a request about p.
LEMMA PendingAfter ==
  ASSUME CirclesOK, NEW s \in Slot, Commit(s), NEW g \in Group, NEW p \in Person,
         NEW k \in DOMAIN invites', invites'[k].status = "pending", invites'[k].g = g,
         p \in {invites'[k].phone, invites'[k].mail}
  PROVE  \/ k \in DOMAIN invites /\ k \in Pending /\ invites'[k] = invites[k]
         \/ /\ k \notin DOMAIN invites /\ invites'[k] \in txn[s].todo.invited
            /\ Subject(txn[s].r) = p
<1>1. CASE k \in DOMAIN invites BY <1>1, CommitInvites DEF Pending
<1>2. CASE k \notin DOMAIN invites
  <2>1. invites'[k] \in txn[s].todo.invited /\ Busy(s) BY <1>2, NewInvites, CommitIs
  <2>2. {invites'[k].phone, invites'[k].mail} \subseteq {Subject(txn[s].r), None} BY <2>1, InvitedIs
  <2> QED BY <1>2, <2>1, <2>2, PersonIsSome
<1> QED BY <1>1, <1>2

LEMMA FreshCommit ==
  ASSUME CirclesOK, FreshInv, NEW s \in Slot, Commit(s) PROVE FreshInv'
<1> SUFFICES ASSUME NEW x \in Slot, Busy(x)', NEW i \in txn'[x].todo.invited,
                    <<i.g, Subject(txn'[x].r)>> \notin met'
             PROVE  FreshRow(i, Subject(txn[x].r))'
  BY DEF FreshInv, Subject
<1>1. /\ x # s /\ Busy(x) /\ txn'[x].r = txn[x].r /\ i \in txn[x].todo.invited /\ met' = met /\ Busy(s)
  BY CommitOthers, CommitIs DEF Commit
<1>2. PICK p : p = Subject(txn[x].r) OBVIOUS
<1>3. Subject(txn[x].r)' = p BY <1>1, <1>2 DEF Subject
<1>4. FreshRow(i, p) /\ <<i.g, p>> \notin met BY <1>1, <1>2 DEF FreshInv, Subject
<1>5. i \in InviteRow /\ p \in Person /\ i.g \in Group BY <1>1, <1>2, InvitedIs DEF InviteRow
<1>6. ASSUME NEW k \in DOMAIN invites', invites'[k].status = "pending", invites'[k].g = i.g,
             p \in {invites'[k].phone, invites'[k].mail}
      PROVE  k \in DOMAIN invites /\ k \in Pending /\ invites'[k] = invites[k]
  <2> SUFFICES ASSUME invites'[k] \in txn[s].todo.invited, Subject(txn[s].r) = p PROVE FALSE
    BY <1>5, <1>6, PendingAfter
  <2>1. <<i.g, p>> \in met BY <1>1, <1>2, <1>5, TwoInviting
  <2> QED BY <1>4, <2>1
<1>7. /\ i.phone # None => PendingByPhone(i.g, p)' = {}
      /\ i.phone = None => i.mail = p /\ PendingByMail(i.g, p)' = {}
  <2>1. PendingByPhone(i.g, p)' \subseteq PendingByPhone(i.g, p)
    BY <1>6 DEF PendingByPhone, Pending
  <2>2. PendingByMail(i.g, p)' \subseteq PendingByMail(i.g, p)
    BY <1>6 DEF PendingByMail, Pending
  <2> QED BY <1>4, <2>1, <2>2 DEF FreshRow
<1>8. FreshRow(i, p)' BY <1>4, <1>7 DEF FreshRow
<1> QED BY <1>3, <1>8

LEMMA OnePendingCommit ==
  ASSUME CirclesOK, FreshInv, OnePending, NEW s \in Slot, Commit(s) PROVE OnePending'
<1> SUFFICES ASSUME NEW g \in Group, NEW p \in Person, <<g, p>> \notin met'
             PROVE  /\ \A i, j \in PendingByPhone(g, p)' : i = j
                    /\ \A i, j \in PendingByMail(g, p)' \ PendingByPhone(g, p)' : i = j
  BY DEF OnePending
<1> DEFINE c == txn[s].todo
           Added(k) == k \notin DOMAIN invites /\ invites'[k] \in c.invited /\ Subject(txn[s].r) = p
           Old(k) == k \in DOMAIN invites /\ k \in Pending /\ invites'[k] = invites[k]
<1>1. Effect(c) /\ Busy(s) /\ met' = met BY CommitIs DEF Commit
<1>2. \A i, j \in DOMAIN invites' : Added(i) /\ Added(j) /\ invites'[i] = invites'[j] => i = j
  <2>1. TablesOK /\ c \in Change BY <1>1, TxnIs DEF CirclesOK
  <2>2. DOMAIN Answered(c) = DOMAIN invites BY <2>1, AnsweredIs
  <2> HIDE DEF c
  <2> QED BY <1>1, <2>2 DEF Effect, Grown
<1>3. \A k \in DOMAIN invites' : Added(k) /\ invites'[k].g = g =>
        FreshRow(invites'[k], p) /\ \A j \in c.invited : j.g = g => invites'[k] = j
  BY <1>1, InvitedIs DEF FreshInv
<1>4. \A k \in DOMAIN invites' : invites'[k].status = "pending" /\ invites'[k].g = g
        /\ p \in {invites'[k].phone, invites'[k].mail} => Old(k) \/ Added(k)
  BY PendingAfter
<1>5. \A i, j \in DOMAIN invites' :
        Added(i) /\ Added(j) /\ invites'[i].g = g /\ invites'[j].g = g => i = j
  BY <1>2, <1>3
<1> HIDE DEF c, Added
<1>6. ASSUME NEW k \in PendingByPhone(g, p)'
      PROVE  /\ k \in DOMAIN invites' /\ invites'[k].g = g
             /\ k \in PendingByPhone(g, p) \/ (Added(k) /\ PendingByPhone(g, p) = {})
  <2>1. /\ k \in DOMAIN invites' /\ invites'[k].status = "pending" /\ invites'[k].g = g
        /\ invites'[k].phone = p
    BY DEF PendingByPhone, Pending
  <2>2. CASE Old(k) BY <2>1, <2>2 DEF PendingByPhone
  <2>3. CASE Added(k)
    <3>1. FreshRow(invites'[k], p) BY <1>3, <2>1, <2>3
    <3>2. PendingByPhone(g, p) = {} BY <2>1, <3>1, PersonIsSome DEF FreshRow
    <3> QED BY <2>1, <2>3, <3>2
  <2> QED BY <1>4, <2>1, <2>2, <2>3
<1>7. ASSUME NEW k \in PendingByMail(g, p)' \ PendingByPhone(g, p)'
      PROVE  /\ k \in DOMAIN invites' /\ invites'[k].g = g
             /\ \/ k \in PendingByMail(g, p) \ PendingByPhone(g, p)
                \/ Added(k) /\ PendingByMail(g, p) = {}
  <2>1. /\ k \in DOMAIN invites' /\ invites'[k].status = "pending" /\ invites'[k].g = g
        /\ invites'[k].mail = p /\ invites'[k].phone # p
    BY DEF PendingByPhone, PendingByMail, Pending
  <2>2. CASE Old(k) BY <2>1, <2>2 DEF PendingByPhone, PendingByMail
  <2>3. CASE Added(k)
    <3>1. FreshRow(invites'[k], p) BY <1>3, <2>1, <2>3
    <3>2. PendingByMail(g, p) = {} BY <2>1, <3>1 DEF FreshRow
    <3> QED BY <2>1, <2>3, <3>2
  <2> QED BY <1>4, <2>1, <2>2, <2>3
<1>8. /\ \A i, j \in PendingByPhone(g, p) : i = j
      /\ \A i, j \in PendingByMail(g, p) \ PendingByPhone(g, p) : i = j
  BY <1>1 DEF OnePending
<1>9. \A i, j \in PendingByPhone(g, p)' : i = j BY <1>5, <1>6, <1>8
<1>10. \A i, j \in PendingByMail(g, p)' \ PendingByPhone(g, p)' : i = j BY <1>5, <1>7, <1>8
<1> QED BY <1>9, <1>10

LEMMA NameCommit ==
  ASSUME CirclesOK, NameInv, WasInv, OneName, NEW s \in Slot, Commit(s)
  PROVE  NameInv' /\ WasInv' /\ OneName'
<1> DEFINE c == txn[s].todo
           r == txn[s].r
<1>1. Effect(c) /\ Busy(s) /\ met' = met /\ ChangeOK(r, c) /\ RequestOK(r)
  BY CommitIs, TxnIs DEF Commit
<1>2. \A n \in c.named : r.kind \in Names /\ n[1] = r.g /\ n[2] = r.owner BY <1>1 DEF ChangeOK
<1>3. <<"circles of", r.owner>> \notin met => \A n \in c.named : Owned(n[2], n[3]) \subseteq {r.g}
  BY <1>1, <1>2 DEF NameInv
<1>4. \A g \in Group :
        \/ \E n \in c.named : n[1] = g /\ creator'[g] = n[2] /\ title'[g] = n[3]
        \/ creator'[g] = creator[g] /\ title'[g] = title[g]
  BY <1>1 DEF Effect
<1> HIDE DEF c
<1>5. ASSUME NEW p, NEW t, NEW g \in Owned(p, t)'
      PROVE  \/ g \in Owned(p, t)
             \/ /\ r.kind \in Names /\ p = r.owner /\ g = r.g
                /\ \E n \in c.named : n[2] = p /\ n[3] = t
  <2>1. g \in Group /\ creator'[g] = p /\ title'[g] = t BY DEF Owned
  <2>2. CASE creator'[g] = creator[g] /\ title'[g] = title[g] BY <2>1, <2>2 DEF Owned
  <2>3. ASSUME NEW n \in c.named, n[1] = g, creator'[g] = n[2], title'[g] = n[3]
        PROVE  /\ r.kind \in Names /\ p = r.owner /\ g = r.g /\ n[2] = p /\ n[3] = t
    BY <1>2, <2>1, <2>3
  <2> QED BY <1>4, <2>1, <2>2, <2>3
<1>6. ASSUME NEW p \in Person, NEW t \in Title, <<"circles of", p>> \notin met,
             NEW g \in Owned(p, t)', NEW h \in Owned(p, t)'
      PROVE  g = h
  <2>1. CASE r.kind \in Names /\ p = r.owner /\ \E n \in c.named : n[2] = p /\ n[3] = t
    <3>1. Owned(p, t) \subseteq {r.g} BY <1>3, <1>6, <2>1
    <3>2. g = r.g /\ h = r.g BY <1>5, <1>6, <3>1
    <3> QED BY <3>2
  <2>2. CASE g \in Owned(p, t) /\ h \in Owned(p, t) BY <1>6, <2>2 DEF OneName
  <2> QED BY <1>5, <2>1, <2>2
<1>7. ASSUME NEW x \in Slot, x # s, Busy(x), txn[x].r.kind \in Names,
             <<"circles of", txn[x].r.owner>> \notin met
      PROVE  ~(r.kind \in Names /\ r.owner = txn[x].r.owner)
  <2> SUFFICES ASSUME r.kind \in Names, r.owner = txn[x].r.owner PROVE FALSE OBVIOUS
  <2>1. <<"circles of", r.owner>> \in About(r) /\ <<"circles of", r.owner>> \in About(txn[x].r)
    BY <1>7 DEF About, Names
  <2>2. About(r) \cap About(txn[x].r) \subseteq met BY <1>1, <1>7 DEF CirclesOK, Overlaps
  <2> QED BY <1>7, <2>1, <2>2
<1>8. ASSUME NEW x \in Slot, Busy(x)', NEW n \in txn'[x].todo.named,
             <<"circles of", txn'[x].r.owner>> \notin met
      PROVE  Owned(n[2], n[3])' \subseteq {n[1]}
  <2>1. x # s /\ Busy(x) /\ txn'[x].r = txn[x].r /\ n \in txn[x].todo.named BY <1>8, CommitOthers
  <2>2. PICK p, t : p = n[2] /\ t = n[3] OBVIOUS
  <2>3. Owned(p, t) \subseteq {n[1]} BY <1>8, <2>1, <2>2 DEF NameInv
  <2>4. ChangeOK(txn[x].r, txn[x].todo) BY <2>1, TxnIs
  <2>5. txn[x].r.kind \in Names /\ p = txn[x].r.owner BY <2>1, <2>2, <2>4 DEF ChangeOK
  <2>6. ~(r.kind \in Names /\ p = r.owner) BY <1>7, <1>8, <2>1, <2>5
  <2>7. Owned(p, t)' \subseteq {n[1]} BY <1>5, <2>3, <2>6
  <2> QED BY <2>2, <2>7
<1>9. ASSUME NEW x \in Slot, Busy(x)', txn'[x].r.kind = "rename",
             <<"circles of", txn'[x].r.owner>> \notin met
      PROVE  title'[txn'[x].r.g] = txn'[x].r.was
  <2>1. x # s /\ Busy(x) /\ txn'[x].r = txn[x].r BY <1>9, CommitOthers
  <2>2. PICK q : q = txn[x].r OBVIOUS
  <2>3. /\ q.kind = "rename" /\ q.kind \in Names /\ title[q.g] = q.was
        /\ ~(r.kind \in Names /\ r.owner = q.owner)
    BY <1>7, <1>9, <2>1, <2>2 DEF WasInv, Names
  <2>4. q.g \in Group /\ Exists(q.g) /\ creator[q.g] = q.owner
    BY <2>1, <2>2, <2>3, TxnIs DEF RequestOK, Names
  <2>5. \A n \in c.named : n[1] # q.g
    <3>1. r.kind = "create" => r.g # q.g BY <1>1, <2>4 DEF RequestOK, Names
    <3>2. r.kind = "rename" => r.g # q.g BY <1>1, <2>3, <2>4 DEF RequestOK, Names
    <3> QED BY <1>2, <3>1, <3>2 DEF Names
  <2>6. title'[q.g] = title[q.g] BY <1>4, <2>4, <2>5
  <2> QED BY <2>1, <2>2, <2>3, <2>6
<1>10. NameInv' BY <1>1, <1>8 DEF NameInv
<1>11. WasInv' BY <1>1, <1>9 DEF WasInv
<1>12. OneName' BY <1>1, <1>6 DEF OneName
<1> QED BY <1>10, <1>11, <1>12

LEMMA FreshQuiet ==
  ASSUME CirclesOK, FreshInv, NameInv, WasInv, OnePending, OneName, Quiet
  PROVE  FreshInv' /\ NameInv' /\ WasInv' /\ OnePending' /\ OneName'
<1>1. /\ invites' = invites /\ creator' = creator /\ title' = title /\ met \subseteq met'
  BY DEF Quiet, dbVars
<1>2. /\ \A g, p : PendingByPhone(g, p)' = PendingByPhone(g, p) /\ PendingByMail(g, p)' = PendingByMail(g, p)
      /\ \A p, t : Owned(p, t)' = Owned(p, t)
  BY <1>1 DEF PendingByPhone, PendingByMail, Pending, Owned
<1>3. \A i, p : FreshRow(i, p) => FreshRow(i, p)' BY <1>2 DEF FreshRow
<1>4. OnePending' /\ OneName' BY <1>1, <1>2 DEF OnePending, OneName
<1>5. ASSUME NEW x \in Slot, Busy(x)'
      PROVE  /\ \A i \in txn'[x].todo.invited :
                  <<i.g, Subject(txn'[x].r)>> \notin met => FreshRow(i, Subject(txn'[x].r))
             /\ \A n \in txn'[x].todo.named :
                  <<"circles of", txn'[x].r.owner>> \notin met => Owned(n[2], n[3]) \subseteq {n[1]}
  <2>1. CASE Busy(x) /\ txn'[x] = txn[x] BY <2>1 DEF FreshInv, NameInv
  <2>2. CASE txn'[x].todo = NoChange BY <2>2, NoChangeIs
  <2>3. CASE Busy(x) /\ txn'[x].r = txn[x].r /\ Sound(txn[x].r, txn'[x].todo)
    <3>1. PICK r, c : r = txn[x].r /\ c = txn'[x].todo OBVIOUS
    <3>2. \A i \in c.invited : FreshRow(i, Subject(r)) BY <2>3, <3>1 DEF Sound
    <3>3. ASSUME NEW n \in c.named, <<"circles of", r.owner>> \notin met
          PROVE  Owned(n[2], n[3]) \subseteq {n[1]}
      <4>1. Free(r, n) /\ n[1] = r.g /\ n[2] = r.owner /\ n \in Group \X Person \X Title
        BY <2>3, <3>1, <3>3 DEF Sound, ChangeOK, Change
      <4>2. CASE r.kind = "rename" /\ n[3] = r.was
        <5>1. title[r.g] = n[3] BY <2>3, <3>1, <3>3, <4>2 DEF WasInv
        <5>2. r.g \in Group /\ creator[r.g] = r.owner
          BY <2>3, <3>1, <4>2, TxnIs DEF RequestOK, Names
        <5>3. r.g \in Owned(n[2], n[3]) BY <4>1, <5>1, <5>2 DEF Owned
        <5>4. n[2] \in Person /\ n[3] \in Title /\ <<"circles of", n[2]>> \notin met BY <3>3, <4>1
        <5> QED BY <4>1, <5>3, <5>4 DEF OneName
      <4> QED BY <4>1, <4>2 DEF Free
    <3> QED BY <2>3, <3>1, <3>2, <3>3
  <2> QED BY <1>5, <2>1, <2>2, <2>3 DEF Quiet
<1>6. FreshInv'
  <2> SUFFICES ASSUME NEW x \in Slot, Busy(x)', NEW i \in txn'[x].todo.invited,
                      <<i.g, Subject(txn'[x].r)>> \notin met'
               PROVE  FreshRow(i, Subject(txn[x].r))'
    BY DEF FreshInv, Subject
  <2>1. PICK p : p = Subject(txn'[x].r) OBVIOUS
  <2>2. FreshRow(i, p) BY <1>1, <1>5, <2>1
  <2>3. FreshRow(i, p)' BY <1>3, <2>2
  <2>4. Subject(txn[x].r)' = p BY <2>1 DEF Subject
  <2> QED BY <2>3, <2>4
<1>7. NameInv'
  <2> SUFFICES ASSUME NEW x \in Slot, Busy(x)', NEW n \in txn'[x].todo.named,
                      <<"circles of", txn'[x].r.owner>> \notin met'
               PROVE  Owned(n[2], n[3])' \subseteq {n[1]}
    BY DEF NameInv
  <2>1. Owned(n[2], n[3]) \subseteq {n[1]} BY <1>1, <1>5
  <2> QED BY <1>2, <2>1
<1>8. WasInv'
  <2> SUFFICES ASSUME NEW x \in Slot, Busy(x)', txn'[x].r.kind = "rename",
                      <<"circles of", txn'[x].r.owner>> \notin met'
               PROVE  title[txn'[x].r.g] = txn'[x].r.was
    BY <1>1 DEF WasInv
  <2>1. CASE Busy(x) /\ txn'[x].r = txn[x].r BY <1>1, <2>1 DEF WasInv
  <2>2. CASE New(txn'[x].r) BY <2>2 DEF New
  <2> QED BY <2>1, <2>2 DEF Quiet
<1> QED BY <1>4, <1>6, <1>7, <1>8

\* Only requests about the same subject that overlapped make a look-up that
\* raises on two rows find two: pending invites of a phone or of an e-mail in
\* a circle, or circles of one name of one creator.
THEOREM DuplicatesCorrect == Spec => []DuplicatesHaveACause
<1> DEFINE Inv == CirclesOK /\ FreshInv /\ NameInv /\ WasInv /\ OnePending /\ OneName
<1>1. ASSUME Init PROVE Inv
  <2>1. invites = <<>> /\ \A s \in Slot : ~Busy(s) BY <1>1 DEF Init, Busy, Idle
  <2>2. \A g, p : PendingByPhone(g, p) = {} /\ PendingByMail(g, p) = {}
    BY <2>1 DEF PendingByPhone, PendingByMail, Pending
  <2>3. FreshInv /\ NameInv /\ WasInv /\ OnePending
    BY <2>1, <2>2 DEF FreshInv, NameInv, WasInv, OnePending
  <2>4. OneName
    <3>1. PICK g \in Group : \A h \in Group : h # g => creator[h] = None BY <1>1 DEF Init
    <3>2. \A p \in Person, t \in Title : Owned(p, t) \subseteq {g} BY <3>1, PersonIsSome DEF Owned
    <3> QED BY <3>2 DEF OneName
  <2> QED BY <1>1, <2>3, <2>4, InitCircles
<1>2. ASSUME Inv, [Next]_vars PROVE Inv'
  BY <1>2, StepIs, FreshQuiet, FreshCommit, OnePendingCommit, NameCommit
<1>3. ASSUME Inv PROVE DuplicatesHaveACause
  <2>1. ASSUME NEW g \in Group, NEW p \in Person, <<g, p>> \notin met
        PROVE  /\ Cardinality(PendingByPhone(g, p)) <= 1
               /\ Cardinality(PendingByMail(g, p) \ PendingByPhone(g, p)) <= 1
    <3>1. /\ \A i, j \in PendingByPhone(g, p) : i = j
          /\ \A i, j \in PendingByMail(g, p) \ PendingByPhone(g, p) : i = j
      BY <1>3, <2>1 DEF OnePending
    <3> QED BY <3>1, AtMostOne
  <2>2. ASSUME NEW p \in Person, NEW t \in Title, <<"circles of", p>> \notin met
        PROVE  Cardinality(Owned(p, t)) <= 1
    <3>1. \A g, h \in Owned(p, t) : g = h BY <1>3, <2>2 DEF OneName
    <3> QED BY <3>1, AtMostOne
  <2> QED BY <2>1, <2>2 DEF DuplicatesHaveACause
<1> QED BY <1>1, <1>2, <1>3, PTL DEF Spec

-----------------------------------------------------------------------------
(* The directory.                                                          *)

\* A directory write that nothing about the contact overlapped with will do
\* what was asked when it commits.
DirInv ==
  \A s \in Slot : txn[s].at = "decided" /\ (Group \X {Subject(txn[s].r)}) \cap met = {} =>
    DirectoryOK(txn[s].r, txn[s].todo)

LEMMA DirQuiet == ASSUME CirclesOK, DirInv, Quiet PROVE DirInv'
<1> SUFFICES ASSUME NEW x \in Slot, txn'[x].at = "decided",
                    (Group \X {Subject(txn'[x].r)}) \cap met' = {}
             PROVE  DirectoryOK(txn[x].r, txn[x].todo)'
  BY DEF DirInv, Subject
<1>1. /\ account' = account /\ role' = role /\ invites' = invites /\ met \subseteq met'
  BY DEF Quiet, dbVars
<1>2. PICK r, c : r = txn'[x].r /\ c = txn'[x].todo OBVIOUS
<1>3. Busy(x)' BY DEF Busy
<1>4. DirectoryOK(r, c)
  <2>1. CASE Busy(x) /\ txn'[x] = txn[x] BY <1>1, <1>2, <2>1 DEF DirInv
  <2>2. CASE txn'[x].r = txn[x].r /\ DirectoryOK(txn[x].r, txn'[x].todo) BY <1>2, <2>2
  <2> QED BY <1>3, <2>1, <2>2 DEF Quiet
<1>5. /\ \A g, p : Member(g, p)' <=> Member(g, p)
      /\ \A g, p : CanAnswer(g, p)' <=> CanAnswer(g, p)
      /\ \A i, p : Reaches(i, p)' <=> Reaches(i, p)
  BY <1>1 DEF Member, CanAnswer, MayAnswer, Matches, Pending, Reaches, HasPhone, HasMail
<1>6. DirectoryOK(r, c)' BY <1>1, <1>4, <1>5 DEF DirectoryOK
<1>7. DirectoryOK(txn[x].r, txn[x].todo)' <=> DirectoryOK(r, c)' BY <1>2
<1> QED BY <1>6, <1>7

\* While nothing about p overlaps, its roles in circles that exist, and the
\* invites it can answer, outlast the commit of another request.
LEMMA AboutOther ==
  ASSUME CirclesOK, NEW s \in Slot, Commit(s), NEW p \in Person, Group # {},
         \A g \in Group : <<g, p>> \notin About(txn[s].r)
  PROVE  /\ \A g \in Group : Exists(g) => role'[g][p] = role[g][p]
         /\ \A g : <<g, p>> \notin txn[s].todo.leave
         /\ \A g : CanAnswer(g, p) => CanAnswer(g, p)'
<1> DEFINE c == txn[s].todo
           r == txn[s].r
<1>1. Effect(c) /\ ~Violates(c) /\ ChangeOK(r, c) /\ c \in Change /\ RequestOK(r) /\ Keeps
  BY CommitIs, TxnIs, CommitKeeps
<1>2. \A g \in Group : <<g, p>> \notin About(r) OBVIOUS
<1>t. TablesOK /\ Linked BY DEF CirclesOK
<1> HIDE DEF c, r
<1>3. ASSUME r.kind \in AboutWho \cup AboutSelf PROVE Subject(r) # p
  <2>1. About(r) = Group \X {Subject(r)} BY <1>3 DEF About, Subject, AboutWho, AboutSelf
  <2> QED BY <1>2, <2>1
<1>4. ASSUME r.kind \in Answers PROVE r.by # p
  <2>1. r.id \in DOMAIN invites BY <1>1, <1>4 DEF RequestOK
  <2>2. invites[r.id].g \in Group BY <1>t, <2>1, RowsTyped DEF InviteRow
  <2>3. <<invites[r.id].g, r.by>> \in About(r) BY <1>4 DEF About, Answers
  <2> QED BY <1>2, <2>2, <2>3
<1>5. \A g : <<g, p>> \notin c.leave
  <2> SUFFICES ASSUME NEW g, <<g, p>> \in c.leave PROVE FALSE OBVIOUS
  <2>1. r.kind \in {"remove", "setGroups"} /\ p = r.who BY <1>1 DEF ChangeOK
  <2> QED BY <1>3, <2>1 DEF Subject, AboutWho
<1>6. ASSUME NEW g \in Group, Exists(g) PROVE role'[g][p] = role[g][p]
  <2>1. ASSUME NEW j \in c.join, j[1] = g, j[2] = p PROVE FALSE
    <3>1. /\ r.kind \in {"create", "add", "accept", "acceptCode"} /\ p = Subject(r)
          /\ r.kind = "create" => \E n \in c.named : n[1] = g
      BY <1>1, <2>1 DEF ChangeOK
    <3>2. r.kind \notin {"add", "acceptCode"} BY <1>3, <3>1 DEF AboutWho, AboutSelf
    <3>3. r.kind # "accept" BY <1>4, <3>1 DEF Answers, Subject, AboutWho
    <3>4. r.kind = "create" => g = r.g /\ ~Exists(g) BY <1>1, <3>1 DEF ChangeOK, RequestOK
    <3> QED BY <1>6, <3>1, <3>2, <3>3, <3>4
  <2>2. \/ <<g, p>> \in c.leave
        \/ \E j \in c.join : j[1] = g /\ j[2] = p
        \/ role'[g][p] = role[g][p]
    BY <1>1 DEF Effect
  <2> QED BY <1>5, <2>1, <2>2
<1>7. ASSUME NEW g, CanAnswer(g, p) PROVE CanAnswer(g, p)'
  <2>1. PICK i \in DOMAIN invites :
          /\ invites[i].status = "pending" /\ invites[i].g = g
          /\ \/ HasPhone(p) /\ invites[i].phone = p
             \/ HasMail(p) /\ invites[i].mail = p
    BY <1>7 DEF CanAnswer, MayAnswer, Matches, Pending
  <2>2. ~(r.kind \in Answers /\ i = r.id)
    <3> SUFFICES ASSUME r.kind \in Answers, i = r.id PROVE FALSE OBVIOUS
    <3>1. r.by \in {invites[i].phone, invites[i].mail} /\ r.by \in Person BY <1>1 DEF RequestOK
    <3>2. None \in {invites[i].phone, invites[i].mail} \/ invites[i].phone = invites[i].mail
      BY <1>t DEF Linked
    <3>3. r.by = p BY <2>1, <3>1, <3>2, PersonIsSome
    <3> QED BY <1>4, <3>3
  <2>3. i \in DOMAIN invites' /\ invites'[i] = invites[i] BY <2>2, CommitInvites DEF r
  <2>4. account[p] \subseteq account'[p] BY <1>1 DEF Keeps
  <2>5. (HasPhone(p) => HasPhone(p)') /\ (HasMail(p) => HasMail(p)') BY <2>4 DEF HasPhone, HasMail
  <2> QED BY <2>1, <2>3, <2>5 DEF CanAnswer, MayAnswer, Matches, Pending
<1> QED BY <1>5, <1>6, <1>7 DEF c

LEMMA DirCommit == ASSUME CirclesOK, DirInv, NEW s \in Slot, Commit(s) PROVE DirInv'
<1> SUFFICES ASSUME NEW x \in Slot, txn'[x].at = "decided",
                    (Group \X {Subject(txn'[x].r)}) \cap met' = {}
             PROVE  DirectoryOK(txn[x].r, txn[x].todo)'
  BY DEF DirInv, Subject
<1>0. Busy(x)' BY DEF Busy
<1>1. /\ x # s /\ Busy(x) /\ txn[x].at = "decided" /\ txn'[x].r = txn[x].r
      /\ txn'[x].todo.invited = txn[x].todo.invited
      /\ txn'[x].todo.leave = txn[x].todo.leave \ txn[s].todo.leave
      /\ met' = met /\ Busy(s) /\ Keeps
  BY <1>0, CommitOthers, CommitIs, CommitKeeps DEF Commit
<1>2. PICK r, c, d : r = txn[x].r /\ c = txn[x].todo /\ d = txn'[x].todo OBVIOUS
<1>3. RequestOK(r) BY <1>1, <1>2, TxnIs
<1>4. DirectoryOK(r, c) BY <1>1, <1>2 DEF DirInv
<1>5. ASSUME r.kind = "setGroups", NEW g \in r.managed
      PROVE  IF g \in r.groups
             THEN \/ Member(g, r.who)' /\ <<g, r.who>> \notin d.leave
                  \/ CanAnswer(g, r.who)'
                  \/ \E i \in d.invited : i.g = g /\ Reaches(i, r.who)'
             ELSE role'[g][r.who] \in {"none", "owner"} \/ <<g, r.who>> \in d.leave
  <2> DEFINE p == r.who
  <2>1. p \in Person /\ g \in Group /\ Exists(g) BY <1>3, <1>5 DEF RequestOK, AboutWho
  <2>2. About(r) = Group \X {p} /\ Subject(r) = p BY <1>5 DEF About, Subject, AboutWho
  <2>3. About(txn[s].r) \cap About(r) \subseteq met
    BY <1>1, <1>2 DEF CirclesOK, Overlaps
  <2>4. \A h \in Group : <<h, p>> \notin About(txn[s].r) BY <1>1, <1>2, <2>2, <2>3
  <2>5. /\ role'[g][p] = role[g][p] /\ <<g, p>> \notin txn[s].todo.leave
        /\ CanAnswer(g, p) => CanAnswer(g, p)'
    BY <2>1, <2>4, AboutOther
  <2>6. d.invited = c.invited /\ (<<g, p>> \in d.leave <=> <<g, p>> \in c.leave)
    BY <1>1, <1>2, <2>5
  <2>7. account[p] \subseteq account'[p] BY <1>1, <2>1 DEF Keeps
  <2>8. \A i : Reaches(i, p) => Reaches(i, p)' BY <2>7 DEF Reaches, HasPhone, HasMail
  <2>9. Member(g, p)' <=> Member(g, p) BY <2>5 DEF Member
  <2>10. IF g \in r.groups
         THEN \/ Member(g, p) /\ <<g, p>> \notin c.leave
              \/ CanAnswer(g, p)
              \/ \E i \in c.invited : i.g = g /\ Reaches(i, p)
         ELSE role[g][p] \in {"none", "owner"} \/ <<g, p>> \in c.leave
    BY <1>4, <1>5 DEF DirectoryOK
  <2> HIDE DEF p
  <2>11. IF g \in r.groups
         THEN \/ Member(g, p)' /\ <<g, p>> \notin d.leave
              \/ CanAnswer(g, p)'
              \/ \E i \in d.invited : i.g = g /\ Reaches(i, p)'
         ELSE role'[g][p] \in {"none", "owner"} \/ <<g, p>> \in d.leave
    BY <2>5, <2>6, <2>8, <2>9, <2>10
  <2> QED BY <2>11 DEF p
<1>6. DirectoryOK(r, d)' BY <1>5 DEF DirectoryOK
<1>7. DirectoryOK(txn[x].r, txn[x].todo)' <=> DirectoryOK(r, d)' BY <1>1, <1>2
<1> QED BY <1>6, <1>7

\* Once a directory write about which nothing else of the contact overlapped
\* is committed, the contact is in each circle that was asked for or has an
\* invite there that it can answer, and is in no other circle of the actor
\* but as its owner.
THEOREM DirectoryCorrect == Spec => DirectoryFollowsRequest
<1> DEFINE Inv == CirclesOK /\ DirInv
<1>1. Init => Inv
  <2>1. Init => DirInv BY DEF Init, DirInv, Idle
  <2> QED BY <2>1, InitCircles
<1>2. Inv /\ [Next]_vars => Inv' BY StepIs, DirQuiet, DirCommit
<1>3. ASSUME Inv, NEW s \in Slot, NEW p \in Person, NEW g \in Group, Commit(s),
             txn[s].r.kind = "setGroups", txn[s].r.who = p, g \in txn[s].r.managed,
             (Group \X {p}) \cap met = {}
      PROVE  IF g \in txn[s].r.groups
             THEN Member(g, p)' \/ CanAnswer(g, p)'
             ELSE role'[g][p] \in {"none", "owner"}
  <2> DEFINE c == txn[s].todo
             r == txn[s].r
  <2>1. Effect(c) /\ ChangeOK(r, c) /\ RequestOK(r) /\ Keeps /\ TablesOK
    BY <1>3, CommitIs, TxnIs, CommitKeeps DEF CirclesOK
  <2>2. txn[s].at = "decided" BY <1>3 DEF Commit
  <2>3. Subject(r) = p BY <1>3 DEF Subject, AboutWho
  <2>4. DirectoryOK(r, c) BY <1>3, <2>2, <2>3 DEF DirInv
  <2>5. IF g \in r.groups
        THEN \/ Member(g, p) /\ <<g, p>> \notin c.leave
             \/ CanAnswer(g, p)
             \/ \E i \in c.invited : i.g = g /\ Reaches(i, p)
        ELSE role[g][p] \in {"none", "owner"} \/ <<g, p>> \in c.leave
    BY <1>3, <2>4 DEF DirectoryOK
  <2>6. \/ <<g, p>> \in c.leave /\ role'[g][p] = "none"
        \/ <<g, p>> \notin c.leave /\ role'[g][p] = role[g][p]
    <3>1. \A j \in c.join : FALSE BY <1>3, <2>1 DEF ChangeOK
    <3> HIDE DEF c, r
    <3>2. \/ <<g, p>> \in c.leave /\ role'[g][p] = "none"
          \/ /\ <<g, p>> \notin c.leave
             /\ (\E j \in c.join : j[1] = g) \/ role'[g][p] = role[g][p]
      BY <2>1 DEF Effect
    <3> QED BY <3>1, <3>2
  <2>7. HasPhone(p) => HasPhone(p)' BY <2>1 DEF Keeps, HasPhone
  <2>8. HasMail(p) => HasMail(p)' BY <2>1 DEF Keeps, HasMail
  <2>9. ASSUME CanAnswer(g, p) PROVE CanAnswer(g, p)'
    <3>1. PICK i \in DOMAIN invites :
            /\ invites[i].status = "pending" /\ invites[i].g = g
            /\ \/ HasPhone(p) /\ invites[i].phone = p
               \/ HasMail(p) /\ invites[i].mail = p
      BY <2>9 DEF CanAnswer, MayAnswer, Matches, Pending
    <3>2. i \in DOMAIN invites' /\ invites'[i] = invites[i]
      BY <1>3, CommitInvites DEF Answers
    <3> QED BY <2>7, <2>8, <3>1, <3>2 DEF CanAnswer, MayAnswer, Matches, Pending
  <2>10. ASSUME NEW i \in c.invited, i.g = g, Reaches(i, p) PROVE CanAnswer(g, p)'
    <3>1. i.status = "pending" BY <2>1 DEF ChangeOK
    <3>2. \E k \in DOMAIN invites' : invites'[k] = i
      <4> HIDE DEF c
      <4> QED BY <2>1 DEF Effect, Grown
    <3>3. PICK k \in DOMAIN invites' : invites'[k] = i BY <3>2
    <3>4. (HasPhone(p) /\ i.phone = p) \/ (HasMail(p) /\ i.mail = p) BY <2>10 DEF Reaches
    <3> HIDE DEF c
    <3> QED BY <2>7, <2>8, <2>10, <3>1, <3>3, <3>4 DEF CanAnswer, MayAnswer, Matches, Pending
  <2>11. Member(g, p)' <=> role'[g][p] # "none" BY DEF Member
  <2> HIDE DEF c
  <2> QED BY <2>5, <2>6, <2>9, <2>10, <2>11 DEF Member
<1>4. Inv /\ [Next]_vars =>
        [\A s \in Slot, p \in Person, g \in Group :
           (/\ Commit(s)
            /\ txn[s].r.kind = "setGroups" /\ txn[s].r.who = p
            /\ g \in txn[s].r.managed /\ (Group \X {p}) \cap met = {}) =>
              IF g \in txn[s].r.groups
              THEN Member(g, p)' \/ CanAnswer(g, p)'
              ELSE role'[g][p] \in {"none", "owner"}]_vars
  BY <1>3
<1> QED BY <1>1, <1>2, <1>4, PTL DEF Spec, DirectoryFollowsRequest
=============================================================================
