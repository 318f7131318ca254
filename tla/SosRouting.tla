------------------------------ MODULE SosRouting ------------------------------
(***************************************************************************)
(* Whom an SOS goes to: the part of AlertService.create that finds the     *)
(* recipients, with RoutingService.build_recipients and the two fallbacks. *)
(* The request reads memberships, emergency types and members one query    *)
(* after the other, each of the latest committed state (READ COMMITTED),   *)
(* while others join and leave circles, configure them, and are suspended. *)
(* While the ranking holds the rows it has loaded, its session does not    *)
(* look at them again: a user's suspension is the one first seen. Once the *)
(* ranking has returned, each of them may be gone from memory or not, and  *)
(* is loaded anew if it is.                                                *)
(***************************************************************************)
EXTENDS Integers, Sequences, FiniteSets

CONSTANTS
  Other,        \* everybody but the creator
  Me,           \* the creator of the alert
  Group,
  Type,         \* canonical emergency types
  AlertType,    \* the one of the alert
  Wanted,       \* the skills relevant to it
  Priority,     \* groups.priority, 1 to 5
  Profile,      \* skills, distance from the creator and availability
  Unknown,      \* a distance nobody knows
  Cap,          \* values of the setting recipient_cap, 0 for none
  MaxChanges    \* bound: changes by others during the request

\* The code names at most a handful of skills for a type; up to 600 the points
\* tell any two counts of them apart.
ASSUME RoutingAssumption ==
  /\ Me \notin Other /\ IsFiniteSet(Group)
  /\ AlertType \in Type
  /\ IsFiniteSet(Wanted) /\ Cardinality(Wanted) <= 600
  /\ Priority \in [Group -> 1..5]
  /\ Unknown \notin Nat
  /\ \A f \in Profile : f.km \in Nat \cup {Unknown} /\ f.ready \in BOOLEAN
  /\ Cap \subseteq Nat /\ MaxChanges \in Nat

VARIABLES
  members,      \* group_members: pairs of circle and person
  types,        \* group_emergency_types
  suspended,    \* users.suspended
  profile,      \* what the ranking looks at
  cap,          \* recipient_cap
  req,          \* the request
  changes,      \* changes made by others so far
  worlds        \* history: what was committed at some time of the request

vars == <<members, types, suspended, profile, cap, req, changes, worlds>>

Person == Other \cup {Me}
World == [members |-> members, types |-> types, suspended |-> suspended]

-----------------------------------------------------------------------------
(* Matching, deduplication and ranking.                                    *)

\* A circle that is not configured is for every emergency.
Covers(configured) == configured = {} \/ AlertType \in configured

\* A chosen circle that does not match is added, with the priority 3.
Rating(g, matching) == IF g \in matching THEN Priority[g] ELSE 3

\* The row a candidate is kept for: of a circle of the best priority, the
\* first in an order the query leaves open.
BestRows(rows, matching) ==
  {r \in rows : \A q \in rows : q[2] = r[2] => Rating(r[1], matching) <= Rating(q[1], matching)}
Candidates(rows, matching) ==
  {C \in SUBSET BestRows(rows, matching) :
     \A p \in {r[2] : r \in rows} : Cardinality({r \in C : r[2] = p}) = 1}

\* In exact arithmetic; 1500 points are the score 1.
SkillPoints(p) ==
  IF Wanted = {} THEN 300
  ELSE (600 * Cardinality(profile[p].skills \cap Wanted)) \div Cardinality(Wanted)
NearPoints(p) ==
  IF profile[p].km = Unknown THEN 135
  ELSE IF profile[p].km >= 50 THEN 0 ELSE 450 - 9 * profile[p].km
ReadyPoints(p) == IF profile[p].ready THEN 225 ELSE 45
Score(row, matching) ==
  SkillPoints(row[2]) + NearPoints(row[2]) + ReadyPoints(row[2])
    + 45 * (6 - Rating(row[1], matching))

\* Mutant of Shortlists: the ranking is cut before it is sorted.
ShortlistsBUG(C, matching) ==
  IF cap = 0 \/ Cardinality(C) <= cap THEN {C}
  ELSE {S \in SUBSET C : Cardinality(S) = cap}
\* What is left of the ranking after the cap; equal scores in any order.
Shortlists(C, matching) ==
  IF cap = 0 \/ Cardinality(C) <= cap THEN {C}
  ELSE {S \in SUBSET C : /\ Cardinality(S) = cap
                         /\ \A r \in S, q \in C \ S : Score(r, matching) >= Score(q, matching)}

-----------------------------------------------------------------------------
(* The request, query by query.                                            *)

Init ==
  /\ members \in SUBSET (Group \X Person)
  /\ types \in [Group -> SUBSET Type]
  /\ suspended \in SUBSET Other
  /\ profile \in [Other -> Profile]
  /\ cap \in Cap
  /\ \E g \in Group :
       req = [at |-> "check", chosen |-> g, mine |-> {}, matching |-> {}, rows |-> {},
              primary |-> {}, loaded |-> {}, barred |-> {}, from |-> "nobody", called |-> {}]
  /\ changes = 0
  /\ worlds = {World}

At(l) == req.at = l
Goto(l) == [req EXCEPT !.at = l]
Reads(r) == req' = r /\ UNCHANGED <<members, types, suspended, profile, cap, changes, worlds>>

Mine == {g \in Group : <<g, Me>> \in members}
RowsOf(gs) == {r \in members : r[1] \in gs}

\* Users are loaded with the rows of their memberships, but for those that the
\* session has kept since it loaded them.
Loading(r, kept, rows) ==
  LET new == {row[2] : row \in rows} \ kept
  IN [r EXCEPT !.loaded = kept \cup new, !.barred = (@ \cap kept) \cup (new \cap suspended)]

\* Mutant of Reachable: the suspended are not left out.
ReachableBUG(rows, barred) == {r \in rows : r[2] # Me}
Reachable(rows, barred) == {r \in rows : r[2] # Me /\ r[2] \notin barred}

CheckMember ==
  /\ At("check")
  /\ Reads(Goto(IF <<req.chosen, Me>> \in members THEN "memberships" ELSE "forbidden"))

ReadMemberships ==
  /\ At("memberships")
  /\ Reads([req EXCEPT !.at = "types", !.mine = Mine])

ReadTypes ==
  /\ At("types")
  /\ LET matching == {g \in req.mine : Covers(types[g])}
     IN Reads([req EXCEPT !.at = IF req.chosen \in matching THEN "members" ELSE "primary",
                          !.matching = matching])

\* The chosen circle does not match: it is loaded for its name.
ReadPrimary ==
  /\ At("primary")
  /\ LET rows == RowsOf({req.chosen})
     IN Reads([Loading(req, req.loaded, rows) EXCEPT !.at = "members", !.primary = rows])

ReadMembers ==
  /\ At("members")
  /\ LET rows == RowsOf(req.matching \cup {req.chosen})
         r == Loading(req, req.loaded, rows)
         found == Reachable(rows, r.barred)
     IN Reads([r EXCEPT !.at = IF found = {} THEN "chosen" ELSE "rank", !.rows = found])

Rank ==
  /\ At("rank")
  /\ \E C \in Candidates(req.rows, req.matching) : \E S \in Shortlists(C, req.matching) :
       Reads([req EXCEPT !.at = "done", !.from = "routing", !.called = S])

\* Nobody was found: everybody in the chosen circle, the suspended too, from
\* the list that was loaded for its name if it was and is still in memory.
FallbackChosen ==
  /\ At("chosen")
  /\ \E rows \in {RowsOf({req.chosen})}
                 \cup (IF req.chosen \in req.matching THEN {} ELSE {req.primary}) :
     LET found == {r \in rows : r[2] # Me}
     IN Reads(IF found = {} THEN Goto("circles")
              ELSE [req EXCEPT !.at = "done", !.from = "chosen", !.called = found])

\* Everybody in every circle of the creator, looked up again.
FallbackMemberships ==
  /\ At("circles")
  /\ Reads([req EXCEPT !.at = IF Mine = {} THEN "refused" ELSE "everybody", !.mine = Mine])

FallbackMembers ==
  /\ At("everybody")
  /\ \E kept \in SUBSET req.loaded :
     LET rows == RowsOf(req.mine)
         r == Loading(req, kept, rows)
         found == Reachable(rows, r.barred)
     IN IF found = {} THEN Reads([r EXCEPT !.at = "refused"])
        ELSE \E C \in SUBSET found :
               /\ \A p \in {row[2] : row \in found} : Cardinality({row \in C : row[2] = p}) = 1
               /\ Reads([r EXCEPT !.at = "done", !.from = "circles", !.called = C])

-----------------------------------------------------------------------------
(* Others, meanwhile.                                                      *)

InProgress == req.at \notin {"forbidden", "refused", "done"}

Changes ==
  /\ InProgress /\ changes < MaxChanges
  /\ changes' = changes + 1
  /\ worlds' = worlds \cup {World'}
  /\ UNCHANGED <<profile, cap, req>>

Join(g, p) ==
  /\ <<g, p>> \notin members
  /\ members' = members \cup {<<g, p>>} /\ UNCHANGED <<types, suspended>>
  /\ Changes
Leave(g, p) ==
  /\ <<g, p>> \in members
  /\ members' = members \ {<<g, p>>} /\ UNCHANGED <<types, suspended>>
  /\ Changes
Configure(g, ts) ==
  /\ types[g] # ts
  /\ types' = [types EXCEPT ![g] = ts] /\ UNCHANGED <<members, suspended>>
  /\ Changes
Suspend(p) ==
  /\ suspended' = (IF p \in suspended THEN suspended \ {p} ELSE suspended \cup {p})
  /\ UNCHANGED <<members, types>>
  /\ Changes

Next ==
  \/ CheckMember \/ ReadMemberships \/ ReadTypes \/ ReadPrimary \/ ReadMembers \/ Rank
  \/ FallbackChosen \/ FallbackMemberships \/ FallbackMembers
  \/ \E g \in Group, p \in Person : Join(g, p) \/ Leave(g, p)
  \/ \E g \in Group, ts \in SUBSET Type : Configure(g, ts)
  \/ \E p \in Other : Suspend(p)

Spec == Init /\ [][Next]_vars

-----------------------------------------------------------------------------
(* Properties.                                                             *)

AlwaysIn(g, p) == \A w \in worlds : <<g, p>> \in w.members
OnceIn(g, p) == \E w \in worlds : <<g, p>> \in w.members
AlwaysFits(g) == AlwaysIn(g, Me) /\ \A w \in worlds : Covers(w.types[g])
OnceFits(g) == OnceIn(g, Me) /\ \E w \in worlds : Covers(w.types[g])

\* The circles that count for the alert throughout the request, the priorities
\* a circle may have had, and who could have been found at any moment.
Counting == {g \in Group : AlwaysFits(g) \/ g = req.chosen}
Standing(g) == (IF OnceFits(g) THEN {Priority[g]} ELSE {}) \cup (IF AlwaysFits(g) THEN {} ELSE {3})
NeverSuspended(p) == \A w \in worlds : p \notin w.suspended
Stable == {p \in Other : NeverSuspended(p) /\ \E g \in Counting : AlwaysIn(g, p)}

\* p is no worse than the recipient r in anything, and better in something.
Outranks(p, r) ==
  LET q == r[2]
      nearer == Unknown \notin {profile[p].km, profile[q].km} /\ profile[p].km < profile[q].km
  IN /\ (profile[q].skills \cap Wanted) \subseteq profile[p].skills
     /\ profile[q].ready => profile[p].ready
     /\ profile[p].km = profile[q].km \/ nearer
     /\ \E g \in Counting : AlwaysIn(g, p) /\ \A x \in Standing(g), y \in Standing(r[1]) : x <= y
     /\ \/ (profile[p].skills \cap Wanted) # (profile[q].skills \cap Wanted)
        \/ profile[p].ready # profile[q].ready
        \/ nearer /\ profile[p].km < 50

\* Whoever is in a circle that counts throughout the request, and not
\* suspended, is called, whatever changes between the queries; the cap leaves
\* somebody out only for others whom he does not outrank. And nobody is sent
\* away ("No reachable contacts") who shared a circle with somebody throughout.
StableContactsAreCalled ==
  /\ (At("done") /\ Stable # {}) =>
       /\ req.from = "routing"
       /\ \A p \in Stable :
            \/ \E r \in req.called : r[2] = p
            \/ cap > 0 /\ Cardinality(req.called) = cap /\ \A r \in req.called : ~Outranks(p, r)
  /\ At("refused") =>
       \A p \in Other, g \in Group :
         AlwaysIn(g, p) => /\ g # req.chosen
                           /\ NeverSuspended(p) => ~AlwaysIn(g, Me)

\* Nobody is called without a circle shared with the creator at some time of
\* the request, one that matched or was chosen unless nobody was in these;
\* nobody twice; and somebody suspended only when no one else could be.
CalledForACause ==
  At("done") =>
    /\ req.called # {}
    /\ \A r \in req.called :
         /\ r[2] \in Other /\ OnceIn(r[1], r[2]) /\ OnceIn(r[1], Me)
         /\ r[1] = req.chosen \/ req.from = "circles" \/ (req.from = "routing" /\ OnceFits(r[1]))
         /\ \A q \in req.called : q[2] = r[2] => q = r
         /\ (\A w \in worlds : r[2] \in w.suspended) => req.from = "chosen" /\ Stable = {}
=============================================================================
