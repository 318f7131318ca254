--------------------------- MODULE SosRoutingProofs ---------------------------
(***************************************************************************)
(* Theorems of SosRouting, for every number of people, circles, types and  *)
(* changes, every profile and every cap.                                   *)
(***************************************************************************)
EXTENDS SosRouting, FiniteSetTheorems, TLAPS

-----------------------------------------------------------------------------
(* What a request knows.                                                   *)

Place == {"check", "memberships", "types", "primary", "members", "rank", "chosen",
          "circles", "everybody", "forbidden", "refused", "done"}
Rows == SUBSET (Group \X Person)

Request ==
  [at : Place, chosen : Group, mine : SUBSET Group, matching : SUBSET Group,
   rows : Rows, primary : Rows, loaded : SUBSET Person, barred : SUBSET Person,
   from : {"nobody", "routing", "chosen", "circles"}, called : Rows]
RequestOK ==
  /\ req \in Request
  /\ members \in Rows /\ types \in [Group -> SUBSET Type] /\ suspended \in SUBSET Other
  /\ profile \in [Other -> Profile] /\ cap \in Nat
  /\ World \in worlds

\* What was read was true at some time of the request.
ReadOnce ==
  /\ req.at \notin {"check", "forbidden"} => OnceIn(req.chosen, Me)
  /\ \A g \in req.mine : OnceIn(g, Me)
  /\ \A g \in req.matching : OnceFits(g)
  /\ \A r \in req.primary : r[1] = req.chosen /\ OnceIn(r[1], r[2])
  /\ \A p \in req.barred : ~NeverSuspended(p)
  /\ \A p \in req.loaded \ req.barred : \E w \in worlds : p \notin w.suspended

\* What was true throughout the request was read.
Matched == {"primary", "members", "rank", "chosen", "circles", "everybody"}
ReadAlways ==
  /\ req.at \in {"types", "everybody"} => \A g \in Group : AlwaysIn(g, Me) => g \in req.mine
  /\ req.at \in Matched => \A g \in Group : AlwaysFits(g) => g \in req.matching
  /\ req.at \in Matched \ {"primary"} /\ req.chosen \notin req.matching =>
       \A p \in Person : AlwaysIn(req.chosen, p) => <<req.chosen, p>> \in req.primary

\* The rows to be ranked: of those who could be found, all who always could.
Found(r) ==
  /\ r[2] \in Other /\ OnceIn(r[1], r[2])
  /\ \E w \in worlds : r[2] \notin w.suspended
RowsOK ==
  req.at = "rank" =>
    /\ req.rows # {}
    /\ \A r \in req.rows : Found(r) /\ r[1] \in req.matching \cup {req.chosen}
    /\ \A p \in Stable, g \in Counting : AlwaysIn(g, p) => <<g, p>> \in req.rows

\* Nobody stable is left when it comes to the fallbacks.
FallbackOK ==
  /\ req.at \in {"chosen", "circles", "everybody", "refused"} => Stable = {}
  /\ req.at \in {"circles", "everybody"} => \A p \in Other : ~AlwaysIn(req.chosen, p)

RoutingInv ==
  /\ RequestOK /\ ReadOnce /\ ReadAlways /\ RowsOK /\ FallbackOK
  /\ StableContactsAreCalled /\ CalledForACause

-----------------------------------------------------------------------------
(* The history of a request.                                               *)

LEMMA NowIs ==
  ASSUME World \in worlds
  PROVE  /\ \A g, p : AlwaysIn(g, p) => <<g, p>> \in members
         /\ \A g, p : <<g, p>> \in members => OnceIn(g, p)
         /\ \A p : NeverSuspended(p) => p \notin suspended
         /\ \A p : p \notin suspended => \E w \in worlds : p \notin w.suspended
         /\ \A g \in Group : AlwaysFits(g) => g \in Mine /\ Covers(types[g])
         /\ \A g : OnceIn(g, Me) /\ Covers(types[g]) => OnceFits(g)
<1>1. World.members = members /\ World.types = types /\ World.suspended = suspended
  BY DEF World
<1> QED BY <1>1 DEF AlwaysIn, OnceIn, NeverSuspended, AlwaysFits, OnceFits, Mine

\* Steps of the request see the history as it is.
LEMMA SameHistory ==
  ASSUME UNCHANGED worlds
  PROVE  /\ \A g, p : AlwaysIn(g, p)' <=> AlwaysIn(g, p)
         /\ \A g, p : OnceIn(g, p)' <=> OnceIn(g, p)
         /\ \A g : AlwaysFits(g)' <=> AlwaysFits(g)
         /\ \A g : OnceFits(g)' <=> OnceFits(g)
         /\ \A p : NeverSuspended(p)' <=> NeverSuspended(p)
         /\ req'.chosen = req.chosen => Counting' = Counting /\ Stable' = Stable
<1>1. /\ \A g, p : AlwaysIn(g, p)' <=> AlwaysIn(g, p)
      /\ \A g, p : OnceIn(g, p)' <=> OnceIn(g, p)
      /\ \A p : NeverSuspended(p)' <=> NeverSuspended(p)
  BY DEF AlwaysIn, OnceIn, NeverSuspended
<1>2. /\ \A g : AlwaysFits(g)' <=> AlwaysFits(g)
      /\ \A g : OnceFits(g)' <=> OnceFits(g)
  BY DEF AlwaysFits, OnceFits, AlwaysIn, OnceIn
<1>3. ASSUME req'.chosen = req.chosen PROVE Counting' = Counting
  BY <1>2, <1>3 DEF Counting
<1>4. ASSUME req'.chosen = req.chosen PROVE Stable' = Stable
  BY <1>1, <1>3, <1>4 DEF Stable
<1> QED BY <1>1, <1>2, <1>3, <1>4

\* Changes by others only add to it.
LEMMA LongerHistory ==
  ASSUME worlds \subseteq worlds', UNCHANGED req
  PROVE  /\ \A g, p : AlwaysIn(g, p)' => AlwaysIn(g, p)
         /\ \A g, p : OnceIn(g, p) => OnceIn(g, p)'
         /\ \A g : AlwaysFits(g)' => AlwaysFits(g)
         /\ \A g : OnceFits(g) => OnceFits(g)'
         /\ \A p : NeverSuspended(p)' => NeverSuspended(p)
         /\ Counting' \subseteq Counting /\ Stable' \subseteq Stable
<1>1. /\ \A g, p : AlwaysIn(g, p)' => AlwaysIn(g, p)
      /\ \A g, p : OnceIn(g, p) => OnceIn(g, p)'
      /\ \A p : NeverSuspended(p)' => NeverSuspended(p)
  BY DEF AlwaysIn, OnceIn, NeverSuspended
<1>2. /\ \A g : AlwaysFits(g)' => AlwaysFits(g)
      /\ \A g : OnceFits(g) => OnceFits(g)'
  BY DEF AlwaysFits, OnceFits, AlwaysIn, OnceIn
<1>3. Counting' \subseteq Counting BY <1>2 DEF Counting
<1>4. Stable' \subseteq Stable BY <1>1, <1>3 DEF Stable
<1> QED BY <1>1, <1>2, <1>3, <1>4

\* Users are looked at when their rows are loaded, and not again while they are
\* kept.
LEMMA LoadingIs ==
  ASSUME RequestOK, ReadOnce, NEW rows \in Rows, NEW kept \in SUBSET req.loaded,
         NEW r, r = Loading(req, kept, rows)
  PROVE  /\ r = [req EXCEPT !.loaded = r.loaded, !.barred = r.barred]
         /\ r.loaded \in SUBSET Person /\ r.barred \in SUBSET Person
         /\ \A row \in rows : row[2] \in r.loaded
         /\ \A p \in r.barred : ~NeverSuspended(p)
         /\ \A p \in r.loaded \ r.barred : \E w \in worlds : p \notin w.suspended
<1> DEFINE new == {row[2] : row \in rows} \ kept
           loaded == kept \cup new
           barred == (req.barred \cap kept) \cup (new \cap suspended)
<1>1. req.loaded \in SUBSET Person /\ req.barred \in SUBSET Person BY DEF RequestOK, Request
<1>2. r = [req EXCEPT !.loaded = loaded, !.barred = barred] BY DEF Loading, RequestOK, Request
<1>3. new \in SUBSET Person
  <2>1. \A row \in rows : row[2] \in Person BY DEF Rows
  <2> QED BY <2>1
<1>4. \A row \in rows : row[2] \in loaded OBVIOUS
<1>5. World \in worlds BY DEF RequestOK
<1>6. \A p \in new \cap suspended : ~NeverSuspended(p) BY <1>5, NowIs
<1>7. \A p \in new \ suspended : \E w \in worlds : p \notin w.suspended BY <1>5, NowIs
<1>8. \A p \in barred : ~NeverSuspended(p) BY <1>6 DEF ReadOnce
<1>9. \A p \in loaded \ barred : \E w \in worlds : p \notin w.suspended
  BY <1>7 DEF ReadOnce
<1> HIDE DEF loaded, barred, new
<1>10. r.loaded = loaded /\ r.barred = barred BY <1>2 DEF RequestOK, Request
<1>11. loaded \in SUBSET Person /\ barred \in SUBSET Person BY <1>1, <1>3 DEF loaded, barred
<1> QED BY <1>2, <1>4, <1>8, <1>9, <1>10, <1>11

-----------------------------------------------------------------------------
(* The others, and the first queries.                                      *)

LEMMA ChangesKeep ==
  ASSUME RoutingInv, Changes,
         members' \in Rows, types' \in [Group -> SUBSET Type], suspended' \in SUBSET Other
  PROVE  RoutingInv'
<1>1. /\ req' = req /\ profile' = profile /\ cap' = cap
      /\ worlds' = worlds \cup {World'} /\ req.at \notin {"forbidden", "refused", "done"}
  BY DEF Changes, InProgress
<1>2. RequestOK' BY <1>1 DEF RoutingInv, RequestOK
<1>3. /\ \A g, p : AlwaysIn(g, p)' => AlwaysIn(g, p)
      /\ \A g, p : OnceIn(g, p) => OnceIn(g, p)'
      /\ \A g : AlwaysFits(g)' => AlwaysFits(g)
      /\ \A g : OnceFits(g) => OnceFits(g)'
      /\ \A p : NeverSuspended(p)' => NeverSuspended(p)
      /\ Counting' \subseteq Counting /\ Stable' \subseteq Stable
  BY <1>1, LongerHistory
<1>4. \A p : (\E w \in worlds : p \notin w.suspended) => \E w \in worlds' : p \notin w.suspended
  BY <1>1
<1>5. ReadOnce' BY <1>1, <1>3, <1>4 DEF RoutingInv, ReadOnce
<1>6. ReadAlways' BY <1>1, <1>3 DEF RoutingInv, ReadAlways
<1>7. \A r : Found(r) => Found(r)' BY <1>3, <1>4 DEF Found
<1>8. RowsOK'
  <2> SUFFICES ASSUME req.at = "rank"
               PROVE  /\ req.rows # {}
                      /\ \A r \in req.rows : Found(r)' /\ r[1] \in req.matching \cup {req.chosen}
                      /\ \A p \in Stable', g \in Counting' : AlwaysIn(g, p)' => <<g, p>> \in req.rows
    BY <1>1 DEF RowsOK
  <2> QED BY <1>3, <1>7 DEF RoutingInv, RowsOK
<1>9. FallbackOK' BY <1>1, <1>3 DEF RoutingInv, FallbackOK
<1>10. StableContactsAreCalled' /\ CalledForACause'
  BY <1>1 DEF StableContactsAreCalled, CalledForACause, At
<1> QED BY <1>2, <1>5, <1>6, <1>8, <1>9, <1>10 DEF RoutingInv

LEMMA OthersKeep ==
  ASSUME RoutingInv,
         \/ \E g \in Group, p \in Person : Join(g, p) \/ Leave(g, p)
         \/ \E g \in Group, ts \in SUBSET Type : Configure(g, ts)
         \/ \E p \in Other : Suspend(p)
  PROVE  RoutingInv'
<1>1. /\ members \in Rows /\ types \in [Group -> SUBSET Type] /\ suspended \in SUBSET Other
  BY DEF RoutingInv, RequestOK
<1>2. ASSUME NEW g \in Group, NEW p \in Person, Join(g, p) \/ Leave(g, p) PROVE RoutingInv'
  <2>1. members' \in Rows /\ UNCHANGED <<types, suspended>> /\ Changes
    BY <1>1, <1>2 DEF Join, Leave, Rows
  <2> QED BY <1>1, <2>1, ChangesKeep
<1>3. ASSUME NEW g \in Group, NEW ts \in SUBSET Type, Configure(g, ts) PROVE RoutingInv'
  <2>1. types' \in [Group -> SUBSET Type] /\ UNCHANGED <<members, suspended>> /\ Changes
    BY <1>1, <1>3 DEF Configure
  <2> QED BY <1>1, <2>1, ChangesKeep
<1>4. ASSUME NEW p \in Other, Suspend(p) PROVE RoutingInv'
  <2>1. suspended' \in SUBSET Other /\ UNCHANGED <<members, types>> /\ Changes
    BY <1>1, <1>4 DEF Suspend
  <2> QED BY <1>1, <2>1, ChangesKeep
<1> QED BY <1>2, <1>3, <1>4

\* What a query leaves to show.
LEMMA QueryStep ==
  ASSUME RoutingInv, NEW r \in Request, Reads(r), r.chosen = req.chosen
  PROVE  /\ req' = r /\ RequestOK'
         /\ \A g, p : AlwaysIn(g, p)' <=> AlwaysIn(g, p)
         /\ \A g, p : OnceIn(g, p)' <=> OnceIn(g, p)
         /\ \A g : AlwaysFits(g)' <=> AlwaysFits(g)
         /\ \A g : OnceFits(g)' <=> OnceFits(g)
         /\ \A p : NeverSuspended(p)' <=> NeverSuspended(p)
         /\ Counting' = Counting /\ Stable' = Stable
         /\ UNCHANGED worlds
<1>1. req' = r /\ UNCHANGED <<members, types, suspended, profile, cap, worlds>> BY DEF Reads
<1>2. World' = World BY <1>1 DEF World
<1>3. RequestOK' BY <1>1, <1>2 DEF RoutingInv, RequestOK
<1> QED BY <1>1, <1>3, SameHistory

\* A row found by now; and where to look for one.
LEMMA FindingIs ==
  ASSUME RoutingInv, NEW gs \in SUBSET Group, NEW kept \in SUBSET req.loaded,
         NEW r, r = Loading(req, kept, RowsOf(gs))
  PROVE  /\ RowsOf(gs) \in Rows
         /\ \A row \in Reachable(RowsOf(gs), r.barred) : Found(row) /\ row[1] \in gs
         /\ \A g \in gs, p \in Other :
              AlwaysIn(g, p) /\ NeverSuspended(p) => <<g, p>> \in Reachable(RowsOf(gs), r.barred)
<1> DEFINE rows == RowsOf(gs)
<1>1. rows \in Rows /\ World \in worlds /\ RequestOK /\ ReadOnce
  BY DEF RowsOf, RoutingInv, RequestOK, Rows
<1>2. /\ \A row \in rows : row[2] \in r.loaded
      /\ \A p \in r.barred : ~NeverSuspended(p)
      /\ \A p \in r.loaded \ r.barred : \E w \in worlds : p \notin w.suspended
  BY <1>1, LoadingIs
<1>3. ASSUME NEW row \in Reachable(rows, r.barred) PROVE Found(row) /\ row[1] \in gs
  <2>0. row \in rows /\ row[2] # Me /\ row[2] \notin r.barred BY DEF Reachable
  <2>1. row \in members /\ row[1] \in gs /\ row[2] # Me BY <2>0 DEF RowsOf
  <2>2. row \in Group \X Person BY <2>1 DEF RoutingInv, RequestOK, Rows
  <2>3. row = <<row[1], row[2]>> /\ row[2] \in Other BY <2>1, <2>2 DEF Person
  <2>4. OnceIn(row[1], row[2]) BY <1>1, <2>1, <2>3, NowIs
  <2>5. \E w \in worlds : row[2] \notin w.suspended BY <1>2, <2>0
  <2> QED BY <2>1, <2>3, <2>4, <2>5 DEF Found
<1>4. ASSUME NEW g \in gs, NEW p \in Other, AlwaysIn(g, p), NeverSuspended(p)
      PROVE  <<g, p>> \in Reachable(rows, r.barred)
  <2>1. <<g, p>> \in members BY <1>1, <1>4, NowIs
  <2>2. p # Me /\ p \notin r.barred BY <1>2, <1>4, RoutingAssumption
  <2> QED BY <2>1, <2>2 DEF Reachable, RowsOf
<1> QED BY <1>1, <1>3, <1>4


-----------------------------------------------------------------------------
(* The queries, one by one.                                                *)

LEMMA CheckMemberKeeps ==
  ASSUME RoutingInv, CheckMember
  PROVE  RoutingInv'
<1>1. req \in Request /\ req.at = "check" BY DEF RoutingInv, RequestOK, CheckMember, At
<1>2. PICK l \in {"memberships", "forbidden"} :
        /\ Reads([req EXCEPT !.at = l])
        /\ l = "memberships" => <<req.chosen, Me>> \in members
  BY DEF CheckMember, Goto
<1> DEFINE r == [req EXCEPT !.at = l]
<1>3. r \in Request /\ r.chosen = req.chosen BY <1>1 DEF Request, Place
<1>4. /\ req' = r /\ RequestOK' /\ UNCHANGED worlds
      /\ \A g, p : OnceIn(g, p)' <=> OnceIn(g, p)
      /\ \A g : OnceFits(g)' <=> OnceFits(g)
      /\ \A p : NeverSuspended(p)' <=> NeverSuspended(p)
  BY <1>2, <1>3, QueryStep
<1>5. /\ req'.at = l /\ req'.chosen = req.chosen /\ req'.mine = req.mine
      /\ req'.matching = req.matching /\ req'.primary = req.primary
      /\ req'.loaded = req.loaded /\ req'.barred = req.barred
  BY <1>1, <1>4 DEF Request
<1>6. l = "memberships" => OnceIn(req.chosen, Me)
  BY <1>2, NowIs DEF RoutingInv, RequestOK
<1>7. ReadOnce' BY <1>4, <1>5, <1>6 DEF RoutingInv, ReadOnce
<1>8. ReadAlways' /\ RowsOK' /\ FallbackOK' BY <1>5 DEF ReadAlways, Matched, RowsOK, FallbackOK
<1>9. StableContactsAreCalled' /\ CalledForACause'
  BY <1>5 DEF StableContactsAreCalled, CalledForACause, At
<1> QED BY <1>4, <1>7, <1>8, <1>9 DEF RoutingInv

LEMMA ReadMembershipsKeeps ==
  ASSUME RoutingInv, ReadMemberships
  PROVE  RoutingInv'
<1>1. req \in Request /\ req.at = "memberships" /\ World \in worlds
  BY DEF RoutingInv, RequestOK, ReadMemberships, At
<1> DEFINE r == [req EXCEPT !.at = "types", !.mine = Mine]
<1>2. Mine \in SUBSET Group BY DEF Mine
<1>3. r \in Request /\ r.chosen = req.chosen BY <1>1, <1>2 DEF Request, Place
<1>4. /\ req' = r /\ RequestOK' /\ UNCHANGED worlds
      /\ \A g, p : AlwaysIn(g, p)' <=> AlwaysIn(g, p)
      /\ \A g, p : OnceIn(g, p)' <=> OnceIn(g, p)
      /\ \A g : OnceFits(g)' <=> OnceFits(g)
      /\ \A p : NeverSuspended(p)' <=> NeverSuspended(p)
  BY <1>3, QueryStep DEF ReadMemberships
<1>5. /\ req'.at = "types" /\ req'.chosen = req.chosen /\ req'.mine = Mine
      /\ req'.matching = req.matching /\ req'.primary = req.primary
      /\ req'.loaded = req.loaded /\ req'.barred = req.barred
  BY <1>1, <1>4 DEF Request
<1>6. /\ \A g \in Mine : OnceIn(g, Me)
      /\ \A g \in Group : AlwaysIn(g, Me) => g \in Mine
  BY <1>1, NowIs DEF Mine
<1>7. ReadOnce' BY <1>1, <1>4, <1>5, <1>6 DEF RoutingInv, ReadOnce
<1>8. ReadAlways' BY <1>4, <1>5, <1>6 DEF ReadAlways, Matched
<1>9. RowsOK' /\ FallbackOK' BY <1>5 DEF RowsOK, FallbackOK
<1>10. StableContactsAreCalled' /\ CalledForACause'
  BY <1>5 DEF StableContactsAreCalled, CalledForACause, At
<1> QED BY <1>4, <1>7, <1>8, <1>9, <1>10 DEF RoutingInv

LEMMA ReadTypesKeeps ==
  ASSUME RoutingInv, ReadTypes
  PROVE  RoutingInv'
<1>1. req \in Request /\ req.at = "types" /\ World \in worlds
  BY DEF RoutingInv, RequestOK, ReadTypes, At
<1>2. PICK matching : matching = {g \in req.mine : Covers(types[g])} OBVIOUS
<1>3. PICK l : l = (IF req.chosen \in matching THEN "members" ELSE "primary") OBVIOUS
<1> DEFINE r == [req EXCEPT !.at = l, !.matching = matching]
<1>4. matching \in SUBSET Group /\ l \in Place BY <1>1, <1>2, <1>3 DEF Request, Place
<1>5. r \in Request /\ r.chosen = req.chosen BY <1>1, <1>4 DEF Request
<1>6. Reads(r) BY <1>2, <1>3 DEF ReadTypes
<1>7. /\ req' = r /\ RequestOK' /\ UNCHANGED worlds
      /\ \A g, p : AlwaysIn(g, p)' <=> AlwaysIn(g, p)
      /\ \A g, p : OnceIn(g, p)' <=> OnceIn(g, p)
      /\ \A g : AlwaysFits(g)' <=> AlwaysFits(g)
      /\ \A g : OnceFits(g)' <=> OnceFits(g)
      /\ \A p : NeverSuspended(p)' <=> NeverSuspended(p)
  BY <1>5, <1>6, QueryStep
<1>8. /\ req'.at = l /\ req'.chosen = req.chosen /\ req'.mine = req.mine
      /\ req'.matching = matching /\ req'.primary = req.primary
      /\ req'.loaded = req.loaded /\ req'.barred = req.barred
  BY <1>1, <1>7 DEF Request
<1>9. \A g \in matching : OnceFits(g)
  <2>1. \A g \in matching : OnceIn(g, Me) /\ Covers(types[g])
    BY <1>2 DEF RoutingInv, ReadOnce
  <2> QED BY <2>1, <1>1, NowIs
<1>10. \A g \in Group : AlwaysFits(g) => g \in matching
  <2>1. \A g \in Group : AlwaysFits(g) => g \in req.mine
    BY <1>1 DEF RoutingInv, ReadAlways, AlwaysFits
  <2> QED BY <2>1, <1>1, <1>2, NowIs
<1>11. ReadOnce' BY <1>1, <1>7, <1>8, <1>9 DEF RoutingInv, ReadOnce
<1>12. ReadAlways' BY <1>3, <1>7, <1>8, <1>10 DEF ReadAlways, Matched
<1>13. RowsOK' /\ FallbackOK' BY <1>3, <1>8 DEF RowsOK, FallbackOK
<1>14. StableContactsAreCalled' /\ CalledForACause'
  BY <1>3, <1>8 DEF StableContactsAreCalled, CalledForACause, At
<1> QED BY <1>7, <1>11, <1>12, <1>13, <1>14 DEF RoutingInv

LEMMA ReadPrimaryKeeps ==
  ASSUME RoutingInv, ReadPrimary
  PROVE  RoutingInv'
<1>1. req \in Request /\ req.at = "primary" /\ World \in worlds /\ RequestOK /\ ReadOnce
  BY DEF RoutingInv, RequestOK, ReadPrimary, At
<1>2. PICK rows : rows = RowsOf({req.chosen}) OBVIOUS
<1>3. rows \in Rows BY <1>1, <1>2 DEF RowsOf, RequestOK, Rows
<1>4. PICK v : v = Loading(req, req.loaded, rows) OBVIOUS
<1>5. /\ v = [req EXCEPT !.loaded = v.loaded, !.barred = v.barred]
      /\ v.loaded \in SUBSET Person /\ v.barred \in SUBSET Person
      /\ \A p \in v.barred : ~NeverSuspended(p)
      /\ \A p \in v.loaded \ v.barred : \E w \in worlds : p \notin w.suspended
  BY <1>1, <1>3, <1>4, LoadingIs
<1> DEFINE r == [v EXCEPT !.at = "members", !.primary = rows]
<1>6. v \in Request BY <1>1, <1>5 DEF Request
<1>7. r \in Request BY <1>3, <1>6 DEF Request, Place
<1>8. r.chosen = req.chosen /\ r.mine = req.mine /\ r.matching = req.matching
  BY <1>1, <1>5 DEF Request
<1>9. r.at = "members" /\ r.primary = rows /\ r.loaded = v.loaded /\ r.barred = v.barred
  BY <1>6 DEF Request
<1>10. Reads(r) BY <1>2, <1>4 DEF ReadPrimary
<1>11. /\ req' = r /\ RequestOK' /\ UNCHANGED worlds
       /\ \A g, p : AlwaysIn(g, p)' <=> AlwaysIn(g, p)
       /\ \A g, p : OnceIn(g, p)' <=> OnceIn(g, p)
       /\ \A g : AlwaysFits(g)' <=> AlwaysFits(g)
       /\ \A g : OnceFits(g)' <=> OnceFits(g)
       /\ \A p : NeverSuspended(p)' <=> NeverSuspended(p)
  BY <1>7, <1>8, <1>10, QueryStep
<1>12. /\ \A row \in rows : row[1] = req.chosen /\ OnceIn(row[1], row[2])
       /\ \A p \in Person : AlwaysIn(req.chosen, p) => <<req.chosen, p>> \in rows
  <2>1. \A row \in rows : row[1] = req.chosen /\ row \in members /\ row = <<row[1], row[2]>>
    BY <1>2, <1>3 DEF RowsOf, Rows
  <2>2. \A row \in rows : OnceIn(row[1], row[2]) BY <2>1, <1>1, NowIs
  <2>3. \A p \in Person : AlwaysIn(req.chosen, p) => <<req.chosen, p>> \in members
    BY <1>1, NowIs
  <2> QED BY <1>2, <2>1, <2>2, <2>3 DEF RowsOf
<1>13. ReadOnce' BY <1>1, <1>5, <1>8, <1>9, <1>11, <1>12 DEF ReadOnce
<1>14. \A g \in Group : AlwaysFits(g) => g \in req.matching
  BY <1>1 DEF RoutingInv, ReadAlways, Matched
<1>15. ReadAlways' BY <1>8, <1>9, <1>11, <1>12, <1>14 DEF ReadAlways, Matched
<1>16. RowsOK' /\ FallbackOK' BY <1>9, <1>11 DEF RowsOK, FallbackOK
<1>17. StableContactsAreCalled' /\ CalledForACause'
  BY <1>9, <1>11 DEF StableContactsAreCalled, CalledForACause, At
<1> QED BY <1>11, <1>13, <1>15, <1>16, <1>17 DEF RoutingInv


LEMMA ReadMembersKeeps ==
  ASSUME RoutingInv, ReadMembers
  PROVE  RoutingInv'
<1>1. req \in Request /\ req.at = "members" /\ World \in worlds /\ RequestOK /\ ReadOnce
  BY DEF RoutingInv, RequestOK, ReadMembers, At
<1>2. PICK gs : gs = req.matching \cup {req.chosen} OBVIOUS
<1>3. gs \in SUBSET Group BY <1>1, <1>2 DEF Request
<1>4. PICK v : v = Loading(req, req.loaded, RowsOf(gs)) OBVIOUS
<1>5. PICK found : found = Reachable(RowsOf(gs), v.barred) OBVIOUS
<1>6. /\ RowsOf(gs) \in Rows
      /\ \A row \in found : Found(row) /\ row[1] \in gs
      /\ \A g \in gs, p \in Other : AlwaysIn(g, p) /\ NeverSuspended(p) => <<g, p>> \in found
  BY <1>3, <1>4, <1>5, FindingIs
<1>7. /\ v = [req EXCEPT !.loaded = v.loaded, !.barred = v.barred]
      /\ v.loaded \in SUBSET Person /\ v.barred \in SUBSET Person
      /\ \A p \in v.barred : ~NeverSuspended(p)
      /\ \A p \in v.loaded \ v.barred : \E w \in worlds : p \notin w.suspended
  BY <1>1, <1>4, <1>6, LoadingIs
<1>8. PICK l : l = (IF found = {} THEN "chosen" ELSE "rank") OBVIOUS
<1> DEFINE r == [v EXCEPT !.at = l, !.rows = found]
<1>9. found \in Rows BY <1>5, <1>6 DEF Reachable, Rows
<1>10. v \in Request BY <1>1, <1>7 DEF Request
<1>11. r \in Request BY <1>8, <1>9, <1>10 DEF Request, Place
<1>12. r.chosen = req.chosen /\ r.mine = req.mine /\ r.matching = req.matching
       /\ r.primary = req.primary
  BY <1>1, <1>7 DEF Request
<1>13. r.at = l /\ r.rows = found /\ r.loaded = v.loaded /\ r.barred = v.barred
  BY <1>10 DEF Request
<1>14. Reads(r) BY <1>2, <1>4, <1>5, <1>8 DEF ReadMembers
<1>15. /\ req' = r /\ RequestOK' /\ UNCHANGED worlds
       /\ \A g, p : AlwaysIn(g, p)' <=> AlwaysIn(g, p)
       /\ \A g, p : OnceIn(g, p)' <=> OnceIn(g, p)
       /\ \A g : AlwaysFits(g)' <=> AlwaysFits(g)
       /\ \A g : OnceFits(g)' <=> OnceFits(g)
       /\ \A p : NeverSuspended(p)' <=> NeverSuspended(p)
       /\ Counting' = Counting /\ Stable' = Stable
  BY <1>11, <1>12, <1>14, QueryStep
<1>16. ReadOnce' BY <1>1, <1>7, <1>12, <1>13, <1>15 DEF ReadOnce
<1>17. /\ \A g \in Group : AlwaysFits(g) => g \in req.matching
       /\ req.chosen \notin req.matching =>
            \A p \in Person : AlwaysIn(req.chosen, p) => <<req.chosen, p>> \in req.primary
  BY <1>1 DEF RoutingInv, ReadAlways, Matched
<1>18. ReadAlways' BY <1>8, <1>12, <1>13, <1>15, <1>17 DEF ReadAlways, Matched
<1>19. \A p \in Stable, g \in Counting : AlwaysIn(g, p) => <<g, p>> \in found
  <2>1. Counting \subseteq gs BY <1>2, <1>17 DEF Counting
  <2> QED BY <1>6, <2>1 DEF Stable
<1>20. RowsOK'
  <2>1. \A row : Found(row)' <=> Found(row) BY <1>15 DEF Found
  <2> QED BY <1>2, <1>6, <1>8, <1>12, <1>13, <1>15, <1>19, <2>1 DEF RowsOK
<1>21. FallbackOK'
  <2>1. found = {} => Stable = {} BY <1>19 DEF Stable
  <2> QED BY <1>8, <1>13, <1>15, <2>1 DEF FallbackOK
<1>22. StableContactsAreCalled' /\ CalledForACause'
  BY <1>8, <1>13, <1>15 DEF StableContactsAreCalled, CalledForACause, At
<1> QED BY <1>15, <1>16, <1>18, <1>20, <1>21, <1>22 DEF RoutingInv

\* Nobody outside the chosen circle is called by the first fallback, and all in it are.
LEMMA FallbackChosenKeeps ==
  ASSUME RoutingInv, FallbackChosen
  PROVE  RoutingInv'
<1>1. req \in Request /\ req.at = "chosen" /\ World \in worlds /\ RequestOK /\ ReadOnce
  BY DEF RoutingInv, RequestOK, FallbackChosen, At
<1>2. PICK rows : /\ \/ rows = RowsOf({req.chosen})
                     \/ req.chosen \notin req.matching /\ rows = req.primary
                  /\ LET found == {r \in rows : r[2] # Me}
                     IN Reads(IF found = {} THEN Goto("circles")
                              ELSE [req EXCEPT !.at = "done", !.from = "chosen", !.called = found])
  BY DEF FallbackChosen
<1>3. PICK found : found = {row \in rows : row[2] # Me} OBVIOUS
<1>4. /\ rows \in Rows
      /\ \A row \in rows : row[1] = req.chosen /\ OnceIn(row[1], row[2])
      /\ \A p \in Person : AlwaysIn(req.chosen, p) => <<req.chosen, p>> \in rows
  <2>1. CASE rows = RowsOf({req.chosen})
    <3>1. rows = RowsOf({req.chosen}) BY <2>1
    <3>2. rows \in Rows BY <1>1, <3>1 DEF RowsOf, RequestOK, Rows
    <3>3. \A row \in rows : row[1] = req.chosen /\ row \in members /\ row = <<row[1], row[2]>>
      BY <3>1, <3>2 DEF RowsOf, Rows
    <3>4. \A row \in rows : OnceIn(row[1], row[2]) BY <3>3, <1>1, NowIs
    <3>5. \A p \in Person : AlwaysIn(req.chosen, p) => <<req.chosen, p>> \in members
      BY <1>1, NowIs
    <3> QED BY <3>1, <3>2, <3>3, <3>4, <3>5 DEF RowsOf
  <2>2. CASE req.chosen \notin req.matching /\ rows = req.primary
    <3>1. rows = req.primary BY <2>2
    <3>2. rows \in Rows BY <1>1, <3>1 DEF Request
    <3>3. \A row \in rows : row[1] = req.chosen /\ OnceIn(row[1], row[2])
      BY <1>1, <3>1 DEF ReadOnce
    <3>4. \A p \in Person : AlwaysIn(req.chosen, p) => <<req.chosen, p>> \in rows
      BY <1>1, <2>2, <3>1 DEF RoutingInv, ReadAlways, Matched
    <3> QED BY <3>2, <3>3, <3>4
  <2> QED BY <1>2, <2>1, <2>2
<1>5. /\ \A g \in Group : AlwaysFits(g) => g \in req.matching
      /\ req.chosen \notin req.matching =>
           \A p \in Person : AlwaysIn(req.chosen, p) => <<req.chosen, p>> \in req.primary
  BY <1>1 DEF RoutingInv, ReadAlways, Matched
<1>6. Stable = {} BY <1>1 DEF RoutingInv, FallbackOK
<1>7. found \in Rows BY <1>3, <1>4 DEF Rows
<1>8. CASE found = {}
  <2> DEFINE r == [req EXCEPT !.at = "circles"]
  <2>1. r \in Request /\ r.chosen = req.chosen BY <1>1 DEF Request, Place
  <2>2. Reads(r) BY <1>2, <1>3, <1>8 DEF Goto
  <2>3. /\ req' = r /\ RequestOK' /\ UNCHANGED worlds
        /\ \A g, p : AlwaysIn(g, p)' <=> AlwaysIn(g, p)
        /\ \A g, p : OnceIn(g, p)' <=> OnceIn(g, p)
        /\ \A g : AlwaysFits(g)' <=> AlwaysFits(g)
        /\ \A g : OnceFits(g)' <=> OnceFits(g)
        /\ \A p : NeverSuspended(p)' <=> NeverSuspended(p)
        /\ Stable' = Stable
    BY <2>1, <2>2, QueryStep
  <2>4. /\ req'.at = "circles" /\ req'.chosen = req.chosen /\ req'.mine = req.mine
        /\ req'.matching = req.matching /\ req'.primary = req.primary
        /\ req'.loaded = req.loaded /\ req'.barred = req.barred
    BY <1>1, <2>3 DEF Request
  <2>5. ReadOnce' BY <1>1, <2>3, <2>4 DEF ReadOnce
  <2>6. ReadAlways' BY <1>5, <2>3, <2>4 DEF ReadAlways, Matched
  <2>7. ASSUME NEW p \in Other, AlwaysIn(req.chosen, p) PROVE FALSE
    <3>1. <<req.chosen, p>> \in rows BY <1>4, <2>7 DEF Person
    <3>2. <<req.chosen, p>>[2] # Me BY RoutingAssumption
    <3> QED BY <1>3, <1>8, <3>1, <3>2
  <2>8. RowsOK' /\ FallbackOK' BY <1>6, <2>3, <2>4, <2>7 DEF RowsOK, FallbackOK
  <2>9. StableContactsAreCalled' /\ CalledForACause'
    BY <2>4 DEF StableContactsAreCalled, CalledForACause, At
  <2> QED BY <2>3, <2>5, <2>6, <2>8, <2>9 DEF RoutingInv
<1>9. CASE found # {}
  <2> DEFINE r == [req EXCEPT !.at = "done", !.from = "chosen", !.called = found]
  <2>1. r \in Request /\ r.chosen = req.chosen BY <1>1, <1>7 DEF Request, Place
  <2>2. Reads(r) BY <1>2, <1>3, <1>9
  <2>3. /\ req' = r /\ RequestOK' /\ UNCHANGED worlds
        /\ \A g, p : AlwaysIn(g, p)' <=> AlwaysIn(g, p)
        /\ \A g, p : OnceIn(g, p)' <=> OnceIn(g, p)
        /\ \A g : AlwaysFits(g)' <=> AlwaysFits(g)
        /\ \A g : OnceFits(g)' <=> OnceFits(g)
        /\ \A p : NeverSuspended(p)' <=> NeverSuspended(p)
        /\ Stable' = Stable
    BY <2>1, <2>2, QueryStep
  <2>4. /\ req'.at = "done" /\ req'.chosen = req.chosen /\ req'.mine = req.mine
        /\ req'.matching = req.matching /\ req'.primary = req.primary
        /\ req'.loaded = req.loaded /\ req'.barred = req.barred
        /\ req'.from = "chosen" /\ req'.called = found
    BY <1>1, <2>3 DEF Request
  <2>5. ReadOnce' BY <1>1, <2>3, <2>4 DEF ReadOnce
  <2>6. ReadAlways' /\ RowsOK' /\ FallbackOK'
    BY <2>4 DEF ReadAlways, Matched, RowsOK, FallbackOK
  <2>7. StableContactsAreCalled' BY <1>6, <2>3, <2>4 DEF StableContactsAreCalled, At
  <2>8. ASSUME NEW row \in found
        PROVE  /\ row[2] \in Other /\ OnceIn(row[1], row[2]) /\ OnceIn(row[1], Me)
               /\ row[1] = req.chosen
               /\ \A q \in found : q[2] = row[2] => q = row
    <3>1. \A q \in found : q \in Group \X Person /\ q[1] = req.chosen /\ q[2] # Me
      BY <1>3, <1>4, <1>7 DEF Rows
    <3>2. OnceIn(row[1], row[2]) BY <1>3, <1>4
    <3>3. OnceIn(row[1], Me) BY <1>1, <3>1 DEF ReadOnce
    <3> QED BY <3>1, <3>2, <3>3 DEF Person
  <2>9. CalledForACause'
    <3> SUFFICES ASSUME NEW row \in found
                 PROVE  /\ row[2] \in Other /\ OnceIn(row[1], row[2])' /\ OnceIn(row[1], Me)'
                        /\ row[1] = req.chosen
                        /\ \A q \in found : q[2] = row[2] => q = row
      BY <1>6, <1>9, <2>3, <2>4 DEF CalledForACause, At
    <3> QED BY <2>3, <2>8
  <2> QED BY <2>3, <2>5, <2>6, <2>7, <2>9 DEF RoutingInv
<1> QED BY <1>8, <1>9

LEMMA FallbackMembershipsKeeps ==
  ASSUME RoutingInv, FallbackMemberships
  PROVE  RoutingInv'
<1>1. req \in Request /\ req.at = "circles" /\ World \in worlds /\ ReadOnce
  BY DEF RoutingInv, RequestOK, FallbackMemberships, At
<1>2. PICK l : l = (IF Mine = {} THEN "refused" ELSE "everybody") OBVIOUS
<1> DEFINE r == [req EXCEPT !.at = l, !.mine = Mine]
<1>3. Mine \in SUBSET Group BY DEF Mine
<1>4. r \in Request /\ r.chosen = req.chosen BY <1>1, <1>2, <1>3 DEF Request, Place
<1>5. Reads(r) BY <1>2 DEF FallbackMemberships
<1>6. /\ req' = r /\ RequestOK' /\ UNCHANGED worlds
      /\ \A g, p : AlwaysIn(g, p)' <=> AlwaysIn(g, p)
      /\ \A g, p : OnceIn(g, p)' <=> OnceIn(g, p)
      /\ \A g : AlwaysFits(g)' <=> AlwaysFits(g)
      /\ \A g : OnceFits(g)' <=> OnceFits(g)
      /\ \A p : NeverSuspended(p)' <=> NeverSuspended(p)
      /\ Stable' = Stable
  BY <1>4, <1>5, QueryStep
<1>7. /\ req'.at = l /\ req'.chosen = req.chosen /\ req'.mine = Mine
      /\ req'.matching = req.matching /\ req'.primary = req.primary
      /\ req'.loaded = req.loaded /\ req'.barred = req.barred
  BY <1>1, <1>6 DEF Request
<1>8. /\ \A g \in Mine : OnceIn(g, Me)
      /\ \A g \in Group : AlwaysIn(g, Me) => g \in Mine
  BY <1>1, NowIs DEF Mine
<1>9. ReadOnce' BY <1>1, <1>6, <1>7, <1>8 DEF ReadOnce
<1>10. /\ \A g \in Group : AlwaysFits(g) => g \in req.matching
       /\ req.chosen \notin req.matching =>
            \A p \in Person : AlwaysIn(req.chosen, p) => <<req.chosen, p>> \in req.primary
  BY <1>1 DEF RoutingInv, ReadAlways, Matched
<1>11. ReadAlways' BY <1>2, <1>6, <1>7, <1>8, <1>10 DEF ReadAlways, Matched
<1>12. Stable = {} /\ \A p \in Other : ~AlwaysIn(req.chosen, p)
  BY <1>1 DEF RoutingInv, FallbackOK
<1>13. RowsOK' /\ FallbackOK' BY <1>2, <1>6, <1>7, <1>12 DEF RowsOK, FallbackOK
<1>14. StableContactsAreCalled'
  <2> SUFFICES ASSUME l = "refused", NEW p \in Other, NEW g \in Group, AlwaysIn(g, p)
               PROVE  g # req.chosen /\ ~AlwaysIn(g, Me)
    BY <1>2, <1>6, <1>7 DEF StableContactsAreCalled, At
  <2> QED BY <1>2, <1>8, <1>12
<1>15. CalledForACause' BY <1>2, <1>7 DEF CalledForACause, At
<1> QED BY <1>6, <1>9, <1>11, <1>13, <1>14, <1>15 DEF RoutingInv

LEMMA OneRowEach ==
  ASSUME NEW C \in Rows, NEW p, NEW T, T = {row \in C : row[2] = p}, Cardinality(T) = 1
  PROVE  /\ \E row \in C : row[2] = p
         /\ \A row \in C, q \in C : row[2] = p /\ q[2] = p => q = row
<1>1. IsFiniteSet({p}) BY FS_Singleton
<1>2. IsFiniteSet(Group \X {p}) BY <1>1, FS_Product, RoutingAssumption
<1>3. T \in SUBSET (Group \X {p}) BY DEF Rows
<1>4. IsFiniteSet(T) BY <1>2, <1>3, FS_Subset
<1>5. PICK x : T = {x} BY <1>4, FS_Singleton
<1> QED BY <1>5

LEMMA FallbackMembersKeeps ==
  ASSUME RoutingInv, FallbackMembers
  PROVE  RoutingInv'
<1>1. req \in Request /\ req.at = "everybody" /\ World \in worlds /\ RequestOK /\ ReadOnce
  BY DEF RoutingInv, RequestOK, FallbackMembers, At
<1>2. PICK gs : gs = req.mine OBVIOUS
<1>3. gs \in SUBSET Group BY <1>1, <1>2 DEF Request
<1>k. PICK kept \in SUBSET req.loaded :
        LET r == Loading(req, kept, RowsOf(req.mine))
            found == Reachable(RowsOf(req.mine), r.barred)
        IN IF found = {} THEN Reads([r EXCEPT !.at = "refused"])
           ELSE \E C \in SUBSET found :
                  /\ \A p \in {row[2] : row \in found} :
                       Cardinality({row \in C : row[2] = p}) = 1
                  /\ Reads([r EXCEPT !.at = "done", !.from = "circles", !.called = C])
  BY DEF FallbackMembers
<1>4. PICK v : v = Loading(req, kept, RowsOf(gs)) OBVIOUS
<1>5. PICK found : found = Reachable(RowsOf(gs), v.barred) OBVIOUS
<1>6. /\ RowsOf(gs) \in Rows
      /\ \A row \in found : Found(row) /\ row[1] \in gs
      /\ \A g \in gs, p \in Other : AlwaysIn(g, p) /\ NeverSuspended(p) => <<g, p>> \in found
  BY <1>3, <1>4, <1>5, FindingIs
<1>7. /\ v = [req EXCEPT !.loaded = v.loaded, !.barred = v.barred]
      /\ v.loaded \in SUBSET Person /\ v.barred \in SUBSET Person
      /\ \A p \in v.barred : ~NeverSuspended(p)
      /\ \A p \in v.loaded \ v.barred : \E w \in worlds : p \notin w.suspended
  BY <1>1, <1>4, <1>6, LoadingIs
<1>8. v \in Request BY <1>1, <1>7 DEF Request
<1>9. v.chosen = req.chosen /\ v.mine = req.mine /\ v.matching = req.matching
      /\ v.primary = req.primary
  BY <1>1, <1>7 DEF Request
<1>10. found \in Rows BY <1>5, <1>6 DEF Reachable, Rows
<1>11. /\ \A g \in Group : AlwaysIn(g, Me) => g \in gs
       /\ \A p \in Other : ~AlwaysIn(req.chosen, p)
       /\ Stable = {}
  BY <1>1, <1>2 DEF RoutingInv, ReadAlways, FallbackOK
<1>12. CASE found = {}
  <2> DEFINE r == [v EXCEPT !.at = "refused"]
  <2>1. r \in Request /\ r.chosen = req.chosen BY <1>8, <1>9 DEF Request, Place
  <2>2. Reads(r) BY <1>k, <1>2, <1>4, <1>5, <1>12
  <2>3. /\ req' = r /\ RequestOK' /\ UNCHANGED worlds
        /\ \A g, p : AlwaysIn(g, p)' <=> AlwaysIn(g, p)
        /\ \A g, p : OnceIn(g, p)' <=> OnceIn(g, p)
        /\ \A g : OnceFits(g)' <=> OnceFits(g)
        /\ \A p : NeverSuspended(p)' <=> NeverSuspended(p)
        /\ Stable' = Stable
    BY <2>1, <2>2, QueryStep
  <2>4. /\ req'.at = "refused" /\ req'.chosen = req.chosen /\ req'.mine = req.mine
        /\ req'.matching = req.matching /\ req'.primary = req.primary
        /\ req'.loaded = v.loaded /\ req'.barred = v.barred
    BY <1>8, <1>9, <2>3 DEF Request
  <2>5. ReadOnce' BY <1>1, <1>7, <2>3, <2>4 DEF ReadOnce
  <2>6. ReadAlways' /\ RowsOK' /\ FallbackOK'
    BY <1>11, <2>3, <2>4 DEF ReadAlways, Matched, RowsOK, FallbackOK
  <2>7. StableContactsAreCalled'
    <3> SUFFICES ASSUME NEW p \in Other, NEW g \in Group, AlwaysIn(g, p)
                 PROVE  g # req.chosen /\ (NeverSuspended(p) => ~AlwaysIn(g, Me))
      BY <2>3, <2>4 DEF StableContactsAreCalled, At
    <3> QED BY <1>6, <1>11, <1>12
  <2>8. CalledForACause' BY <2>4 DEF CalledForACause, At
  <2> QED BY <2>3, <2>5, <2>6, <2>7, <2>8 DEF RoutingInv
<1>13. CASE found # {}
  <2>1. PICK C \in SUBSET found :
          /\ \A p \in {row[2] : row \in found} : Cardinality({row \in C : row[2] = p}) = 1
          /\ Reads([v EXCEPT !.at = "done", !.from = "circles", !.called = C])
    BY <1>k, <1>2, <1>4, <1>5, <1>13
  <2> DEFINE r == [v EXCEPT !.at = "done", !.from = "circles", !.called = C]
  <2>2. C \in Rows BY <1>10 DEF Rows
  <2>3. r \in Request /\ r.chosen = req.chosen BY <1>8, <1>9, <2>2 DEF Request, Place
  <2>4. /\ req' = r /\ RequestOK' /\ UNCHANGED worlds
        /\ \A g, p : AlwaysIn(g, p)' <=> AlwaysIn(g, p)
        /\ \A g, p : OnceIn(g, p)' <=> OnceIn(g, p)
        /\ \A g : OnceFits(g)' <=> OnceFits(g)
        /\ \A p : NeverSuspended(p)' <=> NeverSuspended(p)
        /\ Stable' = Stable
    BY <2>1, <2>3, QueryStep
  <2>5. /\ req'.at = "done" /\ req'.chosen = req.chosen /\ req'.mine = req.mine
        /\ req'.matching = req.matching /\ req'.primary = req.primary
        /\ req'.loaded = v.loaded /\ req'.barred = v.barred
        /\ req'.from = "circles" /\ req'.called = C
    BY <1>8, <1>9, <2>4 DEF Request
  <2>6. ReadOnce' BY <1>1, <1>7, <2>4, <2>5 DEF ReadOnce
  <2>7. ReadAlways' /\ RowsOK' /\ FallbackOK'
    BY <2>5 DEF ReadAlways, Matched, RowsOK, FallbackOK
  <2>8. StableContactsAreCalled' BY <1>11, <2>4, <2>5 DEF StableContactsAreCalled, At
  <2>9. \A row \in found : Cardinality({q \in C : q[2] = row[2]}) = 1 BY <2>1
  <2>10. C # {}
    <3>1. PICK row \in found : TRUE BY <1>13
    <3>2. PICK p : p = row[2] OBVIOUS
    <3>3. PICK T : T = {q \in C : q[2] = p} OBVIOUS
    <3>4. Cardinality(T) = 1 BY <2>9, <3>2, <3>3
    <3>5. T # {} BY <3>4, FS_EmptySet
    <3> QED BY <3>3, <3>5
  <2>11. ASSUME NEW row \in C
         PROVE  /\ row[2] \in Other /\ OnceIn(row[1], row[2]) /\ OnceIn(row[1], Me)
                /\ \A q \in C : q[2] = row[2] => q = row
                /\ \E w \in worlds : row[2] \notin w.suspended
    <3>1. Found(row) /\ row[1] \in req.mine BY <1>2, <1>6
    <3>2. OnceIn(row[1], Me) BY <1>1, <3>1 DEF ReadOnce
    <3>3. PICK p : p = row[2] OBVIOUS
    <3>4. PICK T : T = {q \in C : q[2] = p} OBVIOUS
    <3>5. Cardinality(T) = 1 BY <2>9, <3>3, <3>4
    <3>6. \A q \in C : q[2] = p => q = row BY <2>2, <3>3, <3>4, <3>5, OneRowEach
    <3> QED BY <3>1, <3>2, <3>3, <3>6 DEF Found
  <2>12. CalledForACause'
    <3> SUFFICES ASSUME NEW row \in C
                 PROVE  /\ row[2] \in Other /\ OnceIn(row[1], row[2])' /\ OnceIn(row[1], Me)'
                        /\ \A q \in C : q[2] = row[2] => q = row
                        /\ ~\A w \in worlds' : row[2] \in w.suspended
      BY <2>5, <2>10 DEF CalledForACause, At
    <3> QED BY <2>4, <2>11
  <2> QED BY <2>4, <2>6, <2>7, <2>8, <2>12 DEF RoutingInv
<1> QED BY <1>12, <1>13


-----------------------------------------------------------------------------
(* The ranking: who is no worse in anything and better in something has    *)
(* more points.                                                            *)

LEMMA Quotient ==
  ASSUME NEW x \in Nat, NEW n \in Nat \ {0}
  PROVE  /\ x \div n \in Nat
         /\ (x \div n) * n <= x /\ x < (x \div n) * n + n
<1>1. x \div n \in Nat OBVIOUS
<1>2. (x \div n) * n <= x OBVIOUS
<1>3. x < (x \div n) * n + n OBVIOUS
<1> QED BY <1>1, <1>2, <1>3

LEMMA Scaled ==
  ASSUME NEW a \in Int, NEW b \in Int, NEW n \in Nat, a <= b
  PROVE  a * n <= b * n
OBVIOUS

LEMMA PointsTellApart ==
  ASSUME NEW a \in Nat, NEW b \in Nat, NEW n \in 1..600, a < b
  PROVE  (600 * a) \div n < (600 * b) \div n
<1> DEFINE x == (600 * a) \div n
           y == (600 * b) \div n
<1>1. 600 * a \in Nat /\ 600 * b \in Nat /\ 600 * a + n <= 600 * b OBVIOUS
<1>2. x \in Nat /\ x * n <= 600 * a BY <1>1, Quotient
<1>3. y \in Nat /\ 600 * b < y * n + n BY <1>1, Quotient
<1> HIDE DEF x, y
<1>4. SUFFICES ASSUME y <= x PROVE FALSE BY <1>2, <1>3 DEF x, y
<1>5. y * n <= x * n BY <1>2, <1>3, <1>4, Scaled
<1>6. y * n \in Int /\ x * n \in Int BY <1>2, <1>3
<1> QED BY <1>1, <1>2, <1>3, <1>5, <1>6

LEMMA SkillsCount ==
  ASSUME NEW p, NEW q, (profile[q].skills \cap Wanted) \subseteq profile[p].skills
  PROVE  /\ SkillPoints(p) \in Nat /\ SkillPoints(q) \in Nat
         /\ SkillPoints(p) >= SkillPoints(q)
         /\ (profile[p].skills \cap Wanted) # (profile[q].skills \cap Wanted) =>
              SkillPoints(p) > SkillPoints(q)
<1> DEFINE P == profile[p].skills \cap Wanted
           Q == profile[q].skills \cap Wanted
           a == Cardinality(Q)
           b == Cardinality(P)
           n == Cardinality(Wanted)
<1>1. CASE Wanted = {} BY <1>1 DEF SkillPoints
<1>2. CASE Wanted # {}
  <2>1. n \in 1..600
    <3>1. IsFiniteSet(Wanted) /\ n <= 600 BY RoutingAssumption
    <3>2. n \in Nat BY <3>1, FS_CardinalityType
    <3>3. n # 0 BY <1>2, <3>1, FS_EmptySet
    <3> HIDE DEF n
    <3> QED BY <3>1, <3>2, <3>3
  <2>2. IsFiniteSet(P) /\ IsFiniteSet(Q) BY RoutingAssumption, FS_Subset
  <2>3. Q \in SUBSET P OBVIOUS
  <2>4. a \in Nat /\ b \in Nat BY <2>2, FS_CardinalityType
  <2>5. a <= b /\ (P # Q => a < b)
    <3>1. a <= b /\ (b = a => P = Q) BY <2>2, <2>3, FS_Subset
    <3> QED BY <2>4, <3>1
  <2>6. SkillPoints(p) = (600 * b) \div n /\ SkillPoints(q) = (600 * a) \div n
    BY <1>2 DEF SkillPoints
  <2> HIDE DEF P, Q, a, b, n
  <2>7. 600 * a \in Nat /\ 600 * b \in Nat BY <2>4
  <2>8. (600 * b) \div n \in Nat /\ (600 * a) \div n \in Nat BY <2>1, <2>7, Quotient
  <2>9. a < b => (600 * a) \div n < (600 * b) \div n BY <2>1, <2>4, PointsTellApart
  <2>10. a = b \/ a < b BY <2>4, <2>5
  <2>11. /\ (600 * b) \div n >= (600 * a) \div n
         /\ P # Q => (600 * b) \div n > (600 * a) \div n
    BY <2>5, <2>8, <2>9, <2>10
  <2>12. P # Q <=> (profile[p].skills \cap Wanted) # (profile[q].skills \cap Wanted)
    BY DEF P, Q
  <2> QED BY <2>6, <2>8, <2>11, <2>12
<1> QED BY <1>1, <1>2

LEMMA NearnessCounts ==
  ASSUME NEW p \in Other, NEW q \in Other, profile \in [Other -> Profile],
         NEW nearer \in BOOLEAN,
         nearer = (Unknown \notin {profile[p].km, profile[q].km} /\ profile[p].km < profile[q].km),
         profile[p].km = profile[q].km \/ nearer
  PROVE  /\ NearPoints(p) \in Int /\ NearPoints(q) \in Int
         /\ NearPoints(p) >= NearPoints(q)
         /\ nearer /\ profile[p].km < 50 => NearPoints(p) > NearPoints(q)
<1>1. PICK a, b : a = profile[p].km /\ b = profile[q].km OBVIOUS
<1>2. a \in Nat \cup {Unknown} /\ b \in Nat \cup {Unknown} BY <1>1, RoutingAssumption
<1>3. /\ NearPoints(p) = (IF a = Unknown THEN 135 ELSE IF a >= 50 THEN 0 ELSE 450 - 9 * a)
      /\ NearPoints(q) = (IF b = Unknown THEN 135 ELSE IF b >= 50 THEN 0 ELSE 450 - 9 * b)
  BY <1>1 DEF NearPoints
<1>4. CASE nearer
  <2>1. a \in Nat /\ b \in Nat /\ a < b /\ a # Unknown /\ b # Unknown BY <1>1, <1>2, <1>4
  <2> QED BY <1>1, <1>3, <2>1
<1>5. CASE ~nearer
  <2>1. a = b BY <1>1, <1>5
  <2>2. NearPoints(p) = NearPoints(q) BY <1>3, <2>1
  <2>3. NearPoints(p) \in Int
    <3>1. CASE a = Unknown BY <1>3, <3>1
    <3>2. CASE a # Unknown BY <1>2, <1>3, <3>2
    <3> QED BY <3>1, <3>2
  <2> QED BY <1>5, <2>2, <2>3
<1> QED BY <1>4, <1>5

LEMMA ReadinessCounts ==
  ASSUME NEW p \in Other, NEW q \in Other, profile \in [Other -> Profile],
         profile[q].ready => profile[p].ready
  PROVE  /\ ReadyPoints(p) \in Int /\ ReadyPoints(q) \in Int
         /\ ReadyPoints(p) >= ReadyPoints(q)
         /\ profile[p].ready # profile[q].ready => ReadyPoints(p) > ReadyPoints(q)
<1>1. profile[p].ready \in BOOLEAN /\ profile[q].ready \in BOOLEAN BY RoutingAssumption
<1>2. CASE profile[p].ready = profile[q].ready BY <1>2 DEF ReadyPoints
<1>3. CASE profile[p].ready # profile[q].ready
  <2>1. profile[p].ready = TRUE /\ profile[q].ready = FALSE BY <1>1, <1>3
  <2> QED BY <2>1 DEF ReadyPoints
<1> QED BY <1>2, <1>3

LEMMA RatingType ==
  ASSUME NEW g \in Group, NEW matching
  PROVE  Rating(g, matching) \in 1..5
BY RoutingAssumption DEF Rating

LEMMA OutrankingScores ==
  ASSUME profile \in [Other -> Profile], NEW matching,
         NEW row \in Group \X Other, NEW r \in Group \X Other,
         Outranks(row[2], r), Rating(row[1], matching) <= Rating(r[1], matching)
  PROVE  ~(Score(r, matching) >= Score(row, matching))
<1>1. PICK p \in Other, q \in Other : p = row[2] /\ q = r[2] OBVIOUS
<1>2. PICK nearer \in BOOLEAN :
        nearer = (Unknown \notin {profile[p].km, profile[q].km} /\ profile[p].km < profile[q].km)
  OBVIOUS
<1>3. /\ (profile[q].skills \cap Wanted) \subseteq profile[p].skills
      /\ profile[q].ready => profile[p].ready
      /\ profile[p].km = profile[q].km \/ nearer
      /\ \/ (profile[p].skills \cap Wanted) # (profile[q].skills \cap Wanted)
         \/ profile[p].ready # profile[q].ready
         \/ nearer /\ profile[p].km < 50
  BY <1>1, <1>2 DEF Outranks
<1>4. /\ SkillPoints(p) \in Nat /\ SkillPoints(q) \in Nat
      /\ SkillPoints(p) >= SkillPoints(q)
      /\ (profile[p].skills \cap Wanted) # (profile[q].skills \cap Wanted) =>
           SkillPoints(p) > SkillPoints(q)
  BY <1>3, SkillsCount
<1>5. /\ NearPoints(p) \in Int /\ NearPoints(q) \in Int
      /\ NearPoints(p) >= NearPoints(q)
      /\ nearer /\ profile[p].km < 50 => NearPoints(p) > NearPoints(q)
  BY <1>2, <1>3, NearnessCounts
<1>6. /\ ReadyPoints(p) \in Int /\ ReadyPoints(q) \in Int
      /\ ReadyPoints(p) >= ReadyPoints(q)
      /\ profile[p].ready # profile[q].ready => ReadyPoints(p) > ReadyPoints(q)
  BY <1>3, ReadinessCounts
<1>7. PICK x \in 1..5, y \in 1..5 :
        x = Rating(row[1], matching) /\ y = Rating(r[1], matching) /\ x <= y
  BY RatingType
<1>8. /\ Score(row, matching) = SkillPoints(p) + NearPoints(p) + ReadyPoints(p) + 45 * (6 - x)
      /\ Score(r, matching) = SkillPoints(q) + NearPoints(q) + ReadyPoints(q) + 45 * (6 - y)
  BY <1>1, <1>7 DEF Score
<1>9. \/ SkillPoints(p) > SkillPoints(q)
      \/ NearPoints(p) > NearPoints(q)
      \/ ReadyPoints(p) > ReadyPoints(q)
  BY <1>3, <1>4, <1>5, <1>6
<1> QED BY <1>4, <1>5, <1>6, <1>7, <1>8, <1>9

-----------------------------------------------------------------------------
(* What is called after the ranking.                                       *)

\* A candidate is kept for one row, of a circle of the best priority.
LEMMA CandidatesAre ==
  ASSUME NEW rows \in Rows, NEW matching, NEW C \in Candidates(rows, matching)
  PROVE  /\ C \subseteq rows
         /\ \A r \in rows : \E q \in C : q[2] = r[2]
         /\ \A r \in C, q \in C : q[2] = r[2] => q = r
         /\ \A r \in C, q \in rows : q[2] = r[2] => Rating(r[1], matching) <= Rating(q[1], matching)
<1>1. C \in SUBSET BestRows(rows, matching)
      /\ \A p \in {r[2] : r \in rows} : Cardinality({r \in C : r[2] = p}) = 1
  BY DEF Candidates
<1>2. C \subseteq rows BY <1>1 DEF BestRows
<1>3. C \in Rows BY <1>2 DEF Rows
<1>4. \A r \in C, q \in rows : q[2] = r[2] => Rating(r[1], matching) <= Rating(q[1], matching)
  BY <1>1 DEF BestRows
<1>5. ASSUME NEW r \in rows PROVE \E q \in C : q[2] = r[2]
  <2>1. PICK T : T = {q \in C : q[2] = r[2]} OBVIOUS
  <2>2. Cardinality(T) = 1 BY <1>1, <2>1
  <2>3. T # {} BY <2>2, FS_EmptySet
  <2> QED BY <2>1, <2>3
<1>6. ASSUME NEW r \in C, NEW q \in C, q[2] = r[2] PROVE q = r
  <2>1. PICK p : p = r[2] OBVIOUS
  <2>2. PICK T : T = {x \in C : x[2] = p} OBVIOUS
  <2>3. p \in {x[2] : x \in rows} BY <1>2, <2>1
  <2>4. Cardinality(T) = 1 BY <1>1, <2>2, <2>3
  <2>5. \A x \in C, y \in C : x[2] = p /\ y[2] = p => y = x BY <1>3, <2>2, <2>4, OneRowEach
  <2> QED BY <1>6, <2>1, <2>5
<1> QED BY <1>2, <1>4, <1>5, <1>6

\* Nobody is left out but for the cap, and only for others with as many points.
LEMMA ShortlistsAre ==
  ASSUME cap \in Nat, NEW C, NEW matching, NEW S \in Shortlists(C, matching)
  PROVE  /\ S \subseteq C
         /\ C # {} => S # {}
         /\ S = C \/ /\ cap > 0 /\ Cardinality(S) = cap
                     /\ \A r \in S, q \in C \ S : Score(r, matching) >= Score(q, matching)
<1>1. CASE cap = 0 \/ Cardinality(C) <= cap BY <1>1 DEF Shortlists
<1>2. CASE ~(cap = 0 \/ Cardinality(C) <= cap)
  <2>1. /\ S \in SUBSET C /\ Cardinality(S) = cap
        /\ \A r \in S, q \in C \ S : Score(r, matching) >= Score(q, matching)
    BY <1>2 DEF Shortlists
  <2>2. S # {} BY <1>2, <2>1, FS_EmptySet
  <2> QED BY <1>2, <2>1, <2>2
<1> QED BY <1>1, <1>2

\* The priority a circle was given is one it had at some time of the request.
LEMMA RatingStands ==
  ASSUME ReadOnce, NEW g \in Group,
         \A x \in Group : AlwaysFits(x) => x \in req.matching
  PROVE  Rating(g, req.matching) \in Standing(g)
BY DEF ReadOnce, Rating, Standing

LEMMA RankKeeps ==
  ASSUME RoutingInv, Rank
  PROVE  RoutingInv'
<1>1. /\ req \in Request /\ req.at = "rank" /\ World \in worlds /\ ReadOnce
      /\ profile \in [Other -> Profile] /\ cap \in Nat
  BY DEF RoutingInv, RequestOK, Rank, At
<1>2. PICK C \in Candidates(req.rows, req.matching) : \E S \in Shortlists(C, req.matching) :
        Reads([req EXCEPT !.at = "done", !.from = "routing", !.called = S])
  BY DEF Rank
<1>3. PICK S \in Shortlists(C, req.matching) :
        Reads([req EXCEPT !.at = "done", !.from = "routing", !.called = S])
  BY <1>2
<1>4. /\ req.rows \in Rows /\ req.rows # {}
      /\ \A r \in req.rows : Found(r) /\ r[1] \in req.matching \cup {req.chosen}
      /\ \A p \in Stable, g \in Counting : AlwaysIn(g, p) => <<g, p>> \in req.rows
  BY <1>1 DEF RoutingInv, RowsOK, Request
<1>5. /\ C \subseteq req.rows
      /\ \A r \in req.rows : \E q \in C : q[2] = r[2]
      /\ \A r \in C, q \in C : q[2] = r[2] => q = r
      /\ \A r \in C, q \in req.rows :
           q[2] = r[2] => Rating(r[1], req.matching) <= Rating(q[1], req.matching)
  BY <1>4, CandidatesAre
<1>6. /\ S \subseteq C
      /\ C # {} => S # {}
      /\ S = C \/ /\ cap > 0 /\ Cardinality(S) = cap
                  /\ \A r \in S, q \in C \ S : Score(r, req.matching) >= Score(q, req.matching)
  BY <1>1, ShortlistsAre
<1>7. S # {} BY <1>4, <1>5, <1>6
<1>8. S \in Rows BY <1>4, <1>5, <1>6 DEF Rows
<1> DEFINE r0 == [req EXCEPT !.at = "done", !.from = "routing", !.called = S]
<1>9. r0 \in Request /\ r0.chosen = req.chosen BY <1>1, <1>8 DEF Request, Place
<1>10. /\ req' = r0 /\ RequestOK' /\ UNCHANGED worlds
       /\ \A g, p : AlwaysIn(g, p)' <=> AlwaysIn(g, p)
       /\ \A g, p : OnceIn(g, p)' <=> OnceIn(g, p)
       /\ \A g : AlwaysFits(g)' <=> AlwaysFits(g)
       /\ \A g : OnceFits(g)' <=> OnceFits(g)
       /\ \A p : NeverSuspended(p)' <=> NeverSuspended(p)
       /\ Counting' = Counting /\ Stable' = Stable
  BY <1>3, <1>9, QueryStep
<1>11. /\ req'.at = "done" /\ req'.chosen = req.chosen /\ req'.mine = req.mine
       /\ req'.matching = req.matching /\ req'.primary = req.primary
       /\ req'.loaded = req.loaded /\ req'.barred = req.barred
       /\ req'.from = "routing" /\ req'.called = S
  BY <1>1, <1>10 DEF Request
<1>12. ReadOnce' BY <1>1, <1>10, <1>11 DEF ReadOnce
<1>13. ReadAlways' /\ RowsOK' /\ FallbackOK'
  BY <1>11 DEF ReadAlways, Matched, RowsOK, FallbackOK
<1>14. \A g \in Group : AlwaysFits(g) => g \in req.matching
  BY <1>1 DEF RoutingInv, ReadAlways, Matched
<1>15. \A r \in req.rows : r \in Group \X Other /\ r[1] \in Group BY <1>4 DEF Found, Rows, Person
<1>16. ASSUME NEW row \in C \ S, NEW r \in S, row[2] \in Stable PROVE ~Outranks(row[2], r)
  <2>1. SUFFICES ASSUME Outranks(row[2], r) PROVE FALSE OBVIOUS
  <2>2. row \in req.rows /\ r \in req.rows BY <1>5, <1>6
  <2>3. PICK g \in Counting :
          AlwaysIn(g, row[2]) /\ \A x \in Standing(g), y \in Standing(r[1]) : x <= y
    BY <2>1 DEF Outranks
  <2>4. PICK x : x = Rating(g, req.matching) OBVIOUS
  <2>5. PICK y : y = Rating(r[1], req.matching) OBVIOUS
  <2>6. g \in Group /\ r[1] \in Group /\ row[1] \in Group BY <1>15, <2>2 DEF Counting
  <2>7. x \in Standing(g) /\ y \in Standing(r[1]) BY <1>1, <1>14, <2>4, <2>5, <2>6, RatingStands
  <2>8. <<g, row[2]>> \in req.rows BY <1>4, <1>16, <2>3
  <2>9. Rating(row[1], req.matching) <= x BY <1>5, <2>4, <2>8
  <2>10. x \in 1..5 /\ y \in 1..5 /\ Rating(row[1], req.matching) \in 1..5
    BY <2>4, <2>5, <2>6, RatingType
  <2>11. Rating(row[1], req.matching) <= Rating(r[1], req.matching)
    BY <2>3, <2>5, <2>7, <2>9, <2>10
  <2>12. ~(Score(r, req.matching) >= Score(row, req.matching))
    BY <1>1, <1>15, <2>1, <2>2, <2>11, OutrankingScores
  <2> QED BY <1>6, <2>12
<1>17. \A p, r : Outranks(p, r)' <=> Outranks(p, r)
  <2>1. profile' = profile BY <1>3 DEF Reads
  <2>2. \A g : Standing(g)' = Standing(g) BY <1>10 DEF Standing
  <2> QED BY <1>10, <2>1, <2>2 DEF Outranks
<1>18. StableContactsAreCalled'
  <2> SUFFICES ASSUME NEW p \in Stable, \A r \in S : r[2] # p
               PROVE  /\ cap > 0 /\ Cardinality(S) = cap
                      /\ \A r \in S : ~Outranks(p, r)
    <3>1. cap' = cap BY <1>3 DEF Reads
    <3> QED BY <1>10, <1>11, <1>17, <3>1 DEF StableContactsAreCalled, At
  <2>1. PICK g \in Counting : AlwaysIn(g, p) BY DEF Stable
  <2>2. <<g, p>> \in req.rows BY <1>4, <2>1
  <2>3. PICK row \in C : row[2] = p BY <1>5, <2>2
  <2>4. row \in C \ S BY <2>3
  <2> QED BY <1>6, <1>16, <2>3, <2>4
<1>19. CalledForACause'
  <2>1. ASSUME NEW r \in S
        PROVE  /\ r[2] \in Other /\ OnceIn(r[1], r[2]) /\ OnceIn(r[1], Me)
               /\ r[1] = req.chosen \/ OnceFits(r[1])
               /\ \A q \in S : q[2] = r[2] => q = r
               /\ \E w \in worlds : r[2] \notin w.suspended
    <3>1. Found(r) /\ r[1] \in req.matching \cup {req.chosen} BY <1>4, <1>5, <1>6
    <3>2. \A g \in req.matching : OnceFits(g) /\ OnceIn(g, Me) BY <1>1 DEF ReadOnce, OnceFits
    <3>3. OnceIn(req.chosen, Me) BY <1>1 DEF ReadOnce
    <3>4. \A q \in S : q[2] = r[2] => q = r BY <1>5, <1>6
    <3> QED BY <3>1, <3>2, <3>3, <3>4 DEF Found
  <2> SUFFICES ASSUME NEW r \in S
               PROVE  /\ r[2] \in Other /\ OnceIn(r[1], r[2])' /\ OnceIn(r[1], Me)'
                      /\ r[1] = req.chosen \/ OnceFits(r[1])'
                      /\ \A q \in S : q[2] = r[2] => q = r
                      /\ ~\A w \in worlds' : r[2] \in w.suspended
    BY <1>7, <1>11 DEF CalledForACause, At
  <2> QED BY <1>10, <2>1
<1> QED BY <1>10, <1>12, <1>13, <1>18, <1>19 DEF RoutingInv

-----------------------------------------------------------------------------
(* The invariant.                                                          *)

LEMMA RoutingInit == Init => RoutingInv
<1> SUFFICES ASSUME Init PROVE RoutingInv OBVIOUS
<1>1. PICK g \in Group :
        req = [at |-> "check", chosen |-> g, mine |-> {}, matching |-> {}, rows |-> {},
               primary |-> {}, loaded |-> {}, barred |-> {}, from |-> "nobody", called |-> {}]
  BY DEF Init
<1>2. req \in Request BY <1>1 DEF Request, Place, Rows
<1>3. RequestOK BY <1>2, RoutingAssumption DEF Init, RequestOK, Rows
<1>4. /\ req.at = "check" /\ req.mine = {} /\ req.matching = {} /\ req.primary = {}
      /\ req.loaded = {} /\ req.barred = {}
  BY <1>1
<1>5. ReadOnce BY <1>4 DEF ReadOnce
<1>6. ReadAlways /\ RowsOK /\ FallbackOK BY <1>4 DEF ReadAlways, Matched, RowsOK, FallbackOK
<1>7. StableContactsAreCalled /\ CalledForACause
  BY <1>4 DEF StableContactsAreCalled, CalledForACause, At
<1> QED BY <1>3, <1>5, <1>6, <1>7 DEF RoutingInv

LEMMA RoutingStutter ==
  ASSUME RoutingInv, UNCHANGED vars
  PROVE  RoutingInv'
<1>1. UNCHANGED <<members, types, suspended, profile, cap, req, worlds>> BY DEF vars
<1>2. World' = World BY <1>1 DEF World
<1>3. RequestOK' BY <1>1, <1>2 DEF RoutingInv, RequestOK
<1>4. /\ \A g, p : AlwaysIn(g, p)' <=> AlwaysIn(g, p)
      /\ \A g, p : OnceIn(g, p)' <=> OnceIn(g, p)
      /\ \A g : AlwaysFits(g)' <=> AlwaysFits(g)
      /\ \A g : OnceFits(g)' <=> OnceFits(g)
      /\ \A p : NeverSuspended(p)' <=> NeverSuspended(p)
      /\ Counting' = Counting /\ Stable' = Stable
  BY <1>1, SameHistory
<1>5. ReadOnce' BY <1>1, <1>4 DEF RoutingInv, ReadOnce
<1>6. ReadAlways' BY <1>1, <1>4 DEF RoutingInv, ReadAlways
<1>7. RowsOK' /\ FallbackOK'
  <2>1. \A r : Found(r)' <=> Found(r) BY <1>1, <1>4 DEF Found
  <2> QED BY <1>1, <1>4, <2>1 DEF RoutingInv, RowsOK, FallbackOK
<1>8. \A p, r : Outranks(p, r)' <=> Outranks(p, r)
  <2>1. \A g : Standing(g)' = Standing(g) BY <1>4 DEF Standing
  <2> QED BY <1>1, <1>4, <2>1 DEF Outranks
<1>9. StableContactsAreCalled'
  BY <1>1, <1>4, <1>8 DEF RoutingInv, StableContactsAreCalled, At
<1>10. CalledForACause' BY <1>1, <1>4 DEF RoutingInv, CalledForACause, At
<1> QED BY <1>3, <1>5, <1>6, <1>7, <1>9, <1>10 DEF RoutingInv

LEMMA RoutingNext == RoutingInv /\ [Next]_vars => RoutingInv'
<1> SUFFICES ASSUME RoutingInv, [Next]_vars PROVE RoutingInv' OBVIOUS
<1>1. CASE CheckMember BY <1>1, CheckMemberKeeps
<1>2. CASE ReadMemberships BY <1>2, ReadMembershipsKeeps
<1>3. CASE ReadTypes BY <1>3, ReadTypesKeeps
<1>4. CASE ReadPrimary BY <1>4, ReadPrimaryKeeps
<1>5. CASE ReadMembers BY <1>5, ReadMembersKeeps
<1>6. CASE Rank BY <1>6, RankKeeps
<1>7. CASE FallbackChosen BY <1>7, FallbackChosenKeeps
<1>8. CASE FallbackMemberships BY <1>8, FallbackMembershipsKeeps
<1>9. CASE FallbackMembers BY <1>9, FallbackMembersKeeps
<1>10. CASE \/ \E g \in Group, p \in Person : Join(g, p) \/ Leave(g, p)
            \/ \E g \in Group, ts \in SUBSET Type : Configure(g, ts)
            \/ \E p \in Other : Suspend(p)
  BY <1>10, OthersKeep
<1>11. CASE UNCHANGED vars BY <1>11, RoutingStutter
<1> QED
  BY <1>1, <1>2, <1>3, <1>4, <1>5, <1>6, <1>7, <1>8, <1>9, <1>10, <1>11 DEF Next

\* The invariant behind both results: what the request holds was true at some
\* time of it, and whatever was true throughout has been read.
THEOREM RoutingIsInvariant == Spec => []RoutingInv
<1>1. Init => RoutingInv BY RoutingInit
<1>2. RoutingInv /\ [Next]_vars => RoutingInv' BY RoutingNext
<1> QED BY <1>1, <1>2, PTL DEF Spec

\* Whatever others change between the queries of an SOS: whoever shared a
\* circle that counts with the creator throughout, and was not suspended, is
\* called or cut by the cap for others he does not outrank; and "No reachable
\* contacts" is answered to nobody who had one throughout.
THEOREM StableCorrect == Spec => []StableContactsAreCalled
<1>1. RoutingInv => StableContactsAreCalled BY DEF RoutingInv
<1> QED BY <1>1, RoutingIsInvariant, PTL

\* Nobody is called without a circle shared with the creator at some time of
\* the request, nobody twice, and somebody suspended only by the fallback to
\* the chosen circle, when nobody else stayed reachable.
THEOREM CalledCorrect == Spec => []CalledForACause
<1>1. RoutingInv => CalledForACause BY DEF RoutingInv
<1> QED BY <1>1, RoutingIsInvariant, PTL
=============================================================================
