-------------------------- MODULE SchemaHistoryProofs --------------------------
(* Theorems of SchemaHistory, for every number of circles and of writes of *)
(* the application: the schemas of the revisions, the path of a command    *)
(* over them, and what every database it leads to keeps.                   *)
EXTENDS SchemaHistory, WellFoundedInduction, TLAPS

-----------------------------------------------------------------------------
(* The schema of every revision, and that its revision's upgrade leads to  *)
(* it and the next one's downgrade back.                                   *)

Strict == Part("users", {"email_not_null", "ix_phone_number"})
            \cup Part("phone_otp_sessions", {"user_id_not_null"})
Relaxed == Part("users", {"account_status", "last_active_at", "uq_phone_verified"})

TripTable == Table("trips", TripIndexes)
Identity == IdentityColumns \cup IdentityTables
Skills == IntelligenceColumns \cup IntelligenceTables
Outbox == HardeningColumns \cup HardeningTables

At1 == Initial.up.adds
At2 == At1 \cup Suspended
At3 == PlatformTables
At4 == At3 \cup Suspended
At5 == At4 \cup Identity
At6 == At5 \cup TripTable
At7 == (At6 \ Strict) \cup Relaxed
At8 == At7 \cup Skills
At9 == At8 \cup Outbox
At10 == At9 \cup HotIndexes
At13 == At10 \cup BloodGroupColumn
SchemaAt(r) ==
  IF r = 0 THEN {}
  ELSE <<At1, At2, At3, At4, At5, At6, At7, At8, At9, At10, At10, At10, At13>>[r]

\* What a change of way makes of a schema.
Changed(S, r, way) == Kept(S, Revisions[r][way].drops) \cup Revisions[r][way].adds

\* Nothing in a schema keeps the change from being applied.
Fits(S, r, way) ==
  LET change == Revisions[r][way]
      kept == Kept(S, change.drops)
  IN /\ \A p \in change.drops : Has(S, p[1]) /\ p \in S
     /\ \A p \in change.adds : Has(kept \cup change.adds, p[1]) /\ p \notin kept

\* There are thirteen revisions.
LEMMA RevisionNumbers ==
  /\ Latest = 13
  /\ \A r \in 1..13 : r \in {1, 2, 3, 4, 5, 6, 7, 8, 9, 10, 11, 12, 13}
<1>1. Latest = 13 BY DEF Latest, Revisions
<1> QED BY <1>1

\* A adds parts to a schema: whole tables, and parts of tables that are there.
Apart(S, A) == \A p \in S : p \notin A /\ <<p[1], "table">> \notin A
Placed(A, S) == \A p \in A : <<p[1], "table">> \in S \cup A

\* A revision that only adds parts: it applies, and its parts come on top.
LEMMA Adding ==
  ASSUME NEW S, NEW A, NEW r, Apart(S, A), Placed(A, S),
         Revisions[r].up = [drops |-> {}, adds |-> A]
  PROVE  Fits(S, r, "up") /\ Changed(S, r, "up") = S \cup A
<1>1. Revisions[r]["up"].drops = {} /\ Revisions[r]["up"].adds = A OBVIOUS
<1>2. Kept(S, {}) = S BY DEF Kept
<1>3. \A p \in A : p \notin S BY DEF Apart
<1> QED BY <1>1, <1>2, <1>3 DEF Fits, Changed, Placed, Has

\* Dropping what was added, its tables or its parts, leaves the rest.
LEMMA Removing ==
  ASSUME NEW S, NEW A, NEW D \in SUBSET A, NEW r, Apart(S, A),
         \A p \in A : p \in D \/ <<p[1], "table">> \in D,
         Revisions[r].down = [drops |-> D, adds |-> {}]
  PROVE  Changed(S \cup A, r, "down") = S
<1>1. Revisions[r]["down"].drops = D /\ Revisions[r]["down"].adds = {} OBVIOUS
<1>2. Kept(S \cup A, D) = S BY DEF Kept, Apart
<1> QED BY <1>1, <1>2 DEF Changed

\* The parts each revision from 004 on adds are new.
LEMMA NewParts ==
  /\ Apart(PlatformTables, Suspended)
  /\ Apart(PlatformTables, Identity) /\ Apart(Suspended, Identity)
  /\ Apart(PlatformTables, TripTable) /\ Apart(Suspended, TripTable) /\ Apart(Identity, TripTable)
  /\ Apart(PlatformTables, Relaxed) /\ Apart(Suspended, Relaxed) /\ Apart(Identity, Relaxed)
  /\ Apart(TripTable, Relaxed)
  /\ Apart(PlatformTables, Skills) /\ Apart(Suspended, Skills) /\ Apart(Identity, Skills)
  /\ Apart(TripTable, Skills) /\ Apart(Relaxed, Skills)
  /\ Apart(PlatformTables, Outbox) /\ Apart(Suspended, Outbox) /\ Apart(Identity, Outbox)
  /\ Apart(TripTable, Outbox) /\ Apart(Relaxed, Outbox) /\ Apart(Skills, Outbox)
  /\ Apart(PlatformTables, HotIndexes) /\ Apart(Suspended, HotIndexes)
  /\ Apart(Identity, HotIndexes) /\ Apart(TripTable, HotIndexes) /\ Apart(Relaxed, HotIndexes)
  /\ Apart(Skills, HotIndexes) /\ Apart(Outbox, HotIndexes)
  /\ Apart(PlatformTables, BloodGroupColumn) /\ Apart(Suspended, BloodGroupColumn)
  /\ Apart(Identity, BloodGroupColumn) /\ Apart(TripTable, BloodGroupColumn)
  /\ Apart(Relaxed, BloodGroupColumn) /\ Apart(Skills, BloodGroupColumn)
  /\ Apart(Outbox, BloodGroupColumn) /\ Apart(HotIndexes, BloodGroupColumn)
<1> USE DEF Apart, Part, Table
<1>1. /\ Apart(PlatformTables, Suspended) /\ Apart(PlatformTables, Identity)
      /\ Apart(PlatformTables, TripTable) /\ Apart(PlatformTables, Relaxed)
      /\ Apart(PlatformTables, HotIndexes) /\ Apart(PlatformTables, BloodGroupColumn)
  BY DEF PlatformTables, Suspended, Identity, IdentityColumns, IdentityTables, TripTable,
     TripIndexes, Relaxed, HotIndexes, BloodGroupColumn
<1>2. Apart(PlatformTables, Skills)
  BY DEF PlatformTables, Skills, IntelligenceColumns, IntelligenceTables
<1>3. Apart(PlatformTables, Outbox)
  BY DEF PlatformTables, Outbox, HardeningColumns, HardeningTables
<1>4. /\ Apart(Suspended, Identity) /\ Apart(Suspended, TripTable) /\ Apart(Suspended, Relaxed)
      /\ Apart(Suspended, HotIndexes) /\ Apart(Suspended, BloodGroupColumn)
  BY DEF Suspended, Identity, IdentityColumns, IdentityTables, TripTable, TripIndexes, Relaxed,
     HotIndexes, BloodGroupColumn
<1>5. Apart(Suspended, Skills) /\ Apart(TripTable, Skills) /\ Apart(Relaxed, Skills)
  BY DEF Suspended, TripTable, TripIndexes, Relaxed, Skills, IntelligenceColumns,
     IntelligenceTables
<1>6. Apart(Suspended, Outbox) /\ Apart(TripTable, Outbox) /\ Apart(Relaxed, Outbox)
  BY DEF Suspended, TripTable, TripIndexes, Relaxed, Outbox, HardeningColumns, HardeningTables
<1>7. /\ Apart(Identity, TripTable) /\ Apart(Identity, Relaxed) /\ Apart(Identity, HotIndexes)
      /\ Apart(Identity, BloodGroupColumn)
  BY DEF Identity, IdentityColumns, IdentityTables, TripTable, TripIndexes, Relaxed, HotIndexes,
     BloodGroupColumn
<1>8. Apart(Identity, Skills)
  BY DEF Identity, IdentityColumns, IdentityTables, Skills, IntelligenceColumns,
     IntelligenceTables
<1>9. Apart(Identity, Outbox)
  BY DEF Identity, IdentityColumns, IdentityTables, Outbox, HardeningColumns, HardeningTables
<1>10. /\ Apart(TripTable, Relaxed) /\ Apart(TripTable, HotIndexes)
       /\ Apart(TripTable, BloodGroupColumn)
       /\ Apart(Relaxed, HotIndexes) /\ Apart(Relaxed, BloodGroupColumn)
       /\ Apart(HotIndexes, BloodGroupColumn)
  BY DEF TripTable, TripIndexes, Relaxed, HotIndexes, BloodGroupColumn
<1>11. Apart(Skills, Outbox)
  BY DEF Skills, IntelligenceColumns, IntelligenceTables, Outbox, HardeningColumns,
     HardeningTables
<1>12. Apart(Skills, HotIndexes) /\ Apart(Skills, BloodGroupColumn)
  BY DEF Skills, IntelligenceColumns, IntelligenceTables, HotIndexes, BloodGroupColumn
<1>13. Apart(Outbox, HotIndexes) /\ Apart(Outbox, BloodGroupColumn)
  BY DEF Outbox, HardeningColumns, HardeningTables, HotIndexes, BloodGroupColumn
<1> HIDE DEF Apart
<1> QED
  BY <1>1, <1>2, <1>3, <1>4, <1>5, <1>6, <1>7, <1>8, <1>9, <1>10, <1>11, <1>12, <1>13

\* And belong to tables that are there.
LEMMA PlacedParts ==
  /\ Placed(Suspended, PlatformTables) /\ Placed(Identity, PlatformTables)
  /\ Placed(TripTable, {}) /\ Placed(Relaxed, PlatformTables)
  /\ Placed(Skills, PlatformTables) /\ Placed(Outbox, PlatformTables \cup Identity \cup Skills)
  /\ Placed(HotIndexes, PlatformTables) /\ Placed(BloodGroupColumn, PlatformTables)
<1> USE DEF Placed, Part, Table
<1>1. \A t \in {"users", "groups", "group_members", "group_invites", "alerts", "alert_responses",
                "alert_location_updates", "device_tokens"} : <<t, "table">> \in PlatformTables
  BY DEF PlatformTables
<1>2. <<"phone_otp_sessions", "table">> \in Identity
  BY DEF Identity, IdentityTables
<1>3. <<"alert_recipients", "table">> \in Skills
  BY DEF Skills, IntelligenceTables
<1>4. /\ Placed(Suspended, PlatformTables) /\ Placed(TripTable, {})
      /\ Placed(Relaxed, PlatformTables) /\ Placed(HotIndexes, PlatformTables)
      /\ Placed(BloodGroupColumn, PlatformTables)
  BY <1>1 DEF Suspended, TripTable, TripIndexes, Relaxed, HotIndexes, BloodGroupColumn
<1>5. Placed(Identity, PlatformTables)
  BY <1>1 DEF Identity, IdentityColumns, IdentityTables
<1>6. Placed(Skills, PlatformTables)
  BY <1>1 DEF Skills, IntelligenceColumns, IntelligenceTables
<1>7. Placed(Outbox, PlatformTables \cup Identity \cup Skills)
  BY <1>1, <1>2, <1>3 DEF Outbox, HardeningColumns, HardeningTables
<1> QED BY <1>4, <1>5, <1>6, <1>7

\* Layers of parts compose; 007 removes no table.
LEMMA Unions ==
  /\ \A S, T, A : Apart(S \cup T, A) <=> Apart(S, A) /\ Apart(T, A)
  /\ \A S, T, A : Apart(S, A) => Apart(S \ T, A)
  /\ \A A, S, T : Placed(A, S) => Placed(A, S \cup T)
  /\ \A A, S : Placed(A, S) => Placed(A, S \ Strict)
<1>1. \A t : <<t, "table">> \notin Strict BY DEF Strict, Part
<1>2. \A S, T, A : Apart(S \cup T, A) <=> Apart(S, A) /\ Apart(T, A) BY DEF Apart
<1>3. \A S, T, A : Apart(S, A) => Apart(S \ T, A) BY DEF Apart
<1>4. \A A, S, T : Placed(A, S) => Placed(A, S \cup T) BY DEF Placed
<1>5. \A A, S : Placed(A, S) => Placed(A, S \ Strict) BY <1>1 DEF Placed
<1> QED BY <1>2, <1>3, <1>4, <1>5

\* So every revision from 004 on finds its place.
LEMMA Layers ==
  /\ Apart(At3, Suspended) /\ Placed(Suspended, At3)
  /\ Apart(At4, Identity) /\ Placed(Identity, At4)
  /\ Apart(At5, TripTable) /\ Placed(TripTable, At5)
  /\ Apart(At6, Relaxed) /\ Placed(Relaxed, At6 \ Strict)
  /\ Apart(At7, Skills) /\ Placed(Skills, At7)
  /\ Apart(At8, Outbox) /\ Placed(Outbox, At8)
  /\ Apart(At9, HotIndexes) /\ Placed(HotIndexes, At9)
  /\ Apart(At10, BloodGroupColumn) /\ Placed(BloodGroupColumn, At10)
<1>1. Apart(At3, Suspended) /\ Placed(Suspended, At3)
  BY NewParts, PlacedParts DEF At3
<1>2. Apart(At4, Identity) /\ Placed(Identity, At4)
  BY NewParts, PlacedParts, Unions DEF At3, At4
<1>3. Apart(At5, TripTable) /\ Placed(TripTable, At5)
  <2>1. Placed(TripTable, At5) BY PlacedParts DEF Placed
  <2> QED BY <2>1, NewParts, Unions DEF At3, At4, At5
<1>4. Apart(At6, Relaxed)
  BY NewParts, Unions DEF At3, At4, At5, At6
<1>5. Placed(Relaxed, At6 \ Strict)
  BY PlacedParts, Unions DEF At3, At4, At5, At6
<1>6. Apart(At7, Skills)
  <2>1. /\ Apart(PlatformTables, Skills)
        /\ Apart(Suspended, Skills)
        /\ Apart(Identity, Skills)
        /\ Apart(TripTable, Skills)
        /\ Apart(Relaxed, Skills)
    BY NewParts
  <2>2. Apart(At6, Skills) BY <2>1, Unions DEF At3, At4, At5, At6
  <2>3. Apart(At7, Skills) BY <2>1, <2>2, Unions DEF At7
  <2> QED BY <2>3
<1>7. \A A : Placed(A, PlatformTables) => Placed(A, At7)
  BY Unions DEF At3, At4, At5, At6, At7
<1>8. Apart(At8, Outbox)
  <2>1. /\ Apart(PlatformTables, Outbox)
        /\ Apart(Suspended, Outbox)
        /\ Apart(Identity, Outbox)
        /\ Apart(TripTable, Outbox)
        /\ Apart(Relaxed, Outbox)
        /\ Apart(Skills, Outbox)
    BY NewParts
  <2>2. Apart(At6, Outbox) BY <2>1, Unions DEF At3, At4, At5, At6
  <2>3. Apart(At7, Outbox) BY <2>1, <2>2, Unions DEF At7
  <2>4. Apart(At8, Outbox) BY <2>1, <2>3, Unions DEF At8
  <2> QED BY <2>4
<1>9. Placed(Outbox, At8)
  <2>1. Placed(Outbox, ((PlatformTables \cup Identity \cup Skills) \ Strict) \cup (At8 \cup Skills))
    BY PlacedParts, Unions
  <2>2. ((PlatformTables \cup Identity \cup Skills) \ Strict) \cup (At8 \cup Skills) = At8
    BY DEF At3, At4, At5, At6, At7, At8
  <2> QED BY <2>1, <2>2
<1>10. Apart(At9, HotIndexes)
  <2>1. /\ Apart(PlatformTables, HotIndexes)
        /\ Apart(Suspended, HotIndexes)
        /\ Apart(Identity, HotIndexes)
        /\ Apart(TripTable, HotIndexes)
        /\ Apart(Relaxed, HotIndexes)
        /\ Apart(Skills, HotIndexes)
        /\ Apart(Outbox, HotIndexes)
    BY NewParts
  <2>2. Apart(At6, HotIndexes) BY <2>1, Unions DEF At3, At4, At5, At6
  <2>3. Apart(At7, HotIndexes) BY <2>1, <2>2, Unions DEF At7
  <2>4. Apart(At8, HotIndexes) BY <2>1, <2>3, Unions DEF At8
  <2>5. Apart(At9, HotIndexes) BY <2>1, <2>4, Unions DEF At9
  <2> QED BY <2>5
<1>11. Apart(At10, BloodGroupColumn)
  <2>1. /\ Apart(PlatformTables, BloodGroupColumn)
        /\ Apart(Suspended, BloodGroupColumn)
        /\ Apart(Identity, BloodGroupColumn)
        /\ Apart(TripTable, BloodGroupColumn)
        /\ Apart(Relaxed, BloodGroupColumn)
        /\ Apart(Skills, BloodGroupColumn)
        /\ Apart(Outbox, BloodGroupColumn)
        /\ Apart(HotIndexes, BloodGroupColumn)
    BY NewParts
  <2>2. Apart(At6, BloodGroupColumn) BY <2>1, Unions DEF At3, At4, At5, At6
  <2>3. Apart(At7, BloodGroupColumn) BY <2>1, <2>2, Unions DEF At7
  <2>4. Apart(At8, BloodGroupColumn) BY <2>1, <2>3, Unions DEF At8
  <2>5. Apart(At9, BloodGroupColumn) BY <2>1, <2>4, Unions DEF At9
  <2>6. Apart(At10, BloodGroupColumn) BY <2>1, <2>5, Unions DEF At10
  <2> QED BY <2>6
<1>12. Placed(Skills, At7) /\ Placed(HotIndexes, At9) /\ Placed(BloodGroupColumn, At10)
  BY <1>7, PlacedParts, Unions DEF At8, At9, At10
<1> QED BY <1>1, <1>2, <1>3, <1>4, <1>5, <1>6, <1>8, <1>9, <1>10, <1>11, <1>12

\* Revisions 010 to 012 have one schema.
LEMMA SchemaNumbers ==
  /\ SchemaAt(0) = {} /\ SchemaAt(1) = At1 /\ SchemaAt(2) = At2 /\ SchemaAt(3) = At3
  /\ SchemaAt(4) = At4 /\ SchemaAt(5) = At5 /\ SchemaAt(6) = At6 /\ SchemaAt(7) = At7
  /\ SchemaAt(8) = At8 /\ SchemaAt(9) = At9 /\ SchemaAt(10) = At10 /\ SchemaAt(11) = At10
  /\ SchemaAt(12) = At10 /\ SchemaAt(13) = At13
BY DEF SchemaAt

\* What each upgrade drops and adds.
LEMMA UpChanges ==
  /\ Revisions[1].up = [drops |-> {}, adds |-> At1]
  /\ Revisions[2].up = [drops |-> {}, adds |-> Suspended]
  /\ Revisions[3].up = [drops |-> Tables({"sessions", "contacts", "emergencies", "users"}),
                        adds |-> PlatformTables]
  /\ Revisions[4].up = [drops |-> {}, adds |-> Suspended]
  /\ Revisions[5].up = [drops |-> {}, adds |-> Identity]
  /\ Revisions[6].up = [drops |-> {}, adds |-> TripTable]
  /\ Revisions[7].up = [drops |-> Strict, adds |-> Relaxed]
  /\ Revisions[8].up = [drops |-> {}, adds |-> Skills]
  /\ Revisions[9].up = [drops |-> {}, adds |-> Outbox]
  /\ Revisions[10].up = [drops |-> {}, adds |-> HotIndexes]
  /\ Revisions[11].up = [drops |-> {}, adds |-> {}]
  /\ Revisions[12].up = [drops |-> {}, adds |-> {}]
  /\ Revisions[13].up = [drops |-> {}, adds |-> BloodGroupColumn]
<1>1. /\ Revisions[1] = Initial /\ Revisions[2] = SuspendedLegacy /\ Revisions[3] = Platform
      /\ Revisions[4] = SuspendedPlatform /\ Revisions[5] = IdentityAndInvites
      /\ Revisions[6] = Trips /\ Revisions[7] = PhoneFirst /\ Revisions[8] = Intelligence
      /\ Revisions[9] = Hardening /\ Revisions[10] = PerfIndexes /\ Revisions[11] = DataOnly
      /\ Revisions[12] = DataOnly /\ Revisions[13] = BloodGroup
  BY DEF Revisions
<1>2. \A ud, ua, dd, da : Revision(ud, ua, dd, da).up = [drops |-> ud, adds |-> ua]
  BY DEF Revision
<1>3. Revisions[1].up = [drops |-> {}, adds |-> At1]
  BY <1>1 DEF At1, Initial, Revision
<1>4. /\ Revisions[2].up = [drops |-> {}, adds |-> Suspended]
      /\ Revisions[4].up = [drops |-> {}, adds |-> Suspended]
  BY <1>1, <1>2 DEF SuspendedLegacy, SuspendedPlatform
<1>5. Revisions[3].up = [drops |-> Tables({"sessions", "contacts", "emergencies", "users"}),
                         adds |-> PlatformTables]
  BY <1>1, <1>2 DEF Platform
<1>6. Revisions[5].up = [drops |-> {}, adds |-> Identity]
  BY <1>1 DEF IdentityAndInvites, Identity, Revision
<1>7. Revisions[6].up = [drops |-> {}, adds |-> TripTable] BY <1>1, <1>2 DEF Trips, TripTable
<1>8. Revisions[7].up = [drops |-> Strict, adds |-> Relaxed]
  BY <1>1, <1>2 DEF PhoneFirst, Strict, Relaxed
<1>9. Revisions[8].up = [drops |-> {}, adds |-> Skills] BY <1>1, <1>2 DEF Intelligence, Skills
<1>10. Revisions[9].up = [drops |-> {}, adds |-> Outbox] BY <1>1, <1>2 DEF Hardening, Outbox
<1>11. Revisions[10].up = [drops |-> {}, adds |-> HotIndexes] BY <1>1, <1>2 DEF PerfIndexes
<1>12. /\ Revisions[11].up = [drops |-> {}, adds |-> {}]
       /\ Revisions[12].up = [drops |-> {}, adds |-> {}]
  BY <1>1, <1>2 DEF DataOnly
<1>13. Revisions[13].up = [drops |-> {}, adds |-> BloodGroupColumn]
  BY <1>1, <1>2 DEF BloodGroup
<1> QED BY <1>3, <1>4, <1>5, <1>6, <1>7, <1>8, <1>9, <1>10, <1>11, <1>12, <1>13

\* Every upgrade applies to the schema before it and leads to its own.
LEMMA UpgradeFits ==
  ASSUME NEW r \in 1..13
  PROVE  Fits(SchemaAt(r - 1), r, "up") /\ Changed(SchemaAt(r - 1), r, "up") = SchemaAt(r)
<1> USE SchemaNumbers
<1>1. CASE r = 1
  <2>1. Apart({}, At1) BY DEF Apart
  <2>2. Placed(At1, {}) BY DEF Placed, At1, Initial, Revision, Part, Table
  <2>3. Fits({}, 1, "up") /\ Changed({}, 1, "up") = {} \cup At1
    BY <2>1, <2>2, UpChanges, Adding
  <2> QED BY <1>1, <2>3
<1>2. CASE r = 2
  <2>1. Apart(At1, Suspended)
    BY DEF Apart, At1, Initial, Revision, Part, Table, Suspended
  <2>2. Placed(Suspended, At1)
    BY DEF Placed, At1, Initial, Revision, Part, Table, Suspended
  <2>3. Fits(At1, 2, "up") /\ Changed(At1, 2, "up") = At1 \cup Suspended
    BY <2>1, <2>2, UpChanges, Adding
  <2> QED BY <1>2, <2>3 DEF At2
<1>3. CASE r = 3
  <2> DEFINE Earlier == Tables({"sessions", "contacts", "emergencies", "users"})
  <2>1. Kept(At2, Earlier) = {}
    BY DEF Kept, Tables, At2, At1, Initial, Revision, Part, Table, Suspended
  <2>2. \A p \in Earlier : p \in At2 /\ <<p[1], "table">> \in At2
    BY DEF Tables, At2, At1, Initial, Revision, Part, Table, Suspended
  <2>3. Placed(PlatformTables, {})
    BY DEF Placed, PlatformTables, Part, Table
  <2>4. Revisions[3]["up"].drops = Earlier /\ Revisions[3]["up"].adds = PlatformTables
    BY UpChanges
  <2> HIDE DEF Earlier
  <2> QED BY <1>3, <2>1, <2>2, <2>3, <2>4 DEF Fits, Changed, Has, Placed, At3
<1>4. CASE r = 4
  <2>1. Fits(At3, 4, "up") /\ Changed(At3, 4, "up") = At3 \cup Suspended
    BY Layers, UpChanges, Adding
  <2> QED BY <1>4, <2>1 DEF At4
<1>5. CASE r = 5
  <2>1. Fits(At4, 5, "up") /\ Changed(At4, 5, "up") = At4 \cup Identity
    BY Layers, UpChanges, Adding
  <2> QED BY <1>5, <2>1 DEF At5
<1>6. CASE r = 6
  <2>1. Fits(At5, 6, "up") /\ Changed(At5, 6, "up") = At5 \cup TripTable
    BY Layers, UpChanges, Adding
  <2> QED BY <1>6, <2>1 DEF At6
<1>7. CASE r = 7
  <2>1. Revisions[7]["up"].drops = Strict /\ Revisions[7]["up"].adds = Relaxed
    BY UpChanges
  <2>2. \A t : <<t, "table">> \notin Strict BY DEF Strict, Part
  <2>3. Kept(At6, Strict) = At6 \ Strict
    BY <2>2 DEF Kept
  <2>4. \A p \in Strict : p \in At6 /\ <<p[1], "table">> \in At6
    <3>1. Strict \ {<<"users", "ix_phone_number">>, <<"phone_otp_sessions", "user_id_not_null">>}
            \subseteq PlatformTables
      BY DEF Strict, Part, Table, PlatformTables
    <3>2. {<<"users", "ix_phone_number">>, <<"phone_otp_sessions", "user_id_not_null">>,
           <<"phone_otp_sessions", "table">>} \subseteq Identity
      BY DEF Identity, IdentityTables, IdentityColumns, Part, Table
    <3>3. <<"users", "table">> \in PlatformTables BY DEF PlatformTables, Part, Table
    <3>4. \A p \in Strict : p[1] \in {"users", "phone_otp_sessions"} BY DEF Strict, Part
    <3> QED BY <3>1, <3>2, <3>3, <3>4 DEF At3, At4, At5, At6
  <2>5. \A p \in Relaxed : p \notin At6 BY Layers DEF Apart
  <2> QED BY <1>7, <2>1, <2>3, <2>4, <2>5, Layers DEF Fits, Changed, Has, Placed, At7
<1>8. CASE r = 8
  <2>1. Fits(At7, 8, "up") /\ Changed(At7, 8, "up") = At7 \cup Skills
    BY Layers, UpChanges, Adding
  <2>2. At8 = At7 \cup Skills BY DEF At8
  <2>3. SchemaAt(7) = At7 /\ SchemaAt(8) = At8 OBVIOUS
  <2> HIDE SchemaNumbers
  <2> QED BY <1>8, <2>1, <2>2, <2>3
<1>9. CASE r = 9
  <2>1. Fits(At8, 9, "up") /\ Changed(At8, 9, "up") = At8 \cup Outbox
    BY Layers, UpChanges, Adding
  <2> QED BY <1>9, <2>1 DEF At9
<1>10. CASE r = 10
  <2>1. Fits(At9, 10, "up") /\ Changed(At9, 10, "up") = At9 \cup HotIndexes
    BY Layers, UpChanges, Adding
  <2> QED BY <1>10, <2>1 DEF At10
<1>11. CASE r \in {11, 12}
  <2>1. Apart(At10, {}) /\ Placed({}, At10) /\ At10 \cup {} = At10 BY DEF Apart, Placed
  <2>2. Revisions[r].up = [drops |-> {}, adds |-> {}] BY <1>11, UpChanges
  <2>3. Fits(At10, r, "up") /\ Changed(At10, r, "up") = At10 BY <2>1, <2>2, Adding
  <2> QED BY <1>11, <2>3
<1>13. CASE r = 13
  <2>1. Fits(At10, 13, "up") /\ Changed(At10, 13, "up") = At10 \cup BloodGroupColumn
    BY Layers, UpChanges, Adding
  <2> QED BY <1>13, <2>1 DEF At13
<1> QED
  BY RevisionNumbers, <1>1, <1>2, <1>3, <1>4, <1>5, <1>6, <1>7, <1>8, <1>9, <1>10, <1>11, <1>13

\* Back: 003 drops every table, the others what they added.
LEMMA DowngradeFits ==
  ASSUME NEW r \in 1..13
  PROVE  Changed(SchemaAt(r), r, "down") = IF r = 3 THEN {} ELSE SchemaAt(r - 1)
<1> USE SchemaNumbers
<1> DEFINE Down(D, A) == [drops |-> D, adds |-> A]
<1>0. /\ Revisions[1] = Initial /\ Revisions[2] = SuspendedLegacy /\ Revisions[3] = Platform
      /\ Revisions[4] = SuspendedPlatform /\ Revisions[5] = IdentityAndInvites
      /\ Revisions[6] = Trips /\ Revisions[7] = PhoneFirst /\ Revisions[8] = Intelligence
      /\ Revisions[9] = Hardening /\ Revisions[10] = PerfIndexes /\ Revisions[11] = DataOnly
      /\ Revisions[12] = DataOnly /\ Revisions[13] = BloodGroup
  BY DEF Revisions
<1>1. CASE r = 1
  <2>1. Revisions[1]["down"].adds = {} BY <1>0 DEF Initial, Revision
  <2>2. Tables({"sessions", "contacts", "emergencies", "users"})
          \subseteq Revisions[1]["down"].drops
    BY <1>0 DEF Initial, Revision
  <2>3. \A p \in At1 :
          <<p[1], "table">> \in Tables({"sessions", "contacts", "emergencies", "users"})
    BY DEF At1, Initial, Revision, Part, Table, Tables
  <2> QED BY <1>1, <2>1, <2>2, <2>3 DEF Changed, Kept
<1>2. CASE r = 2
  <2>1. Revisions[2].down = Down(Suspended, {}) BY <1>0 DEF SuspendedLegacy, Revision
  <2>2. Apart(At1, Suspended)
    BY DEF Apart, At1, Initial, Revision, Part, Table, Suspended
  <2>3. Changed(At1 \cup Suspended, 2, "down") = At1
    BY <2>1, <2>2, Removing
  <2> QED BY <1>2, <2>3 DEF At2
<1>3. CASE r = 3
  <2>1. Revisions[3]["down"].adds = {} BY <1>0 DEF Platform, Revision
  <2>2. Revisions[3]["down"].drops = {<<t, "table">> : t \in {p[1] : p \in PlatformTables}}
    BY <1>0 DEF Platform, Revision, Tables
  <2>3. \A p \in At3 : <<p[1], "table">> \in Revisions[3]["down"].drops
    BY <2>2 DEF At3
  <2> QED BY <1>3, <2>1, <2>3 DEF Changed, Kept
<1>4. CASE r = 4
  <2>1. Revisions[4].down = Down(Suspended, {}) BY <1>0 DEF SuspendedPlatform, Revision
  <2>2. Changed(At3 \cup Suspended, 4, "down") = At3
    BY <2>1, Layers, Removing
  <2> QED BY <1>4, <2>2 DEF At4
<1>5. CASE r = 5
  <2> DEFINE D == IdentityColumns
                    \cup Tables({"trusted_contacts", "phone_invites", "phone_otp_sessions"})
  <2>1. Revisions[5].down = Down(D, {}) BY <1>0 DEF IdentityAndInvites, Revision
  <2>2. D \in SUBSET Identity BY DEF Identity, IdentityTables, Table, Tables, Part
  <2>3. \A p \in Identity : p \in D \/ <<p[1], "table">> \in D
    BY DEF Identity, IdentityTables, Table, Tables, Part
  <2> HIDE DEF D
  <2>4. Changed(At4 \cup Identity, 5, "down") = At4
    BY <2>1, <2>2, <2>3, Layers, Removing
  <2> QED BY <1>5, <2>4 DEF At5
<1>6. CASE r = 6
  <2>1. Revisions[6].down = Down(TripTable, {}) BY <1>0 DEF Trips, Revision, TripTable
  <2>2. Changed(At5 \cup TripTable, 6, "down") = At5
    BY <2>1, Layers, Removing
  <2> QED BY <1>6, <2>2 DEF At6
<1>7. CASE r = 7
  <2>1. Revisions[7]["down"].drops = Relaxed /\ Revisions[7]["down"].adds = Strict
    BY <1>0 DEF PhoneFirst, Revision, Strict, Relaxed
  <2>2. Apart(At6 \ Strict, Relaxed) BY Layers, Unions
  <2>3. Kept(At7, Relaxed) = At6 \ Strict
    <3>1. \A p \in At6 \ Strict : p \notin Relaxed /\ <<p[1], "table">> \notin Relaxed
      BY <2>2 DEF Apart
    <3> QED BY <3>1 DEF Kept, At7
  <2>4. Strict \subseteq At6
    <3>1. Strict \ {<<"users", "ix_phone_number">>, <<"phone_otp_sessions", "user_id_not_null">>}
            \subseteq PlatformTables
      BY DEF Strict, Part, Table, PlatformTables
    <3>2. {<<"users", "ix_phone_number">>, <<"phone_otp_sessions", "user_id_not_null">>}
            \subseteq Identity
      BY DEF Identity, IdentityTables, IdentityColumns, Part, Table
    <3> QED BY <3>1, <3>2 DEF At3, At4, At5, At6
  <2> QED BY <1>7, <2>1, <2>3, <2>4 DEF Changed
<1>8. CASE r = 8
  <2> DEFINE D == IntelligenceColumns
                    \cup Tables({"skills", "user_skills", "group_emergency_types",
                                 "alert_recipients"})
                    \cup Part("skills", {"ix_code"})
                    \cup Part("user_skills", {"ix_user_id", "ix_skill_id"})
                    \cup Part("group_emergency_types", {"ix_group_id"})
                    \cup Part("alert_recipients", {"ix_alert_id", "ix_user_id"})
  <2>1. Revisions[8].down = Down(D, {}) BY <1>0 DEF Intelligence, Revision
  <2>2. D \in SUBSET Skills
    BY DEF Skills, IntelligenceTables, Table, Tables, Part
  <2>3. \A p \in IntelligenceTables : <<p[1], "table">> \in D
    BY DEF IntelligenceTables, Table, Tables, Part
  <2>4. \A p \in Skills : p \in D \/ <<p[1], "table">> \in D
    BY <2>3 DEF Skills
  <2> HIDE DEF D
  <2>5. Changed(At7 \cup Skills, 8, "down") = At7
    BY <2>1, <2>2, <2>4, Layers, Removing
  <2>6. At8 = At7 \cup Skills BY DEF At8
  <2>7. SchemaAt(r) = At8 /\ SchemaAt(r - 1) = At7 BY <1>8
  <2> HIDE SchemaNumbers
  <2>8. Changed(At8, 8, "down") = At7 BY <2>5, <2>6
  <2>9. Changed(SchemaAt(r), r, "down") = SchemaAt(r - 1) BY <1>8, <2>7, <2>8
  <2> QED BY <1>8, <2>9
<1>9. CASE r = 9
  <2>1. Revisions[9].down = Down(Outbox, {}) BY <1>0 DEF Hardening, Revision, Outbox
  <2>2. Changed(At8 \cup Outbox, 9, "down") = At8
    BY <2>1, Layers, Removing
  <2>3. At9 = At8 \cup Outbox BY DEF At9
  <2>4. SchemaAt(r) = At9 /\ SchemaAt(r - 1) = At8 BY <1>9
  <2> HIDE SchemaNumbers
  <2> QED BY <1>9, <2>2, <2>3, <2>4
<1>10. CASE r = 10
  <2>1. Revisions[10].down = Down(HotIndexes, {}) BY <1>0 DEF PerfIndexes, Revision
  <2>2. Changed(At9 \cup HotIndexes, 10, "down") = At9
    BY <2>1, Layers, Removing
  <2> QED BY <1>10, <2>2 DEF At10
<1>11. CASE r \in {11, 12}
  <2>1. Revisions[r]["down"].drops = {} /\ Revisions[r]["down"].adds = {}
    BY <1>0, <1>11 DEF DataOnly, Revision
  <2>2. Kept(At10, {}) = At10 BY DEF Kept
  <2>3. Changed(At10, r, "down") = At10 BY <2>1, <2>2 DEF Changed
  <2> QED BY <1>11, <2>3
<1>13. CASE r = 13
  <2>1. Revisions[13].down = Down(BloodGroupColumn, {}) BY <1>0 DEF BloodGroup, Revision
  <2>2. Changed(At10 \cup BloodGroupColumn, 13, "down") = At10
    BY <2>1, Layers, Removing
  <2> QED BY <1>13, <2>2 DEF At13
<1> QED
  BY RevisionNumbers, <1>1, <1>2, <1>3, <1>4, <1>5, <1>6, <1>7, <1>8, <1>9, <1>10, <1>11, <1>13

-----------------------------------------------------------------------------
(* The path of a command: the databases from the first revision to the     *)
(* last, each one step from the one before.                                *)

\* Induction along a path: up or down from the first revision.
LEMMA LeastNumber ==
  ASSUME NEW I \in SUBSET Nat, I # {}
  PROVE  \E x \in I : \A y \in I : x <= y
<1>1. PICK x \in I : \A y \in I : ~ (<<y, x>> \in OpToRel(<, Nat))
  BY NatLessThanWellFounded, WFMin
<1>2. ASSUME NEW y \in I PROVE ~ (y < x)
  <2>1. SUFFICES ASSUME y < x PROVE <<y, x>> \in OpToRel(<, Nat)
    BY <1>1
  <2>2. <<y, x>> \in Nat \X Nat OBVIOUS
  <2> QED BY <2>1, <2>2 DEF OpToRel
<1> QED BY <1>2

LEMMA Ascending ==
  ASSUME NEW from \in Nat, NEW to \in Nat, NEW Good, from \in Good,
         \A r \in (from + 1)..to : r - 1 \in Good => r \in Good
  PROVE  \A r \in from..to : r \in Good
<1> DEFINE Bad == {r \in from..to : r \notin Good}
<1>1. SUFFICES ASSUME Bad # {} PROVE FALSE OBVIOUS
<1>5. Bad \in SUBSET Nat OBVIOUS
<1> HIDE DEF Bad
<1>2. PICK x \in Bad : \A y \in Bad : x <= y BY <1>1, <1>5, LeastNumber
<1> USE DEF Bad
<1>3. x # from /\ x \in (from + 1)..to OBVIOUS
<1>4. x - 1 \in from..to /\ x - 1 \notin Good BY <1>3
<1> QED BY <1>2, <1>4

LEMMA Descending ==
  ASSUME NEW from \in Nat, NEW to \in Nat, NEW Good, from \in Good,
         \A r \in to..(from - 1) : r + 1 \in Good => r \in Good
  PROVE  \A r \in to..from : r \in Good
<1> DEFINE Up == {k \in 0..(from - to) : from - k \in Good}
<1>1. SUFFICES ASSUME NEW r \in to..from PROVE r \in Good OBVIOUS
<1>2. 0 \in Up BY <1>1
<1>3. ASSUME NEW k \in 1..(from - to), k - 1 \in Up PROVE k \in Up
  <2>1. from - k \in to..(from - 1) /\ (from - k) + 1 \in Good BY <1>3
  <2> QED BY <2>1
<1>4. from - to \in Nat BY <1>1
<1> HIDE DEF Up
<1>5. \A k \in 0..(from - to) : k \in Up BY <1>2, <1>3, <1>4, Ascending
<1>6. from - r \in 0..(from - to) /\ from - (from - r) = r BY <1>1
<1> QED BY <1>5, <1>6 DEF Up

\* An upgrade is a path of steps up, a downgrade one of steps down.
LEMMA UpgradePath ==
  ASSUME NEW d, NEW from \in Nat, NEW to \in Nat, from <= to
  PROVE  \E f : /\ f[from] = d /\ f[to] = Upgraded(d, from, to)
                /\ \A r \in (from + 1)..to : f[r] = Step(f[r - 1], r, "up")
<1> DEFINE Path(f, n) == f = [r \in from..n |-> IF r = from THEN d ELSE Step(f[r - 1], r, "up")]
           Good == {n \in from..to : \E f : Path(f, n)}
<1>1. from \in Good
  <2>1. Path([r \in from..from |-> d], from) OBVIOUS
  <2>2. from \in from..to OBVIOUS
  <2> HIDE DEF Path
  <2> QED BY <2>1, <2>2
<1>2. ASSUME NEW n \in (from + 1)..to, n - 1 \in Good PROVE n \in Good
  <2>1. PICK f : Path(f, n - 1) BY <1>2
  <2> DEFINE g == [r \in from..n |-> IF r = n THEN Step(f[n - 1], n, "up") ELSE f[r]]
  <2>2. ASSUME NEW r \in from..n
        PROVE  g[r] = IF r = from THEN d ELSE Step(g[r - 1], r, "up")
    <3>1. CASE r = n BY <3>1
    <3>2. CASE r # n
      <4>1. r \in from..(n - 1) BY <3>2
      <4>2. f[r] = IF r = from THEN d ELSE Step(f[r - 1], r, "up") BY <2>1, <4>1
      <4>3. g[r] = f[r] /\ (r # from => g[r - 1] = f[r - 1]) BY <4>1
      <4> QED BY <4>2, <4>3
    <3> QED BY <3>1, <3>2
  <2>3. Path(g, n) BY <2>2
  <2>4. n \in from..to OBVIOUS
  <2> HIDE DEF Path, g
  <2> QED BY <2>3, <2>4
<1> HIDE DEF Good
<1>3. to \in Good BY <1>1, <1>2, Ascending
<1>4. PICK f : Path(f, to) BY <1>3 DEF Good
<1> DEFINE g == CHOOSE at :
      at = [r \in from..to |-> IF r = from THEN d ELSE Step(at[r - 1], r, "up")]
<1>5. g = [r \in from..to |-> IF r = from THEN d ELSE Step(g[r - 1], r, "up")] BY <1>4
<1>6. Upgraded(d, from, to) = g[to] BY DEF Upgraded
<1> HIDE DEF g
<1>7. g[from] = d /\ \A r \in (from + 1)..to : g[r] = Step(g[r - 1], r, "up")
  <2>1. g[from] = d BY <1>5
  <2>2. ASSUME NEW r \in (from + 1)..to PROVE g[r] = Step(g[r - 1], r, "up")
    <3>1. r \in from..to /\ r # from OBVIOUS
    <3> QED BY <1>5, <3>1
  <2> QED BY <2>1, <2>2
<1> QED BY <1>6, <1>7

LEMMA DowngradePath ==
  ASSUME NEW d, NEW from \in Nat, NEW to \in Nat, to <= from
  PROVE  \E f : /\ f[from] = d /\ f[to] = Downgraded(d, from, to)
                /\ \A r \in to..(from - 1) : f[r] = Step(f[r + 1], r + 1, "down")
<1> DEFINE Path(f, n) ==
      f = [r \in n..from |-> IF r = from THEN d ELSE Step(f[r + 1], r + 1, "down")]
           Good == {n \in to..from : \E f : Path(f, n)}
<1>1. from \in Good
  <2>1. Path([r \in from..from |-> d], from) OBVIOUS
  <2>2. from \in to..from OBVIOUS
  <2> HIDE DEF Path
  <2> QED BY <2>1, <2>2
<1>2. ASSUME NEW n \in to..(from - 1), n + 1 \in Good PROVE n \in Good
  <2>1. PICK f : Path(f, n + 1) BY <1>2
  <2> DEFINE g == [r \in n..from |-> IF r = n THEN Step(f[n + 1], n + 1, "down") ELSE f[r]]
  <2>2. ASSUME NEW r \in n..from
        PROVE  g[r] = IF r = from THEN d ELSE Step(g[r + 1], r + 1, "down")
    <3>1. CASE r = n BY <3>1
    <3>2. CASE r # n
      <4>1. r \in (n + 1)..from BY <3>2
      <4>2. f[r] = IF r = from THEN d ELSE Step(f[r + 1], r + 1, "down") BY <2>1, <4>1
      <4>3. g[r] = f[r] /\ (r # from => g[r + 1] = f[r + 1]) BY <4>1
      <4> QED BY <4>2, <4>3
    <3> QED BY <3>1, <3>2
  <2>3. Path(g, n) BY <2>2
  <2>4. n \in to..from OBVIOUS
  <2> HIDE DEF Path, g
  <2> QED BY <2>3, <2>4
<1> HIDE DEF Good
<1>3. to \in Good BY <1>1, <1>2, Descending
<1>4. PICK f : Path(f, to) BY <1>3 DEF Good
<1> DEFINE g == CHOOSE at :
      at = [r \in to..from |-> IF r = from THEN d ELSE Step(at[r + 1], r + 1, "down")]
<1>5. g = [r \in to..from |-> IF r = from THEN d ELSE Step(g[r + 1], r + 1, "down")] BY <1>4
<1>6. Downgraded(d, from, to) = g[to] BY DEF Downgraded
<1> HIDE DEF g
<1>7. g[from] = d /\ \A r \in to..(from - 1) : g[r] = Step(g[r + 1], r + 1, "down")
  <2>1. g[from] = d BY <1>5
  <2>2. ASSUME NEW r \in to..(from - 1) PROVE g[r] = Step(g[r + 1], r + 1, "down")
    <3>1. r \in to..from /\ r # from OBVIOUS
    <3> QED BY <1>5, <3>1
  <2> QED BY <2>1, <2>2
<1> QED BY <1>6, <1>7

-----------------------------------------------------------------------------
(* The inductive invariant.                                                *)

Database ==
  [schema : {SchemaAt(k) : k \in 0..13}, offends : SUBSET Breakable,
   types : [Circle -> SUBSET AlertType], alerts : SUBSET AlertType,
   catalog : SUBSET (Canonical \cup Retired)]

\* A database at revision r: its parts are those of the revision, but below a
\* downgrade of 003 there are none; what contradicts a constraint is written
\* without it, from 003 on; there are alerts from 003 on, circles have types from
\* 008 on, the catalog the codes from 009 on, and from 012 on neither the catalog
\* nor a circle knows a retired code.
SoundAt(d, r) ==
  /\ d \in Database
  /\ d.schema = SchemaAt(r) \/ (r = 2 /\ d.schema = {})
  /\ \A p \in d.offends : Column(p) \in d.schema /\ p \notin d.schema
  /\ r < 3 => d.offends = {} /\ d.alerts = {}
  /\ r < 8 => \A c \in Circle : d.types[c] = {}
  /\ r >= 9 => Canonical \subseteq d.catalog
  /\ r >= 12 => d.catalog = Canonical /\ \A c \in Circle : d.types[c] \cap Retired = {}

Sound ==
  /\ rev \in 0..13
  /\ writes \in Nat
  /\ SoundAt(db, rev)

\* There are alerts from 003 on, circles have types from 008 on, the catalog is
\* there from 009 on.
LEMMA TypeTables ==
  ASSUME NEW r \in 0..13
  PROVE  /\ Has(SchemaAt(r), "group_emergency_types") <=> r >= 8
         /\ Has(SchemaAt(r), "emergency_types") <=> r >= 9
         /\ Has(SchemaAt(r), "alerts") <=> r >= 3
<1> DEFINE G == <<"group_emergency_types", "table">>
           E == <<"emergency_types", "table">>
           A == <<"alerts", "table">>
<1> USE DEF Part, Table
<1>1. G \notin At1 /\ E \notin At1 BY DEF At1, Initial, Revision
<1>2. G \notin Suspended /\ E \notin Suspended BY DEF Suspended
<1>3. G \notin PlatformTables /\ E \notin PlatformTables BY DEF PlatformTables
<1>4. G \notin Identity /\ E \notin Identity BY DEF Identity, IdentityColumns, IdentityTables
<1>5. G \notin TripTable /\ E \notin TripTable BY DEF TripTable, TripIndexes
<1>6. G \notin Relaxed /\ E \notin Relaxed BY DEF Relaxed
<1>7. G \in Skills BY DEF Skills, IntelligenceTables
<1>8. E \notin Skills BY DEF Skills, IntelligenceColumns, IntelligenceTables
<1>9. E \in Outbox BY DEF Outbox, HardeningTables
<1>16. A \notin At1 /\ A \notin Suspended
  BY DEF At1, Initial, Revision, Suspended
<1>17. A \in PlatformTables BY DEF PlatformTables
<1>18. A \notin Strict BY DEF Strict
<1> HIDE DEF G, E, A
<1>10. /\ G \notin At1 /\ G \notin At2 /\ G \notin At3 /\ G \notin At4 /\ G \notin At5
       /\ G \notin At6 /\ G \notin At7
       /\ E \notin At1 /\ E \notin At2 /\ E \notin At3 /\ E \notin At4 /\ E \notin At5
       /\ E \notin At6 /\ E \notin At7
  BY <1>1, <1>2, <1>3, <1>4, <1>5, <1>6 DEF At2, At3, At4, At5, At6, At7
<1>11. /\ G \in At8 /\ G \in At9 /\ G \in At10 /\ G \in At13
       /\ E \notin At8 /\ E \in At9 /\ E \in At10 /\ E \in At13
  BY <1>7, <1>8, <1>9, <1>10 DEF At8, At9, At10, At13
<1>12. r < 8 => G \notin SchemaAt(r) BY <1>10, SchemaNumbers
<1>13. r >= 8 => G \in SchemaAt(r) BY <1>11, SchemaNumbers
<1>14. r < 9 => E \notin SchemaAt(r) BY <1>10, <1>11, SchemaNumbers
<1>15. r >= 9 => E \in SchemaAt(r) BY <1>11, SchemaNumbers
<1>19. A \notin At2 BY <1>16 DEF At2
<1>20. A \in At3 /\ A \in At4 /\ A \in At5 /\ A \in At6 BY <1>17 DEF At3, At4, At5, At6
<1>21. A \in At7 BY <1>18, <1>20 DEF At7
<1>22. A \in At8 /\ A \in At9 /\ A \in At10 /\ A \in At13 BY <1>21 DEF At8, At9, At10, At13
<1>23. r < 3 => A \notin SchemaAt(r) BY <1>16, <1>19, SchemaNumbers
<1>24. r >= 3 => A \in SchemaAt(r) BY <1>20, <1>21, <1>22, SchemaNumbers
<1> QED BY <1>12, <1>13, <1>14, <1>15, <1>23, <1>24 DEF Has, G, E, A

\* What an upgrade adds that rows may contradict.
LEMMA BreakableAdds ==
  ASSUME NEW r \in 1..13, NEW p \in Breakable, p \in Revisions[r].up.adds
  PROVE  \/ r = 3
         \/ r = 5 /\ Column(p) = <<"phone_otp_sessions", "table">>
         \/ r = 7 /\ p = <<"users", "uq_phone_verified">>
         \/ r = 9 /\ p = <<"device_tokens", "token_unique">>
<1> DEFINE P1 == <<"users", "email_not_null">>
           P2 == <<"users", "uq_phone_verified">>
           P3 == <<"phone_otp_sessions", "user_id_not_null">>
           P4 == <<"device_tokens", "token_unique">>
<1>1. p \in {P1, P2, P3, P4} BY DEF Breakable
<1> USE DEF Part, Table
<1>2. At1 \cap {P1, P2, P3, P4} = {} BY DEF At1, Initial, Revision
<1>3. Suspended \cap {P1, P2, P3, P4} = {} BY DEF Suspended
<1>4. Identity \cap {P1, P2, P4} = {} BY DEF Identity, IdentityColumns, IdentityTables
<1>5. TripTable \cap {P1, P2, P3, P4} = {} BY DEF TripTable, TripIndexes
<1>6. Relaxed \cap {P1, P3, P4} = {} BY DEF Relaxed
<1>7. Skills \cap {P1, P2, P3, P4} = {} BY DEF Skills, IntelligenceColumns, IntelligenceTables
<1>8. Outbox \cap {P1, P2, P3} = {} BY DEF Outbox, HardeningColumns, HardeningTables
<1>9. HotIndexes \cap {P1, P2, P3, P4} = {} BY DEF HotIndexes
<1>10. BloodGroupColumn \cap {P1, P2, P3, P4} = {} BY DEF BloodGroupColumn
<1>11. Column(P3) = <<"phone_otp_sessions", "table">> BY DEF Column
<1> HIDE DEF P1, P2, P3, P4, Part, Table
<1>12. CASE r \in {1, 2, 4, 6, 8, 10, 11, 12, 13}
  <2>1. Revisions[r].up.adds \in
          {At1, Suspended, TripTable, Skills, HotIndexes, {}, BloodGroupColumn}
    BY <1>12, UpChanges
  <2> QED BY <2>1, <1>1, <1>2, <1>3, <1>5, <1>7, <1>9, <1>10
<1>13. CASE r = 5
  <2>1. p \in Identity BY <1>13, UpChanges
  <2>2. p = P3 BY <2>1, <1>1, <1>4
  <2> QED BY <2>2, <1>11, <1>13
<1>14. CASE r = 7
  <2>1. p \in Relaxed BY <1>14, UpChanges
  <2>2. p = P2 BY <2>1, <1>1, <1>6
  <2> QED BY <2>2, <1>14 DEF P2
<1>15. CASE r = 9
  <2>1. p \in Outbox BY <1>15, UpChanges
  <2>2. p = P4 BY <2>1, <1>1, <1>8
  <2> QED BY <2>2, <1>15 DEF P4
<1>16. r = 3 \/ r \in {1, 2, 4, 6, 8, 10, 11, 12, 13} \/ r = 5 \/ r = 7 \/ r = 9
  BY RevisionNumbers
<1> QED BY <1>12, <1>13, <1>14, <1>15, <1>16

\* A database is not the failed one, and has its fields.
LEMMA Whole ==
  ASSUME NEW d \in Database
  PROVE  /\ d # Broken
         /\ d.schema \in {SchemaAt(k) : k \in 0..13} /\ d.offends \in SUBSET Breakable
         /\ d.types \in [Circle -> SUBSET AlertType]
         /\ d.alerts \in SUBSET AlertType /\ d.catalog \in SUBSET (Canonical \cup Retired)
<1>1. DOMAIN d = {"schema", "offends", "types", "alerts", "catalog"} BY DEF Database
<1>2. DOMAIN Broken = {"failed"} BY DEF Broken
<1>3. d # Broken BY <1>1, <1>2
<1> QED BY <1>3 DEF Database

-----------------------------------------------------------------------------
(* One step.                                                               *)

\* Replacing and normalizing codes leave known codes, and none that is retired;
\* a replaced code was normalized to its replacement anyway.
LEMMA ReplacedCodes ==
  ASSUME NEW S \in SUBSET AlertType
  PROVE  /\ \A R : Replaced(S, R) \in SUBSET AlertType
         /\ Replaced(S, Retired) \cap Retired = {}
         /\ Normalized(S) \in SUBSET AlertType /\ Normalized(S) \cap Retired = {}
         /\ \A R \in SUBSET Retired : Normalized(Replaced(S, R)) = Normalized(S)
<1>1. "need_pickup" \in AlertType /\ "need_pickup" \notin Retired
  BY DEF AlertType, Canonical, Retired
<1>2. \A t \in AlertType : CanonicalCode(t) \in AlertType /\ CanonicalCode(t) \notin Retired
  BY DEF CanonicalCode, AlertType, Canonical, Retired, Legacy
<1>3. /\ \A t \in Retired : CanonicalCode(t) = "need_pickup"
      /\ CanonicalCode("need_pickup") = "need_pickup"
  BY DEF CanonicalCode, Retired
<1>4. ASSUME NEW R \in SUBSET Retired PROVE Normalized(Replaced(S, R)) = Normalized(S)
  <2>1. CASE S \cap R = {}
    <3>1. Replaced(S, R) = S BY <2>1 DEF Replaced
    <3> QED BY <3>1
  <2>2. CASE S \cap R # {}
    <3>1. Replaced(S, R) = (S \ R) \cup {"need_pickup"} BY <2>2 DEF Replaced
    <3>2. \A t \in R : CanonicalCode(t) = "need_pickup" BY <1>3
    <3>3. PICK t \in S : t \in R BY <2>2
    <3>4. CanonicalCode(t) = "need_pickup" BY <3>2, <3>3
    <3> QED BY <1>3, <3>1, <3>2, <3>3, <3>4 DEF Normalized
  <2> QED BY <2>1, <2>2
<1> QED BY <1>1, <1>2, <1>4 DEF Replaced, Normalized

\* The rows that are left when the schema becomes S.
LEMMA RowsLeft ==
  ASSUME NEW d \in Database, NEW S \in {SchemaAt(k) : k \in 0..13}
  PROVE  /\ Remaining(d, S) \in Database
         /\ Remaining(d, S).schema = S
         /\ Remaining(d, S).offends = {p \in d.offends : Column(p) \in S}
         /\ \A c \in Circle : Remaining(d, S).types[c] =
              IF Has(S, "group_emergency_types") THEN d.types[c] ELSE {}
         /\ Remaining(d, S).alerts = IF Has(S, "alerts") THEN d.alerts ELSE {}
         /\ Remaining(d, S).catalog = IF Has(S, "emergency_types") THEN d.catalog ELSE {}
<1> USE Whole
<1> DEFINE T == [c \in Circle |-> IF Has(S, "group_emergency_types") THEN d.types[c] ELSE {}]
<1>1. T \in [Circle -> SUBSET AlertType] OBVIOUS
<1>2. {p \in d.offends : Column(p) \in S} \in SUBSET Breakable OBVIOUS
<1>3. /\ (IF Has(S, "alerts") THEN d.alerts ELSE {}) \in SUBSET AlertType
      /\ (IF Has(S, "emergency_types") THEN d.catalog ELSE {}) \in SUBSET (Canonical \cup Retired)
  OBVIOUS
<1>4. Remaining(d, S) \in Database
  BY <1>1, <1>2, <1>3 DEF Remaining, Database
<1> QED BY <1>4 DEF Remaining

\* What a revision makes of the rows: 009 seeds the catalog, 011 and 012
\* rewrite the codes, going back from them lists general_help again.
LEMMA RowsAfter ==
  ASSUME NEW d \in Database, NEW r \in 1..13, NEW way \in {"up", "down"},
         NEW e, e = RowsRewritten(d, r, way)
  PROVE  /\ e \in Database /\ e.schema = d.schema /\ e.offends = d.offends
         /\ (way = "up" /\ r = 11) => \A c \in Circle : e.types[c] = d.types[c] \ {"general_help"}
         /\ (way = "up" /\ r = 12) => \A c \in Circle : e.types[c] = Replaced(d.types[c], Retired)
         /\ (way = "down" \/ r \notin {11, 12}) => \A c \in Circle : e.types[c] = d.types[c]
         /\ (way = "up" /\ r = 9) => e.catalog = Canonical \cup {"general_help"}
         /\ (way = "up" /\ r = 11) => e.catalog = d.catalog \ {"general_help"}
         /\ (way = "up" /\ r = 12) => e.catalog = (d.catalog \cup {"need_pickup"}) \ Retired
         /\ (way = "up" /\ r \notin {9, 11, 12}) => e.catalog = d.catalog
         /\ (way = "down" /\ r \in {11, 12}) => e.catalog = d.catalog \cup {"general_help"}
         /\ (way = "down" /\ r \notin {11, 12}) => e.catalog = d.catalog
         /\ Normalized(e.alerts) = Normalized(d.alerts)
         /\ d.alerts = {} => e.alerts = {}
         /\ way = "down" => e.alerts = d.alerts
<1>0. /\ "need_pickup" \in Canonical /\ "general_help" \in Retired
      /\ Retired \in SUBSET Retired /\ {"general_help"} \in SUBSET Retired
  BY DEF Canonical, Retired
<1> DEFINE T11 == [c \in Circle |-> d.types[c] \ {"general_help"}]
           T12 == [c \in Circle |-> Replaced(d.types[c], Retired)]
<1>1. CASE r = 9 /\ way = "up"
  <2>1. e = [d EXCEPT !.catalog = Canonical \cup {"general_help"}]
    BY <1>1 DEF RowsRewritten, Seeded
  <2> QED BY <1>0, <1>1, <2>1 DEF Database
<1>2. CASE r = 11 /\ way = "up"
  <2> DEFINE A == Replaced(d.alerts, {"general_help"})
             C == d.catalog \ {"general_help"}
  <2>1. e = [d EXCEPT !.types = T11, !.alerts = A, !.catalog = C]
    BY <1>2 DEF RowsRewritten, Delisted
  <2>2. T11 \in [Circle -> SUBSET AlertType] BY Whole, ReplacedCodes
  <2>3. A \in SUBSET AlertType BY Whole, ReplacedCodes
  <2>8. Normalized(A) = Normalized(d.alerts) BY <1>0, Whole, ReplacedCodes
  <2>9. d.alerts = {} => A = {} BY DEF Replaced
  <2>4. C \in SUBSET (Canonical \cup Retired) BY <1>0, Whole
  <2>5. \A c \in Circle : T11[c] = d.types[c] \ {"general_help"} OBVIOUS
  <2> HIDE DEF T11, A, C
  <2>6. e \in Database BY <2>1, <2>2, <2>3, <2>4 DEF Database
  <2>7. /\ e.schema = d.schema /\ e.offends = d.offends /\ e.types = T11 /\ e.catalog = C
        /\ e.alerts = A
    BY <2>1 DEF Database
  <2> QED BY <1>2, <2>5, <2>6, <2>7, <2>8, <2>9 DEF C
<1>3. CASE r = 12 /\ way = "up"
  <2> DEFINE A == Replaced(d.alerts, Retired)
             C == (d.catalog \cup {"need_pickup"}) \ Retired
  <2>1. e = [d EXCEPT !.types = T12, !.alerts = A, !.catalog = C]
    BY <1>3 DEF RowsRewritten, Merged
  <2>2. T12 \in [Circle -> SUBSET AlertType] BY Whole, ReplacedCodes
  <2>3. A \in SUBSET AlertType BY Whole, ReplacedCodes
  <2>8. Normalized(A) = Normalized(d.alerts) BY <1>0, Whole, ReplacedCodes
  <2>9. d.alerts = {} => A = {} BY DEF Replaced
  <2>4. C \in SUBSET (Canonical \cup Retired) BY <1>0, Whole
  <2>5. \A c \in Circle : T12[c] = Replaced(d.types[c], Retired) OBVIOUS
  <2> HIDE DEF T12, A, C
  <2>6. e \in Database BY <2>1, <2>2, <2>3, <2>4 DEF Database
  <2>7. /\ e.schema = d.schema /\ e.offends = d.offends /\ e.types = T12 /\ e.catalog = C
        /\ e.alerts = A
    BY <2>1 DEF Database
  <2> QED BY <1>3, <2>5, <2>6, <2>7, <2>8, <2>9 DEF C
<1>4. CASE r \in {11, 12} /\ way = "down"
  <2>1. e = [d EXCEPT !.catalog = d.catalog \cup {"general_help"}]
    BY <1>4 DEF RowsRewritten, Relisted
  <2>2. d.catalog \cup {"general_help"} \in SUBSET (Canonical \cup Retired) BY <1>0, Whole
  <2> QED BY <1>4, <2>1, <2>2 DEF Database
<1>5. CASE /\ ~ (r = 9 /\ way = "up") /\ ~ (r = 11 /\ way = "up")
           /\ ~ (r = 12 /\ way = "up") /\ ~ (r \in {11, 12} /\ way = "down")
  <2>1. e = d BY <1>5 DEF RowsRewritten
  <2> QED BY <1>5, <2>1
<1> QED BY <1>1, <1>2, <1>3, <1>4, <1>5

\* A step breaks, or changes the schema and then the rows.
LEMMA StepIs ==
  ASSUME NEW d \in Database, NEW r \in 1..13, NEW way \in {"up", "down"}
  PROVE  Step(d, r, way) =
           IF Applies(d, Revisions[r][way], r \in Guarded)
           THEN RowsRewritten(Remaining(d, Changed(d.schema, r, way)), r, way)
           ELSE Broken
BY Whole DEF Step, Changed

\* An upgrade finds the schema of the revision before, or breaks.
LEMMA UpSchema ==
  ASSUME NEW r \in 1..13, NEW d, SoundAt(d, r - 1), Step(d, r, "up") # Broken
  PROVE  /\ d.schema = SchemaAt(r - 1)
         /\ Changed(d.schema, r, "up") = SchemaAt(r)
         /\ Revisions[r].up.adds \cap d.offends = {}
<1>1. d \in Database BY DEF SoundAt
<1>2. Applies(d, Revisions[r]["up"], r \in Guarded) BY <1>1, StepIs
<1>3. d.schema = SchemaAt(r - 1)
  <2>1. SUFFICES ASSUME r = 3, d.schema = {} PROVE FALSE BY DEF SoundAt
  <2>2. <<"users", "table">> \in Revisions[3]["up"].drops
    BY UpChanges DEF Tables
  <2>3. Has(d.schema, "users") BY <1>2, <2>1, <2>2 DEF Applies
  <2> QED BY <2>1, <2>3 DEF Has
<1>4. Revisions[r]["up"].adds \cap d.offends = {} BY <1>2 DEF Applies
<1> QED BY <1>3, <1>4, UpgradeFits

\* An upgrade by one revision keeps the invariant.
LEMMA StepUp ==
  ASSUME NEW r \in 1..13, NEW d, SoundAt(d, r - 1), Step(d, r, "up") # Broken
  PROVE  /\ SoundAt(Step(d, r, "up"), r)
         /\ Step(d, r, "up").schema = SchemaAt(r)
         /\ Step(d, r, "up").offends \subseteq d.offends
         /\ r = 11 => \A c \in Circle : Step(d, r, "up").types[c] = d.types[c] \ {"general_help"}
         /\ r = 12 => \A c \in Circle : Step(d, r, "up").types[c] = Replaced(d.types[c], Retired)
         /\ r \notin {11, 12} => \A c \in Circle : Step(d, r, "up").types[c] = d.types[c]
         /\ Normalized(Step(d, r, "up").alerts) = Normalized(d.alerts)
<1> DEFINE S == SchemaAt(r)
           m == Remaining(d, S)
           e == RowsRewritten(m, r, "up")
<1>1. d \in Database BY DEF SoundAt
<1>2. S \in {SchemaAt(k) : k \in 0..13} OBVIOUS
<1>3. /\ m \in Database
      /\ m.schema = S
      /\ m.offends = {p \in d.offends : Column(p) \in S}
      /\ \A c \in Circle : m.types[c] =
           IF Has(S, "group_emergency_types") THEN d.types[c] ELSE {}
      /\ m.alerts = IF Has(S, "alerts") THEN d.alerts ELSE {}
      /\ m.catalog = IF Has(S, "emergency_types") THEN d.catalog ELSE {}
  <2> HIDE DEF S
  <2> QED BY <1>1, <1>2, RowsLeft
<1>4. Step(d, r, "up") = e
  BY <1>1, StepIs, UpSchema
<1>5. /\ e \in Database /\ e.schema = m.schema /\ e.offends = m.offends
      /\ \A c \in Circle : e.types[c] =
           IF r = 11 THEN m.types[c] \ {"general_help"}
           ELSE IF r = 12 THEN Replaced(m.types[c], Retired)
           ELSE m.types[c]
      /\ e.catalog =
           IF r = 9 THEN Canonical \cup {"general_help"}
           ELSE IF r = 11 THEN m.catalog \ {"general_help"}
           ELSE IF r = 12 THEN (m.catalog \cup {"need_pickup"}) \ Retired
           ELSE m.catalog
      /\ Normalized(e.alerts) = Normalized(m.alerts)
      /\ m.alerts = {} => e.alerts = {}
  <2>1. e = RowsRewritten(m, r, "up") OBVIOUS
  <2>2. m \in Database BY <1>3
  <2> HIDE DEF m, e
  <2>3. e \in Database /\ e.schema = m.schema /\ e.offends = m.offends
    BY <2>1, <2>2, RowsAfter
  <2>4. /\ r = 11 => \A c \in Circle : e.types[c] = m.types[c] \ {"general_help"}
        /\ r = 12 => \A c \in Circle : e.types[c] = Replaced(m.types[c], Retired)
        /\ r \notin {11, 12} => \A c \in Circle : e.types[c] = m.types[c]
    BY <2>1, <2>2, RowsAfter
  <2>5. /\ r = 9 => e.catalog = Canonical \cup {"general_help"}
        /\ r = 11 => e.catalog = m.catalog \ {"general_help"}
        /\ r = 12 => e.catalog = (m.catalog \cup {"need_pickup"}) \ Retired
        /\ r \notin {9, 11, 12} => e.catalog = m.catalog
    BY <2>1, <2>2, RowsAfter
  <2>6. Normalized(e.alerts) = Normalized(m.alerts) /\ (m.alerts = {} => e.alerts = {})
    BY <2>1, <2>2, RowsAfter
  <2> QED BY <2>3, <2>4, <2>5, <2>6
<1>6. /\ Has(S, "group_emergency_types") <=> r >= 8
      /\ Has(S, "emergency_types") <=> r >= 9
      /\ Has(S, "alerts") <=> r >= 3
  BY TypeTables
<1>7. /\ d.schema = SchemaAt(r - 1) /\ Changed(d.schema, r, "up") = S
      /\ Revisions[r].up.adds \cap d.offends = {}
  BY UpSchema
<1> HIDE DEF S, m, e
<1>8. \A p \in e.offends : Column(p) \in e.schema /\ p \notin e.schema
  <2>1. SUFFICES ASSUME NEW p \in e.offends PROVE p \notin S BY <1>3, <1>5
  <2>2. p \in d.offends /\ p \notin d.schema BY <1>3, <1>5 DEF SoundAt
  <2>3. S \subseteq d.schema \cup Revisions[r].up.adds BY <1>7 DEF Changed, Kept
  <2> QED BY <2>2, <2>3, <1>7
<1>22. r - 1 < 3 => d.alerts = {} BY DEF SoundAt
<1>9. r < 3 => e.offends = {} /\ e.alerts = {}
  <2>1. r < 3 => d.offends = {} BY DEF SoundAt
  <2> QED BY <1>3, <1>5, <1>6, <2>1
<1>23. Normalized(e.alerts) = Normalized(d.alerts)
  <2>1. m.alerts = d.alerts BY <1>3, <1>6, <1>22
  <2> QED BY <1>5, <2>1
<1>10. r < 8 => \A c \in Circle : e.types[c] = {}
  BY <1>3, <1>5, <1>6
<1>11. Canonical \cap Retired = {} BY DEF Canonical, Retired
<1>12. "general_help" \notin Canonical /\ "need_pickup" \in Canonical /\ "general_help" \in Retired
  BY DEF Canonical, Retired
<1>13. r > 9 => Canonical \subseteq d.catalog BY DEF SoundAt
<1>14. m.catalog \in SUBSET (Canonical \cup Retired) BY <1>3, Whole
<1>15. r >= 9 => Canonical \subseteq e.catalog
  <2>1. CASE r = 9 BY <2>1, <1>5
  <2>2. CASE r > 9
    <3>1. Canonical \subseteq m.catalog BY <2>2, <1>3, <1>6, <1>13
    <3> QED BY <2>2, <1>5, <1>11, <1>12, <3>1
  <2> QED BY <2>1, <2>2
<1>16. r >= 12 => e.catalog = Canonical
  <2>1. CASE r = 12
    <3>1. Canonical \subseteq e.catalog BY <2>1, <1>15
    <3>2. e.catalog = (m.catalog \cup {"need_pickup"}) \ Retired BY <2>1, <1>5
    <3>3. e.catalog \subseteq Canonical BY <3>2, <1>11, <1>12, <1>14
    <3> QED BY <3>1, <3>3
  <2>2. CASE r = 13
    <3>1. e.catalog = d.catalog BY <2>2, <1>3, <1>5, <1>6
    <3>2. d.catalog = Canonical BY <2>2 DEF SoundAt
    <3> QED BY <3>1, <3>2
  <2> QED BY <2>1, <2>2
<1>17. r >= 12 => \A c \in Circle : e.types[c] \cap Retired = {}
  <2>1. CASE r = 12
    <3>1. ASSUME NEW c \in Circle PROVE e.types[c] \cap Retired = {}
      <4>1. e.types[c] = Replaced(m.types[c], Retired) BY <2>1, <1>5
      <4>2. m.types[c] \in SUBSET AlertType BY <1>3, Whole
      <4> QED BY <4>1, <4>2, ReplacedCodes
    <3> QED BY <3>1
  <2>2. CASE r = 13
    <3>1. \A c \in Circle : e.types[c] = d.types[c] BY <2>2, <1>3, <1>5, <1>6
    <3>2. \A c \in Circle : d.types[c] \cap Retired = {} BY <2>2 DEF SoundAt
    <3> QED BY <3>1, <3>2
  <2> QED BY <2>1, <2>2
<1>18. SoundAt(e, r)
  BY <1>3, <1>5, <1>8, <1>9, <1>10, <1>15, <1>16, <1>17 DEF SoundAt, S
<1>19. e.schema = SchemaAt(r) BY <1>3, <1>5 DEF S
<1>20. e.offends \subseteq d.offends BY <1>3, <1>5
<1>21. /\ r = 11 => \A c \in Circle : e.types[c] = d.types[c] \ {"general_help"}
       /\ r = 12 => \A c \in Circle : e.types[c] = Replaced(d.types[c], Retired)
       /\ r \notin {11, 12} => \A c \in Circle : e.types[c] = d.types[c]
  <2>1. \A c \in Circle : m.types[c] = d.types[c]
    <3>1. r - 1 < 8 => \A c \in Circle : d.types[c] = {} BY DEF SoundAt
    <3>2. CASE r < 8 BY <1>3, <1>6, <3>1, <3>2
    <3>3. CASE r >= 8 BY <1>3, <1>6, <3>3
    <3> QED BY <3>2, <3>3
  <2>2. r = 11 => \A c \in Circle : e.types[c] = d.types[c] \ {"general_help"} BY <2>1, <1>5
  <2>3. r = 12 => \A c \in Circle : e.types[c] = Replaced(d.types[c], Retired) BY <2>1, <1>5
  <2>4. r \notin {11, 12} => \A c \in Circle : e.types[c] = d.types[c]
    BY <2>1, <1>5
  <2> QED BY <2>2, <2>3, <2>4
<1> QED BY <1>4, <1>18, <1>19, <1>20, <1>21, <1>23

\* A downgrade leads to the schema of the revision before, 003's to none.
LEMMA StepDown ==
  ASSUME NEW r \in 1..13, NEW d, SoundAt(d, r), Step(d, r, "down") # Broken
  PROVE  /\ SoundAt(Step(d, r, "down"), r - 1)
         /\ r > 8 => \A c \in Circle : Step(d, r, "down").types[c] = d.types[c]
         /\ r > 3 => Step(d, r, "down").alerts = d.alerts
<1> DEFINE n == r - 1
           S == IF r = 3 THEN {} ELSE SchemaAt(n)
           m == Remaining(d, S)
           e == RowsRewritten(m, r, "down")
<1>1. d \in Database BY DEF SoundAt
<1>2. S \in {SchemaAt(k) : k \in 0..13}
  <2>1. {} = SchemaAt(0) BY SchemaNumbers
  <2>2. n \in 0..13 OBVIOUS
  <2> QED BY <2>1, <2>2
<1>3. Applies(d, Revisions[r]["down"], r \in Guarded) BY <1>1, StepIs
<1>4. d.schema = SchemaAt(r)
  <2>1. SUFFICES ASSUME r = 2, d.schema = {} PROVE FALSE BY DEF SoundAt
  <2>2. Revisions[2]["down"].drops = Suspended BY DEF Revisions, SuspendedLegacy, Revision
  <2>3. <<"users", "suspended">> \in Suspended BY DEF Suspended, Part
  <2>4. Has(d.schema, "users") BY <1>3, <2>1, <2>2, <2>3 DEF Applies
  <2> QED BY <2>1, <2>4 DEF Has
<1>5. Changed(d.schema, r, "down") = S BY <1>4, DowngradeFits
<1>6. Step(d, r, "down") = e BY <1>1, <1>3, <1>5, StepIs
<1>7. /\ m \in Database
      /\ m.schema = S
      /\ m.offends = {p \in d.offends : Column(p) \in S}
      /\ \A c \in Circle : m.types[c] =
           IF Has(S, "group_emergency_types") THEN d.types[c] ELSE {}
      /\ m.alerts = IF Has(S, "alerts") THEN d.alerts ELSE {}
      /\ m.catalog = IF Has(S, "emergency_types") THEN d.catalog ELSE {}
  <2> HIDE DEF S
  <2> QED BY <1>1, <1>2, RowsLeft
<1>8. /\ e \in Database /\ e.schema = m.schema /\ e.offends = m.offends
      /\ \A c \in Circle : e.types[c] = m.types[c]
      /\ e.catalog = IF r \in {11, 12} THEN m.catalog \cup {"general_help"} ELSE m.catalog
      /\ e.alerts = m.alerts
  <2>1. e = RowsRewritten(m, r, "down") OBVIOUS
  <2>2. m \in Database BY <1>7
  <2> HIDE DEF m, e
  <2>3. e \in Database /\ e.schema = m.schema /\ e.offends = m.offends
    BY <2>1, <2>2, RowsAfter
  <2>4. \A c \in Circle : e.types[c] = m.types[c] BY <2>1, <2>2, RowsAfter
  <2>5. /\ r \in {11, 12} => e.catalog = m.catalog \cup {"general_help"}
        /\ r \notin {11, 12} => e.catalog = m.catalog
    BY <2>1, <2>2, RowsAfter
  <2>6. e.alerts = m.alerts BY <2>1, <2>2, RowsAfter
  <2> QED BY <2>3, <2>4, <2>5, <2>6
<1>9. /\ Has(S, "group_emergency_types") <=> n >= 8
      /\ Has(S, "emergency_types") <=> n >= 9
      /\ Has(S, "alerts") <=> n >= 3
  <2>1. n \in 0..13 OBVIOUS
  <2>2. CASE r = 3 BY <2>2 DEF Has
  <2>3. CASE r # 3 BY <2>1, <2>3, TypeTables
  <2> QED BY <2>2, <2>3
<1> HIDE DEF m, e
<1>10. SUFFICES /\ SoundAt(e, n)
                /\ r > 8 => \A c \in Circle : e.types[c] = d.types[c]
                /\ r > 3 => e.alerts = d.alerts
  BY <1>6
<1>11. e.schema = SchemaAt(n) \/ (n = 2 /\ e.schema = {}) BY <1>7, <1>8
<1>12. n < 3 => e.offends = {} /\ e.alerts = {}
  <2>1. CASE r = 3 BY <2>1, <1>7, <1>8, <1>9
  <2>2. CASE r < 3 BY <2>2, <1>7, <1>8, <1>9 DEF SoundAt
  <2> QED BY <2>1, <2>2
<1> HIDE DEF S
<1>13. \A p \in e.offends : Column(p) \in e.schema /\ p \notin e.schema
  <2>1. SUFFICES ASSUME NEW p \in e.offends PROVE p \notin S BY <1>7, <1>8
  <2>2. p \in d.offends /\ p \notin d.schema BY <1>7, <1>8 DEF SoundAt
  <2>3. S \subseteq d.schema \cup Revisions[r]["down"].adds BY <1>5 DEF Changed, Kept
  <2>4. Revisions[r]["down"].adds \cap d.offends = {} BY <1>3 DEF Applies
  <2> QED BY <2>2, <2>3, <2>4
<1>14. n < 8 => \A c \in Circle : e.types[c] = {}
  BY <1>7, <1>8, <1>9
<1>15. n >= 9 => Canonical \subseteq e.catalog
  <2>1. n >= 9 => Canonical \subseteq d.catalog BY DEF SoundAt
  <2> QED BY <2>1, <1>7, <1>8, <1>9
<1>16. n >= 12 => e.catalog = Canonical /\ \A c \in Circle : e.types[c] \cap Retired = {}
  <2>1. n >= 12 => /\ r = 13 /\ d.catalog = Canonical
                   /\ \A c \in Circle : d.types[c] \cap Retired = {}
    BY DEF SoundAt
  <2> QED BY <2>1, <1>7, <1>8, <1>9
<1>17. SoundAt(e, n)
  BY <1>8, <1>11, <1>12, <1>13, <1>14, <1>15, <1>16 DEF SoundAt
<1>18. r > 8 => \A c \in Circle : e.types[c] = d.types[c]
  BY <1>7, <1>8, <1>9
<1>19. r > 3 => e.alerts = d.alerts BY <1>7, <1>8, <1>9
<1> QED BY <1>17, <1>18, <1>19

-----------------------------------------------------------------------------
(* Whole commands.                                                         *)

\* No step leads out of a failed transaction.
LEMMA BrokenStays ==
  \A r, way : Step(Broken, r, way) = Broken
BY DEF Step

\* What commands make of the codes: of circles 011 drops general_help, and
\* everything else still reads as the same codes.
Dropped(from, r) == IF from < 11 /\ r >= 11 THEN {"general_help"} ELSE {}
Rewritten(d, from, e, r) ==
  /\ Normalized(e.alerts) = Normalized(d.alerts)
  /\ \A c \in Circle :
       /\ r < 11 => e.types[c] = d.types[c]
       /\ Normalized(e.types[c]) = Normalized(d.types[c] \ Dropped(from, r))

\* Upgrades keep the invariant, and codes as Rewritten says.
LEMMA UpgradeSound ==
  ASSUME NEW from \in 0..13, NEW to \in 0..13, from <= to, NEW d, SoundAt(d, from),
         Upgraded(d, from, to) # Broken
  PROVE  /\ SoundAt(Upgraded(d, from, to), to)
         /\ Rewritten(d, from, Upgraded(d, from, to), to)
<1>0. from \in Nat /\ to \in Nat OBVIOUS
<1>1. PICK f : /\ f[from] = d /\ f[to] = Upgraded(d, from, to)
               /\ \A r \in (from + 1)..to : f[r] = Step(f[r - 1], r, "up")
  BY <1>0, UpgradePath
<1> DEFINE Good == {r \in from..to :
                      f[r] = Broken \/ (SoundAt(f[r], r) /\ Rewritten(d, from, f[r], r))}
<1>2. from \in Good
  <2>1. Dropped(from, from) = {} BY DEF Dropped
  <2>2. Rewritten(d, from, d, from) BY <2>1 DEF Rewritten
  <2> QED BY <1>1, <2>2
<1>3. ASSUME NEW r \in (from + 1)..to, r - 1 \in Good PROVE r \in Good
  <2> DEFINE x == f[r - 1]
             e == f[r]
  <2>1. e = Step(x, r, "up") BY <1>1
  <2>2. CASE x = Broken
    <3>1. e = Broken BY <2>1, <2>2, BrokenStays
    <3> QED BY <3>1
  <2>3. CASE e = Broken BY <2>3
  <2>4. CASE x # Broken /\ e # Broken
    <3>1. SoundAt(x, r - 1) /\ Rewritten(d, from, x, r - 1) BY <1>3, <2>4
    <3>2. r \in 1..13 OBVIOUS
    <3>3. Step(x, r, "up") # Broken BY <2>1, <2>4
    <3> HIDE DEF x, e
    <3>4. /\ SoundAt(e, r)
          /\ r = 11 => \A c \in Circle : e.types[c] = x.types[c] \ {"general_help"}
          /\ r = 12 => \A c \in Circle : e.types[c] = Replaced(x.types[c], Retired)
          /\ r \notin {11, 12} => \A c \in Circle : e.types[c] = x.types[c]
          /\ Normalized(e.alerts) = Normalized(x.alerts)
      BY <2>1, <3>1, <3>2, <3>3, StepUp
    <3>5. Rewritten(d, from, e, r)
      <4>1. Normalized(e.alerts) = Normalized(d.alerts) BY <3>1, <3>4 DEF Rewritten
      <4> SUFFICES ASSUME NEW c \in Circle
                   PROVE  /\ r < 11 => e.types[c] = d.types[c]
                          /\ Normalized(e.types[c]) = Normalized(d.types[c] \ Dropped(from, r))
        BY <4>1 DEF Rewritten
      <4>2. /\ r - 1 < 11 => x.types[c] = d.types[c]
            /\ Normalized(x.types[c]) = Normalized(d.types[c] \ Dropped(from, r - 1))
        BY <3>1 DEF Rewritten
      <4>3. CASE r = 11
        <5>1. e.types[c] = x.types[c] \ {"general_help"} BY <3>4, <4>3
        <5>2. x.types[c] = d.types[c] BY <4>2, <4>3
        <5>3. Dropped(from, r) = {"general_help"} BY <4>3 DEF Dropped
        <5> QED BY <4>3, <5>1, <5>2, <5>3
      <4>4. CASE r # 11
        <5>1. Dropped(from, r) = Dropped(from, r - 1) BY <4>4 DEF Dropped
        <5>2. CASE r = 12
          <6>1. e.types[c] = Replaced(x.types[c], Retired) BY <3>4, <5>2
          <6>2. x.types[c] \in SUBSET AlertType BY <3>1, Whole DEF SoundAt
          <6>3. Normalized(e.types[c]) = Normalized(x.types[c]) BY <6>1, <6>2, ReplacedCodes
          <6> QED BY <4>2, <5>1, <5>2, <6>3
        <5>3. CASE r # 12
          <6>1. e.types[c] = x.types[c] BY <3>4, <4>4, <5>3
          <6> QED BY <4>2, <4>4, <5>1, <6>1
        <5> QED BY <5>2, <5>3
      <4> QED BY <4>3, <4>4
    <3> QED BY <3>4, <3>5 DEF e
  <2> QED BY <2>2, <2>3, <2>4
<1> HIDE DEF Good
<1>4. to \in Good BY <1>2, <1>3, Ascending
<1> QED BY <1>1, <1>4 DEF Good

\* Downgrades keep the invariant, types down to 008 and alerts down to 003.
LEMMA DowngradeSound ==
  ASSUME NEW from \in 0..13, NEW to \in 0..13, to <= from, NEW d, SoundAt(d, from),
         Downgraded(d, from, to) # Broken
  PROVE  /\ SoundAt(Downgraded(d, from, to), to)
         /\ to >= 8 => \A c \in Circle : Downgraded(d, from, to).types[c] = d.types[c]
         /\ to >= 3 => Downgraded(d, from, to).alerts = d.alerts
<1>0. from \in Nat /\ to \in Nat OBVIOUS
<1>1. PICK f : /\ f[from] = d /\ f[to] = Downgraded(d, from, to)
               /\ \A r \in to..(from - 1) : f[r] = Step(f[r + 1], r + 1, "down")
  BY <1>0, DowngradePath
<1> DEFINE Same(e, r) == /\ r >= 8 => \A c \in Circle : e.types[c] = d.types[c]
                         /\ r >= 3 => e.alerts = d.alerts
           Good == {r \in to..from : f[r] = Broken \/ (SoundAt(f[r], r) /\ Same(f[r], r))}
<1>2. from \in Good BY <1>1
<1>3. ASSUME NEW r \in to..(from - 1), r + 1 \in Good PROVE r \in Good
  <2> DEFINE x == f[r + 1]
             e == f[r]
  <2>1. e = Step(x, r + 1, "down") BY <1>1
  <2>2. CASE x = Broken
    <3>1. e = Broken BY <2>1, <2>2, BrokenStays
    <3> QED BY <3>1
  <2>3. CASE e = Broken BY <2>3
  <2>4. CASE x # Broken /\ e # Broken
    <3>1. SoundAt(x, r + 1) /\ Same(x, r + 1) BY <1>3, <2>4
    <3>2. r + 1 \in 1..13 /\ (r + 1) - 1 = r OBVIOUS
    <3>3. Step(x, r + 1, "down") # Broken BY <2>1, <2>4
    <3> HIDE DEF x, e
    <3>4. /\ SoundAt(Step(x, r + 1, "down"), (r + 1) - 1)
          /\ r + 1 > 8 => \A c \in Circle : Step(x, r + 1, "down").types[c] = x.types[c]
          /\ r + 1 > 3 => Step(x, r + 1, "down").alerts = x.alerts
      BY <3>1, <3>2, <3>3, StepDown
    <3>5. SoundAt(e, r) BY <2>1, <3>2, <3>4
    <3>6. Same(e, r) BY <2>1, <3>1, <3>4
    <3> QED BY <3>5, <3>6 DEF e
  <2> QED BY <2>2, <2>3, <2>4
<1> HIDE DEF Good
<1>4. to \in Good BY <1>2, <1>3, Descending
<1> QED BY <1>1, <1>4 DEF Good

\* An upgrade goes through unless a row contradicts a constraint to come.
LEMMA UpgradeGoes ==
  ASSUME NEW from \in 0..13, NEW to \in 0..13, from <= to, NEW d, SoundAt(d, from),
         d.schema = SchemaAt(from),
         from < 7 => <<"users", "uq_phone_verified">> \notin d.offends,
         from < 9 => <<"device_tokens", "token_unique">> \notin d.offends
  PROVE  Upgraded(d, from, to) # Broken /\ Upgraded(d, from, to).schema = SchemaAt(to)
<1>0. from \in Nat /\ to \in Nat OBVIOUS
<1>1. PICK f : /\ f[from] = d /\ f[to] = Upgraded(d, from, to)
               /\ \A r \in (from + 1)..to : f[r] = Step(f[r - 1], r, "up")
  BY <1>0, UpgradePath
<1> DEFINE Good == {r \in from..to : /\ SoundAt(f[r], r) /\ f[r].schema = SchemaAt(r)
                                     /\ f[r].offends \subseteq d.offends}
<1>2. from \in Good BY <1>1
<1>3. ASSUME NEW r \in (from + 1)..to, r - 1 \in Good PROVE r \in Good
  <2> DEFINE x == f[r - 1]
  <2>1. f[r] = Step(x, r, "up") BY <1>1
  <2>2. SoundAt(x, r - 1) /\ x.schema = SchemaAt(r - 1) /\ x.offends \subseteq d.offends
    BY <1>3
  <2>3. r \in 1..13 OBVIOUS
  <2> HIDE DEF x
  <2>4. x \in Database BY <2>2 DEF SoundAt
  <2>5. Revisions[r].up.adds \cap x.offends = {}
    <3> SUFFICES ASSUME NEW p \in x.offends, p \in Revisions[r].up.adds PROVE FALSE
      OBVIOUS
    <3>1. p \in Breakable BY <2>4, Whole
    <3>2. Column(p) \in SchemaAt(r - 1) BY <2>2 DEF SoundAt
    <3>3. CASE r = 3 BY <2>2, <3>3 DEF SoundAt
    <3>4. CASE r = 5 /\ Column(p) = <<"phone_otp_sessions", "table">>
      <4>1. <<"phone_otp_sessions", "table">> \notin PlatformTables
        BY DEF PlatformTables, Part, Table
      <4>2. <<"phone_otp_sessions", "table">> \notin Suspended BY DEF Suspended, Part
      <4>3. <<"phone_otp_sessions", "table">> \notin At4 BY <4>1, <4>2 DEF At3, At4
      <4> QED BY <3>2, <3>4, <4>3, SchemaNumbers
    <3>5. CASE r = 7 /\ p = <<"users", "uq_phone_verified">> BY <2>2, <3>5
    <3>6. CASE r = 9 /\ p = <<"device_tokens", "token_unique">> BY <2>2, <3>6
    <3> QED BY <2>3, <3>1, <3>3, <3>4, <3>5, <3>6, BreakableAdds
  <2>6. Applies(x, Revisions[r]["up"], r \in Guarded)
    BY <2>2, <2>3, <2>5, UpgradeFits DEF Fits, Applies
  <2>7. Step(x, r, "up") # Broken
    <3>1. Changed(x.schema, r, "up") = SchemaAt(r) BY <2>2, <2>3, UpgradeFits
    <3>2. Step(x, r, "up") = RowsRewritten(Remaining(x, SchemaAt(r)), r, "up")
      BY <2>3, <2>4, <2>6, <3>1, StepIs
    <3>3. SchemaAt(r) \in {SchemaAt(k) : k \in 0..13} BY <2>3
    <3>4. Remaining(x, SchemaAt(r)) \in Database BY <2>4, <3>3, RowsLeft
    <3>5. RowsRewritten(Remaining(x, SchemaAt(r)), r, "up") \in Database
      BY <2>3, <3>4, RowsAfter
    <3> QED BY <3>2, <3>5, Whole
  <2>8. /\ SoundAt(f[r], r) /\ f[r].schema = SchemaAt(r)
        /\ f[r].offends \subseteq x.offends
    BY <2>1, <2>2, <2>3, <2>7, StepUp
  <2> QED BY <2>2, <2>8
<1> HIDE DEF Good
<1>4. to \in Good BY <1>2, <1>3, Ascending
<1>5. SoundAt(f[to], to) /\ f[to].schema = SchemaAt(to) BY <1>4 DEF Good
<1>6. f[to] # Broken BY <1>5, Whole DEF SoundAt
<1> QED BY <1>1, <1>5, <1>6

\* The empty database is sound.
LEMMA EmptySound ==
  /\ SoundAt(EmptyDb, 0) /\ EmptyDb.schema = SchemaAt(0) /\ EmptyDb.offends = {}
<1>1. SchemaAt(0) = {} /\ 0 \in 0..13 BY SchemaNumbers
<1>2. {} \in {SchemaAt(k) : k \in 0..13} BY <1>1
<1>3. EmptyDb \in Database BY <1>2 DEF EmptyDb, Database
<1>4. /\ EmptyDb.schema = {} /\ EmptyDb.offends = {}
      /\ EmptyDb.alerts = {} /\ \A c \in Circle : EmptyDb.types[c] = {}
  BY DEF EmptyDb
<1> QED BY <1>1, <1>3, <1>4 DEF SoundAt

\* A new database has the schema of its revision.
LEMMA FreshSchemas ==
  ASSUME NEW r \in 0..13
  PROVE  Fresh[r] = SchemaAt(r)
<1>1. Fresh[r] = Upgraded(EmptyDb, 0, r).schema BY RevisionNumbers DEF Fresh
<1>2. 0 \in 0..13 /\ 0 <= r OBVIOUS
<1>3. Upgraded(EmptyDb, 0, r).schema = SchemaAt(r) BY <1>2, EmptySound, UpgradeGoes
<1> QED BY <1>1, <1>3

-----------------------------------------------------------------------------
(* The specification.                                                      *)

\* Every command and every write keeps the invariant.
LEMMA SoundIsInductive ==
  Init /\ [][Next]_vars => []Sound
<1>1. Init => Sound BY EmptySound DEF Init, Sound
<1>2. Sound /\ [Next]_vars => Sound'
  <2> SUFFICES ASSUME Sound, [Next]_vars PROVE Sound' OBVIOUS
  <2>0. /\ rev \in 0..13 /\ writes \in Nat /\ SoundAt(db, rev) /\ db \in Database
    BY DEF Sound, SoundAt
  <2>1. ASSUME NEW to \in 0..Latest, Upgrade(to) PROVE Sound'
    <3>1. /\ to \in 0..13 /\ rev < to /\ rev' = to /\ writes' = writes
          /\ db' = Upgraded(db, rev, to) /\ db' # Broken
      BY <2>1, RevisionNumbers DEF Upgrade, Commit
    <3>2. SoundAt(Upgraded(db, rev, to), to) BY <2>0, <3>1, UpgradeSound
    <3>3. SoundAt(db', rev') BY <3>1, <3>2
    <3> QED BY <2>0, <3>1, <3>3 DEF Sound, SoundAt
  <2>2. ASSUME NEW to \in 0..Latest, Downgrade(to) PROVE Sound'
    <3>1. /\ to \in 0..13 /\ to < rev /\ rev' = to /\ writes' = writes
          /\ db' = Downgraded(db, rev, to) /\ db' # Broken
      BY <2>2, RevisionNumbers DEF Downgrade, Commit
    <3>2. SoundAt(Downgraded(db, rev, to), to) BY <2>0, <3>1, DowngradeSound
    <3>3. SoundAt(db', rev') BY <3>1, <3>2
    <3> QED BY <2>0, <3>1, <3>3 DEF Sound, SoundAt
  <2>3. ASSUME NEW p \in Breakable, Offend(p) PROVE Sound'
    <3> PICK e : e = [db EXCEPT !.offends = db.offends \cup {p}] OBVIOUS
    <3>1. db' = e /\ rev' = rev /\ writes' \in Nat /\ rev >= 3
      BY <2>0, <2>3 DEF Offend, Write
    <3>2. /\ e \in Database /\ e.schema = db.schema /\ e.types = db.types
          /\ e.catalog = db.catalog /\ e.offends = db.offends \cup {p} /\ e.alerts = db.alerts
      BY <2>0, Whole DEF Database
    <3>3. Column(p) \in db.schema /\ p \notin db.schema BY <2>3 DEF Offend
    <3>4. SoundAt(e, rev) BY <2>0, <3>1, <3>2, <3>3 DEF SoundAt
    <3> QED BY <2>0, <3>1, <3>4 DEF Sound, SoundAt
  <2>4. ASSUME NEW p \in Breakable, Mend(p) PROVE Sound'
    <3> PICK e : e = [db EXCEPT !.offends = db.offends \ {p}] OBVIOUS
    <3>1. db' = e /\ rev' = rev /\ writes' \in Nat
      BY <2>0, <2>4 DEF Mend, Write
    <3>2. /\ e \in Database /\ e.schema = db.schema /\ e.types = db.types
          /\ e.catalog = db.catalog /\ e.offends = db.offends \ {p} /\ e.alerts = db.alerts
      BY <2>0, Whole DEF Database
    <3>3. SoundAt(e, rev) BY <2>0, <3>2 DEF SoundAt
    <3> QED BY <2>0, <3>1, <3>3 DEF Sound, SoundAt
  <2>5. ASSUME NEW c \in Circle, NEW S \in SUBSET AlertType, SetTypes(c, S) PROVE Sound'
    <3> PICK T : T = [db.types EXCEPT ![c] = StoredTypes(S)] OBVIOUS
    <3> PICK e : e = [db EXCEPT !.types = T] OBVIOUS
    <3>1. rev' = rev /\ writes' \in Nat /\ db' = [db EXCEPT !.types[c] = StoredTypes(S)]
      BY <2>0, <2>5 DEF SetTypes, Write
    <3>2. db' = e BY <3>1
    <3>3. StoredTypes(S) \in SUBSET AlertType /\ (rev >= 12 => StoredTypes(S) \cap Retired = {})
      BY <2>0, ReplacedCodes DEF StoredTypes
    <3>4. db.types \in [Circle -> SUBSET AlertType] BY <2>0, Whole
    <3>5. /\ T \in [Circle -> SUBSET AlertType]
          /\ \A k \in Circle : T[k] = IF k = c THEN StoredTypes(S) ELSE db.types[k]
      BY <3>3, <3>4
    <3>6. /\ e \in Database /\ e.schema = db.schema /\ e.types = T
          /\ e.catalog = db.catalog /\ e.offends = db.offends /\ e.alerts = db.alerts
      BY <2>0, <3>5 DEF Database
    <3>7. rev >= 8
      <4>1. Has(db.schema, "group_emergency_types") BY <2>5 DEF SetTypes
      <4>2. db.schema = SchemaAt(rev) BY <2>0, <4>1 DEF SoundAt, Has
      <4> QED BY <2>0, <4>1, <4>2, TypeTables
    <3>8. rev >= 12 => \A k \in Circle : e.types[k] \cap Retired = {}
      BY <2>0, <3>3, <3>5, <3>6 DEF SoundAt
    <3>9. SoundAt(e, rev) BY <2>0, <3>6, <3>7, <3>8 DEF SoundAt
    <3> QED BY <2>0, <3>1, <3>2, <3>9 DEF Sound, SoundAt
  <2>6. ASSUME NEW t \in AlertType, CreateAlert(t) PROVE Sound'
    <3> PICK e : e = [db EXCEPT !.alerts = db.alerts \cup {t}] OBVIOUS
    <3>1. db' = e /\ rev' = rev /\ writes' \in Nat
      BY <2>0, <2>6 DEF CreateAlert, Write
    <3>2. /\ e \in Database /\ e.schema = db.schema /\ e.types = db.types
          /\ e.catalog = db.catalog /\ e.offends = db.offends
      BY <2>0, Whole DEF Database
    <3>3. rev >= 3
      <4>1. Has(db.schema, "alerts") BY <2>6 DEF CreateAlert
      <4>2. db.schema = SchemaAt(rev) BY <2>0, <4>1 DEF SoundAt, Has
      <4> QED BY <2>0, <4>1, <4>2, TypeTables
    <3>4. SoundAt(e, rev) BY <2>0, <3>2, <3>3 DEF SoundAt
    <3> QED BY <2>0, <3>1, <3>4 DEF Sound, SoundAt
  <2>7. CASE UNCHANGED vars BY <2>0, <2>7 DEF vars, Sound, SoundAt
  <2> QED BY <2>1, <2>2, <2>3, <2>4, <2>5, <2>6, <2>7 DEF Next
<1> QED BY <1>1, <1>2, PTL

\* Every database that commands and writes lead to is one of its revision.
THEOREM SoundCorrect == Spec => []Sound
BY SoundIsInductive DEF Spec

\* Every part the models of the head declare is in the head's schema, and no
\* constraint on what the services leave empty.
LEMMA HeadHasTheModels ==
  /\ PeopleModels \cup CircleModels \cup AlertModels \cup ResponderModels \subseteq At13
  /\ LeftEmpty \cap At13 = {}
<1> DEFINE All == PlatformTables \cup Suspended \cup Identity \cup TripTable \cup Relaxed
                    \cup Skills \cup Outbox \cup BloodGroupColumn
<1> USE DEF Part, Table
<1>1. PeopleModels \subseteq PlatformTables \cup Suspended \cup Identity \cup Relaxed \cup Skills
                              \cup BloodGroupColumn
  BY DEF PeopleModels, PlatformTables, Suspended, Identity, IdentityColumns, Relaxed, Skills,
     IntelligenceColumns, BloodGroupColumn
<1>2. CircleModels \subseteq PlatformTables \cup Identity \cup Skills
  BY DEF CircleModels, PlatformTables, Identity, IdentityColumns, IdentityTables, Skills,
     IntelligenceColumns
<1>3. AlertModels \subseteq PlatformTables \cup TripTable \cup Skills \cup Outbox
  BY DEF AlertModels, PlatformTables, TripTable, TripIndexes, Skills, IntelligenceColumns,
     Outbox, HardeningColumns
<1>4. ResponderModels \subseteq Skills \cup Outbox
  BY DEF ResponderModels, Skills, IntelligenceTables, Outbox, HardeningColumns, HardeningTables
<1> DEFINE Models == PeopleModels \cup CircleModels \cup AlertModels \cup ResponderModels
<1>5. Models \cap Strict = {}
  <2>1. PeopleModels \cap Strict = {} BY DEF PeopleModels, Strict
  <2>2. CircleModels \cap Strict = {} BY DEF CircleModels, Strict
  <2>3. AlertModels \cap Strict = {} BY DEF AlertModels, Strict
  <2>4. ResponderModels \cap Strict = {} BY DEF ResponderModels, Strict
  <2> QED BY <2>1, <2>2, <2>3, <2>4
<1>6. LeftEmpty \subseteq Strict BY DEF LeftEmpty, Strict
<1>7. /\ LeftEmpty \cap Relaxed = {} /\ LeftEmpty \cap HotIndexes = {}
      /\ LeftEmpty \cap BloodGroupColumn = {}
  BY DEF LeftEmpty, Relaxed, HotIndexes, BloodGroupColumn
<1>8. LeftEmpty \cap Skills = {}
  BY DEF LeftEmpty, Skills, IntelligenceColumns, IntelligenceTables
<1>9. LeftEmpty \cap Outbox = {}
  BY DEF LeftEmpty, Outbox, HardeningColumns, HardeningTables
<1> HIDE DEF Part, Table, Models
<1>10. Models \subseteq All BY <1>1, <1>2, <1>3, <1>4 DEF Models
<1>11. All \ Strict \subseteq At13
  BY DEF At3, At4, At5, At6, At7, At8, At9, At10, At13
<1>12. LeftEmpty \cap At13 = {}
  BY <1>6, <1>7, <1>8, <1>9 DEF At7, At8, At9, At10, At13
<1>13. Models \subseteq At13
  <2> HIDE DEF All
  <2> QED BY <1>5, <1>10, <1>11
<1> QED BY <1>12, <1>13 DEF Models

\* Whatever upgrades and downgrades led there, a database from 003 on has the
\* tables, columns, indexes and constraints of a new one at its revision, and
\* at the head all that the models declare (alembic/versions).
THEOREM SchemaIsTheRevisionsCorrect == Spec => []SchemaIsTheRevisions
<1>1. Sound => SchemaIsTheRevisions
  <2> SUFFICES ASSUME Sound PROVE SchemaIsTheRevisions OBVIOUS
  <2>1. rev \in 0..13 BY DEF Sound
  <2>2. rev >= 3 => db.schema = SchemaAt(rev) BY DEF Sound, SoundAt
  <2>3. rev >= 3 => db.schema = Fresh[rev] BY <2>1, <2>2, FreshSchemas
  <2>4. rev = Latest => db.schema = At13 BY <2>2, RevisionNumbers, SchemaNumbers
  <2> QED BY <2>3, <2>4, HeadHasTheModels DEF SchemaIsTheRevisions
<1> QED BY <1>1, SoundCorrect, PTL

\* From 012 on the catalog lists exactly the codes the code knows and no circle
\* is configured for one that 012 retired, though a legacy code may be left
\* (alembic/versions/012).
THEOREM HeadSpeaksCorrect == Spec => []HeadSpeaksTheSixTypes
<1>1. Sound => HeadSpeaksTheSixTypes BY DEF Sound, SoundAt, HeadSpeaksTheSixTypes
<1> QED BY <1>1, SoundCorrect, PTL

\* An upgrade to the head fails only on rows that contradict a constraint still
\* to come, or below a downgrade of 003 (alembic/versions/007 and 009).
THEOREM StuckCorrect == Spec => []StuckOnlyForACause
<1>1. Sound => StuckOnlyForACause
  <2> SUFFICES ASSUME Sound, rev < Latest, Upgraded(db, rev, Latest) = Broken,
                      ~ (rev = 2 /\ db.schema = {}),
                      ~ (rev < 7 /\ <<"users", "uq_phone_verified">> \in db.offends),
                      ~ (rev < 9 /\ <<"device_tokens", "token_unique">> \in db.offends)
               PROVE  FALSE
    BY DEF StuckOnlyForACause
  <2>1. rev \in 0..13 /\ Latest \in 0..13 /\ rev <= Latest /\ SoundAt(db, rev)
    BY RevisionNumbers DEF Sound
  <2>2. db.schema = SchemaAt(rev) BY <2>1 DEF SoundAt
  <2> QED BY <2>1, <2>2, UpgradeGoes
<1> QED BY <1>1, SoundCorrect, PTL

\* No command changes the codes routing reads of an alert or a circle, but 011
\* takes general_help from circles (alembic/versions/011 and 012).
THEOREM ReroutesCorrect == Spec => OnlyRevision11Reroutes
<1> DEFINE Delists == IF rev < 11 /\ rev' >= 11 THEN {"general_help"} ELSE {}
           Reads == writes' = writes =>
             /\ Has(db'.schema, "alerts") => Normalized(db'.alerts) = Normalized(db.alerts)
             /\ Has(db'.schema, "group_emergency_types") =>
                  \A c \in Circle : Normalized(db'.types[c]) = Normalized(db.types[c] \ Delists)
<1>1. Sound /\ [Next]_vars => [Reads]_vars
  <2> SUFFICES ASSUME Sound, Next, writes' = writes
               PROVE  /\ Has(db'.schema, "alerts") => Normalized(db'.alerts) = Normalized(db.alerts)
                      /\ Has(db'.schema, "group_emergency_types") =>
                           \A c \in Circle :
                             Normalized(db'.types[c]) = Normalized(db.types[c] \ Delists)
    BY DEF vars
  <2>0. rev \in 0..13 /\ writes \in Nat /\ SoundAt(db, rev) BY DEF Sound
  <2>1. ASSUME NEW after, Write(after) PROVE FALSE BY <2>0, <2>1 DEF Write
  <2>2. PICK to \in 0..Latest : Upgrade(to) \/ Downgrade(to)
    BY <2>1 DEF Next, Offend, Mend, SetTypes, CreateAlert
  <2>3. CASE Upgrade(to)
    <3>1. /\ to \in 0..13 /\ rev < to /\ rev' = to
          /\ db' = Upgraded(db, rev, to) /\ db' # Broken
      BY <2>3, RevisionNumbers DEF Upgrade, Commit
    <3>2. Rewritten(db, rev, Upgraded(db, rev, to), to) BY <2>0, <3>1, UpgradeSound
    <3>3. Rewritten(db, rev, db', rev') BY <3>1, <3>2
    <3>4. Dropped(rev, rev') = Delists BY DEF Dropped
    <3> QED BY <3>3, <3>4 DEF Rewritten
  <2>4. CASE Downgrade(to)
    <3>1. /\ to \in 0..13 /\ to < rev /\ rev' = to
          /\ db' = Downgraded(db, rev, to) /\ db' # Broken
      BY <2>4, RevisionNumbers DEF Downgrade, Commit
    <3>2. /\ SoundAt(Downgraded(db, rev, to), to)
          /\ to >= 8 => \A k \in Circle : Downgraded(db, rev, to).types[k] = db.types[k]
          /\ to >= 3 => Downgraded(db, rev, to).alerts = db.alerts
      BY <2>0, <3>1, DowngradeSound
    <3>3. db'.schema = SchemaAt(to) \/ db'.schema = {} BY <3>1, <3>2 DEF SoundAt
    <3>4. /\ Has(db'.schema, "alerts") => to >= 3
          /\ Has(db'.schema, "group_emergency_types") => to >= 8
      BY <3>1, <3>3, TypeTables DEF Has
    <3>5. Delists = {} BY <2>0, <3>1
    <3> HIDE DEF Delists
    <3>6. \A c \in Circle : db.types[c] \ Delists = db.types[c] BY <3>5
    <3> QED BY <3>1, <3>2, <3>4, <3>6
  <2> QED BY <2>2, <2>3, <2>4
<1>2. Spec => [][Next]_vars BY DEF Spec
<1> QED BY <1>1, <1>2, SoundCorrect, PTL DEF OnlyRevision11Reroutes
=============================================================================
