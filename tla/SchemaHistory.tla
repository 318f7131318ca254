---------------------------- MODULE SchemaHistory ----------------------------
(***************************************************************************)
(* The thirteen Alembic revisions and what they do to a database in use:   *)
(* which tables, late columns, indexes and constraints exist after each    *)
(* upgrade and downgrade, which rows stop a revision from being applied,   *)
(* and how the emergency types stored by circles and alerts are rewritten. *)
(* An alembic command runs in one transaction: it applies every revision   *)
(* on its way, or none.                                                    *)
(***************************************************************************)
EXTENDS Naturals, Sequences, FiniteSets

CONSTANTS
  Circle,      \* groups
  MaxWrites    \* bound: writes of the application between migrations

ASSUME SchemaAssumption == MaxWrites \in Nat

VARIABLES
  rev,      \* alembic_version, 0 for an empty database
  db,       \* the database: its schema and the rows the revisions look at
  writes    \* writes of the application

vars == <<rev, db, writes>>

-----------------------------------------------------------------------------
(* A schema is a set of parts <<table, name>>; the part <<t, "table">> is  *)
(* the table itself with the columns it was created with.                  *)

Part(t, names) == {<<t, n>> : n \in names}
Table(t, names) == Part(t, names \cup {"table"})
Tables(ts) == {<<t, "table">> : t \in ts}

\* A revision: what upgrade and downgrade drop and add, in that order.
Revision(upDrops, upAdds, downDrops, downAdds) ==
  [up |-> [drops |-> upDrops, adds |-> upAdds],
   down |-> [drops |-> downDrops, adds |-> downAdds]]

Initial ==
  LET owned == {"sessions", "contacts", "emergencies"}
  IN Revision({},
       Table("users", {"ix_email"}) \cup UNION {Table(t, {"ix_user_id"}) : t \in owned},
       Tables(owned \cup {"users"})
         \cup Part("users", {"ix_email"}) \cup UNION {Part(t, {"ix_user_id"}) : t \in owned},
       {})

Suspended == Part("users", {"suspended"})
SuspendedLegacy == Revision({}, Suspended, Suspended, {})

PlatformTables ==
  UNION {Table("users", {"email_not_null", "email_unique", "google_sub_unique", "ix_email"}),
         Table("refresh_tokens", {"jti_unique", "ix_user_id"}),
         Table("device_tokens", {"uq_device_user_token", "ix_user_id"}),
         Table("groups", {"ix_created_by"}),
         Table("group_members", {"uq_group_member", "ix_group_id", "ix_user_id"}),
         Table("group_invites", {"ix_group_id", "ix_invitee_email"}),
         Table("alerts", {"ix_created_by", "ix_group_id", "ix_status", "ix_created_at",
                          "ix_status_created", "ix_created_by_status"}),
         Table("alert_responses", {"uq_alert_response_user", "ix_alert_id", "ix_user_id"}),
         Table("alert_location_updates", {"ix_alert_id", "ix_recorded_at", "ix_alert_time"}),
         Table("alert_events", {"ix_alert_id", "ix_alert_time"}),
         Table("audit_logs", {"ix_user_id", "ix_user_time"}),
         Table("donations", {"stripe_session_unique"})}

Platform ==
  Revision(Tables({"sessions", "contacts", "emergencies", "users"}), PlatformTables,
           Tables({p[1] : p \in PlatformTables}), {})

SuspendedPlatform == Revision({}, Suspended, Suspended, {})

IdentityColumns ==
  Part("users", {"firebase_uid", "phone_verified", "country_code", "last_login_at",
                 "ix_firebase_uid", "ix_phone_number"})
  \cup Part("group_invites", {"invitee_phone", "ix_invitee_phone"})
IdentityTables ==
  Table("trusted_contacts", {"uq_trusted_contact_pair", "ix_owner", "ix_contact"})
  \cup Table("phone_invites", {"uq_phone_invite_code", "ix_invited_phone", "ix_code"})
  \cup Table("phone_otp_sessions", {"user_id_not_null", "ix_user_id"})
IdentityAndInvites ==
  Revision({}, IdentityColumns \cup IdentityTables,
           IdentityColumns \cup Tables({"trusted_contacts", "phone_invites", "phone_otp_sessions"}),
           {})

TripIndexes == {"ix_group_id", "ix_traveler", "ix_status", "ix_traveler_status", "ix_group_status"}
Trips == Revision({}, Table("trips", TripIndexes), Table("trips", TripIndexes), {})

\* Mutant of PhoneFirst: the downgrade forgets the index.
PhoneFirstBUG ==
  LET strict == Part("users", {"email_not_null", "ix_phone_number"})
                  \cup Part("phone_otp_sessions", {"user_id_not_null"})
      relaxed == Part("users", {"account_status", "last_active_at", "uq_phone_verified"})
  IN Revision(strict, relaxed, relaxed, strict \ Part("users", {"ix_phone_number"}))
PhoneFirst ==
  LET strict == Part("users", {"email_not_null", "ix_phone_number"})
                  \cup Part("phone_otp_sessions", {"user_id_not_null"})
      relaxed == Part("users", {"account_status", "last_active_at", "uq_phone_verified"})
  IN Revision(strict, relaxed, relaxed, strict)

IntelligenceTables ==
  UNION {Table("skills", {"ix_code"}),
         Table("user_skills", {"uq_user_skill", "ix_user_id", "ix_skill_id"}),
         Table("group_emergency_types", {"uq_group_emergency_type", "ix_group_id"}),
         Table("alert_recipients", {"uq_alert_recipient", "ix_alert_id", "ix_user_id"})}
IntelligenceColumns ==
  UNION {Part("users", {"location_updated_at", "certifications", "languages", "vehicle_available",
                        "medical_background", "available_for_emergencies", "location_visibility"}),
         Part("groups", {"priority", "visibility"}),
         Part("alert_responses", {"distance_km"})}
Intelligence ==
  Revision({}, IntelligenceColumns \cup IntelligenceTables,
           IntelligenceColumns
             \cup Tables({"skills", "user_skills", "group_emergency_types", "alert_recipients"})
             \cup Part("skills", {"ix_code"}) \cup Part("user_skills", {"ix_user_id", "ix_skill_id"})
             \cup Part("group_emergency_types", {"ix_group_id"})
             \cup Part("alert_recipients", {"ix_alert_id", "ix_user_id"}),
           {})

HardeningColumns ==
  UNION {Part("alert_recipients", {"notified_at", "delivery_status", "delivery_error"}),
         Part("alerts", {"severity"}),
         Part("phone_otp_sessions", {"ix_phone"}),
         Part("group_invites", {"ix_status_created"}),
         Part("alert_location_updates", {"ix_user_time"}),
         Part("device_tokens", {"token_unique"})}
HardeningTables ==
  Table("emergency_types", {"ix_code"}) \cup Table("notification_outbox", {"ix_status"})
\* Mutant of Hardening: the downgrade forgets a column.
HardeningBUG ==
  LET all == HardeningColumns \cup HardeningTables
  IN Revision({}, all, all \ Part("alerts", {"severity"}), {})
Hardening ==
  LET all == HardeningColumns \cup HardeningTables IN Revision({}, all, all, {})

HotIndexes == Part("alerts", {"ix_creator_active"}) \cup Part("group_members", {"ix_user_role"})
PerfIndexes == Revision({}, HotIndexes, HotIndexes, {})

DataOnly == Revision({}, {}, {}, {})       \* 011 and 012 rewrite rows

BloodGroupColumn == Part("users", {"blood_group"})
BloodGroup == Revision({}, BloodGroupColumn, BloodGroupColumn, {})

Revisions ==
  <<Initial, SuspendedLegacy, Platform, SuspendedPlatform, IdentityAndInvites, Trips, PhoneFirst,
    Intelligence, Hardening, PerfIndexes, DataOnly, DataOnly, BloodGroup>>
Latest == Len(Revisions)
Guarded == {2, 10}     \* written with IF [NOT] EXISTS

-----------------------------------------------------------------------------
(* Emergency types.  "medical" stands for the five codes that no old code  *)
(* but its own alias becomes, "medical_help" for such an alias.            *)

Canonical == {"medical", "need_pickup"}
Retired == {"general_help", "my_neighbourhood"}
Legacy == {"medical_help", "pickup_request"}
AlertType == Canonical \cup Retired \cup Legacy

CanonicalCode(t) ==
  CASE t \in Retired \cup {"pickup_request"} -> "need_pickup"
    [] t = "medical_help"                    -> "medical"
    [] OTHER                                 -> t
Normalized(S) == {CanonicalCode(t) : t \in S}

\* What a revision makes of S: need_pickup for every retired code.
Replaced(S, retired) ==
  (S \ retired) \cup (IF S \cap retired # {} THEN {"need_pickup"} ELSE {})

Seeded(d) == [d EXCEPT !.catalog = Canonical \cup {"general_help"}]

\* 011 deletes the code from circles and rewrites it in alerts.
Delisted(d) ==
  [d EXCEPT !.types = [c \in Circle |-> d.types[c] \ {"general_help"}],
            !.alerts = Replaced(d.alerts, {"general_help"}),
            !.catalog = d.catalog \ {"general_help"}]

\* Mutants of Merged: circles get no replacement; one retired code stays.
MergedBUG(d) ==
  [d EXCEPT !.types = [c \in Circle |-> d.types[c] \ Retired],
            !.alerts = Replaced(d.alerts, Retired),
            !.catalog = (d.catalog \cup {"need_pickup"}) \ Retired]
MergedNoDeleteBUG(d) ==
  [d EXCEPT !.types = [c \in Circle |-> Replaced(d.types[c], {"general_help"})],
            !.alerts = Replaced(d.alerts, Retired),
            !.catalog = (d.catalog \cup {"need_pickup"}) \ Retired]
\* 012 gives circles the replacement before it deletes the retired codes; the
\* legacy codes it leaves to whoever reads them.
Merged(d) ==
  [d EXCEPT !.types = [c \in Circle |-> Replaced(d.types[c], Retired)],
            !.alerts = Replaced(d.alerts, Retired),
            !.catalog = (d.catalog \cup {"need_pickup"}) \ Retired]

Relisted(d) == [d EXCEPT !.catalog = d.catalog \cup {"general_help"}]

RowsRewritten(d, r, way) ==
  CASE r = 9 /\ way = "up"            -> Seeded(d)
    [] r = 11 /\ way = "up"           -> Delisted(d)
    [] r = 12 /\ way = "up"           -> Merged(d)
    [] r \in {11, 12} /\ way = "down" -> Relisted(d)
    [] OTHER                          -> d

-----------------------------------------------------------------------------
(* Applying revisions.                                                     *)

Has(schema, t) == <<t, "table">> \in schema

\* Constraints that rows written without them may contradict.
Breakable == {<<"users", "email_not_null">>, <<"users", "uq_phone_verified">>,
              <<"phone_otp_sessions", "user_id_not_null">>, <<"device_tokens", "token_unique">>}
\* Without the column such rows cannot be told apart.
Column(p) == IF p = <<"users", "uq_phone_verified">> THEN <<"users", "phone_verified">>
             ELSE <<p[1], "table">>

EmptyDb == [schema |-> {}, offends |-> {}, types |-> [c \in Circle |-> {}],
            alerts |-> {}, catalog |-> {}]
Broken == [failed |-> TRUE]     \* a statement raised: the transaction is rolled back

Kept(schema, drops) == {p \in schema : p \notin drops /\ <<p[1], "table">> \notin drops}

Applies(d, change, guarded) ==
  LET kept == Kept(d.schema, change.drops)
  IN /\ \A p \in change.drops : Has(d.schema, p[1]) /\ (guarded \/ p \in d.schema)
     /\ \A p \in change.adds : Has(kept \cup change.adds, p[1]) /\ (guarded \/ p \notin kept)
     /\ change.adds \cap d.offends = {}

\* Rows go with their table, and a contradiction with its column.
Remaining(d, schema) ==
  [schema  |-> schema,
   offends |-> {p \in d.offends : Column(p) \in schema},
   types   |-> [c \in Circle |-> IF Has(schema, "group_emergency_types") THEN d.types[c] ELSE {}],
   alerts  |-> IF Has(schema, "alerts") THEN d.alerts ELSE {},
   catalog |-> IF Has(schema, "emergency_types") THEN d.catalog ELSE {}]

Step(d, r, way) ==
  LET change == Revisions[r][way]
  IN IF d = Broken \/ ~Applies(d, change, r \in Guarded) THEN Broken
     ELSE RowsRewritten(Remaining(d, Kept(d.schema, change.drops) \cup change.adds), r, way)

Upgraded(d, from, to) ==
  LET at[r \in from..to] == IF r = from THEN d ELSE Step(at[r - 1], r, "up") IN at[to]

Downgraded(d, from, to) ==
  LET at[r \in to..from] == IF r = from THEN d ELSE Step(at[r + 1], r + 1, "down") IN at[to]

-----------------------------------------------------------------------------
(* Commands and writes.                                                    *)

Init == rev = 0 /\ db = EmptyDb /\ writes = 0

Commit(after, to) ==
  /\ after # Broken
  /\ db' = after
  /\ rev' = to
  /\ UNCHANGED writes

Upgrade(to) == rev < to /\ Commit(Upgraded(db, rev, to), to)
Downgrade(to) == to < rev /\ Commit(Downgraded(db, rev, to), to)

Write(after) == writes < MaxWrites /\ writes' = writes + 1 /\ db' = after /\ UNCHANGED rev

\* A deployment of this revision stores a row that a constraint it does not
\* have would refuse: an account without e-mail, an anonymous code session, a
\* token registered by two users, a number verified twice.
Offend(p) ==
  /\ rev >= 3
  /\ Column(p) \in db.schema /\ p \notin db.schema \cup db.offends
  /\ Write([db EXCEPT !.offends = @ \cup {p}])

\* The last such row goes: the code is used, the account gets an e-mail.
Mend(p) ==
  /\ p \in db.offends
  /\ Write([db EXCEPT !.offends = @ \ {p}])

\* Since 012 the codes of a circle are normalized before they are stored.
StoredTypes(S) == IF rev >= 12 THEN Normalized(S) ELSE S
SetTypes(c, S) ==
  /\ Has(db.schema, "group_emergency_types")
  /\ Write([db EXCEPT !.types[c] = StoredTypes(S)])

\* An alert keeps the code that was sent, and AlertType still has them all.
CreateAlert(t) ==
  /\ Has(db.schema, "alerts")
  /\ Write([db EXCEPT !.alerts = @ \cup {t}])

Next ==
  \/ \E to \in 0..Latest : Upgrade(to) \/ Downgrade(to)
  \/ \E p \in Breakable : Offend(p) \/ Mend(p)
  \/ \E c \in Circle, S \in SUBSET AlertType : SetTypes(c, S)
  \/ \E t \in AlertType : CreateAlert(t)

Spec == Init /\ [][Next]_vars

-----------------------------------------------------------------------------
(* What the code of the head revision needs: the columns and constraints   *)
(* its models declare and its services rely on.                            *)

PeopleModels ==
  UNION {Table("users", {"email_unique", "google_sub_unique", "suspended", "firebase_uid",
                         "ix_firebase_uid", "phone_verified", "country_code", "last_login_at",
                         "last_active_at", "account_status", "location_updated_at",
                         "certifications", "languages", "vehicle_available", "medical_background",
                         "available_for_emergencies", "location_visibility", "blood_group"}),
         Table("refresh_tokens", {"jti_unique"}),
         Table("device_tokens", {"uq_device_user_token"})}
CircleModels ==
  UNION {Table("groups", {"priority", "visibility"}),
         Table("group_members", {"uq_group_member"}),
         Table("group_invites", {"invitee_phone"}),
         Table("trusted_contacts", {"uq_trusted_contact_pair"}),
         Table("phone_invites", {"uq_phone_invite_code"}),
         Table("phone_otp_sessions", {})}
AlertModels ==
  UNION {Table("alerts", {"severity", "ix_status_created", "ix_created_by_status"}),
         Table("alert_responses", {"uq_alert_response_user", "distance_km"}),
         Table("alert_location_updates", {"ix_alert_time"}),
         Table("alert_events", {"ix_alert_time"}),
         Table("audit_logs", {"ix_user_time"}),
         Table("donations", {"stripe_session_unique"}),
         Table("trips", {"ix_traveler_status", "ix_group_status"})}
ResponderModels ==
  UNION {Table("skills", {"ix_code"}),
         Table("user_skills", {"uq_user_skill"}),
         Table("group_emergency_types", {"uq_group_emergency_type"}),
         Table("alert_recipients", {"uq_alert_recipient", "notified_at", "delivery_status",
                                    "delivery_error"}),
         Table("notification_outbox", {"ix_status"}),
         Table("emergency_types", {"ix_code"})}
\* Columns that a service leaves empty must not be declared NOT NULL.
LeftEmpty == {<<"users", "email_not_null">>, <<"phone_otp_sessions", "user_id_not_null">>}

Fresh == [r \in 0..Latest |-> Upgraded(EmptyDb, 0, r).schema]

-----------------------------------------------------------------------------
(* Properties.                                                             *)

\* From the platform revision on, the schema is the one a new database has
\* at that revision, whatever upgrades and downgrades led to it; the head has
\* every table, column and constraint the models use and forbids nothing the
\* services store (alembic/versions, app/models).
SchemaIsTheRevisions ==
  /\ rev >= 3 => db.schema = Fresh[rev]
  /\ rev = Latest => /\ PeopleModels \cup CircleModels \cup AlertModels \cup ResponderModels
                        \subseteq db.schema
                   /\ LeftEmpty \cap db.schema = {}

\* Since 012 the catalog lists exactly the codes the code knows, and no circle
\* is configured for one that 012 retired, whenever its rows were written.  Rows
\* of older deployments may still have the legacy codes, which 012 leaves alone
\* (alembic/versions/012, group_repository.set_emergency_types).
HeadSpeaksTheSixTypes ==
  rev >= 12 => db.catalog = Canonical /\ \A c \in Circle : db.types[c] \cap Retired = {}

\* An upgrade to the head fails only on rows that contradict a constraint
\* still to come, or below a downgrade of 003, which leaves no table.
StuckOnlyForACause ==
  (rev < Latest /\ Upgraded(db, rev, Latest) = Broken) =>
    \/ rev = 2 /\ db.schema = {}
    \/ rev < 7 /\ <<"users", "uq_phone_verified">> \in db.offends
    \/ rev < 9 /\ <<"device_tokens", "token_unique">> \in db.offends

\* Routing matches alerts and circles by the normalized codes, and a circle
\* without any matches every alert.  However many revisions a command applies, it
\* changes no alert's code and no circle's, read like that; but 011 takes
\* general_help from circles, where its replacement is need_pickup, and so
\* widens a circle with no other code (routing_service.build_recipients).
OnlyRevision11Reroutes ==
  [][writes' = writes =>
       /\ Has(db'.schema, "alerts") => Normalized(db'.alerts) = Normalized(db.alerts)
       /\ Has(db'.schema, "group_emergency_types") =>
            LET delisted == IF rev < 11 /\ rev' >= 11 THEN {"general_help"} ELSE {}
            IN \A c \in Circle :
                 Normalized(db'.types[c]) = Normalized(db.types[c] \ delisted)]_vars

=============================================================================
