------------------------------ MODULE Startup ------------------------------
(***************************************************************************)
(* What a start of the API does to the database.  In the container          *)
(* entrypoint.sh stamps the head revision, upgrades to it and starts the    *)
(* server; the server creates missing tables and seeds missing tags before  *)
(* it serves.  Started by hand, the server is all there is.  Newer releases *)
(* are deployed over the volume of older ones.                              *)
(***************************************************************************)
EXTENDS Naturals, FiniteSets

CONSTANTS
  Tags,         \* the tag vocabulary
  Releases,     \* bound: the releases ever started on this volume
  Container     \* TRUE: started by entrypoint.sh; FALSE: uvicorn by hand

\* The revisions under migrations/versions, oldest first:
\*   1 fresh_init             creates the tables
\*   2 add_client_table       creates client
\*   3 add_zipcode            a column of delivery_partner
\*   4 rename contact fields  two columns of shipment
\*   5 estimated_delivery     a type of shipment
\*   6 unique e-mail          indexes of seller and delivery_partner
Revisions == 1..6

Creating == {1, 2}

\* ALTER TYPE may run twice; creating, adding or renaming may not.
Repeatable == {5}

VARIABLES
  release,  \* the newest revision the deployed code knows, 0 before the first
  schema,   \* the revisions whose effect the tables show
  stamp,    \* alembic_version
  step,     \* how far the start is
  missing,  \* the tags seed_tags found missing
  rows      \* how many rows of each tag there are

vars == <<release, schema, stamp, step, missing, rows>>

Init ==
  /\ release = 0
  /\ schema = {} /\ stamp = 0
  /\ step = "down"
  /\ missing = {}
  /\ rows = [t \in Tags |-> 0]

Known == {k \in Revisions : k <= release}

\* A release is deployed while the server is down.
Deploy ==
  /\ step = "down"
  /\ \E k \in Releases : k > release /\ release' = k
  /\ UNCHANGED <<schema, stamp, step, missing, rows>>

Start ==
  /\ step = "down" /\ release > 0
  /\ step' = IF Container THEN "stamp" ELSE "create"
  /\ UNCHANGED <<release, schema, stamp, missing, rows>>

\* alembic stamp head
StampHead ==
  /\ step = "stamp"
  /\ stamp' = release
  /\ step' = "upgrade"
  /\ UNCHANGED <<release, schema, missing, rows>>

Pending == {k \in Known : k > stamp}

\* One transaction: a table or column that is there already fails all of it.
Upgrades ==
  /\ Pending \cap schema \subseteq Repeatable
  /\ Pending # {} => 1 \in schema \cup Pending

\* alembic upgrade head; set -e gives the start up when it fails.
UpgradeHead ==
  /\ step = "upgrade"
  /\ IF Upgrades
     THEN schema' = schema \cup Pending /\ stamp' = release /\ step' = "create"
     ELSE step' = "down" /\ UNCHANGED <<schema, stamp>>
  /\ UNCHANGED <<release, missing, rows>>

\* alembic upgrade head by hand, between two starts.
UpgradeByHand ==
  /\ step = "down" /\ release > 0
  /\ Upgrades
  /\ schema' = schema \cup Pending /\ stamp' = release
  /\ UNCHANGED <<release, step, missing, rows>>

\* create_all creates the tables that are missing, as the code declares them,
\* and never alters one that is there.
CreateTables ==
  /\ step = "create"
  /\ schema' = schema \cup (IF 1 \in schema THEN Known \cap Creating ELSE Known)
  /\ step' = "seed"
  /\ UNCHANGED <<release, stamp, missing, rows>>

\* Mutant: the vocabulary is inserted without a look at what is there.
ReadTags_All ==
  /\ step = "seed"
  /\ missing' = Tags
  /\ step' = "insert"
  /\ UNCHANGED <<release, schema, stamp, rows>>

ReadTags ==
  /\ step = "seed"
  /\ missing' = {t \in Tags : rows[t] = 0}
  /\ step' = "insert"
  /\ UNCHANGED <<release, schema, stamp, rows>>

InsertTags ==
  /\ step = "insert"
  /\ rows' = [t \in Tags |-> IF t \in missing THEN rows[t] + 1 ELSE rows[t]]
  /\ step' = "serving"
  /\ UNCHANGED <<release, schema, stamp, missing>>

\* The container or its host stops, at any point of a start.
Stop ==
  /\ step # "down"
  /\ step' = "down"
  /\ UNCHANGED <<release, schema, stamp, missing, rows>>

Next ==
  \/ Deploy \/ Start \/ StampHead \/ UpgradeHead \/ UpgradeByHand
  \/ CreateTables \/ ReadTags \/ InsertTags \/ Stop

Spec == Init /\ [][Next]_vars

(***************************************************************************)
(* Properties.                                                              *)
(***************************************************************************)
\* "Seeds missing tags every boot so tag endpoints never hit an empty
\* vocabulary", "safe to run on every startup": whatever starts were broken off
\* and resumed, a serving API finds every tag, and once, and every table its
\* code declares, although the stamp skips the revision that creates it.
ReadyWhenServing == step = "serving" =>
  /\ \A t \in Tags : rows[t] = 1
  /\ Known \cap Creating \subseteq schema

\* "For an existing database, use Alembic": a deployed release serves from
\* tables with every column, type and index its revisions bring.
SchemaServed == step = "serving" => Known \subseteq schema

\* ... and that command applies to a database the API has created.
HandUpgradeWorks == step = "down" /\ schema # {} => Upgrades
=============================================================================
