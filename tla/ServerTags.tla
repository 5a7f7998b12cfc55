----------------------------- MODULE ServerTags -----------------------------
(***************************************************************************)
(* The API serves tag requests only between the end of a start and the next  *)
(* stop, and a stop cuts off the requests it finds.  The starts are those of  *)
(* Startup, the requests those of Tagging, over the same vocabulary.          *)
(***************************************************************************)
EXTENDS Naturals, FiniteSets

CONSTANTS
  Req, Sellers, Shipments, TagNames, Owner, Alone, MaxInFlight, None,
  Releases, Container

ASSUME OwnerAssumption == Owner \in [Shipments -> Sellers]
ASSUME BoundAssumption == MaxInFlight \in Nat

VARIABLES
  shipment_tag, pc, ask, tags,                  \* Tagging
  release, schema, stamp, step, missing, rows   \* Startup

Requests == INSTANCE Tagging

Server == INSTANCE Startup WITH Tags <- TagNames

ASSUME ReleaseAssumption == Releases \subseteq Server!Revisions /\ Container \in BOOLEAN

requestVars == <<shipment_tag, pc, ask, tags>>
serverVars == <<release, schema, stamp, step, missing, rows>>
serverTagsVars == <<requestVars, serverVars>>

ServerTagsInit == Requests!Init /\ Server!Init

ServeTags ==
  /\ step = "serving"
  /\ \E r \in Req : Requests!Load(r) \/ Requests!NotFound(r) \/ Requests!KeepTag(r)
                    \/ Requests!InsertTag(r) \/ Requests!RemoveTag(r)
  /\ UNCHANGED serverVars

Prepare ==
  /\ Server!Deploy \/ Server!Start \/ Server!StampHead \/ Server!UpgradeHead
     \/ Server!UpgradeByHand \/ Server!CreateTables \/ Server!ReadTags \/ Server!InsertTags
  /\ UNCHANGED requestVars

Stop ==
  /\ Server!Stop
  /\ IF Requests!InFlight = {} THEN UNCHANGED requestVars ELSE Requests!Cut

ServerTagsNext == ServeTags \/ Prepare \/ Stop

ServerTagsSpec == ServerTagsInit /\ [][ServerTagsNext]_serverTagsVars

(***************************************************************************)
(* Properties.                                                              *)
(***************************************************************************)
\* Tags are seller-scoped, over every stop and start: only a request of its own
\* seller, naming the pair, changes the tags of a shipment.
ChangedByOwner == Requests!ChangedByOwner

\* A request that overlaps none is neither failed nor deceived by what the
\* requests, the stops and the starts before it left in the table.
AloneIsDone == Requests!AloneIsDone

\* Requests are only ever served from a full vocabulary and from all tables,
\* whatever starts were broken off and whatever releases replaced each other.
ReadyWhenServing == Server!ReadyWhenServing

\* "Adding the same tag twice": an add is never answered with 500.
AddNeverFails == Requests!AddNeverFails
=============================================================================
