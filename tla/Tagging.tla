------------------------------ MODULE Tagging ------------------------------
(***************************************************************************)
(* Tags of shipments: POST and DELETE /shipment/tag.  A request works on    *)
(* the tags its session loaded when the seller was authenticated, and       *)
(* writes the difference when it commits.                                   *)
(***************************************************************************)
EXTENDS Naturals, FiniteSets

CONSTANTS
  Req, Sellers, Shipments, TagNames,
  Owner,        \* the seller of each shipment
  Alone,        \* requests that happen to overlap no other
  MaxInFlight,  \* bound: requests served at the same time
  None

VARIABLES
  shipment_tag,  \* link table: pairs of a shipment and a tag, the pair its key
  pc, ask,
  tags           \* shipment.tags as the request loaded it

vars == <<shipment_tag, pc, ask, tags>>

Ask == [op : {"add", "delete"}, seller : Sellers, id : Shipments, tag : TagNames]

Ended == {"ok", "not_found", "failed", "cut"}

InFlight == {r \in Req : pc[r] = "loaded"}

Init ==
  /\ shipment_tag = {}
  /\ pc = [r \in Req |-> "new"]
  /\ ask = [r \in Req |-> None]
  /\ tags = [r \in Req |-> {}]

Pair(r) == <<ask[r].id, ask[r].tag>>

Answer(r, how) == pc' = [pc EXCEPT ![r] = how] /\ UNCHANGED <<ask, tags>>

\* The seller, its shipments and their tags are read before the route runs.
Load(r) == \E a \in Ask :
  /\ pc[r] = "new"
  /\ Cardinality(InFlight) < MaxInFlight /\ InFlight \cap Alone = {}
  /\ r \in Alone => InFlight = {}
  /\ pc' = [pc EXCEPT ![r] = "loaded"]
  /\ ask' = [ask EXCEPT ![r] = a]
  /\ tags' = [tags EXCEPT ![r] = {t \in TagNames : <<a.id, t>> \in shipment_tag}]
  /\ UNCHANGED shipment_tag

\* Mutant: any seller may tag any shipment.
Owns_Any(r) == TRUE

Owns(r) == Owner[ask[r].id] = ask[r].seller

NotFound(r) ==
  /\ pc[r] = "loaded"
  /\ ~Owns(r) \/ (ask[r].op = "delete" /\ ask[r].tag \notin tags[r])
  /\ Answer(r, "not_found")
  /\ UNCHANGED shipment_tag

HasTag(r) == ask[r].tag \in tags[r]

\* Nothing changed in the session, nothing is written.
KeepTag(r) ==
  /\ pc[r] = "loaded" /\ Owns(r) /\ ask[r].op = "add"
  /\ HasTag(r)
  /\ Answer(r, "ok")
  /\ UNCHANGED shipment_tag

\* INSERT: the primary key refuses a pair committed meanwhile.
InsertTag(r) ==
  /\ pc[r] = "loaded" /\ Owns(r) /\ ask[r].op = "add"
  /\ ~HasTag(r)
  /\ shipment_tag' = shipment_tag \cup {Pair(r)}
  /\ Answer(r, IF Pair(r) \in shipment_tag THEN "failed" ELSE "ok")

\* Mutant: the removal is never committed.
RemoveTag_Uncommitted(r) ==
  /\ pc[r] = "loaded" /\ Owns(r) /\ ask[r].op = "delete"
  /\ HasTag(r)
  /\ Answer(r, "ok")
  /\ UNCHANGED shipment_tag

\* DELETE: a row that another request took meanwhile is not missed, the driver
\* gives the unit of work no count of the rows it deleted.
RemoveTag(r) ==
  /\ pc[r] = "loaded" /\ Owns(r) /\ ask[r].op = "delete"
  /\ HasTag(r)
  /\ shipment_tag' = shipment_tag \ {Pair(r)}
  /\ Answer(r, "ok")

\* The API process dies: nothing of an open transaction is kept.
Cut ==
  /\ InFlight # {}
  /\ pc' = [r \in Req |-> IF r \in InFlight THEN "cut" ELSE pc[r]]
  /\ UNCHANGED <<shipment_tag, ask, tags>>

Next == \/ \E r \in Req :
          Load(r) \/ NotFound(r) \/ KeepTag(r) \/ InsertTag(r) \/ RemoveTag(r)
        \/ Cut

Spec == Init /\ [][Next]_vars

(***************************************************************************)
(* Properties.                                                              *)
(***************************************************************************)
\* "Adding the same tag twice" is no error: an add that "has simply already
\* been made" is never answered with 500.
AddNeverFails == \A r \in Req : pc[r] = "failed" => ask[r].op # "add"

\* Tags are seller-scoped: only a request of its own seller, naming the pair,
\* changes the tags of a shipment.
ChangedByOwner == [][\A p \in Shipments \X TagNames :
  (p \in shipment_tag') # (p \in shipment_tag) =>
    \E r \in Req : pc[r] = "loaded" /\ Pair(r) = p /\ Owner[p[1]] = ask[r].seller]_vars

\* Overlapping requests decide on the old list: an add may fail for it, a delete
\* may answer for a pair that is gone.  They leave a table on which a request
\* that overlaps nothing is neither failed nor deceived: deciding on the list is
\* enough for it, whatever was added, removed, refused or cut off before, and
\* after ok the tag is there, or gone.
AloneIsDone == [][\A r \in Req \cap Alone : pc[r] = "loaded" =>
  /\ pc'[r] # "failed"
  /\ pc'[r] = "ok" => ((Pair(r) \in shipment_tag') <=> (ask[r].op = "add"))]_vars
=============================================================================
