----------------------------- MODULE Assignment -----------------------------
(***************************************************************************)
(* How a new shipment gets its delivery partner: ShipmentService.add with   *)
(* DeliveryPartnerService.assign_shipment, while partners edit their        *)
(* profiles and shipments are closed.  A creation reads in three SELECTs    *)
(* (its seller with all that hangs on it, the partners of the ZIP code,     *)
(* their shipments), decides on what it read, and commits.                  *)
(*                                                                         *)
(* A shipment is named by the request that creates it; of its status only   *)
(* open or closed matters here.                                             *)
(***************************************************************************)
EXTENDS Naturals, FiniteSets

CONSTANTS
  Req,          \* creation requests, and the shipments they create
  Edits,        \* profile requests
  Partners, Sellers, Zips,
  SellerOf,     \* the seller that sends a creation
  Dest,         \* its destination ZIP code
  Capacities,   \* values of max_handling_capacity
  CapLimit,     \* the largest of them
  ZipLists,     \* values of serviceable_zip_codes
  MaxInFlight,  \* bound: requests served at the same time
  Reopens,      \* shipments that updates may take out of a closed status
  Alone,        \* requests that happen to overlap no other
  None

ASSUME RequestAssumption ==
  /\ SellerOf \in [Req -> Sellers] /\ Dest \in [Req -> Zips]
  /\ ZipLists \subseteq SUBSET Zips
  /\ IsFiniteSet(Req) /\ IsFiniteSet(Edits) /\ Req \cap Edits = {}

ASSUME CapacityAssumption ==
  /\ CapLimit \in Nat /\ Capacities \subseteq 0..CapLimit
  /\ None \notin Partners /\ None \notin Capacities /\ None \notin ZipLists

ASSUME BoundAssumption == MaxInFlight \in Nat \ {0} /\ Reopens \subseteq Req

VARIABLES
  caps,     \* delivery_partner.max_handling_capacity
  zips,     \* delivery_partner.serviceable_zip_codes
  partner,  \* shipment.delivery_partner_id, None while there is no row
  open,     \* shipments whose status is neither delivered nor cancelled
  pc,       \* where a request stands
  view,     \* what the session of a creation loaded
  edit      \* what a profile request asks, and what its session loaded

vars == <<caps, zips, partner, open, pc, view, edit>>

View == [own : SUBSET Req, open : SUBSET Req, caps : [Partners -> Capacities],
         eligible : SUBSET Partners, load : [Partners -> SUBSET Req]]

Edit == [of : Partners, cap : Capacities \cup {None}, zips : ZipLists \cup {None},
         oldCap : Capacities, oldZips : ZipLists \cup {{}}]

Ended == {"created", "refused", "saved", "failed"}

InFlight == {r \in Req \cup Edits : pc[r] \notin {"new"} \cup Ended}

Active(p) == {s \in Req : partner[s] = p /\ s \in open}

\* The open shipments that were never closed before.
Lasting(p) == Active(p) \ Reopens

Init ==
  /\ caps \in [Partners -> Capacities]
  /\ zips \in [Partners -> ZipLists]
  /\ partner = [s \in Req |-> None]
  /\ open = {}
  /\ pc = [r \in Req \cup Edits |-> "new"]
  /\ view = [r \in Req |-> None]
  /\ edit = [e \in Edits |-> None]

Goto(r, phase) == pc' = [pc EXCEPT ![r] = phase]

HasSlot == Cardinality(InFlight) < MaxInFlight /\ InFlight \cap Alone = {}

Enters(r) == pc[r] = "new" /\ HasSlot /\ (r \in Alone => InFlight = {})

(***************************************************************************)
(* Creating a shipment.                                                     *)
(***************************************************************************)
\* session.get(Seller) brings the seller's shipments and their partners.
Authenticate(r) ==
  /\ Enters(r)
  /\ LET own == {s \in Req : partner[s] # None /\ SellerOf[s] = SellerOf[r]}
     IN view' = [view EXCEPT ![r] =
          [own |-> own, open |-> own \cap open, caps |-> caps,
           eligible |-> {}, load |-> [p \in Partners |-> {}]]]
  /\ Goto(r, "authenticated")
  /\ UNCHANGED <<caps, zips, partner, open, edit>>

\* Mutant: every partner is asked, whatever its ZIP codes.
Serving_All(r) == Partners

Serving(r) == {p \in Partners : Dest[r] \in zips[p]}

\* Rows the session already holds are not refreshed by a later SELECT.
Known(r) == {partner[s] : s \in view[r].own}

SelectPartners(r) ==
  /\ pc[r] = "authenticated"
  /\ view' = [view EXCEPT ![r] =
       [own |-> view[r].own, open |-> view[r].open, eligible |-> Serving(r),
        caps |-> [p \in Partners |-> IF p \in Known(r) THEN view[r].caps[p] ELSE caps[p]],
        load |-> view[r].load]]
  /\ Goto(r, "partners")
  /\ UNCHANGED <<caps, zips, partner, open, edit>>

\* active_shipments of p in this session: rows it knew keep their old status.
SeenActive(r, p) ==
  {s \in Req : partner[s] = p /\ s \in IF s \in view[r].own THEN view[r].open ELSE open}

LoadShipments(r) ==
  /\ pc[r] = "partners" /\ view[r].eligible # {}
  /\ view' = [view EXCEPT ![r] =
       [own |-> view[r].own, open |-> view[r].open, eligible |-> view[r].eligible,
        caps |-> view[r].caps, load |-> [p \in Partners |-> SeenActive(r, p)]]]
  /\ Goto(r, "loaded")
  /\ UNCHANGED <<caps, zips, partner, open, edit>>

\* Mutant: a partner with no capacity left is still taken.
HasCapacity_OneMore(r, p) == Cardinality(view[r].load[p]) <= view[r].caps[p]

HasCapacity(r, p) == Cardinality(view[r].load[p]) < view[r].caps[p]

\* The SELECT has no ORDER BY, so the first with capacity may be any of them.
Candidates(r) == {p \in view[r].eligible : HasCapacity(r, p)}

Refuse(r) ==
  /\ \/ pc[r] = "partners" /\ view[r].eligible = {}
     \/ pc[r] = "loaded" /\ Candidates(r) = {}
  /\ Goto(r, "refused")
  /\ UNCHANGED <<caps, zips, partner, open, view, edit>>

Assign(r) ==
  /\ pc[r] = "loaded"
  /\ \E p \in Candidates(r) : partner' = [partner EXCEPT ![r] = p]
  /\ open' = open \cup {r}
  /\ Goto(r, "created")
  /\ UNCHANGED <<caps, zips, view, edit>>

\* A delivered or cancelled event is committed; an update may also take a
\* shipment out of its closed status, which asks for no capacity.
Close(s) ==
  /\ HasSlot /\ s \in open
  /\ open' = open \ {s}
  /\ UNCHANGED <<caps, zips, partner, pc, view, edit>>

Reopen(s) ==
  /\ s \in Reopens /\ HasSlot
  /\ partner[s] # None /\ s \notin open
  /\ open' = open \cup {s}
  /\ UNCHANGED <<caps, zips, partner, pc, view, edit>>

(***************************************************************************)
(* update_partner: sqlmodel_update copies every field of DPUpdate, the      *)
(* omitted ones as None; the unit of work writes the columns that differ    *)
(* from what was loaded.                                                    *)
(***************************************************************************)
LoadProfile(e, p) ==
  /\ Enters(e)
  /\ \E cap \in Capacities \cup {None}, list \in ZipLists \cup {None} :
       edit' = [edit EXCEPT ![e] = [of |-> p, cap |-> cap, zips |-> list,
                                    oldCap |-> caps[p], oldZips |-> zips[p]]]
  /\ Goto(e, "editing")
  /\ UNCHANGED <<caps, zips, partner, open, view>>

\* A NULL list serves no ZIP code: zip = ANY(NULL) is not true.
ListOf(e) == IF edit[e].zips = None THEN {} ELSE edit[e].zips

SaveProfile(e) ==
  /\ pc[e] = "editing" /\ edit[e].cap # None
  /\ caps' = [caps EXCEPT ![edit[e].of] = IF edit[e].cap = edit[e].oldCap THEN @ ELSE edit[e].cap]
  /\ zips' = [zips EXCEPT ![edit[e].of] = IF ListOf(e) = edit[e].oldZips THEN @ ELSE ListOf(e)]
  /\ Goto(e, "saved")
  /\ UNCHANGED <<partner, open, view, edit>>

\* max_handling_capacity is NOT NULL: the UPDATE fails as a whole.
SaveFails(e) ==
  /\ pc[e] = "editing" /\ edit[e].cap = None
  /\ Goto(e, "failed")
  /\ UNCHANGED <<caps, zips, partner, open, view, edit>>

Create(r) ==
  Authenticate(r) \/ SelectPartners(r) \/ LoadShipments(r) \/ Refuse(r) \/ Assign(r)

Next ==
  \/ \E r \in Req : Create(r) \/ Close(r) \/ Reopen(r)
  \/ \E e \in Edits : (\E p \in Partners : LoadProfile(e, p)) \/ SaveProfile(e) \/ SaveFails(e)

Spec == Init /\ [][Next]_vars

(***************************************************************************)
(* Properties.                                                              *)
(***************************************************************************)
TypeOK ==
  /\ caps \in [Partners -> Capacities]
  /\ zips \in [Partners -> ZipLists \cup {{}}]
  /\ partner \in [Req -> Partners \cup {None}]
  /\ open \in SUBSET Req
  /\ pc \in [Req \cup Edits ->
       {"new", "authenticated", "partners", "loaded", "editing"} \cup Ended]
  /\ view \in [Req -> View \cup {None}]
  /\ edit \in [Edits -> Edit \cup {None}]

\* However many creations interleave, a partner never carries more open
\* shipments than the largest capacity it ever set plus the creations that can
\* overlap, less one: assign_shipment counts without a lock, so up to
\* MaxInFlight of them may take the last place.  Shipments that updates reopen
\* come on top, as reopening asks for no capacity.
OverbookBound ==
  \A p \in Partners : Cardinality(Lasting(p)) + 1 <= CapLimit + MaxInFlight

\* "Skipping anyone whose handling capacity is exhausted" (README): a shipment
\* is only assigned to a partner that, at this moment, has a place left.
HasRoomFor(r) == Cardinality(Active(partner'[r])) < caps[partner'[r]]

AssignedHasRoom == [][\A r \in Req :
  pc[r] = "loaded" /\ pc'[r] = "created" => HasRoomFor(r)]_vars

\* That much is true of a creation that overlaps no other request, whatever
\* overlapping ones did to the partner before it and whatever was reopened; the
\* partner serves its destination when it is assigned, although the session
\* may hold an older copy of the partner's row; and it is refused with 406 only
\* if nobody can take the shipment.
AloneIsServed == [][\A r \in Req \cap Alone :
  /\ pc[r] = "loaded" /\ pc'[r] = "created" =>
       HasRoomFor(r) /\ Dest[r] \in zips[partner'[r]]
  /\ pc[r] # "refused" /\ pc'[r] = "refused" =>
       \A p \in Serving(r) : Cardinality(Active(p)) >= caps[p]]_vars

(***************************************************************************)
(* The inductive invariant behind OverbookBound.                            *)
(***************************************************************************)
Creating == {"authenticated", "partners", "loaded"}

ArrivedInv ==
  /\ \A r \in Req : pc[r] \in Creating => view[r] \in View
  /\ \A e \in Edits : pc[e] = "editing" => edit[e] \in Edit
  /\ \A r \in Req : partner[r] # None => pc[r] = "created"

\* The old copies a session keeps never undercount the lasting shipments.
CopiesInv == \A r \in Req : pc[r] \in Creating =>
  \A s \in view[r].own : partner[s] # None /\ (s \in open \ Reopens => s \in view[r].open)

\* The creations that will take a place of p if the database picks p.
Pending(p) == {r \in Req : pc[r] = "loaded" /\ p \in Candidates(r)}

\* Once p is full only those that counted before can still be assigned to it.
PlacesInv == \A p \in Partners :
  Cardinality(Lasting(p)) >= CapLimit =>
    Cardinality(Lasting(p)) + Cardinality(Pending(p)) + 1 <= CapLimit + MaxInFlight

SlotsInv == Cardinality(InFlight) <= MaxInFlight

OverbookInv == TypeOK /\ ArrivedInv /\ CopiesInv /\ SlotsInv /\ PlacesInv

(***************************************************************************)
(* The one behind AloneIsServed: what a creation that overlaps nothing      *)
(* loaded is still what the tables hold.                                    *)
(***************************************************************************)
AloneInv == \A r \in Req \cap Alone : pc[r] \in Creating =>
  /\ InFlight = {r}
  /\ view[r].caps = caps /\ view[r].open = view[r].own \cap open
  /\ pc[r] # "authenticated" => view[r].eligible = Serving(r)
  /\ pc[r] = "loaded" => \A p \in Partners : view[r].load[p] = Active(p)
=============================================================================
