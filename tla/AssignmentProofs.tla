-------------------------- MODULE AssignmentProofs --------------------------
(***************************************************************************)
(* How far a partner can be overbooked, for every number of requests,       *)
(* partners, capacities and overlapping creations: the proof that           *)
(* OverbookInv is inductive.                                                *)
(***************************************************************************)
EXTENDS Assignment, FiniteSetTheorems, TLAPS

LEMMA SubsetCount ==
  ASSUME NEW T, IsFiniteSet(T), NEW S, S \subseteq T
  PROVE  /\ IsFiniteSet(S) /\ Cardinality(S) \in Nat /\ Cardinality(T) \in Nat
         /\ Cardinality(S) <= Cardinality(T)
<1>1. IsFiniteSet(S) /\ Cardinality(S) <= Cardinality(T)
  BY FS_Subset
<1>2. QED
  BY <1>1, FS_CardinalityType

LEMMA OneMoreCount ==
  ASSUME NEW T, IsFiniteSet(T), NEW x, NEW S, S \subseteq T \cup {x}
  PROVE  /\ IsFiniteSet(S) /\ Cardinality(S) \in Nat /\ Cardinality(T) \in Nat
         /\ Cardinality(S) <= Cardinality(T) + 1
<1>1. Cardinality(T) \in Nat
  BY FS_CardinalityType
<1>2. /\ IsFiniteSet(T \cup {x})
      /\ Cardinality(T \cup {x}) = IF x \in T THEN Cardinality(T) ELSE Cardinality(T) + 1
  BY FS_AddElement
<1>3. Cardinality(T \cup {x}) <= Cardinality(T) + 1
  BY <1>1, <1>2
<1>4. /\ IsFiniteSet(S) /\ Cardinality(S) \in Nat /\ Cardinality(T \cup {x}) \in Nat
      /\ Cardinality(S) <= Cardinality(T \cup {x})
  BY <1>2, SubsetCount
<1>5. QED
  BY <1>1, <1>3, <1>4

\* The sets that are counted are finite.
LEMMA CountedSets ==
  ASSUME NEW p
  PROVE  /\ IsFiniteSet(Lasting(p)) /\ Cardinality(Lasting(p)) \in Nat
         /\ IsFiniteSet(Pending(p)) /\ Cardinality(Pending(p)) \in Nat
         /\ IsFiniteSet(InFlight) /\ Cardinality(InFlight) \in Nat
<1>1. IsFiniteSet(Req) /\ IsFiniteSet(Req \cup Edits)
  BY RequestAssumption, FS_Union
<1>2. Lasting(p) \in SUBSET Req /\ Pending(p) \in SUBSET Req /\ InFlight \in SUBSET (Req \cup Edits)
  BY DEF Lasting, Active, Pending, InFlight
<1>3. QED
  BY <1>1, <1>2, FS_Subset, FS_CardinalityType

LEMMA InitOverbook == Init => OverbookInv
<1> SUFFICES ASSUME Init PROVE OverbookInv
  OBVIOUS
<1>1. TypeOK /\ ArrivedInv /\ CopiesInv
  BY RequestAssumption DEF Init, TypeOK, ArrivedInv, CopiesInv, Creating
<1>2. \A p \in Partners : Lasting(p) = {} /\ Pending(p) = {}
  BY DEF Init, Lasting, Active, Pending
<1>3. InFlight = {}
  BY DEF Init, InFlight
<1>4. SlotsInv
  BY <1>3, FS_EmptySet, BoundAssumption DEF SlotsInv
<1>5. PlacesInv
  BY <1>2, FS_EmptySet, BoundAssumption, CapacityAssumption DEF PlacesInv
<1>6. QED
  BY <1>1, <1>4, <1>5 DEF OverbookInv

LEMMA StepTyped ==
  TypeOK /\ ArrivedInv /\ [Next]_vars => (TypeOK /\ ArrivedInv)'
<1> SUFFICES ASSUME TypeOK, ArrivedInv, [Next]_vars
             PROVE  (TypeOK /\ ArrivedInv)'
  OBVIOUS
<1> USE RequestAssumption, CapacityAssumption DEF TypeOK, ArrivedInv, Creating, Goto, Ended
<1>1. ASSUME NEW r \in Req, Authenticate(r) PROVE (TypeOK /\ ArrivedInv)'
  <2> DEFINE own == {s \in Req : partner[s] # None /\ SellerOf[s] = SellerOf[r]}
  <2> DEFINE v == [own |-> own, open |-> own \cap open, caps |-> caps,
                   eligible |-> {}, load |-> [p \in Partners |-> {}]]
  <2>1. v \in View
    BY DEF View
  <2>2. /\ pc[r] = "new"
        /\ view' = [view EXCEPT ![r] = v] /\ pc' = [pc EXCEPT ![r] = "authenticated"]
        /\ UNCHANGED <<caps, zips, partner, open, edit>>
    BY <1>1 DEF Authenticate, Enters
  <2> HIDE DEF v
  <2>3. QED
    BY <2>1, <2>2
<1>2. ASSUME NEW r \in Req, SelectPartners(r) PROVE (TypeOK /\ ArrivedInv)'
  <2> DEFINE v == [own |-> view[r].own, open |-> view[r].open, eligible |-> Serving(r),
        caps |-> [p \in Partners |-> IF p \in Known(r) THEN view[r].caps[p] ELSE caps[p]],
        load |-> view[r].load]
  <2>1. view[r] \in View
    BY <1>2 DEF SelectPartners
  <2>2. v \in View
    BY <2>1 DEF View, Serving
  <2>3. view' = [view EXCEPT ![r] = v] /\ pc' = [pc EXCEPT ![r] = "partners"]
    BY <1>2 DEF SelectPartners
  <2> HIDE DEF v
  <2>4. QED
    BY <1>2, <2>2, <2>3 DEF SelectPartners
<1>3. ASSUME NEW r \in Req, LoadShipments(r) PROVE (TypeOK /\ ArrivedInv)'
  <2> DEFINE v == [own |-> view[r].own, open |-> view[r].open, eligible |-> view[r].eligible,
        caps |-> view[r].caps, load |-> [p \in Partners |-> SeenActive(r, p)]]
  <2>1. view[r] \in View
    BY <1>3 DEF LoadShipments
  <2>2. \A p \in Partners : SeenActive(r, p) \in SUBSET Req
    BY DEF SeenActive
  <2>3. v \in View
    BY <2>1, <2>2 DEF View
  <2>4. view' = [view EXCEPT ![r] = v] /\ pc' = [pc EXCEPT ![r] = "loaded"]
    BY <1>3 DEF LoadShipments
  <2> HIDE DEF v
  <2>5. QED
    BY <1>3, <2>3, <2>4 DEF LoadShipments
<1>4. ASSUME NEW r \in Req, Refuse(r) PROVE (TypeOK /\ ArrivedInv)'
  BY <1>4 DEF Refuse
<1>5. ASSUME NEW r \in Req, Assign(r) PROVE (TypeOK /\ ArrivedInv)'
  <2>1. PICK p \in Candidates(r) : partner' = [partner EXCEPT ![r] = p]
    BY <1>5 DEF Assign
  <2>2. p \in Partners
    BY <1>5, <2>1 DEF Assign, Candidates, View
  <2>3. QED
    BY <1>5, <2>1, <2>2 DEF Assign
<1>6. ASSUME NEW s \in Req, Close(s) \/ Reopen(s) PROVE (TypeOK /\ ArrivedInv)'
  BY <1>6 DEF Close, Reopen
<1>7. ASSUME NEW e \in Edits, NEW p \in Partners, LoadProfile(e, p)
      PROVE  (TypeOK /\ ArrivedInv)'
  <2>1. PICK cap \in Capacities \cup {None}, list \in ZipLists \cup {None} :
          edit' = [edit EXCEPT ![e] = [of |-> p, cap |-> cap, zips |-> list,
                                       oldCap |-> caps[p], oldZips |-> zips[p]]]
    BY <1>7 DEF LoadProfile, Enters
  <2> DEFINE d == [of |-> p, cap |-> cap, zips |-> list, oldCap |-> caps[p], oldZips |-> zips[p]]
  <2>2. d \in Edit
    BY DEF Edit
  <2>3. edit' = [edit EXCEPT ![e] = d] /\ pc' = [pc EXCEPT ![e] = "editing"]
    BY <1>7, <2>1 DEF LoadProfile, Enters
  <2> HIDE DEF d
  <2>4. QED
    BY <1>7, <2>2, <2>3 DEF LoadProfile, Enters
<1>8. ASSUME NEW e \in Edits, SaveProfile(e) PROVE (TypeOK /\ ArrivedInv)'
  <2>1. edit[e] \in Edit
    BY <1>8 DEF SaveProfile
  <2>2. /\ edit[e].of \in Partners /\ edit[e].cap \in Capacities
        /\ ListOf(e) \in ZipLists \cup {{}}
    BY <1>8, <2>1 DEF Edit, SaveProfile, ListOf
  <2>3. caps' \in [Partners -> Capacities] /\ zips' \in [Partners -> ZipLists \cup {{}}]
    BY <1>8, <2>2 DEF SaveProfile
  <2>4. QED
    BY <1>8, <2>3 DEF SaveProfile
<1>9. ASSUME NEW e \in Edits, SaveFails(e) PROVE (TypeOK /\ ArrivedInv)'
  BY <1>9 DEF SaveFails
<1>10. CASE UNCHANGED vars
  BY <1>10 DEF vars
<1>11. QED
  BY <1>1, <1>2, <1>3, <1>4, <1>5, <1>6, <1>7, <1>8, <1>9, <1>10 DEF Next, Create

\* Requests in flight never exceed the bound.
LEMMA StepSlots ==
  TypeOK /\ SlotsInv /\ [Next]_vars => SlotsInv'
<1> SUFFICES ASSUME TypeOK, SlotsInv, [Next]_vars PROVE SlotsInv'
  OBVIOUS
<1> USE RequestAssumption, BoundAssumption
<1>0. IsFiniteSet(InFlight) /\ Cardinality(InFlight) \in Nat
  BY CountedSets
<1>1. CASE InFlight' \subseteq InFlight
  <2>1. Cardinality(InFlight') \in Nat /\ Cardinality(InFlight') <= Cardinality(InFlight)
    BY <1>0, <1>1, SubsetCount
  <2>2. QED
    BY <1>0, <2>1 DEF SlotsInv
<1>2. ASSUME NEW r \in Req \cup Edits, HasSlot, InFlight' \subseteq InFlight \cup {r}
      PROVE  SlotsInv'
  <2>1. Cardinality(InFlight') \in Nat /\ Cardinality(InFlight') <= Cardinality(InFlight) + 1
    BY <1>0, <1>2, OneMoreCount
  <2>2. QED
    BY <1>0, <1>2, <2>1 DEF HasSlot, SlotsInv
<1>3. ASSUME NEW r \in Req, Create(r) PROVE SlotsInv'
  <2>1. CASE Authenticate(r)
    <3>1. HasSlot /\ InFlight' \subseteq InFlight \cup {r}
      BY <2>1 DEF Authenticate, Enters, Goto, TypeOK, InFlight
    <3>2. QED
      BY <1>2, <3>1
  <2>2. CASE SelectPartners(r) \/ LoadShipments(r) \/ Refuse(r) \/ Assign(r)
    <3>1. InFlight' \subseteq InFlight
      BY <2>2 DEF SelectPartners, LoadShipments, Refuse, Assign, Goto, TypeOK, InFlight, Ended
    <3>2. QED
      BY <1>1, <3>1
  <2>3. QED
    BY <1>3, <2>1, <2>2 DEF Create
<1>4. ASSUME NEW s \in Req, Close(s) \/ Reopen(s) PROVE SlotsInv'
  BY <1>1, <1>4 DEF Close, Reopen, InFlight
<1>5. ASSUME NEW e \in Edits, NEW p \in Partners, LoadProfile(e, p) PROVE SlotsInv'
  <2>1. HasSlot /\ InFlight' \subseteq InFlight \cup {e}
    BY <1>5 DEF LoadProfile, Enters, Goto, TypeOK, InFlight
  <2>2. QED
    BY <1>2, <2>1
<1>6. ASSUME NEW e \in Edits, SaveProfile(e) \/ SaveFails(e) PROVE SlotsInv'
  <2>1. InFlight' \subseteq InFlight
    BY <1>6 DEF SaveProfile, SaveFails, Goto, TypeOK, InFlight, Ended
  <2>2. QED
    BY <1>1, <2>1
<1>7. CASE UNCHANGED vars
  BY <1>1, <1>7 DEF vars, InFlight
<1>8. QED
  BY <1>3, <1>4, <1>5, <1>6, <1>7 DEF Next

\* A shipment only becomes open when it is created, unless it is reopened.
LEMMA OpenShipments ==
  ASSUME TypeOK, ArrivedInv, [Next]_vars
  PROVE  /\ \A s \in Req : partner[s] # None => partner'[s] = partner[s]
         /\ \A s \in Req : partner[s] # None /\ s \in open' \ Reopens => s \in open
<1>1. ASSUME NEW r \in Req, Assign(r)
      PROVE  partner[r] = None /\ open' = open \cup {r}
             /\ \E p \in Partners : partner' = [partner EXCEPT ![r] = p]
  BY <1>1, RequestAssumption DEF Assign, ArrivedInv, Candidates, View, Creating
<1>2. ASSUME NEW r \in Req, Assign(r) PROVE
         /\ \A s \in Req : partner[s] # None => partner'[s] = partner[s]
         /\ \A s \in Req : partner[s] # None /\ s \in open' \ Reopens => s \in open
  BY <1>1, <1>2 DEF TypeOK
<1>3. CASE partner' = partner /\ open' \ Reopens \subseteq open
  BY <1>3
<1>4. ASSUME NEW r \in Req, Create(r), ~Assign(r)
      PROVE  partner' = partner /\ open' \ Reopens \subseteq open
  BY <1>4 DEF Create, Authenticate, SelectPartners, LoadShipments, Refuse
<1>5. ASSUME NEW s \in Req, Close(s) \/ Reopen(s)
      PROVE  partner' = partner /\ open' \ Reopens \subseteq open
  BY <1>5 DEF Close, Reopen
<1>6. ASSUME NEW e \in Edits, NEW p \in Partners,
             LoadProfile(e, p) \/ SaveProfile(e) \/ SaveFails(e)
      PROVE  partner' = partner /\ open' \ Reopens \subseteq open
  BY <1>6 DEF LoadProfile, SaveProfile, SaveFails
<1>7. ASSUME NEW e \in Edits, SaveProfile(e) \/ SaveFails(e)
      PROVE  partner' = partner /\ open' \ Reopens \subseteq open
  BY <1>7 DEF SaveProfile, SaveFails
<1>8. CASE UNCHANGED vars
  BY <1>3, <1>8 DEF vars
<1>9. QED
  BY <1>2, <1>3, <1>4, <1>5, <1>6, <1>7, <1>8 DEF Next

\* How one step can change the loaded copy of a creation in progress.
LEMMA CopyOfCreation ==
  ASSUME TypeOK, [Next]_vars, NEW q \in Req, pc'[q] \in Creating
  PROVE  \/ /\ pc[q] \in Creating
            /\ view'[q].own = view[q].own /\ view'[q].open = view[q].open
         \/ Authenticate(q)
<1> USE RequestAssumption DEF TypeOK, Goto, Creating, Ended
<1>1. ASSUME NEW r \in Req, Create(r), r # q
      PROVE  pc'[q] = pc[q] /\ view'[q] = view[q]
  BY <1>1 DEF Create, Authenticate, SelectPartners, LoadShipments, Refuse, Assign
<1>2. CASE SelectPartners(q)
  BY <1>2 DEF SelectPartners
<1>3. CASE LoadShipments(q)
  BY <1>3 DEF LoadShipments
<1>4. CASE Refuse(q) \/ Assign(q)
  BY <1>4 DEF Refuse, Assign
<1>5. ASSUME NEW s \in Req, Close(s) \/ Reopen(s)
      PROVE  pc'[q] = pc[q] /\ view'[q] = view[q]
  BY <1>5 DEF Close, Reopen
<1>6. ASSUME NEW e \in Edits, (\E p \in Partners : LoadProfile(e, p)) \/ SaveProfile(e) \/ SaveFails(e)
      PROVE  pc'[q] = pc[q] /\ view'[q] = view[q]
  BY <1>6 DEF LoadProfile, SaveProfile, SaveFails
<1>7. CASE UNCHANGED vars
  BY <1>7 DEF vars
<1>8. QED
  BY <1>1, <1>2, <1>3, <1>4, <1>5, <1>6, <1>7 DEF Next, Create

LEMMA StepCopies ==
  TypeOK /\ ArrivedInv /\ CopiesInv /\ [Next]_vars => CopiesInv'
<1> SUFFICES ASSUME TypeOK, ArrivedInv, CopiesInv, [Next]_vars,
                    NEW q \in Req, pc'[q] \in Creating,
                    NEW s \in view'[q].own
             PROVE  partner'[s] # None /\ (s \in open' \ Reopens => s \in view'[q].open)
  BY DEF CopiesInv
<1>1. CASE /\ pc[q] \in Creating
           /\ view'[q].own = view[q].own /\ view'[q].open = view[q].open
  <2>1. s \in Req /\ partner[s] # None /\ (s \in open \ Reopens => s \in view[q].open)
    BY <1>1 DEF CopiesInv, ArrivedInv, View
  <2>2. partner'[s] = partner[s] /\ (s \in open' \ Reopens => s \in open)
    BY <2>1, OpenShipments
  <2>3. QED
    BY <1>1, <2>1, <2>2
<1>2. CASE Authenticate(q)
  <2>1. /\ view'[q].own = {n \in Req : partner[n] # None /\ SellerOf[n] = SellerOf[q]}
        /\ view'[q].open = view'[q].own \cap open
        /\ partner' = partner /\ open' = open
    BY <1>2 DEF Authenticate, TypeOK
  <2>2. QED
    BY <2>1
<1>3. QED
  BY <1>1, <1>2, CopyOfCreation

\* Places are given away by assignments only, and only to creations that found
\* one when they counted.
LEMMA StepPlaces ==
  OverbookInv /\ [Next]_vars => PlacesInv'
<1> SUFFICES ASSUME OverbookInv, [Next]_vars, NEW p \in Partners,
                    Cardinality(Lasting(p)') >= CapLimit
             PROVE  Cardinality(Lasting(p)') + Cardinality(Pending(p)') + 1
                      <= CapLimit + MaxInFlight
  BY DEF PlacesInv
<1> USE RequestAssumption, CapacityAssumption, BoundAssumption
<1>0. TypeOK /\ ArrivedInv /\ CopiesInv /\ SlotsInv /\ PlacesInv
  BY DEF OverbookInv
<1>1. /\ IsFiniteSet(Lasting(p)) /\ Cardinality(Lasting(p)) \in Nat
      /\ IsFiniteSet(Pending(p)) /\ Cardinality(Pending(p)) \in Nat
      /\ IsFiniteSet(InFlight) /\ Cardinality(InFlight) \in Nat
  BY CountedSets
<1>2. CASE Lasting(p)' \subseteq Lasting(p) /\ Pending(p)' \subseteq Pending(p)
  <2>1. /\ Cardinality(Lasting(p)') \in Nat /\ Cardinality(Lasting(p)') <= Cardinality(Lasting(p))
        /\ Cardinality(Pending(p)') \in Nat /\ Cardinality(Pending(p)') <= Cardinality(Pending(p))
    BY <1>1, <1>2, SubsetCount
  <2>2. Cardinality(Lasting(p)) + Cardinality(Pending(p)) + 1 <= CapLimit + MaxInFlight
    BY <1>0, <1>1, <2>1 DEF PlacesInv
  <2>3. QED
    BY <1>1, <2>1, <2>2
<1>3. ASSUME NEW r \in Req, LoadShipments(r)
      PROVE  Lasting(p)' \subseteq Lasting(p) /\ Pending(p)' \subseteq Pending(p)
  <2>1. /\ UNCHANGED <<partner, open>> /\ pc[r] = "partners"
        /\ pc' = [pc EXCEPT ![r] = "loaded"]
        /\ \A q \in Req : q # r => view'[q] = view[q]
        /\ view'[r].caps = view[r].caps /\ view'[r].eligible = view[r].eligible
        /\ view'[r].load = [q \in Partners |-> SeenActive(r, q)]
    BY <1>0, <1>3 DEF LoadShipments, Goto, TypeOK
  <2>2. Lasting(p)' = Lasting(p)
    BY <2>1 DEF Lasting, Active
  <2>3. r \notin Pending(p)'
    <3>1. SUFFICES ASSUME r \in Pending(p)' PROVE FALSE
      OBVIOUS
    <3>2. Cardinality(SeenActive(r, p)) < view[r].caps[p]
      BY <2>1, <3>1 DEF Pending, Candidates, HasCapacity
    <3>3. view[r].caps[p] \in Nat /\ view[r].caps[p] <= CapLimit
      <4>1. view[r] \in View
        BY <1>0, <2>1 DEF ArrivedInv, Creating
      <4>2. view[r].caps[p] \in Capacities
        BY <4>1 DEF View
      <4>3. \A n \in Capacities : n \in Nat /\ n <= CapLimit
        BY CapacityAssumption
      <4>4. QED
        BY <4>2, <4>3
    <3>4. Lasting(p) \subseteq SeenActive(r, p) /\ SeenActive(r, p) \in SUBSET Req
      BY <1>0, <2>1 DEF Lasting, Active, SeenActive, CopiesInv, Creating
    <3>5. /\ Cardinality(Lasting(p)) <= Cardinality(SeenActive(r, p))
          /\ Cardinality(SeenActive(r, p)) \in Nat
      BY <3>4, SubsetCount
    <3>6. QED
      BY <1>1, <2>2, <3>2, <3>3, <3>5
  <2>4. Pending(p)' \subseteq Pending(p)
    BY <1>0, <2>1, <2>3 DEF Pending, Candidates, HasCapacity, TypeOK
  <2>5. QED
    BY <2>2, <2>4
<1>4. ASSUME NEW r \in Req, Assign(r)
      PROVE  Cardinality(Lasting(p)') + Cardinality(Pending(p)') + 1 <= CapLimit + MaxInFlight
  <2>1. PICK q \in Candidates(r) : partner' = [partner EXCEPT ![r] = q]
    BY <1>4 DEF Assign
  <2>2. /\ pc[r] = "loaded" /\ pc' = [pc EXCEPT ![r] = "created"]
        /\ open' = open \cup {r} /\ view' = view
    BY <1>4 DEF Assign, Goto
  <2>3. partner[r] = None
    BY <1>0, <2>2 DEF ArrivedInv
  <2>4. Pending(p)' \subseteq Pending(p) \ {r}
    BY <1>0, <2>2 DEF Pending, Candidates, HasCapacity, TypeOK
  <2>5. CASE q # p
    <3>1. Lasting(p)' \subseteq Lasting(p)
      BY <1>0, <2>1, <2>2, <2>5 DEF Lasting, Active, TypeOK
    <3>2. QED
      BY <1>2, <2>4, <3>1
  <2>6. CASE q = p
    <3>1. r \in Pending(p) /\ r \notin Lasting(p) /\ Lasting(p)' \subseteq Lasting(p) \cup {r}
      BY <1>0, <2>1, <2>2, <2>3, <2>6 DEF Lasting, Active, Pending, TypeOK
    <3>2. /\ Cardinality(Lasting(p)') \in Nat
          /\ Cardinality(Lasting(p)') <= Cardinality(Lasting(p)) + 1
      BY <1>1, <3>1, OneMoreCount
    <3>3. /\ Cardinality(Pending(p)') \in Nat
          /\ Cardinality(Pending(p)') <= Cardinality(Pending(p)) - 1
      <4>1. /\ IsFiniteSet(Pending(p) \ {r})
            /\ Cardinality(Pending(p) \ {r}) = Cardinality(Pending(p)) - 1
        BY <1>1, <3>1, FS_RemoveElement
      <4>2. QED
        BY <2>4, <4>1, SubsetCount
    <3>4. Cardinality(Pending(p)') <= MaxInFlight - 1
      <4>1. r \in InFlight /\ Pending(p) \subseteq InFlight
        BY <2>2 DEF InFlight, Pending, Ended
      <4>2. /\ IsFiniteSet(InFlight \ {r})
            /\ Cardinality(InFlight \ {r}) = Cardinality(InFlight) - 1
        BY <1>1, <4>1, FS_RemoveElement
      <4>3. Cardinality(Pending(p)') <= Cardinality(InFlight \ {r})
        BY <2>4, <4>1, <4>2, SubsetCount
      <4>4. QED
        BY <1>0, <1>1, <3>3, <4>2, <4>3 DEF SlotsInv
    <3>5. CASE Cardinality(Lasting(p)) >= CapLimit
      <4>1. Cardinality(Lasting(p)) + Cardinality(Pending(p)) + 1 <= CapLimit + MaxInFlight
        BY <1>0, <3>5 DEF PlacesInv
      <4>2. QED
        BY <1>1, <3>2, <3>3, <4>1
    <3>6. CASE Cardinality(Lasting(p)) < CapLimit
      BY <1>1, <3>2, <3>3, <3>4, <3>6
    <3>7. QED
      BY <1>1, <3>5, <3>6
  <2>7. QED
    BY <2>5, <2>6
<1>5. ASSUME NEW r \in Req, Authenticate(r) \/ SelectPartners(r) \/ Refuse(r)
      PROVE  Lasting(p)' \subseteq Lasting(p) /\ Pending(p)' \subseteq Pending(p)
  <2>1. /\ UNCHANGED <<partner, open>>
        /\ \A q \in Req : pc'[q] = "loaded" => pc[q] = "loaded" /\ view'[q] = view[q]
    BY <1>0, <1>5 DEF Authenticate, SelectPartners, Refuse, Goto, TypeOK
  <2>2. QED
    BY <2>1 DEF Lasting, Active, Pending, Candidates, HasCapacity
<1>6. ASSUME NEW s \in Req, Close(s) \/ Reopen(s)
      PROVE  Lasting(p)' \subseteq Lasting(p) /\ Pending(p)' \subseteq Pending(p)
  BY <1>6 DEF Close, Reopen, Lasting, Active, Pending, Candidates, HasCapacity
<1>7. ASSUME NEW e \in Edits,
             (\E q \in Partners : LoadProfile(e, q)) \/ SaveProfile(e) \/ SaveFails(e)
      PROVE  Lasting(p)' \subseteq Lasting(p) /\ Pending(p)' \subseteq Pending(p)
  <2>1. /\ UNCHANGED <<partner, open, view>>
        /\ \A q \in Req : pc'[q] = "loaded" => pc[q] = "loaded"
    BY <1>0, <1>7 DEF LoadProfile, SaveProfile, SaveFails, Goto, TypeOK
  <2>2. QED
    BY <2>1 DEF Lasting, Active, Pending, Candidates, HasCapacity
<1>8. CASE UNCHANGED vars
  BY <1>2, <1>8 DEF vars, Lasting, Active, Pending, Candidates, HasCapacity
<1>9. QED
  BY <1>2, <1>3, <1>4, <1>5, <1>6, <1>7, <1>8 DEF Next, Create

LEMMA PlacesBound == OverbookInv => OverbookBound
<1> SUFFICES ASSUME OverbookInv, NEW p \in Partners
             PROVE  Cardinality(Lasting(p)) + 1 <= CapLimit + MaxInFlight
  BY DEF OverbookBound
<1>1. Cardinality(Lasting(p)) \in Nat /\ Cardinality(Pending(p)) \in Nat
  BY CountedSets
<1>2. CASE Cardinality(Lasting(p)) >= CapLimit
  <2>1. Cardinality(Lasting(p)) + Cardinality(Pending(p)) + 1 <= CapLimit + MaxInFlight
    BY <1>2 DEF OverbookInv, PlacesInv
  <2>2. QED
    BY <1>1, <2>1, CapacityAssumption, BoundAssumption
<1>3. CASE Cardinality(Lasting(p)) < CapLimit
  BY <1>1, <1>3, CapacityAssumption, BoundAssumption
<1>4. QED
  BY <1>1, <1>2, <1>3, CapacityAssumption

\* No partner ever carries more open shipments, those taken back out of a closed
\* status aside, than its largest capacity plus the creations that can overlap,
\* less one (assign_shipment counts and inserts without a lock).
THEOREM OverbookingIsBounded == Spec => []OverbookBound
<1>1. Init => OverbookInv
  BY InitOverbook
<1>2. OverbookInv /\ [Next]_vars => OverbookInv'
  BY StepTyped, StepCopies, StepSlots, StepPlaces DEF OverbookInv
<1>3. OverbookInv => OverbookBound
  BY PlacesBound
<1>4. QED
  BY <1>1, <1>2, <1>3, PTL DEF Spec

(***************************************************************************)
(* A creation that overlaps nothing.                                        *)
(***************************************************************************)
LEMMA ActiveCount ==
  ASSUME NEW p
  PROVE  IsFiniteSet(Active(p)) /\ Cardinality(Active(p)) \in Nat
<1>1. Active(p) \subseteq Req
  BY DEF Active
<1> QED
  BY <1>1, RequestAssumption, SubsetCount

\* While it is served only its own steps are taken.
LEMMA OnlyItself ==
  ASSUME TypeOK, AloneInv, [Next]_vars, NEW r \in Req \cap Alone, pc[r] \in Creating
  PROVE  SelectPartners(r) \/ LoadShipments(r) \/ Refuse(r) \/ Assign(r) \/ UNCHANGED vars
<1>1. InFlight = {r} /\ r \notin Edits /\ ~HasSlot
  BY RequestAssumption DEF AloneInv, HasSlot
<1>2. ASSUME NEW q \in Req, Create(q) \/ Close(q) \/ Reopen(q)
      PROVE  SelectPartners(r) \/ LoadShipments(r) \/ Refuse(r) \/ Assign(r)
  <2>1. SelectPartners(q) \/ LoadShipments(q) \/ Refuse(q) \/ Assign(q)
    BY <1>1, <1>2 DEF Create, Close, Reopen, Authenticate, Enters
  <2>2. q \in InFlight
    BY <2>1 DEF SelectPartners, LoadShipments, Refuse, Assign, InFlight, Ended
  <2> QED
    BY <1>1, <2>1, <2>2
<1>3. ASSUME NEW e \in Edits, (\E p \in Partners : LoadProfile(e, p)) \/ SaveProfile(e) \/ SaveFails(e)
      PROVE  FALSE
  <2>1. e \in InFlight
    BY <1>1, <1>3 DEF LoadProfile, Enters, SaveProfile, SaveFails, InFlight, Ended
  <2> QED
    BY <1>1, <2>1
<1> QED
  BY <1>2, <1>3 DEF Next

\* Only a creation under way is refused.
LEMMA RefusedFrom ==
  ASSUME TypeOK, [Next]_vars, NEW r \in Req, pc[r] # "refused", pc'[r] = "refused"
  PROVE  pc[r] \in Creating
<1> USE RequestAssumption DEF TypeOK, Goto, Creating
<1>1. ASSUME NEW q \in Req, Create(q) \/ Close(q) \/ Reopen(q) PROVE pc[r] \in Creating
  BY <1>1 DEF Create, Authenticate, SelectPartners, LoadShipments, Refuse, Assign, Close, Reopen
<1>2. ASSUME NEW e \in Edits, (\E p \in Partners : LoadProfile(e, p)) \/ SaveProfile(e) \/ SaveFails(e)
      PROVE  FALSE
  BY <1>2 DEF LoadProfile, SaveProfile, SaveFails
<1> QED
  BY <1>1, <1>2 DEF Next, vars

\* It enters when nothing else is in flight, and loads the tables as they are.
LEMMA EntersAlone ==
  ASSUME TypeOK, NEW r \in Req \cap Alone, Authenticate(r)
  PROVE  /\ InFlight' = {r} /\ pc'[r] = "authenticated"
         /\ view'[r].caps = caps' /\ view'[r].open = view'[r].own \cap open'
  BY DEF TypeOK, Authenticate, Enters, InFlight, Goto, Ended

LEMMA StepAlone ==
  TypeOK /\ ArrivedInv /\ AloneInv /\ [Next]_vars => AloneInv'
<1> SUFFICES ASSUME TypeOK, ArrivedInv, AloneInv, [Next]_vars,
                    NEW r \in Req \cap Alone, pc'[r] \in Creating
             PROVE  /\ InFlight' = {r}
                    /\ view'[r].caps = caps' /\ view'[r].open = view'[r].own \cap open'
                    /\ pc'[r] # "authenticated" => view'[r].eligible = Serving(r)'
                    /\ pc'[r] = "loaded" => \A p \in Partners : view'[r].load[p] = Active(p)'
  BY DEF AloneInv
<1>1. CASE pc[r] \in Creating
  <2>1. /\ InFlight = {r} /\ view[r] \in View
        /\ view[r].caps = caps /\ view[r].open = view[r].own \cap open
        /\ pc[r] # "authenticated" => view[r].eligible = Serving(r)
        /\ pc[r] = "loaded" => \A p \in Partners : view[r].load[p] = Active(p)
    BY <1>1 DEF AloneInv, ArrivedInv
  <2>2. CASE SelectPartners(r)
    <3>1. /\ pc' = [pc EXCEPT ![r] = "partners"] /\ UNCHANGED <<caps, zips, partner, open>>
          /\ view'[r].own = view[r].own /\ view'[r].open = view[r].open
          /\ view'[r].eligible = Serving(r)
          /\ view'[r].caps = [p \in Partners |-> IF p \in Known(r) THEN view[r].caps[p] ELSE caps[p]]
      BY <2>2 DEF SelectPartners, Goto, TypeOK
    <3>2. view'[r].caps = caps
      BY <2>1, <3>1 DEF TypeOK
    <3>3. InFlight' = {r}
      BY <2>1, <3>1, <1>1 DEF InFlight, Ended, TypeOK
    <3> QED
      BY <2>1, <3>1, <3>2, <3>3 DEF TypeOK, Serving
  <2>3. CASE LoadShipments(r)
    <3>1. /\ pc[r] = "partners" /\ pc' = [pc EXCEPT ![r] = "loaded"]
          /\ UNCHANGED <<caps, zips, partner, open>>
          /\ view'[r].own = view[r].own /\ view'[r].open = view[r].open
          /\ view'[r].eligible = view[r].eligible /\ view'[r].caps = view[r].caps
          /\ view'[r].load = [p \in Partners |-> SeenActive(r, p)]
      BY <2>3 DEF LoadShipments, Goto, TypeOK
    <3>2. \A p \in Partners : SeenActive(r, p) = Active(p)
      BY <2>1 DEF SeenActive, Active
    <3>3. InFlight' = {r}
      BY <2>1, <3>1, <1>1 DEF InFlight, Ended, TypeOK
    <3> QED
      BY <2>1, <3>1, <3>2, <3>3 DEF TypeOK, Serving, Active
  <2>4. CASE Refuse(r) \/ Assign(r)
    BY <2>4 DEF Refuse, Assign, Goto, Creating, TypeOK
  <2>5. CASE UNCHANGED vars
    BY <2>1, <2>5 DEF vars, InFlight, Serving, Active
  <2> QED
    BY <1>1, <2>2, <2>3, <2>4, <2>5, OnlyItself
<1>2. CASE pc[r] \notin Creating
  <2>1. Authenticate(r)
    BY <1>2, CopyOfCreation
  <2> QED
    BY <2>1, EntersAlone
<1> QED
  BY <1>1, <1>2

\* A creation that overlaps nothing is given a partner that serves its
\* destination and has a place left, and is refused only if there is none,
\* whatever overlapping creations, profile edits and reopenings did before.
THEOREM ServedWhenAlone == Spec => AloneIsServed
<1>1. Init => TypeOK /\ ArrivedInv /\ AloneInv
  BY InitOverbook DEF OverbookInv, Init, AloneInv, Creating
<1>2. (TypeOK /\ ArrivedInv /\ AloneInv) /\ [Next]_vars => (TypeOK /\ ArrivedInv /\ AloneInv)'
  BY StepTyped, StepAlone
<1>3. TypeOK /\ ArrivedInv /\ AloneInv /\ [Next]_vars =>
        [\A r \in Req \cap Alone :
           /\ pc[r] = "loaded" /\ pc'[r] = "created" =>
                HasRoomFor(r) /\ Dest[r] \in zips[partner'[r]]
           /\ pc[r] # "refused" /\ pc'[r] = "refused" =>
                \A p \in Serving(r) : Cardinality(Active(p)) >= caps[p]]_vars
  <2> SUFFICES ASSUME TypeOK, ArrivedInv, AloneInv, [Next]_vars, NEW r \in Req \cap Alone
               PROVE  /\ pc[r] = "loaded" /\ pc'[r] = "created" =>
                           HasRoomFor(r) /\ Dest[r] \in zips[partner'[r]]
                      /\ pc[r] # "refused" /\ pc'[r] = "refused" =>
                           \A p \in Serving(r) : Cardinality(Active(p)) >= caps[p]
    OBVIOUS
  <2>1. ASSUME pc[r] = "loaded", pc'[r] = "created"
        PROVE  HasRoomFor(r) /\ Dest[r] \in zips[partner'[r]]
    <3>1. Assign(r)
      BY <2>1, OnlyItself DEF Creating, SelectPartners, LoadShipments, Refuse, Goto, TypeOK, vars
    <3>2. PICK p \in Candidates(r) : partner' = [partner EXCEPT ![r] = p]
      BY <3>1 DEF Assign
    <3>3. /\ view[r].caps = caps /\ view[r].eligible = Serving(r)
          /\ \A q \in Partners : view[r].load[q] = Active(q)
      BY <2>1 DEF AloneInv, Creating
    <3>4. partner'[r] = p /\ p \in Serving(r) /\ p \in Partners
          /\ Cardinality(view[r].load[p]) < view[r].caps[p]
      BY <3>2, <3>3 DEF Candidates, HasCapacity, Serving, TypeOK
    <3> QED
      BY <3>3, <3>4 DEF HasRoomFor, Serving
  <2>2. ASSUME pc[r] # "refused", pc'[r] = "refused", NEW p \in Serving(r)
        PROVE  Cardinality(Active(p)) >= caps[p]
    <3>1. pc[r] \in Creating /\ Refuse(r)
      <4>1. pc[r] \in Creating
        BY <2>2, RefusedFrom
      <4> QED
        BY <2>2, <4>1, OnlyItself DEF SelectPartners, LoadShipments, Assign, Goto, TypeOK, vars
    <3>2. view[r].caps = caps /\ view[r].eligible = Serving(r)
      BY <3>1 DEF AloneInv, Refuse
    <3>3. pc[r] = "loaded" /\ Candidates(r) = {}
      BY <2>2, <3>1, <3>2 DEF Refuse
    <3>4. view[r].load[p] = Active(p) /\ p \in Partners
      BY <2>2, <3>1, <3>3 DEF AloneInv, Serving
    <3>5. ~(Cardinality(Active(p)) < caps[p])
      BY <2>2, <3>2, <3>3, <3>4 DEF Candidates, HasCapacity
    <3>6. caps[p] \in Nat
      <4>1. caps[p] \in Capacities
        BY <3>4 DEF TypeOK
      <4>2. \A n \in Capacities : n \in Nat
        BY CapacityAssumption
      <4> QED
        BY <4>1, <4>2
    <3> QED
      BY <3>5, <3>6, ActiveCount
  <2> QED
    BY <2>1, <2>2
<1>4. QED
  BY <1>1, <1>2, <1>3, PTL DEF Spec, AloneIsServed
=============================================================================
