---------------------------- MODULE BackOffice_proofs ----------------------------
(***************************************************************************)
(* The three parts of MCBackOffice, for every value of the constants: the    *)
(* registers of carriers, drivers and vehicles (CarrierAccess), the documents *)
(* that carry money (FinanceDocuments) and the start of a release             *)
(* (DatabaseBootstrap).  Each part has its specification and its inductive    *)
(* invariant; none reads a row of another.                                   *)
(***************************************************************************)
EXTENDS MCBackOffice, FiniteSetTheorems, TLAPS

(***************************************************************************)
(* CarrierAccess.  The registers are sound: the rows and the links of every  *)
(* resource, the two copies of the receiver of freight, what each resource is *)
(* offered in, and the crew of the route.                                    *)
(***************************************************************************)
\* No row, no trace of it; a carrier that a row names exists.
RowSound(r) ==
    /\ ~Present(r) => register[r] = NoRow
    /\ register[r].carrier # None => carriers[register[r].carrier].state # "absent"

\* Absent is the only availability without a decision.
LinkSound(link) == link.approval = "absent" => link = Absent

Receiving(v) == Present(v) /\ register[v].carrier # None
ReceiverOf(v) ==
    [carrier |-> register[v].carrier, vehicle |-> v,
     antt |-> Authorized(register[v].antt, carriers[register[v].carrier].antt)]
FleetSound == \A l : l \in fleet <=> \E v \in Vehicles : Receiving(v) /\ l = ReceiverOf(v)

CrewSound ==
    /\ route.branch = None => route = NoRoute
    /\ \A r \in Crew \ {None} : Present(r)
    /\ CrewOfCarrier

RegistersSound ==
    /\ TypeOK
    /\ \A r \in Resources : RowSound(r)
    /\ \A r \in Resources, b \in Branches : LinkSound(available[r][b])
    /\ FleetSound /\ ServedBranchesOffered /\ CrewSound

LEMMA Constants ==
    /\ None \notin Carriers /\ None \notin Resources /\ None \notin Branches
    /\ NoRow \in Rows /\ Absent \in Availability /\ NoRoute \in Routes
    /\ NoRow.carrier = None /\ ~NoRow.present /\ LinkSound(Absent)
BY NoneAssumption DEF Resources, NoRow, Rows, Absent, Availability, NoRoute, Routes, LinkSound

LEMMA FleetAgrees == ASSUME TypeOK PROVE FleetSound <=> FleetAgreesWithVehicles
<1>1. FleetAgreesWithVehicles <=> fleet = {ReceiverOf(v) : v \in {x \in Vehicles : Receiving(x)}}
  BY DEF FleetAgreesWithVehicles, ReceiverOf, Receiving
<1>2. \A l : l \in {ReceiverOf(v) : v \in {x \in Vehicles : Receiving(x)}}
                <=> \E v \in Vehicles : Receiving(v) /\ l = ReceiverOf(v)
  OBVIOUS
<1> HIDE DEF FleetAgreesWithVehicles
<1>3. ASSUME FleetSound PROVE fleet = {ReceiverOf(v) : v \in {x \in Vehicles : Receiving(x)}}
  BY <1>2, <1>3 DEF FleetSound
<1>4. ASSUME fleet = {ReceiverOf(v) : v \in {x \in Vehicles : Receiving(x)}} PROVE FleetSound
  BY <1>2, <1>4 DEF FleetSound
<1> QED BY <1>1, <1>3, <1>4

LEMMA RegistersSoundInit == Init => RegistersSound
<1> SUFFICES ASSUME Init PROVE RegistersSound
  OBVIOUS
<1>1. \A r \in Resources : register[r] = NoRow /\ ~Present(r) /\ register[r].carrier = None
  BY Constants DEF Init, Present
<1>2. \A r \in Resources, b \in Branches : available[r][b] = Absent
  BY DEF Init
<1>3. TypeOK
  <2>1. register \in [Resources -> Rows] /\ available \in [Resources -> [Branches -> Availability]]
    BY Constants DEF Init
  <2>2. carriers \in [Carriers -> CarrierRows]
    BY DEF Init, CarrierRows
  <2>3. route = NoRoute /\ NoRoute.branch = None
    BY DEF Init, NoRoute
  <2>4. policy \in [Branches -> SUBSET {"driver", "vehicle"}] /\ served \subseteq Carriers \X branches
    BY DEF Init
  <2>5. /\ branches = {} /\ closed = {} /\ fleet = {} /\ unsynced = {} /\ drifted \in BOOLEAN
        /\ requests = 0
    BY DEF Init
  <2>7. 0 \in 0..MaxRequests
    BY KindsAssumption
  <2>6. route \in Routes /\ route.branch \in branches \cup {None}
    BY <2>3, Constants
  <2> QED BY <1>2, <2>1, <2>2, <2>4, <2>5, <2>6, <2>7 DEF TypeOK
<1>4. \A r \in Resources : RowSound(r)
  BY <1>1 DEF RowSound
<1>5. FleetSound
  BY <1>1 DEF FleetSound, Receiving, Init, Resources
<1>6. ServedBranchesOffered
  BY <1>1 DEF ServedBranchesOffered
<1>7. CrewSound
  BY DEF Init, CrewSound, CrewOfCarrier, Crew, NoRoute
<1> QED BY <1>2, <1>3, <1>4, <1>5, <1>6, <1>7, Constants DEF RegistersSound

-----------------------------------------------------------------------------
(* Availability: links are added and decided on, and go with the row alone.  *)

LEMMA NewLinkDecided ==
    ASSUME NEW b \in Branches, NEW r \in Resources
    PROVE  /\ NewLink(b, r) \in Availability /\ NewLink(b, r) # Absent /\ LinkSound(NewLink(b, r))
           /\ Requires(b, r) => ~Usable(NewLink(b, r))
BY DEF NewLink, Availability, Absent, LinkSound, Usable

LEMMA OfferedAdds ==
    ASSUME NEW links \in [Branches -> Availability], NEW r \in Resources, NEW bs,
           \A b \in Branches : LinkSound(links[b])
    PROVE  /\ Offered(links, r, bs) \in [Branches -> Availability]
           /\ \A b \in Branches :
                 /\ LinkSound(Offered(links, r, bs)[b])
                 /\ b \in bs => Offered(links, r, bs)[b] # Absent
                 /\ links[b] # Absent => Offered(links, r, bs)[b] = links[b]
                 /\ Offered(links, r, bs)[b] \in {links[b], NewLink(b, r)}
<1> DEFINE o == Offered(links, r, bs)
<1>1. o = [b \in Branches |-> IF b \in bs /\ links[b] = Absent THEN NewLink(b, r) ELSE links[b]]
  BY DEF Offered
<1> HIDE DEF o
<1> QED BY <1>1, NewLinkDecided DEF o

LEMMA LiftedSound ==
    ASSUME NEW link \in Availability, LinkSound(link)
    PROVE  /\ Lifted(link) \in Availability /\ Lifted(link) # Absent
           /\ link.antt => LinkSound(Lifted(link))
<1>1. DOMAIN link = {"active", "approval", "antt"} /\ link.approval \in {"absent", "pending", "approved", "rejected"}
  BY DEF Availability
<1>2. Lifted(link) \in Availability
  BY DEF Lifted, Availability
<1>3. link.antt => link # Absent
  BY DEF Absent
<1>4. Lifted(link).active /\ Lifted(link).approval = link.approval
  BY <1>1 DEF Lifted
<1>6. ~Absent.active
  BY DEF Absent
<1> QED BY <1>2, <1>3, <1>4, <1>6 DEF LinkSound

\* A look at a vehicle lifts the links that are held and adds those it misses.
LEMMA LookedAdds ==
    ASSUME NEW links \in [Branches -> Availability], NEW r \in Resources, NEW bs,
           \A b \in Branches : LinkSound(links[b])
    PROVE  /\ Looked(links, r, bs) \in [Branches -> Availability]
           /\ \A b \in Branches :
                 /\ LinkSound(Looked(links, r, bs)[b])
                 /\ b \in bs \ closed => Looked(links, r, bs)[b] # Absent
                 /\ links[b] # Absent => Looked(links, r, bs)[b] # Absent
                 /\ links[b].antt => Looked(links, r, bs)[b] = Lifted(links[b])
                 /\ ~links[b].antt => Looked(links, r, bs)[b] \in {links[b], NewLink(b, r)}
<1> DEFINE lifted == [b \in Branches |-> IF links[b].antt THEN Lifted(links[b]) ELSE links[b]]
<1>1. ASSUME NEW b \in Branches
      PROVE  /\ Lifted(links[b]) \in Availability /\ Lifted(links[b]) # Absent
             /\ links[b].antt => LinkSound(Lifted(links[b]))
  <2>1. links[b] \in Availability /\ LinkSound(links[b])
    OBVIOUS
  <2> QED BY <2>1, LiftedSound
<1>2. /\ lifted \in [Branches -> Availability]
      /\ \A b \in Branches : /\ lifted[b] = IF links[b].antt THEN Lifted(links[b]) ELSE links[b]
                             /\ LinkSound(lifted[b])
  BY <1>1
<1>3. Looked(links, r, bs) = Offered(lifted, r, bs \ closed)
  BY DEF Looked
<1> HIDE DEF lifted
<1>4. /\ Offered(lifted, r, bs \ closed) \in [Branches -> Availability]
      /\ \A b \in Branches :
            /\ LinkSound(Offered(lifted, r, bs \ closed)[b])
            /\ b \in bs \ closed => Offered(lifted, r, bs \ closed)[b] # Absent
            /\ lifted[b] # Absent => Offered(lifted, r, bs \ closed)[b] = lifted[b]
            /\ Offered(lifted, r, bs \ closed)[b] \in {lifted[b], NewLink(b, r)}
  BY <1>2, OfferedAdds
<1>5. ASSUME NEW b \in Branches
      PROVE  /\ LinkSound(Looked(links, r, bs)[b])
             /\ b \in bs \ closed => Looked(links, r, bs)[b] # Absent
             /\ links[b] # Absent => Looked(links, r, bs)[b] # Absent
             /\ links[b].antt => Looked(links, r, bs)[b] = Lifted(links[b])
             /\ ~links[b].antt => Looked(links, r, bs)[b] \in {links[b], NewLink(b, r)}
  BY <1>1, <1>2, <1>3, <1>4
<1> QED BY <1>3, <1>4, <1>5

LinkMoved(r, b) ==
    /\ LinkSound(available'[r][b])
    /\ available[r][b] # Absent /\ Present(r)' => available'[r][b] # Absent
    /\ ~Present(r)' => available'[r][b] = Absent
LinksMoved ==
    /\ available' \in [Resources -> [Branches -> Availability]]
    /\ \A r \in Resources, b \in Branches : LinkMoved(r, b)

LEMMA LinksNow ==
    ASSUME RegistersSound
    PROVE  /\ available \in [Resources -> [Branches -> Availability]]
           /\ \A r \in Resources : /\ available[r] \in [Branches -> Availability]
                                   /\ \A b \in Branches : LinkSound(available[r][b])
           /\ \A r \in Resources : ~Present(r) => \A b \in Branches : available[r][b] = Absent
BY DEF RegistersSound, TypeOK, Present

LEMMA NothingMoved ==
    ASSUME RegistersSound, available' = available, \A r \in Resources : Present(r) => Present(r)'
    PROVE  LinksMoved
BY LinksNow DEF LinksMoved, LinkMoved

\* Links are added or changed, of resources that have a row.
LEMMA LinksChanged ==
    ASSUME RegistersSound, NEW rs \in SUBSET Resources, NEW new,
           available' = [r \in Resources |-> IF r \in rs THEN new[r] ELSE available[r]],
           \A r \in rs : /\ Present(r)' /\ new[r] \in [Branches -> Availability]
                         /\ \A b \in Branches : /\ LinkSound(new[r][b])
                                                /\ available[r][b] # Absent => new[r][b] # Absent,
           \A r \in Resources \ rs : Present(r)' <=> Present(r)
    PROVE  LinksMoved
<1>1. ASSUME NEW r \in rs
      PROVE  available'[r] \in [Branches -> Availability] /\ \A b \in Branches : LinkMoved(r, b)
  <2>1. available'[r] = new[r]
    OBVIOUS
  <2> QED BY <2>1 DEF LinkMoved
<1>2. ASSUME NEW r \in Resources \ rs
      PROVE  available'[r] \in [Branches -> Availability] /\ \A b \in Branches : LinkMoved(r, b)
  <2>1. available'[r] = available[r]
    OBVIOUS
  <2> QED BY <2>1, LinksNow DEF LinkMoved
<1>3. available' \in [Resources -> [Branches -> Availability]]
  BY <1>1, <1>2
<1> QED BY <1>1, <1>2, <1>3 DEF LinksMoved

\* Some resources that have a row are offered in more branches.
LEMMA OfferedMoved ==
    ASSUME RegistersSound, NEW rs \in SUBSET Resources, NEW bs,
           available' = [r \in Resources |-> IF r \in rs THEN Offered(available[r], r, bs) ELSE available[r]],
           \A r \in rs : Present(r)', \A r \in Resources \ rs : Present(r)' <=> Present(r)
    PROVE  LinksMoved /\ \A r \in rs, b \in Branches : b \in bs => available'[r][b] # Absent
<1> DEFINE new == [r \in rs |-> Offered(available[r], r, bs)]
<1>1. ASSUME NEW r \in rs
      PROVE  /\ new[r] \in [Branches -> Availability]
             /\ \A b \in Branches : /\ LinkSound(new[r][b])
                                    /\ available[r][b] # Absent => new[r][b] # Absent
                                    /\ b \in bs => new[r][b] # Absent
  <2>1. new[r] = Offered(available[r], r, bs) /\ r \in Resources
    OBVIOUS
  <2> HIDE DEF new
  <2> QED BY <2>1, LinksNow, OfferedAdds
<1>2. available' = [r \in Resources |-> IF r \in rs THEN new[r] ELSE available[r]]
  OBVIOUS
<1> HIDE DEF new
<1>3. \A r \in rs : available'[r] = new[r]
  BY <1>2
<1> QED BY <1>1, <1>2, <1>3, LinksChanged

\* Some vehicles that have a row are looked at.
LEMMA LookedMoved ==
    ASSUME RegistersSound, NEW rs \in SUBSET Resources, NEW bs,
           available' = [r \in Resources |-> IF r \in rs THEN Looked(available[r], r, bs) ELSE available[r]],
           \A r \in rs : Present(r)', \A r \in Resources \ rs : Present(r)' <=> Present(r)
    PROVE  LinksMoved /\ \A r \in rs, b \in Branches : b \in bs \ closed => available'[r][b] # Absent
<1> DEFINE new == [r \in rs |-> Looked(available[r], r, bs)]
<1>1. ASSUME NEW r \in rs
      PROVE  /\ new[r] \in [Branches -> Availability]
             /\ \A b \in Branches : /\ LinkSound(new[r][b])
                                    /\ available[r][b] # Absent => new[r][b] # Absent
                                    /\ b \in bs \ closed => new[r][b] # Absent
  <2>1. new[r] = Looked(available[r], r, bs) /\ r \in Resources
    OBVIOUS
  <2> HIDE DEF new
  <2> QED BY <2>1, LinksNow, LookedAdds
<1>2. available' = [r \in Resources |-> IF r \in rs THEN new[r] ELSE available[r]]
  OBVIOUS
<1> HIDE DEF new
<1>3. \A r \in rs : available'[r] = new[r]
  BY <1>2
<1> QED BY <1>1, <1>2, <1>3, LinksChanged

\* The same of one resource.
LEMMA OneMoved ==
    ASSUME RegistersSound, NEW r \in Resources, NEW bs,
           \/ available' = [available EXCEPT ![r] = Offered(@, r, bs)]
           \/ available' = [available EXCEPT ![r] = Looked(@, r, bs)],
           Present(r)', \A q \in Resources \ {r} : Present(q)' <=> Present(q)
    PROVE  LinksMoved /\ \A b \in Branches : b \in bs \ closed => available'[r][b] # Absent
<1> DEFINE rs == {r}
<1>1. rs \in SUBSET Resources /\ r \in rs /\ Resources \ rs = Resources \ {r}
  OBVIOUS
<1>2. /\ \A q \in rs : Present(q)'
      /\ \A q \in Resources \ rs : Present(q)' <=> Present(q)
  OBVIOUS
<1>3. CASE available' = [available EXCEPT ![r] = Offered(@, r, bs)]
  <2>1. available' = [q \in Resources |-> IF q \in rs THEN Offered(available[q], q, bs) ELSE available[q]]
    BY <1>3, LinksNow
  <2> HIDE DEF rs
  <2>2. LinksMoved /\ \A q \in rs, b \in Branches : b \in bs => available'[q][b] # Absent
    BY <1>1, <1>2, <2>1, OfferedMoved
  <2> QED BY <1>1, <2>2
<1>4. CASE available' = [available EXCEPT ![r] = Looked(@, r, bs)]
  <2>1. available' = [q \in Resources |-> IF q \in rs THEN Looked(available[q], q, bs) ELSE available[q]]
    BY <1>4, LinksNow
  <2> HIDE DEF rs
  <2>2. LinksMoved /\ \A q \in rs, b \in Branches : b \in bs \ closed => available'[q][b] # Absent
    BY <1>1, <1>2, <2>1, LookedMoved
  <2> QED BY <1>1, <2>2
<1> QED BY <1>3, <1>4

\* A driver is offered in the closed branches as well.
LEMMA OfferedOne ==
    ASSUME RegistersSound, NEW r \in Resources, NEW bs,
           available' = [available EXCEPT ![r] = Offered(@, r, bs)], NEW b \in bs \cap Branches
    PROVE  available'[r][b] # Absent
<1>1. available'[r] = Offered(available[r], r, bs)
  BY LinksNow
<1> QED BY <1>1, LinksNow, OfferedAdds

-----------------------------------------------------------------------------
(* What a resource is offered, after each request.                          *)

Offering == LinksMoved /\ ServedBranchesOffered'

\* What is offered stays offered; only what is new to a reach is to be looked at.
LEMMA OfferingFrom ==
    ASSUME RegistersSound, LinksMoved,
           \A r \in Resources, b \in Branches :
              Present(r)' /\ b \in ServedBy(register[r].carrier)' /\ <<r, b>> \notin unsynced' =>
                 \/ available'[r][b] # Absent
                 \/ Present(r) /\ b \in ServedBy(register[r].carrier) /\ <<r, b>> \notin unsynced
    PROVE  Offering
<1>1. ASSUME NEW r \in Resources, NEW b \in Branches, Present(r)', available[r][b] # Absent
      PROVE  available'[r][b] # Absent
  BY <1>1 DEF LinksMoved, LinkMoved
<1>2. ASSUME NEW r \in Resources, NEW b \in Branches,
             Present(r) /\ b \in ServedBy(register[r].carrier) /\ <<r, b>> \notin unsynced
      PROVE  available[r][b] # Absent
  BY <1>2 DEF RegistersSound, ServedBranchesOffered
<1> QED BY <1>1, <1>2 DEF Offering, ServedBranchesOffered

LEMMA CreateBranchOffers == ASSUME RegistersSound, NEW b \in Branches, CreateBranch(b) PROVE Offering
<1> DEFINE rs == {r \in Resources : Unlinked(r)}
<1>1. /\ available' = [r \in Resources |-> IF r \in rs THEN Offered(available[r], r, {b}) ELSE available[r]]
      /\ branches' = branches \cup {b} /\ UNCHANGED <<served, register, unsynced>>
      /\ b \notin branches /\ served \subseteq Carriers \X branches
  BY DEF CreateBranch, RegistersSound, TypeOK
<1>2. \A r \in Resources : Present(r)' <=> Present(r)
  BY <1>1 DEF Present
<1>3. rs \in SUBSET Resources /\ \A r \in rs : Present(r)'
  BY <1>2 DEF Unlinked
<1>4. \A r \in Resources : Present(r) /\ register[r].carrier = None => r \in rs
  BY DEF Unlinked
<1> HIDE DEF rs
<1>5. LinksMoved /\ \A r \in rs : available'[r][b] # Absent
  BY <1>1, <1>2, <1>3, OfferedMoved
<1>6. ASSUME NEW r \in Resources, NEW x \in Branches, Present(r), x \in ServedBy(register[r].carrier)'
      PROVE  available'[r][x] # Absent \/ x \in ServedBy(register[r].carrier)
  <2>1. CASE x \in branches
    BY <1>1, <1>6, <2>1 DEF ServedBy
  <2>2. CASE x \notin branches
    <3>1. x = b /\ register[r].carrier = None
      BY <1>1, <1>6, <2>2 DEF ServedBy
    <3> QED BY <1>4, <1>5, <1>6, <3>1
  <2> QED BY <2>1, <2>2
<1> QED BY <1>1, <1>2, <1>5, <1>6, OfferingFrom

LEMMA EnableOffers ==
    ASSUME RegistersSound, NEW c \in Carriers, NEW b \in Branches, EnableCarrierBranch(c, b)
    PROVE  Offering
<1> DEFINE rs == {r \in Resources : Present(r) /\ register[r].carrier = c}
<1>1. /\ available' = [r \in Resources |-> IF r \in rs THEN Offered(available[r], r, {b}) ELSE available[r]]
      /\ served' = served \cup {<<c, b>>} /\ UNCHANGED <<branches, register, unsynced>>
  BY DEF EnableCarrierBranch, OfferedByCarrier
<1>2. \A r \in Resources : Present(r)' <=> Present(r)
  BY <1>1 DEF Present
<1>3. rs \in SUBSET Resources /\ \A r \in rs : Present(r)'
  BY <1>2
<1>4. \A r \in Resources : Present(r) /\ register[r].carrier = c => r \in rs
  OBVIOUS
<1> HIDE DEF rs
<1>5. LinksMoved /\ \A r \in rs : available'[r][b] # Absent
  BY <1>1, <1>2, <1>3, OfferedMoved
<1>6. ASSUME NEW r \in Resources, NEW x \in Branches, Present(r), x \in ServedBy(register[r].carrier)'
      PROVE  available'[r][x] # Absent \/ x \in ServedBy(register[r].carrier)
  <2>1. x \in ServedBy(register[r].carrier) \/ (x = b /\ register[r].carrier = c)
    BY <1>1, <1>6 DEF ServedBy
  <2> QED BY <1>4, <1>5, <1>6, <2>1
<1> QED BY <1>1, <1>2, <1>5, <1>6, OfferingFrom

\* A resource that has its row, and was offered or looked at where its carrier serves.
LEMMA SavedOffers ==
    ASSUME RegistersSound, NEW r \in Resources, NEW row \in Rows, row.present,
           register' = [register EXCEPT ![r] = row], LinksMoved,
           UNCHANGED <<branches, served>>,
           \A b \in Branches : b \in ServedBy(row.carrier) =>
              available'[r][b] # Absent \/ <<r, b>> \in unsynced',
           \A q \in Resources \ {r}, b \in Branches : <<q, b>> \in unsynced => <<q, b>> \in unsynced'
    PROVE  Offering
<1>1. register'[r] = row /\ \A q \in Resources \ {r} : register'[q] = register[q]
  BY DEF RegistersSound, TypeOK
<1>2. \A c : ServedBy(c)' = ServedBy(c)
  BY DEF ServedBy
<1>3. ASSUME NEW q \in Resources, NEW b \in Branches, Present(q)',
             b \in ServedBy(register[q].carrier)', <<q, b>> \notin unsynced'
      PROVE  \/ available'[q][b] # Absent
             \/ Present(q) /\ b \in ServedBy(register[q].carrier) /\ <<q, b>> \notin unsynced
  <2>1. b \in ServedBy(register'[q].carrier)
    BY <1>3 DEF ServedBy
  <2>2. CASE q = r
    BY <1>1, <1>3, <2>1, <2>2
  <2>3. CASE q # r
    BY <1>1, <1>3, <2>1, <2>3 DEF Present
  <2> QED BY <2>2, <2>3
<1> QED BY <1>3, OfferingFrom

\* No reach grows, and a row that moved was left out on record.
LEMMA NothingNewToOffer ==
    ASSUME RegistersSound, LinksMoved, branches' = branches, served' \subseteq served,
           \A r \in Resources, b \in Branches :
              Present(r)' /\ b \in ServedBy(register'[r].carrier) /\ <<r, b>> \notin unsynced' =>
                 <<r, b>> \notin unsynced /\ Present(r) /\ register'[r].carrier = register[r].carrier
    PROVE  Offering
<1>1. \A c : ServedBy(c)' \subseteq ServedBy(c)
  BY DEF ServedBy
<1>2. ASSUME NEW r \in Resources, NEW b \in Branches, b \in ServedBy(register[r].carrier)'
      PROVE  b \in ServedBy(register'[r].carrier)
  BY <1>2 DEF ServedBy
<1> QED BY <1>2, OfferingFrom

LEMMA ApprovalOffers ==
    ASSUME RegistersSound,
           \/ \E b \in Branches, required \in SUBSET {"driver", "vehicle"}, review \in BOOLEAN :
                 ConfigureApproval(b, required, review)
           \/ \E r \in Resources, b \in Branches, active \in BOOLEAN : SetAvailability(r, b, active)
           \/ \E r \in Resources, b \in Branches, decision \in {"approved", "rejected"}, antt \in BOOLEAN :
                 ReviewAvailability(r, b, decision, antt)
    PROVE  Offering
<1>9. /\ available \in [Resources -> [Branches -> Availability]]
      /\ \A r \in Resources, b \in Branches : LinkSound(available[r][b])
      /\ \A r \in Resources : ~Present(r) => \A b \in Branches : available[r][b] = Absent
  BY LinksNow
<1>10. UNCHANGED <<branches, served, register, unsynced>>
  <2>1. ASSUME NEW b, NEW required, NEW review, ConfigureApproval(b, required, review)
        PROVE  UNCHANGED <<branches, served, register, unsynced>>
    BY <2>1 DEF ConfigureApproval
  <2>2. ASSUME NEW r, NEW b, NEW active, SetAvailability(r, b, active)
        PROVE  UNCHANGED <<branches, served, register, unsynced>>
    BY <2>2 DEF SetAvailability
  <2>3. ASSUME NEW r, NEW b, NEW decision, NEW antt, ReviewAvailability(r, b, decision, antt)
        PROVE  UNCHANGED <<branches, served, register, unsynced>>
    BY <2>3 DEF ReviewAvailability
  <2> QED BY <2>1, <2>2, <2>3
<1>1. /\ UNCHANGED <<branches, served, register, unsynced>>
      /\ available \in [Resources -> [Branches -> Availability]]
      /\ \A r \in Resources, b \in Branches : LinkSound(available[r][b])
      /\ \A r \in Resources : ~Present(r) => \A b \in Branches : available[r][b] = Absent
  BY <1>9, <1>10
<1>2. \A r \in Resources : Present(r)' <=> Present(r)
  BY <1>1 DEF Present
\* One link is decided on anew.
<1>3. ASSUME NEW r \in Resources, NEW b \in Branches, Present(r), NEW link \in Availability,
             link # Absent, LinkSound(link), available' = [available EXCEPT ![r][b] = link]
      PROVE  LinksMoved
  <2>1. /\ available' \in [Resources -> [Branches -> Availability]]
        /\ available'[r][b] = link
        /\ \A q \in Resources, x \in Branches :
              q # r \/ x # b => available'[q][x] = available[q][x]
    BY <1>1, <1>3
  <2> QED BY <1>1, <1>2, <1>3, <2>1 DEF LinksMoved, LinkMoved
<1>4. ASSUME NEW r \in Resources, NEW b \in Branches, NEW active \in BOOLEAN, SetAvailability(r, b, active)
      PROVE  LinksMoved
  <2> DEFINE link == Switched(available[r][b], b, r, active)
  <2>1. Present(r) /\ available' = [available EXCEPT ![r][b] = link]
    BY <1>4 DEF SetAvailability
  <2>2. available[r][b] \in Availability /\ LinkSound(available[r][b])
    BY <1>1
  <2>3. link \in Availability /\ link # Absent /\ LinkSound(link)
    BY <2>2, NewLinkDecided DEF Switched, Availability, Absent, LinkSound
  <2> HIDE DEF link
  <2> QED BY <1>3, <2>1, <2>3
<1>5. ASSUME NEW r \in Resources, NEW b \in Branches, NEW decision \in {"approved", "rejected"},
             NEW antt \in BOOLEAN, ReviewAvailability(r, b, decision, antt)
      PROVE  LinksMoved
  <2> DEFINE link == [available[r][b] EXCEPT !.approval = decision, !.antt = antt]
  <2>6. available[r][b] # Absent
    BY <1>5 DEF ReviewAvailability
  <2>1. available[r][b] \in Availability /\ available[r][b] # Absent
    BY <1>9, <2>6
  <2>5. /\ link.approval = decision /\ link \in Availability
        /\ decision # "absent" /\ Absent.approval = "absent"
    BY <2>1 DEF Availability, Absent
  <2>2. link \in Availability /\ link # Absent /\ LinkSound(link)
    <3> HIDE DEF link
    <3> QED BY <2>5 DEF LinkSound
  <2>3. available' = [available EXCEPT ![r][b] = link]
    BY <1>5 DEF ReviewAvailability
  <2>4. Present(r)
    BY <1>1, <2>1
  <2> HIDE DEF link
  <2> QED BY <1>3, <2>2, <2>3, <2>4
<1>6. ASSUME NEW b \in Branches, NEW required \in SUBSET {"driver", "vehicle"}, NEW review \in BOOLEAN,
             ConfigureApproval(b, required, review)
      PROVE  LinksMoved
  <2>1. CASE ~review
    BY <1>2, <1>6, <2>1, NothingMoved DEF ConfigureApproval
  <2>2. CASE review
    <3> DEFINE asked(r) == Kind(r) \in required \ policy[b] /\ available[r][b].active
               link(r) == [available[r][b] EXCEPT !.approval = "pending"]
    <3>1. available' = [r \in Resources |-> [available[r] EXCEPT ![b] =
                           IF asked(r) THEN link(r) ELSE available[r][b]]]
      BY <1>6, <2>2 DEF ConfigureApproval, Reviewed
    <3>2. ASSUME NEW r \in Resources
          PROVE  available[r][b] \in Availability /\ link(r) \in Availability /\ LinkSound(link(r))
                 /\ link(r) # Absent /\ (asked(r) => available[r][b] # Absent)
      <4>1. available[r][b] \in Availability
        BY <1>1
      <4> QED BY <4>1 DEF Availability, LinkSound, Absent
    <3> HIDE DEF asked, link
    <3>3. ASSUME NEW r \in Resources
          PROVE  /\ available'[r] \in [Branches -> Availability]
                 /\ available'[r][b] = IF asked(r) THEN link(r) ELSE available[r][b]
                 /\ \A x \in Branches : x # b => available'[r][x] = available[r][x]
      <4>1. available[r] \in [Branches -> Availability]
        BY <1>1
      <4> QED BY <3>1, <3>2, <4>1
    <3>4. available' \in [Resources -> [Branches -> Availability]]
      BY <3>1, <3>3
    <3> QED BY <1>1, <1>2, <3>2, <3>3, <3>4 DEF LinksMoved, LinkMoved
  <2> QED BY <2>1, <2>2
<1>7. LinksMoved
  BY <1>4, <1>5, <1>6
<1> QED BY <1>1, <1>2, <1>7, NothingNewToOffer

LEMMA DriverOffers ==
    ASSUME RegistersSound, NEW d \in Drivers, NEW c \in Carriers \cup {None},
           CreateDriver(d, c) \/ \E look \in BOOLEAN : UpdateDriver(d, c, look)
    PROVE  Offering
<1>1. d \in Resources /\ register[d] \in Rows /\ register \in [Resources -> Rows]
  BY DEF RegistersSound, TypeOK, Resources
<1>2. CASE CreateDriver(d, c)
  <2> DEFINE row == [NoRow EXCEPT !.present = TRUE, !.carrier = c, !.fit = TRUE]
  <2>1. row \in Rows /\ row.present /\ row.carrier = c
    BY DEF NoRow, Rows
  <2>2. /\ register' = [register EXCEPT ![d] = row] /\ UNCHANGED <<branches, served, unsynced>>
        /\ available' = [available EXCEPT ![d] = Offered(@, d, ServedBy(c))]
    BY <1>2 DEF CreateDriver
  <2> HIDE DEF row
  <2>3. Present(d)' /\ \A q \in Resources \ {d} : Present(q)' <=> Present(q)
    BY <1>1, <2>1, <2>2 DEF Present
  <2>4. LinksMoved /\ \A b \in Branches : b \in ServedBy(c) => available'[d][b] # Absent
    BY <1>1, <2>2, <2>3, OneMoved, OfferedOne
  <2> QED BY <1>1, <2>1, <2>2, <2>4, SavedOffers
<1>3. ASSUME UpdateDriver(d, c, TRUE) PROVE Offering
  <2> DEFINE row == [register[d] EXCEPT !.carrier = c]
  <2>1. row \in Rows /\ row.present /\ row.carrier = c
    BY <1>1, <1>3 DEF UpdateDriver, Present, Rows
  <2>2. /\ register' = [register EXCEPT ![d] = row] /\ UNCHANGED <<branches, served>>
        /\ unsynced' = LeftOut({d}, {})
        /\ available' = [available EXCEPT ![d] = Offered(@, d, ServedBy(c))]
    BY <1>1, <1>3 DEF UpdateDriver
  <2> HIDE DEF row
  <2>3. Present(d)' /\ \A q \in Resources \ {d} : Present(q)' <=> Present(q)
    BY <1>1, <2>1, <2>2 DEF Present
  <2>4. LinksMoved /\ \A b \in Branches : b \in ServedBy(c) => available'[d][b] # Absent
    BY <1>1, <2>2, <2>3, OneMoved, OfferedOne
  <2>5. \A q \in Resources \ {d}, b \in Branches : <<q, b>> \in unsynced => <<q, b>> \in unsynced'
    BY <2>2 DEF LeftOut
  <2> QED BY <1>1, <2>1, <2>2, <2>4, <2>5, SavedOffers
<1>4. ASSUME UpdateDriver(d, c, FALSE) PROVE Offering
  <2>1. /\ register' = [register EXCEPT ![d].carrier = c] /\ UNCHANGED <<branches, served, available>>
        /\ unsynced' = unsynced \cup ({d} \X ServedBy(c))
    BY <1>4 DEF UpdateDriver
  <2>2. /\ \A r \in Resources : (Present(r)' <=> Present(r)) /\ (r # d => register'[r] = register[r])
        /\ register'[d].carrier = c
    BY <1>1, <2>1 DEF Present, Rows
  <2>3. LinksMoved
    BY <2>1, <2>2, NothingMoved
  <2>4. \A b \in ServedBy(c) : <<d, b>> \in unsynced'
    BY <2>1
  <2> QED BY <2>1, <2>2, <2>3, <2>4, NothingNewToOffer
<1> QED BY <1>2, <1>3, <1>4

LEMMA VehicleOffers ==
    ASSUME RegistersSound, NEW v \in Vehicles, NEW own \in {"proprio", "agregado"},
           NEW c \in Carriers \cup {None}, NEW antt \in BOOLEAN,
           CreateVehicle(v, own, c, antt) \/ UpdateVehicle(v, own, c, antt)
    PROVE  Offering
<1>1. v \in Resources /\ register[v].fit \in BOOLEAN
  BY DEF RegistersSound, TypeOK, Resources, Rows
<1>2. PICK fit \in BOOLEAN : SaveVehicle(v, own, c, antt, fit)
  BY <1>1 DEF CreateVehicle, UpdateVehicle
<1> DEFINE row == [present |-> TRUE, carrier |-> c, fit |-> fit, ownership |-> own, antt |-> antt]
<1>3. row \in Rows /\ row.present /\ row.carrier = c
  BY DEF Rows
<1>4. /\ register' = [register EXCEPT ![v] = row] /\ UNCHANGED <<branches, served>>
      /\ unsynced' = LeftOut({v}, ServedBy(c) \cap closed)
      /\ available' = [available EXCEPT ![v] = Looked(@, v, ServedBy(c))]
  BY <1>2 DEF SaveVehicle
<1> HIDE DEF row
<1>5. Present(v)' /\ \A q \in Resources \ {v} : Present(q)' <=> Present(q)
  <2>1. register \in [Resources -> Rows]
    BY DEF RegistersSound, TypeOK
  <2> QED BY <1>1, <1>3, <1>4, <2>1 DEF Present
<1>6. LinksMoved /\ \A b \in Branches : b \in ServedBy(c) \ closed => available'[v][b] # Absent
  BY <1>1, <1>4, <1>5, OneMoved
<1>7. /\ \A q \in Resources \ {v}, b \in Branches : <<q, b>> \in unsynced => <<q, b>> \in unsynced'
      /\ \A b \in Branches : b \in ServedBy(c) \cap closed => <<v, b>> \in unsynced'
  BY <1>4 DEF LeftOut
<1> QED BY <1>1, <1>3, <1>4, <1>6, <1>7, SavedOffers

LEMMA DeletionOffers ==
    ASSUME RegistersSound,
           (\E r \in Resources : DeleteResource(r)) \/ (\E c \in Carriers : DeleteCarrier(c))
    PROVE  Offering
<1>1. ASSUME NEW r \in Resources, DeleteResource(r) PROVE Offering
  <2>1. /\ register' = [register EXCEPT ![r] = NoRow] /\ unsynced' = LeftOut({r}, {})
        /\ available' = [available EXCEPT ![r] = [b \in Branches |-> Absent]]
        /\ UNCHANGED <<branches, served>>
    BY <1>1 DEF DeleteResource
  <2>2. /\ register'[r] = NoRow /\ \A q \in Resources \ {r} : register'[q] = register[q]
        /\ available' \in [Resources -> [Branches -> Availability]]
        /\ \A b \in Branches : available'[r][b] = Absent
        /\ \A q \in Resources \ {r} : available'[q] = available[q]
    BY <2>1, Constants DEF RegistersSound, TypeOK
  <2>3. ~Present(r)' /\ \A q \in Resources \ {r} : Present(q)' <=> Present(q)
    BY <2>2, Constants DEF Present
  <2>4. LinksMoved
    BY <2>2, <2>3, Constants DEF LinksMoved, LinkMoved, RegistersSound, TypeOK, Present
  <2>5. \A q \in Resources \ {r}, b \in Branches : <<q, b>> \in unsynced => <<q, b>> \in unsynced'
    BY <2>1 DEF LeftOut
  <2> QED BY <2>1, <2>2, <2>3, <2>4, <2>5, NothingNewToOffer
<1>2. ASSUME NEW c \in Carriers, DeleteCarrier(c) PROVE Offering
  <2>1. UNCHANGED <<branches, register, available, unsynced>> /\ served' \subseteq served
    BY <1>2 DEF DeleteCarrier
  <2>2. \A r \in Resources : Present(r)' <=> Present(r)
    BY <2>1 DEF Present
  <2> QED BY <2>1, <2>2, NothingMoved, NothingNewToOffer
<1> QED BY <1>1, <1>2

\* The rows after the list of a carrier's vehicles was saved.
RowsSynced(c, vs) ==
    /\ vs \subseteq Resources /\ Owned(c) \subseteq Resources
    /\ register' \in [Resources -> Rows]
    /\ \A r \in Resources :
          /\ register'[r].present = register[r].present /\ register'[r].antt = register[r].antt
          /\ r \in vs => register'[r].carrier = c
          /\ r \in Owned(c) \ vs => register'[r].carrier = None
          /\ r \notin vs \cup Owned(c) => register'[r] = register[r]
    /\ unsynced' = LeftOut(vs, ServedBy(c) \cap closed) \cup ((Owned(c) \ vs) \X branches)

LEMMA SyncedRows ==
    ASSUME RegistersSound, NEW c \in Carriers, NEW vs \in SUBSET Vehicles, NEW antt,
           SyncVehicles(c, vs, antt)
    PROVE  RowsSynced(c, vs)
<1>1. vs \subseteq Resources /\ Owned(c) \subseteq Resources /\ register \in [Resources -> Rows]
  BY DEF Resources, Owned, RegistersSound, TypeOK
<1>2. /\ register' = [r \in Resources |->
            IF r \in vs THEN [register[r] EXCEPT !.carrier = c]
            ELSE IF r \in Owned(c) \ vs THEN [register[r] EXCEPT !.carrier = None] ELSE register[r]]
      /\ unsynced' = LeftOut(vs, ServedBy(c) \cap closed) \cup ((Owned(c) \ vs) \X branches)
  BY DEF SyncVehicles
<1>3. ASSUME NEW r \in Resources
      PROVE  /\ register'[r] \in Rows
             /\ register'[r].present = register[r].present /\ register'[r].antt = register[r].antt
             /\ r \in vs => register'[r].carrier = c
             /\ r \in Owned(c) \ vs => register'[r].carrier = None
             /\ r \notin vs \cup Owned(c) => register'[r] = register[r]
  <2>1. register[r] \in Rows
    BY <1>1
  <2> QED BY <1>2, <2>1 DEF Rows
<1> QED BY <1>1, <1>2, <1>3 DEF RowsSynced

LEMMA SyncOffers ==
    ASSUME RegistersSound, NEW c \in Carriers, NEW vs \in SUBSET Vehicles, NEW antt \in BOOLEAN,
           CanSyncVehicles(c, vs), SyncVehicles(c, vs, antt), UNCHANGED <<branches, served>>
    PROVE  Offering
<1>9. RowsSynced(c, vs)
  BY SyncedRows
<1>1. /\ vs \subseteq Resources /\ Owned(c) \subseteq Resources
      /\ \A r \in Resources :
            /\ register'[r].present = register[r].present
            /\ r \in vs => register'[r].carrier = c
            /\ r \in Owned(c) \ vs => register'[r].carrier = None
            /\ r \notin vs \cup Owned(c) => register'[r] = register[r]
      /\ unsynced' = LeftOut(vs, ServedBy(c) \cap closed) \cup ((Owned(c) \ vs) \X branches)
  BY <1>9 DEF RowsSynced
<1>2. \A r \in Resources : Present(r)' <=> Present(r)
  BY <1>1 DEF Present
<1>3. \A r \in vs : Present(r)'
  BY <1>1, <1>2 DEF CanSyncVehicles
<1>4. available' = [r \in Resources |-> IF r \in vs THEN Looked(available[r], r, ServedBy(c)) ELSE available[r]]
  BY DEF SyncVehicles
<1>5. LinksMoved /\ \A r \in vs, b \in Branches : b \in ServedBy(c) \ closed => available'[r][b] # Absent
  BY <1>1, <1>2, <1>3, <1>4, LookedMoved
<1>6. /\ \A r \in vs, b \in Branches : b \in ServedBy(c) \cap closed => <<r, b>> \in unsynced'
      /\ \A r \in Owned(c) \ vs, b \in branches : <<r, b>> \in unsynced'
      /\ \A r \in Resources \ vs, b \in Branches : <<r, b>> \in unsynced => <<r, b>> \in unsynced'
  BY <1>1 DEF LeftOut
<1>7. \A x : ServedBy(x)' = ServedBy(x) /\ ServedBy(x) \subseteq branches
  BY DEF ServedBy
<1>8. ASSUME NEW r \in Resources, NEW b \in Branches, Present(r)',
             b \in ServedBy(register[r].carrier)', <<r, b>> \notin unsynced'
      PROVE  \/ available'[r][b] # Absent
             \/ Present(r) /\ b \in ServedBy(register[r].carrier) /\ <<r, b>> \notin unsynced
  <2>1. b \in ServedBy(register'[r].carrier) /\ b \in branches
    BY <1>7, <1>8 DEF ServedBy
  <2>2. CASE r \in vs
    BY <1>1, <1>5, <1>6, <1>8, <2>1, <2>2
  <2>3. CASE r \in Owned(c) \ vs
    BY <1>6, <1>8, <2>1, <2>3
  <2>4. CASE r \notin vs \cup Owned(c)
    BY <1>1, <1>2, <1>6, <1>8, <2>1, <2>4
  <2> QED BY <2>2, <2>3, <2>4
<1> QED BY <1>5, <1>8, OfferingFrom

LEMMA CarrierOffers ==
    ASSUME RegistersSound, NEW c \in Carriers,
           \/ \E state : UpdateCarrier(c, state)
           \/ \E state, antt : UpdateCarrierAntt(c, state, antt)
    PROVE  Offering
<1>1. UNCHANGED <<branches, served, register>>
  BY DEF UpdateCarrier, UpdateCarrierAntt
<1>2. \A r \in Resources : Present(r)' <=> Present(r)
  BY <1>1 DEF Present
<1>3. ASSUME NEW state, UpdateCarrier(c, state) PROVE Offering
  <2>1. UNCHANGED <<available, unsynced>>
    BY <1>3 DEF UpdateCarrier
  <2> QED BY <1>1, <1>2, <2>1, NothingMoved, NothingNewToOffer
<1>4. ASSUME NEW state, NEW antt, UpdateCarrierAntt(c, state, antt) PROVE Offering
  <2>1. /\ available' = [r \in Resources |-> IF r \in Owned(c) THEN Looked(available[r], r, ServedBy(c))
                                             ELSE available[r]]
        /\ unsynced' = LeftOut(Owned(c), ServedBy(c) \cap closed)
    BY <1>4 DEF UpdateCarrierAntt
  <2>2. Owned(c) \in SUBSET Resources /\ \A r \in Owned(c) : Present(r)'
    BY <1>1, Constants DEF Owned, Resources, RegistersSound, RowSound, Present
  <2>3. /\ LinksMoved
        /\ \A r \in Owned(c), b \in Branches : b \in ServedBy(c) \ closed => available'[r][b] # Absent
    BY <1>2, <2>1, <2>2, LookedMoved
  <2>4. /\ \A r \in Owned(c), b \in Branches : b \in ServedBy(c) \cap closed => <<r, b>> \in unsynced'
        /\ \A r \in Resources \ Owned(c), b \in Branches : <<r, b>> \in unsynced => <<r, b>> \in unsynced'
    BY <2>1 DEF LeftOut
  <2>5. \A x : ServedBy(x)' = ServedBy(x)
    BY <1>1 DEF ServedBy
  <2>6. ASSUME NEW r \in Resources, NEW b \in Branches, Present(r)',
               b \in ServedBy(register[r].carrier)', <<r, b>> \notin unsynced'
        PROVE  \/ available'[r][b] # Absent
               \/ Present(r) /\ b \in ServedBy(register[r].carrier) /\ <<r, b>> \notin unsynced
    <3>1. b \in ServedBy(register[r].carrier) /\ Present(r)
      BY <1>1, <1>2, <2>5, <2>6
    <3>2. CASE r \in Owned(c)
      BY <2>3, <2>4, <2>6, <3>1, <3>2 DEF Owned
    <3>3. CASE r \notin Owned(c)
      BY <2>4, <2>6, <3>1, <3>3
    <3> QED BY <3>2, <3>3
  <2> QED BY <2>3, <2>6, OfferingFrom
<1> QED BY <1>3, <1>4

\* A branch that opens or closes takes nothing from what is offered.
LEMMA UpdateBranchOffers ==
    ASSUME RegistersSound, NEW b \in Branches, NEW active, UpdateBranch(b, active)
    PROVE  Offering
<1>1. UNCHANGED <<branches, served, register, available, unsynced>>
  BY DEF UpdateBranch
<1> QED BY <1>1, NothingMoved, NothingNewToOffer DEF Present

\* What the Torre sheet makes: rows without a carrier, left out on record.
RowsAdded(new) ==
    /\ new \subseteq Resources /\ register' \in [Resources -> Rows]
    /\ \A r \in new : ~Present(r) /\ Present(r)' /\ register'[r].carrier = None
    /\ \A r \in Resources \ new : register'[r] = register[r]
    /\ unsynced' = unsynced \cup (new \X branches)

LEMMA TorreRows ==
    ASSUME RegistersSound, NEW b \in Branches, NEW d \in Drivers \cup {None}, NEW v \in Vehicles \cup {None},
           ImportTorre(b, d, v)
    PROVE  \E new : RowsAdded(new) /\ \A r \in {d, v} \ {None} : Present(r)'
<1> DEFINE new == {r \in {d, v} \ {None} : ~Present(r)}
<1>1. /\ register' = [r \in Resources |-> IF r \in new THEN NoCarrierRow ELSE register[r]]
      /\ unsynced' = unsynced \cup (new \X branches)
      /\ new \subseteq Resources /\ \A r \in new : ~Present(r)
      /\ \A r \in {d, v} \ {None} : r \in Resources /\ (r \in new \/ Present(r))
  BY DEF ImportTorre, Resources
<1> HIDE DEF new
<1>2. NoCarrierRow \in Rows /\ NoCarrierRow.carrier = None /\ NoCarrierRow.present
  BY DEF NoCarrierRow, NoRow, Rows
<1>3. register \in [Resources -> Rows]
  BY DEF RegistersSound, TypeOK
<1>4. RowsAdded(new) /\ \A r \in {d, v} \ {None} : Present(r)'
  BY <1>1, <1>2, <1>3 DEF RowsAdded, Present
<1> QED BY <1>4

LEMMA TorreOffers ==
    ASSUME RegistersSound, NEW new, RowsAdded(new), UNCHANGED <<branches, served, available>>
    PROVE  Offering
<1>1. ASSUME NEW r \in Resources PROVE Present(r) => Present(r)'
  BY DEF RowsAdded, Present
<1>2. ASSUME NEW r \in new, NEW b \in ServedBy(None) PROVE <<r, b>> \in unsynced'
  BY DEF RowsAdded, ServedBy
<1>3. ASSUME NEW r \in Resources \ new PROVE register'[r] = register[r] /\ (Present(r)' <=> Present(r))
  BY DEF RowsAdded, Present
<1>4. LinksMoved
  BY <1>1, NothingMoved
<1>5. unsynced \subseteq unsynced' /\ \A r \in new : register'[r].carrier = None
  BY DEF RowsAdded
<1> QED BY <1>2, <1>3, <1>4, <1>5, NothingNewToOffer

-----------------------------------------------------------------------------
(* The columns, and the rows that others refer to.                          *)

Quietly == UNCHANGED <<carriers, register, fleet, route, unsynced, drifted>>
Access ==
    \/ \E b \in Branches : CreateBranch(b)
    \/ \E b \in Branches, active \in BOOLEAN : UpdateBranch(b, active)
    \/ \E c \in Carriers, b \in Branches : EnableCarrierBranch(c, b)
    \/ \E b \in Branches, required \in SUBSET {"driver", "vehicle"}, review \in BOOLEAN :
          ConfigureApproval(b, required, review)
    \/ \E r \in Resources, b \in Branches, active \in BOOLEAN : SetAvailability(r, b, active)
    \/ \E r \in Resources, b \in Branches, decision \in {"approved", "rejected"}, antt \in BOOLEAN :
          ReviewAvailability(r, b, decision, antt)

\* Availability and the branches are written apart from everything else.
LEMMA AccessApart == ASSUME Access PROVE Quietly
<1>1. ASSUME NEW b, CreateBranch(b) PROVE Quietly
  BY <1>1 DEF CreateBranch, Quietly
<1>2. ASSUME NEW b, NEW active, UpdateBranch(b, active) PROVE Quietly
  BY <1>2 DEF UpdateBranch, Quietly
<1>3. ASSUME NEW c, NEW b, EnableCarrierBranch(c, b) PROVE Quietly
  BY <1>3 DEF EnableCarrierBranch, Quietly
<1>4. ASSUME NEW b, NEW required, NEW review, ConfigureApproval(b, required, review) PROVE Quietly
  BY <1>4 DEF ConfigureApproval, Quietly
<1>5. ASSUME NEW r, NEW b, NEW active, SetAvailability(r, b, active) PROVE Quietly
  BY <1>5 DEF SetAvailability, Quietly
<1>6. ASSUME NEW r, NEW b, NEW decision, NEW antt, ReviewAvailability(r, b, decision, antt) PROVE Quietly
  BY <1>6 DEF ReviewAvailability, Quietly
<1> QED BY <1>1, <1>2, <1>3, <1>4, <1>5, <1>6 DEF Access

\* A row of a driver or a vehicle that is saved.
Saved(r, row) ==
    /\ register' = [register EXCEPT ![r] = row] /\ row \in Rows /\ row.present
    /\ row.carrier = None \/ (row.carrier \in Carriers /\ carriers[row.carrier].state # "absent")
    /\ UNCHANGED <<branches, closed, carriers, served, policy, route>>

LEMMA DriverSaved ==
    ASSUME RegistersSound, NEW d \in Drivers, NEW c \in Carriers \cup {None},
           CreateDriver(d, c) \/ \E look \in BOOLEAN : UpdateDriver(d, c, look)
    PROVE  \E row : /\ Saved(d, row) /\ row.carrier = c /\ fleet' = fleet
                    /\ ~Present(d) => drifted' = drifted
                    /\ Present(d) => drifted' = (drifted \/ (d \in Crew /\ c # register[d].carrier))
                    /\ unsynced' \subseteq Resources \X Branches
<1>1. /\ d \in Resources /\ register[d] \in Rows /\ register \in [Resources -> Rows]
      /\ unsynced \subseteq Resources \X Branches /\ ServedBy(c) \subseteq Branches
  BY DEF RegistersSound, TypeOK, Resources, ServedBy
<1>2. CASE CreateDriver(d, c)
  <2> DEFINE row == [NoRow EXCEPT !.present = TRUE, !.carrier = c, !.fit = TRUE]
  <2>1. row \in Rows /\ row.present /\ row.carrier = c
    BY DEF NoRow, Rows
  <2>2. Saved(d, row) /\ ~Present(d) /\ drifted' = drifted /\ fleet' = fleet /\ unsynced' = unsynced
    BY <1>2, <2>1 DEF CreateDriver, Saved
  <2> HIDE DEF row
  <2> QED BY <1>1, <2>1, <2>2
<1>3. ASSUME NEW look \in BOOLEAN, UpdateDriver(d, c, look)
      PROVE  \E row : Saved(d, row) /\ row.carrier = c
  <2> DEFINE row == [register[d] EXCEPT !.carrier = c]
  <2>1. row \in Rows /\ row.present /\ row.carrier = c
    BY <1>1, <1>3 DEF UpdateDriver, Present, Rows
  <2>2. register' = [register EXCEPT ![d] = row]
    BY <1>1, <1>3 DEF UpdateDriver
  <2> HIDE DEF row
  <2>3. Saved(d, row)
    BY <1>3, <2>1, <2>2 DEF UpdateDriver, Saved
  <2> QED BY <2>1, <2>3
<1>4. ASSUME NEW look \in BOOLEAN, UpdateDriver(d, c, look)
      PROVE  /\ Present(d) /\ drifted' = (drifted \/ (d \in Crew /\ c # register[d].carrier))
             /\ fleet' = fleet /\ unsynced' \subseteq Resources \X Branches
  BY <1>1, <1>4 DEF UpdateDriver, LeftOut
<1> QED BY <1>2, <1>3, <1>4

LEMMA VehicleSaved ==
    ASSUME RegistersSound, NEW v \in Vehicles, NEW own \in {"proprio", "agregado"},
           NEW c \in Carriers \cup {None}, NEW antt \in BOOLEAN,
           CreateVehicle(v, own, c, antt) \/ UpdateVehicle(v, own, c, antt)
    PROVE  \E row : /\ Saved(v, row) /\ row.carrier = c /\ row.antt = antt /\ fleet' = ReceiverLink(v, c, antt)
                    /\ ~Present(v) => drifted' = drifted
                    /\ Present(v) => drifted' = (drifted \/ (v \in Crew /\ c # register[v].carrier))
                    /\ unsynced' \subseteq Resources \X Branches
<1>1. /\ v \in Resources /\ register[v].fit \in BOOLEAN
      /\ unsynced \subseteq Resources \X Branches /\ ServedBy(c) \subseteq Branches
  BY DEF RegistersSound, TypeOK, Resources, Rows, ServedBy
<1>2. PICK fit \in BOOLEAN : SaveVehicle(v, own, c, antt, fit)
  BY <1>1 DEF CreateVehicle, UpdateVehicle
<1>3. c = None \/ (c \in Carriers /\ carriers[c].state # "absent")
  BY DEF CreateVehicle, UpdateVehicle, ValidReceiver
<1> DEFINE row == [present |-> TRUE, carrier |-> c, fit |-> fit, ownership |-> own, antt |-> antt]
<1>4. row \in Rows /\ row.present /\ row.carrier = c /\ row.antt = antt
  BY DEF Rows
<1>5. /\ register' = [register EXCEPT ![v] = row] /\ fleet' = ReceiverLink(v, c, antt)
      /\ unsynced' \subseteq Resources \X Branches
      /\ UNCHANGED <<branches, closed, carriers, served, policy, route>>
  BY <1>1, <1>2 DEF SaveVehicle, LeftOut
<1>6. /\ ~Present(v) => drifted' = drifted
      /\ Present(v) => drifted' = (drifted \/ (v \in Crew /\ c # register[v].carrier))
  BY DEF CreateVehicle, UpdateVehicle
<1> HIDE DEF row
<1> QED BY <1>3, <1>4, <1>5, <1>6 DEF Saved

ColumnsTyped ==
    /\ branches \subseteq Branches /\ closed \subseteq branches /\ carriers \in [Carriers -> CarrierRows]
    /\ served \subseteq Carriers \X branches
    /\ policy \in [Branches -> SUBSET {"driver", "vehicle"}]
    /\ register \in [Resources -> Rows]
    /\ route \in Routes /\ route.branch \in branches \cup {None}
    /\ unsynced \subseteq Resources \X Branches /\ drifted \in BOOLEAN
    /\ \A r \in Resources : RowSound(r)

LEMMA AccessTyped == ASSUME RegistersSound, Access PROVE ColumnsTyped'
<1>1. ColumnsTyped
  BY DEF RegistersSound, TypeOK, ColumnsTyped
<1>2. Quietly
  BY AccessApart
<1> DEFINE Wider == /\ branches' \subseteq Branches /\ branches \subseteq branches' /\ closed' \subseteq branches'
                    /\ served' \subseteq Carriers \X branches'
                    /\ policy' \in [Branches -> SUBSET {"driver", "vehicle"}]
<1>4. ASSUME NEW b \in Branches, CreateBranch(b) PROVE Wider
  BY <1>1, <1>4 DEF ColumnsTyped, CreateBranch
<1>5. ASSUME NEW c \in Carriers, NEW b \in Branches, EnableCarrierBranch(c, b) PROVE Wider
  BY <1>1, <1>5 DEF ColumnsTyped, EnableCarrierBranch
<1>6. ASSUME NEW b \in Branches, NEW required \in SUBSET {"driver", "vehicle"}, NEW review \in BOOLEAN,
             ConfigureApproval(b, required, review)
      PROVE  Wider
  BY <1>1, <1>6 DEF ColumnsTyped, ConfigureApproval
<1>8. ASSUME NEW b \in Branches, NEW active \in BOOLEAN, UpdateBranch(b, active) PROVE Wider
  BY <1>1, <1>8 DEF ColumnsTyped, UpdateBranch
<1>7. ASSUME UNCHANGED <<branches, closed, served, policy>> PROVE Wider
  BY <1>1, <1>7 DEF ColumnsTyped
<1>9. ASSUME NEW r, NEW b, NEW active, SetAvailability(r, b, active) PROVE Wider
  <2>1. UNCHANGED <<branches, closed, served, policy>>
    BY <1>9 DEF SetAvailability
  <2> QED BY <1>7, <2>1
<1>10. ASSUME NEW r, NEW b, NEW decision, NEW antt, ReviewAvailability(r, b, decision, antt) PROVE Wider
  <2>1. UNCHANGED <<branches, closed, served, policy>>
    BY <1>10 DEF ReviewAvailability
  <2> QED BY <1>7, <2>1
<1> HIDE DEF Wider
<1>11. Wider
  BY <1>4, <1>5, <1>6, <1>8, <1>9, <1>10 DEF Access
<1>3. /\ branches' \subseteq Branches /\ branches \subseteq branches' /\ closed' \subseteq branches'
      /\ served' \subseteq Carriers \X branches'
      /\ policy' \in [Branches -> SUBSET {"driver", "vehicle"}]
  BY <1>11 DEF Wider
<1> QED BY <1>1, <1>2, <1>3 DEF ColumnsTyped, Quietly, RowSound, Present

LEMMA SavedTyped ==
    ASSUME RegistersSound, NEW r \in Resources, NEW row, Saved(r, row),
           unsynced' \subseteq Resources \X Branches, drifted' \in BOOLEAN
    PROVE  ColumnsTyped'
<1>1. ColumnsTyped
  BY DEF RegistersSound, TypeOK, ColumnsTyped
<1>2. /\ register' \in [Resources -> Rows] /\ register'[r] = row
      /\ \A q \in Resources \ {r} : register'[q] = register[q]
  BY <1>1 DEF Saved, ColumnsTyped
<1>3. UNCHANGED <<branches, closed, carriers, served, policy, route>>
  BY DEF Saved
<1>4. ASSUME NEW q \in Resources PROVE RowSound(q)'
  BY <1>1, <1>2, <1>3 DEF RowSound, Present, Saved, ColumnsTyped
<1> QED BY <1>1, <1>2, <1>3, <1>4 DEF ColumnsTyped

LEMMA ResourcesTyped ==
    ASSUME RegistersSound,
           \/ \E d \in Drivers, c \in Carriers \cup {None} : CreateDriver(d, c)
           \/ \E d \in Drivers, c \in Carriers \cup {None}, look \in BOOLEAN : UpdateDriver(d, c, look)
           \/ \E r \in Resources, fit \in BOOLEAN : ChangeStatus(r, fit)
           \/ \E r \in Resources : DeleteResource(r)
           \/ \E v \in Vehicles, own \in {"proprio", "agregado"}, c \in Carriers \cup {None}, antt \in BOOLEAN :
                 CreateVehicle(v, own, c, antt) \/ UpdateVehicle(v, own, c, antt)
    PROVE  ColumnsTyped'
<1>1. ColumnsTyped /\ Drivers \subseteq Resources /\ Vehicles \subseteq Resources
  BY DEF RegistersSound, TypeOK, ColumnsTyped, Resources
<1>2. ASSUME NEW d \in Drivers, NEW c \in Carriers \cup {None},
             CreateDriver(d, c) \/ \E look \in BOOLEAN : UpdateDriver(d, c, look)
      PROVE  ColumnsTyped'
  <2>1. PICK row : /\ Saved(d, row) /\ (~Present(d) => drifted' = drifted)
                   /\ Present(d) => drifted' = (drifted \/ (d \in Crew /\ c # register[d].carrier))
                   /\ unsynced' \subseteq Resources \X Branches
    BY <1>2, DriverSaved
  <2>2. drifted' \in BOOLEAN /\ unsynced' \subseteq Resources \X Branches /\ d \in Resources
    BY <1>1, <2>1 DEF ColumnsTyped
  <2> QED BY <2>1, <2>2, SavedTyped
<1>3. ASSUME NEW v \in Vehicles, NEW own \in {"proprio", "agregado"}, NEW c \in Carriers \cup {None},
             NEW antt \in BOOLEAN, CreateVehicle(v, own, c, antt) \/ UpdateVehicle(v, own, c, antt)
      PROVE  ColumnsTyped'
  <2>1. PICK row : /\ Saved(v, row) /\ (~Present(v) => drifted' = drifted)
                   /\ unsynced' \subseteq Resources \X Branches
                   /\ Present(v) => drifted' = (drifted \/ (v \in Crew /\ c # register[v].carrier))
    BY <1>3, VehicleSaved
  <2>2. drifted' \in BOOLEAN /\ unsynced' \subseteq Resources \X Branches /\ v \in Resources
    BY <1>1, <2>1 DEF ColumnsTyped
  <2> QED BY <2>1, <2>2, SavedTyped
<1>4. ASSUME NEW r \in Resources, NEW fit \in BOOLEAN, ChangeStatus(r, fit) PROVE ColumnsTyped'
  <2> DEFINE row == [register[r] EXCEPT !.fit = fit]
  <2>1. row \in Rows /\ row.present /\ row.carrier = register[r].carrier /\ register[r] \in Rows
    BY <1>1, <1>4 DEF ColumnsTyped, Rows, ChangeStatus, Present
  <2>2. register' = [register EXCEPT ![r] = row]
    BY <1>1, <1>4 DEF ColumnsTyped, ChangeStatus
  <2> HIDE DEF row
  <2>3. Saved(r, row) /\ UNCHANGED <<unsynced, drifted>>
    BY <1>1, <1>4, <2>1, <2>2 DEF Saved, ChangeStatus, ColumnsTyped, RowSound, Rows
  <2> QED BY <1>1, <2>3, SavedTyped DEF ColumnsTyped
<1>5. ASSUME NEW r \in Resources, DeleteResource(r) PROVE ColumnsTyped'
  <2>1. /\ register' \in [Resources -> Rows] /\ register'[r] = NoRow
        /\ \A q \in Resources \ {r} : register'[q] = register[q]
    BY <1>1, <1>5, Constants DEF DeleteResource, ColumnsTyped
  <2>2. /\ UNCHANGED <<branches, closed, carriers, served, policy, route, drifted>>
        /\ unsynced' \subseteq unsynced
    BY <1>5 DEF DeleteResource, LeftOut
  <2>3. \A q \in Resources : RowSound(q)'
    BY <1>1, <2>1, <2>2, Constants DEF ColumnsTyped, RowSound, Present
  <2> QED BY <1>1, <2>1, <2>2, <2>3 DEF ColumnsTyped
<1> QED BY <1>2, <1>3, <1>4, <1>5

LEMMA SyncTyped ==
    ASSUME RegistersSound, NEW c \in Carriers, NEW vs \in SUBSET Vehicles, NEW antt \in BOOLEAN,
           CanSyncVehicles(c, vs), SyncVehicles(c, vs, antt), UNCHANGED <<branches, closed, served, policy, route>>,
           carriers' \in [Carriers -> CarrierRows], carriers'[c].state # "absent",
           \A x \in Carriers \ {c} : carriers'[x] = carriers[x]
    PROVE  ColumnsTyped'
<1>1. ColumnsTyped
  BY DEF RegistersSound, TypeOK, ColumnsTyped
<1>2. RowsSynced(c, vs)
  BY SyncedRows
<1>3. ASSUME NEW r \in Resources PROVE RowSound(r)'
  <2>1. RowSound(r) /\ register[r] \in Rows
    BY <1>1 DEF ColumnsTyped
  <2>2. CASE r \in vs
    BY <1>2, <2>2, Constants DEF RowsSynced, RowSound, Present, CanSyncVehicles
  <2>3. CASE r \in Owned(c) \ vs
    BY <1>2, <2>1, <2>3, Constants DEF RowsSynced, RowSound, Present, Owned
  <2>4. CASE r \notin vs \cup Owned(c)
    <3>1. register'[r] = register[r]
      BY <1>2, <2>4 DEF RowsSynced
    <3>2. register[r].carrier \in Carriers \ {c} => carriers'[register[r].carrier] = carriers[register[r].carrier]
      OBVIOUS
    <3> QED BY <2>1, <3>1, <3>2 DEF RowSound, Present, Rows
  <2> QED BY <2>2, <2>3, <2>4
<1>4. drifted' \in BOOLEAN
  BY DEF SyncVehicles
<1>5. unsynced' \subseteq Resources \X Branches /\ register' \in [Resources -> Rows]
  <2>1. ServedBy(c) \subseteq Branches /\ branches \subseteq Branches
    BY <1>1 DEF ColumnsTyped, ServedBy
  <2> QED BY <1>1, <1>2, <2>1 DEF RowsSynced, ColumnsTyped, LeftOut
<1> QED BY <1>1, <1>3, <1>4, <1>5 DEF ColumnsTyped

CarrierRequest ==
    \/ \E c \in Carriers, vs \in SUBSET Vehicles, antt \in BOOLEAN : CreateCarrier(c, vs, antt)
    \/ \E c \in Carriers, state \in {"active", "inactive"} : UpdateCarrier(c, state)
    \/ \E c \in Carriers, state \in {"active", "inactive"}, antt \in BOOLEAN :
          UpdateCarrierAntt(c, state, antt)
    \/ \E c \in Carriers, vs \in SUBSET Vehicles : UpdateCarrierVehicles(c, vs)
    \/ \E c \in Carriers : DeleteCarrier(c)

LEMMA CarriersTyped == ASSUME RegistersSound, CarrierRequest PROVE ColumnsTyped'
<1>1. ColumnsTyped
  BY DEF RegistersSound, TypeOK, ColumnsTyped
<1>2. ASSUME NEW c \in Carriers, NEW vs \in SUBSET Vehicles, NEW antt \in BOOLEAN, CreateCarrier(c, vs, antt)
      PROVE  ColumnsTyped'
  <2>1. /\ carriers' \in [Carriers -> CarrierRows] /\ carriers'[c].state # "absent"
        /\ \A x \in Carriers \ {c} : carriers'[x] = carriers[x]
    BY <1>1, <1>2 DEF CreateCarrier, ColumnsTyped, CarrierRows
  <2> QED BY <1>2, <2>1, SyncTyped DEF CreateCarrier
<1>3. ASSUME NEW c \in Carriers, NEW state \in {"active", "inactive"},
             UpdateCarrier(c, state) \/ \E antt \in BOOLEAN : UpdateCarrierAntt(c, state, antt)
      PROVE  ColumnsTyped'
  <2>1. /\ carriers' \in [Carriers -> CarrierRows]
        /\ \A x \in Carriers : carriers[x].state # "absent" => carriers'[x].state # "absent"
    BY <1>1, <1>3 DEF UpdateCarrier, UpdateCarrierAntt, ColumnsTyped, CarrierRows
  <2>2. UNCHANGED <<branches, closed, served, policy, register, route, drifted>>
    BY <1>3 DEF UpdateCarrier, UpdateCarrierAntt
  <2>3. \A r \in Resources : RowSound(r)'
    BY <1>1, <2>1, <2>2 DEF ColumnsTyped, RowSound, Present, Rows
  <2>4. unsynced' \subseteq Resources \X Branches
    <3>1. Owned(c) \subseteq Resources /\ ServedBy(c) \subseteq Branches
      BY <1>1 DEF ColumnsTyped, Owned, ServedBy, Resources
    <3> QED BY <1>1, <1>3, <3>1 DEF UpdateCarrier, UpdateCarrierAntt, LeftOut, ColumnsTyped
  <2> QED BY <1>1, <2>1, <2>2, <2>3, <2>4 DEF ColumnsTyped
<1>4. ASSUME NEW c \in Carriers, NEW vs \in SUBSET Vehicles, UpdateCarrierVehicles(c, vs) PROVE ColumnsTyped'
  <2>1. carriers[c].antt \in BOOLEAN
    BY <1>1 DEF ColumnsTyped, CarrierRows
  <2> QED BY <1>1, <1>4, <2>1, SyncTyped DEF UpdateCarrierVehicles, ColumnsTyped
<1>5. ASSUME NEW c \in Carriers, DeleteCarrier(c) PROVE ColumnsTyped'
  <2>1. /\ carriers' \in [Carriers -> CarrierRows] /\ served' \subseteq served
        /\ \A x \in Carriers \ {c} : carriers'[x] = carriers[x]
        /\ \A r \in Resources : register[r].carrier # c
    BY <1>1, <1>5 DEF DeleteCarrier, ColumnsTyped, CarrierRows
  <2>2. UNCHANGED <<branches, closed, policy, register, route, unsynced, drifted>>
    BY <1>5 DEF DeleteCarrier
  <2>3. \A r \in Resources : RowSound(r)'
    BY <1>1, <2>1, <2>2 DEF ColumnsTyped, RowSound, Present, Rows
  <2> QED BY <1>1, <2>1, <2>2, <2>3 DEF ColumnsTyped
<1> QED BY <1>2, <1>3, <1>4, <1>5 DEF CarrierRequest

RouteRequest ==
    \/ \E b \in Branches, c \in Carriers, d \in Drivers \cup {None}, v \in Vehicles \cup {None} :
          CreateRoute(b, c, d, v)
    \/ \E b \in Branches, c \in Carriers \cup {None}, d \in Drivers \cup {None}, v \in Vehicles \cup {None} :
          ImportRoute(b, c, d, v)
    \/ \E d \in Drivers \cup {None}, v \in Vehicles \cup {None} : AssignRoute(d, v)
    \/ \E c \in Carriers : ChangeRouteCarrier(c)

\* What a change of the route does to the history of drift.
LEMMA Drifts ==
    ASSUME RouteRequest
    PROVE  drifted' = drifted \/ \E more \in BOOLEAN : drifted' = (drifted \/ more)
<1>1. ASSUME NEW b, NEW c, NEW d, NEW v, CreateRoute(b, c, d, v) \/ AssignRoute(d, v) \/ ChangeRouteCarrier(c)
      PROVE  drifted' = drifted
  BY <1>1 DEF CreateRoute, AssignRoute, ChangeRouteCarrier
<1>2. ASSUME NEW b, NEW c, NEW d, NEW v, ImportRoute(b, c, d, v)
      PROVE  \E more \in BOOLEAN : drifted' = (drifted \/ more)
  BY <1>2 DEF ImportRoute
<1> QED BY <1>1, <1>2 DEF RouteRequest

LEMMA RouteTyped == ASSUME RegistersSound, RouteRequest PROVE ColumnsTyped' /\ Offering
<1>1. ColumnsTyped
  BY DEF RegistersSound, TypeOK, ColumnsTyped
<1>2. UNCHANGED <<branches, closed, carriers, served, policy, register, available, unsynced>>
  BY DEF RouteRequest, CreateRoute, ImportRoute, AssignRoute, ChangeRouteCarrier
<1>3. \A r \in Resources : RowSound(r)' /\ (Present(r)' <=> Present(r))
  BY <1>1, <1>2 DEF ColumnsTyped, RowSound, Present
<1>4. drifted' \in BOOLEAN
  BY <1>1, Drifts DEF ColumnsTyped
<1>5. route' \in Routes /\ route'.branch \in branches \cup {None}
  <2>1. /\ route \in Routes /\ route.branch \in branches \cup {None} /\ branches \subseteq Branches
    BY <1>1 DEF ColumnsTyped
  <2>2. ASSUME NEW b \in Branches, NEW c \in Carriers, NEW d \in Drivers \cup {None},
               NEW v \in Vehicles \cup {None}, CreateRoute(b, c, d, v)
        PROVE  route' \in Routes /\ route'.branch \in branches \cup {None}
    BY <2>2 DEF CreateRoute, Routes
  <2>3. ASSUME NEW b \in Branches, NEW c \in Carriers \cup {None}, NEW d \in Drivers \cup {None},
               NEW v \in Vehicles \cup {None}, ImportRoute(b, c, d, v)
        PROVE  route' \in Routes /\ route'.branch \in branches \cup {None}
    <3>1. \E x \in Carriers \cup {None} :
             route' = [route EXCEPT !.branch = b, !.carrier = x, !.driver = d, !.vehicle = v]
      BY <2>3 DEF ImportRoute
    <3>2. b \in branches
      BY <2>3 DEF ImportRoute
    <3> QED BY <2>1, <2>3, <3>1, <3>2 DEF Routes
  <2>4. ASSUME NEW d \in Drivers \cup {None}, NEW v \in Vehicles \cup {None}, AssignRoute(d, v)
        PROVE  route' \in Routes /\ route'.branch \in branches \cup {None}
    BY <2>1, <2>4 DEF AssignRoute, Routes
  <2>5. ASSUME NEW c \in Carriers, ChangeRouteCarrier(c)
        PROVE  route' \in Routes /\ route'.branch \in branches \cup {None}
    BY <2>1, <2>5 DEF ChangeRouteCarrier, AfterCarrierChange, Routes
  <2> QED BY <2>2, <2>3, <2>4, <2>5 DEF RouteRequest
<1>6. ColumnsTyped'
  BY <1>1, <1>2, <1>3, <1>4, <1>5 DEF ColumnsTyped
<1> QED BY <1>2, <1>3, <1>6, NothingMoved, NothingNewToOffer

\* The Torre sheet: a row for every name and plate it does not find.
TorreRequest ==
    \E b \in Branches, d \in Drivers \cup {None}, v \in Vehicles \cup {None} : ImportTorre(b, d, v)

LEMMA TorreKeeps ==
    ASSUME RegistersSound, TorreRequest
    PROVE  ColumnsTyped' /\ Offering /\ FleetSound' /\ CrewSound'
<1>1. PICK b \in Branches, d \in Drivers \cup {None}, v \in Vehicles \cup {None} : ImportTorre(b, d, v)
  BY DEF TorreRequest
<1>2. PICK new : RowsAdded(new) /\ \A r \in {d, v} \ {None} : Present(r)'
  BY <1>1, TorreRows
<1>3. /\ UNCHANGED <<branches, closed, carriers, served, policy, fleet, available>>
      /\ b \in branches /\ b # None /\ route' = TorreCrew(b, d, v)
      /\ drifted' = (drifted \/ (route.carrier # None /\ {route'.driver, route'.vehicle} # Crew))
  BY <1>1, NoneAssumption DEF ImportTorre
<1>4. ColumnsTyped /\ FleetSound /\ CrewSound
  BY DEF RegistersSound, TypeOK, ColumnsTyped
<1>5. /\ route' \in Routes /\ route'.branch = b /\ route'.carrier = route.carrier
      /\ route'.driver \in {d, route.driver} /\ route'.vehicle \in {v, route.vehicle}
      /\ d = None => route'.driver = route.driver
      /\ v = None => route'.vehicle = route.vehicle
  <2> DEFINE driver == IF d = None THEN route.driver ELSE d
             vehicle == IF v = None THEN route.vehicle ELSE v
  <2>1. route \in Routes
    BY <1>4 DEF ColumnsTyped
  <2>2. route' = [route EXCEPT !.branch = b, !.driver = driver, !.vehicle = vehicle]
    BY <1>3, <2>1 DEF TorreCrew, Routes
  <2>3. driver \in Drivers \cup {None} /\ vehicle \in Vehicles \cup {None}
    BY <2>1 DEF Routes
  <2>4. /\ driver \in {d, route.driver} /\ vehicle \in {v, route.vehicle}
        /\ d = None => driver = route.driver
        /\ v = None => vehicle = route.vehicle
    OBVIOUS
  <2> HIDE DEF driver, vehicle
  <2>5. route' \in Routes /\ route'.branch = b /\ route'.carrier = route.carrier
        /\ route'.driver = driver /\ route'.vehicle = vehicle
    BY <2>1, <2>2, <2>3 DEF Routes
  <2> QED BY <2>4, <2>5
<1>6. Offering
  BY <1>2, <1>3, TorreOffers
<1>7. ASSUME NEW r \in Resources PROVE Present(r) => Present(r)' /\ register'[r] = register[r]
  BY <1>2 DEF RowsAdded, Present
<1>8. ColumnsTyped'
  <2>1. unsynced' \subseteq Resources \X Branches /\ register' \in [Resources -> Rows]
    BY <1>2, <1>4 DEF RowsAdded, ColumnsTyped
  <2>2. \A r \in Resources : RowSound(r)'
    BY <1>2, <1>3, <1>4, Constants DEF RowsAdded, RowSound, ColumnsTyped, Present
  <2>3. route'.branch \in branches' \cup {None} /\ drifted' \in BOOLEAN
    BY <1>3, <1>4, <1>5 DEF ColumnsTyped
  <2> QED BY <1>3, <1>4, <1>5, <2>1, <2>2, <2>3 DEF ColumnsTyped
<1>9. FleetSound'
  <2>1. \A u \in Vehicles : (Receiving(u)' <=> Receiving(u)) /\ (Receiving(u) => ReceiverOf(u)' = ReceiverOf(u))
    BY <1>2, <1>3 DEF RowsAdded, Receiving, ReceiverOf, Present, Resources
  <2> QED BY <1>3, <1>4, <2>1 DEF FleetSound
<1>10. CrewSound'
  <2>1. Crew' = {route'.driver, route'.vehicle} /\ Crew = {route.driver, route.vehicle}
    BY DEF Crew
  <2>2. \A r \in Crew \ {None} : r \in Resources /\ Present(r)
    BY <1>4 DEF CrewSound, ColumnsTyped, Routes, Crew, Resources
  <2>3. \A r \in Crew' \ {None} : Present(r)'
    BY <1>2, <1>5, <1>7, <2>1, <2>2
  <2>4. ASSUME ~drifted', route'.carrier # None, NEW r \in Crew' \ {None}
        PROVE  register'[r].carrier = route'.carrier
    <3>1. ~drifted /\ Crew' = Crew /\ route.carrier # None
      BY <1>3, <1>5, <2>1, <2>4
    <3> QED BY <1>4, <1>5, <1>7, <2>2, <2>4, <3>1 DEF CrewSound, CrewOfCarrier
  <2> QED BY <1>3, <1>5, <2>3, <2>4 DEF CrewSound, CrewOfCarrier
<1> QED BY <1>6, <1>8, <1>9, <1>10

-----------------------------------------------------------------------------
(* The fleet: the links of the carriers and the carriers of the vehicles.   *)

LEMMA ReceiverOfVehicle ==
    ASSUME NEW v
    PROVE  ReceiverOf(v).vehicle = v /\ ReceiverOf(v).carrier = register[v].carrier
BY DEF ReceiverOf

LEMMA FleetUntouched ==
    ASSUME RegistersSound, fleet' = fleet,
           \A v \in Vehicles : /\ Receiving(v)' <=> Receiving(v)
                               /\ Receiving(v) => ReceiverOf(v)' = ReceiverOf(v)
    PROVE  FleetSound'
BY DEF RegistersSound, FleetSound

LEMMA VehicleFleet ==
    ASSUME RegistersSound, NEW v \in Vehicles, NEW c \in Carriers \cup {None}, NEW antt, NEW row,
           Saved(v, row), row.carrier = c, row.antt = antt, fleet' = ReceiverLink(v, c, antt)
    PROVE  FleetSound'
<1> DEFINE new == [carrier |-> c, vehicle |-> v, antt |-> Authorized(antt, carriers[c].antt)]
<1>1. /\ v \in Resources /\ Vehicles \subseteq Resources /\ register \in [Resources -> Rows] /\ FleetSound
  BY DEF RegistersSound, TypeOK, Resources
<1>2. /\ register'[v] = row /\ \A u \in Vehicles \ {v} : register'[u] = register[u]
      /\ carriers' = carriers /\ row.present
  BY <1>1 DEF Saved
<1>3. \A l : l \in fleet' <=> (l \in fleet /\ l.vehicle # v) \/ (c # None /\ l = new)
  BY DEF ReceiverLink
<1>4. (Receiving(v)' <=> c # None) /\ ReceiverOf(v)' = new
  BY <1>2 DEF Receiving, Present, ReceiverOf
<1>5. \A u \in Vehicles \ {v} : (Receiving(u)' <=> Receiving(u)) /\ ReceiverOf(u)' = ReceiverOf(u)
  BY <1>2 DEF Receiving, Present, ReceiverOf
<1> HIDE DEF new
<1>6. \A l : l \in fleet /\ l.vehicle # v <=> \E u \in Vehicles \ {v} : Receiving(u) /\ l = ReceiverOf(u)
  BY <1>1, ReceiverOfVehicle DEF FleetSound
<1> QED BY <1>3, <1>4, <1>5, <1>6 DEF FleetSound

LEMMA ResourcesFleet ==
    ASSUME RegistersSound,
           \/ \E d \in Drivers, c \in Carriers \cup {None} : CreateDriver(d, c)
           \/ \E d \in Drivers, c \in Carriers \cup {None}, look \in BOOLEAN : UpdateDriver(d, c, look)
           \/ \E r \in Resources, fit \in BOOLEAN : ChangeStatus(r, fit)
           \/ \E r \in Resources : DeleteResource(r)
           \/ \E v \in Vehicles, own \in {"proprio", "agregado"}, c \in Carriers \cup {None}, antt \in BOOLEAN :
                 CreateVehicle(v, own, c, antt) \/ UpdateVehicle(v, own, c, antt)
    PROVE  FleetSound'
<1>1. /\ Drivers \subseteq Resources /\ Vehicles \subseteq Resources /\ register \in [Resources -> Rows]
      /\ FleetSound
  BY DEF RegistersSound, TypeOK, Resources
<1>2. ASSUME NEW d \in Drivers, NEW c \in Carriers \cup {None},
             CreateDriver(d, c) \/ \E look \in BOOLEAN : UpdateDriver(d, c, look)
      PROVE  FleetSound'
  <2>1. PICK row : Saved(d, row) /\ fleet' = fleet
    BY <1>2, DriverSaved
  <2>2. carriers' = carriers /\ \A v \in Vehicles : register'[v] = register[v]
    BY <1>1, <2>1, KindsAssumption DEF Saved
  <2> QED BY <2>1, <2>2, FleetUntouched DEF Receiving, Present, ReceiverOf
<1>3. ASSUME NEW v \in Vehicles, NEW own \in {"proprio", "agregado"}, NEW c \in Carriers \cup {None},
             NEW antt \in BOOLEAN, CreateVehicle(v, own, c, antt) \/ UpdateVehicle(v, own, c, antt)
      PROVE  FleetSound'
  BY <1>3, VehicleSaved, VehicleFleet
<1>4. ASSUME NEW r \in Resources, NEW fit \in BOOLEAN, ChangeStatus(r, fit) PROVE FleetSound'
  <2>1. carriers' = carriers /\ fleet' = fleet /\ register' = [register EXCEPT ![r].fit = fit]
    BY <1>4 DEF ChangeStatus
  <2>2. \A v \in Resources : /\ register'[v].present = register[v].present
                             /\ register'[v].carrier = register[v].carrier
                             /\ register'[v].antt = register[v].antt
    BY <1>1, <2>1 DEF Rows
  <2> QED BY <1>1, <2>1, <2>2, FleetUntouched DEF Receiving, Present, ReceiverOf
<1>5. ASSUME NEW r \in Resources, DeleteResource(r) PROVE FleetSound'
  <2>1. /\ carriers' = carriers /\ fleet' = {l \in fleet : l.vehicle # r}
        /\ register'[r] = NoRow /\ \A q \in Resources \ {r} : register'[q] = register[q]
    BY <1>1, <1>5 DEF DeleteResource
  <2>2. ~Receiving(r)'
    BY <2>1, Constants DEF Receiving, Present
  <2>3. \A u \in Vehicles \ {r} : (Receiving(u)' <=> Receiving(u)) /\ ReceiverOf(u)' = ReceiverOf(u)
    BY <1>1, <2>1 DEF Receiving, Present, ReceiverOf
  <2>4. \A l : l \in fleet' <=> \E u \in Vehicles \ {r} : Receiving(u) /\ l = ReceiverOf(u)
    BY <1>1, <2>1, ReceiverOfVehicle DEF FleetSound
  <2> QED BY <2>2, <2>3, <2>4 DEF FleetSound
<1> QED BY <1>2, <1>3, <1>4, <1>5

LEMMA SyncFleet ==
    ASSUME RegistersSound, NEW c \in Carriers, NEW vs \in SUBSET Vehicles, NEW antt \in BOOLEAN,
           CanSyncVehicles(c, vs), SyncVehicles(c, vs, antt), carriers'[c].antt = antt,
           \A x \in Carriers \ {c} : carriers'[x] = carriers[x]
    PROVE  FleetSound'
<1> DEFINE new(v) == [carrier |-> c, vehicle |-> v, antt |-> Authorized(register[v].antt, antt)]
<1>1. /\ Vehicles \subseteq Resources /\ register \in [Resources -> Rows] /\ FleetSound /\ RowsSynced(c, vs)
  BY SyncedRows DEF RegistersSound, TypeOK, Resources
<1>2. \A l : l \in fleet' <=> (l \in fleet /\ l.carrier # c) \/ \E v \in vs : l = new(v)
  BY DEF SyncVehicles
<1>3. ASSUME NEW v \in vs PROVE Receiving(v)' /\ ReceiverOf(v)' = new(v)
  <2>1. register'[v].carrier = c /\ register'[v].antt = register[v].antt /\ register'[v].present
    BY <1>1, <1>3 DEF RowsSynced, CanSyncVehicles, Present
  <2> QED BY <2>1, Constants DEF Receiving, Present, ReceiverOf
<1>4. ASSUME NEW v \in Owned(c) \ vs PROVE ~Receiving(v)'
  BY <1>1, <1>4 DEF RowsSynced, Receiving
<1>5. ASSUME NEW v \in Vehicles, v \notin vs \cup Owned(c)
      PROVE  /\ Receiving(v)' <=> Receiving(v)
             /\ Receiving(v) => ReceiverOf(v)' = ReceiverOf(v) /\ register[v].carrier # c
  <2>1. register'[v] = register[v] /\ register[v].carrier # c /\ register[v] \in Rows
    BY <1>1, <1>5 DEF RowsSynced, Owned
  <2>2. register[v].carrier # None => carriers'[register[v].carrier] = carriers[register[v].carrier]
    BY <2>1 DEF Rows
  <2> QED BY <2>1, <2>2 DEF Receiving, Present, ReceiverOf
<1> HIDE DEF new
<1>6. ASSUME NEW l \in fleet, l.carrier # c
      PROVE  \E v \in Vehicles : v \notin vs \cup Owned(c) /\ Receiving(v) /\ l = ReceiverOf(v)
  <2>1. PICK v \in Vehicles : Receiving(v) /\ l = ReceiverOf(v)
    BY <1>1, <1>6 DEF FleetSound
  <2>2. v \notin Owned(c) /\ v \notin vs
    BY <1>6, <2>1, ReceiverOfVehicle DEF Owned, CanSyncVehicles
  <2> QED BY <2>1, <2>2
<1>7. ASSUME NEW v \in Vehicles, v \notin vs \cup Owned(c), Receiving(v)
      PROVE  ReceiverOf(v) \in fleet /\ ReceiverOf(v).carrier # c
  BY <1>1, <1>5, <1>7, ReceiverOfVehicle DEF FleetSound
<1>8. ASSUME NEW l \in fleet' PROVE \E v \in Vehicles : Receiving(v)' /\ l = ReceiverOf(v)'
  <2>1. CASE l \in fleet /\ l.carrier # c
    BY <1>5, <1>6, <2>1
  <2>2. CASE \E v \in vs : l = new(v)
    BY <1>3, <2>2
  <2> QED BY <1>2, <1>8, <2>1, <2>2
<1>9. ASSUME NEW v \in Vehicles, Receiving(v)' PROVE ReceiverOf(v)' \in fleet'
  <2>1. CASE v \in vs
    BY <1>2, <1>3, <2>1
  <2>2. CASE v \notin vs
    BY <1>2, <1>4, <1>5, <1>7, <1>9, <2>2
  <2> QED BY <2>1, <2>2
<1> QED BY <1>8, <1>9 DEF FleetSound

LEMMA CarriersFleet == ASSUME RegistersSound, CarrierRequest PROVE FleetSound'
<1>1. /\ Vehicles \subseteq Resources /\ register \in [Resources -> Rows] /\ FleetSound
      /\ carriers \in [Carriers -> CarrierRows]
  BY DEF RegistersSound, TypeOK, Resources
<1>2. ASSUME NEW c \in Carriers, NEW vs \in SUBSET Vehicles, NEW antt \in BOOLEAN, CreateCarrier(c, vs, antt)
      PROVE  FleetSound'
  <2>1. carriers'[c].antt = antt /\ \A x \in Carriers \ {c} : carriers'[x] = carriers[x]
    BY <1>1, <1>2 DEF CreateCarrier
  <2> QED BY <1>2, <2>1, SyncFleet DEF CreateCarrier
<1>3. ASSUME NEW c \in Carriers, NEW vs \in SUBSET Vehicles, UpdateCarrierVehicles(c, vs) PROVE FleetSound'
  <2>1. carriers[c].antt \in BOOLEAN
    BY <1>1 DEF CarrierRows
  <2> QED BY <1>3, <2>1, SyncFleet DEF UpdateCarrierVehicles
<1>6. ASSUME NEW c \in Carriers, NEW state \in {"active", "inactive"}, UpdateCarrier(c, state)
      PROVE  FleetSound'
  <2>1. /\ register' = register /\ fleet' = fleet
        /\ \A x \in Carriers : carriers'[x].antt = carriers[x].antt
    BY <1>1, <1>6 DEF UpdateCarrier, CarrierRows
  <2>2. ASSUME NEW v \in Vehicles, Receiving(v) PROVE ReceiverOf(v)' = ReceiverOf(v)
    <3>1. register[v].carrier \in Carriers
      BY <1>1, <2>2 DEF Receiving, Rows
    <3> QED BY <2>1, <3>1 DEF ReceiverOf
  <2>3. \A v \in Vehicles : Receiving(v)' <=> Receiving(v)
    BY <2>1 DEF Receiving, Present
  <2> QED BY <2>1, <2>2, <2>3, FleetUntouched
<1>4. ASSUME NEW c \in Carriers, NEW state \in {"active", "inactive"}, NEW antt \in BOOLEAN,
             UpdateCarrierAntt(c, state, antt)
      PROVE  FleetSound'
  <2> DEFINE updated(l) == IF l.carrier = c
                           THEN [l EXCEPT !.antt = Authorized(register[l.vehicle].antt, antt)] ELSE l
  <2>1. /\ register' = register /\ fleet' = {updated(l) : l \in fleet}
        /\ carriers'[c].antt = antt /\ \A x \in Carriers \ {c} : carriers'[x] = carriers[x]
    BY <1>1, <1>4 DEF UpdateCarrierAntt, AnttOfLinks
  <2>2. ASSUME NEW v \in Vehicles, Receiving(v) PROVE updated(ReceiverOf(v)) = ReceiverOf(v)'
    <3>1. register[v].carrier \in Carriers
      BY <1>1, <2>2 DEF Receiving, Rows
    <3>2. CASE register[v].carrier = c
      BY <2>1, <3>2 DEF ReceiverOf
    <3>3. CASE register[v].carrier # c
      BY <2>1, <3>1, <3>3 DEF ReceiverOf
    <3> QED BY <3>2, <3>3
  <2>3. \A v \in Vehicles : Receiving(v)' <=> Receiving(v)
    BY <2>1 DEF Receiving, Present
  <2>4. \A l : l \in fleet' <=> \E x \in fleet : l = updated(x)
    BY <2>1
  <2> HIDE DEF updated
  <2> QED BY <1>1, <2>2, <2>3, <2>4 DEF FleetSound
<1>5. ASSUME NEW c \in Carriers, DeleteCarrier(c) PROVE FleetSound'
  <2>1. /\ register' = register /\ fleet' = {l \in fleet : l.carrier # c}
        /\ \A r \in Resources : register[r].carrier # c
        /\ \A x \in Carriers \ {c} : carriers'[x] = carriers[x]
    BY <1>1, <1>5 DEF DeleteCarrier
  <2>2. ASSUME NEW v \in Vehicles, Receiving(v) PROVE ReceiverOf(v)' = ReceiverOf(v)
    <3>1. register[v].carrier \in Carriers \ {c}
      BY <1>1, <2>1, <2>2 DEF Receiving, Rows
    <3> QED BY <2>1, <3>1 DEF ReceiverOf
  <2>3. fleet' = fleet
    BY <1>1, <2>1, ReceiverOfVehicle DEF FleetSound
  <2>4. \A v \in Vehicles : Receiving(v)' <=> Receiving(v)
    BY <2>1 DEF Receiving, Present
  <2> QED BY <2>2, <2>3, <2>4, FleetUntouched
<1> QED BY <1>2, <1>3, <1>4, <1>5, <1>6 DEF CarrierRequest

-----------------------------------------------------------------------------
(* The crew of the route.                                                   *)

\* The rows of the crew stay, or the change is on record.
LEMMA CrewRowsKept ==
    ASSUME RegistersSound, route' = route, drifted => drifted',
           \A r \in Crew \ {None} :
              Present(r)' /\ (drifted' \/ register'[r].carrier = register[r].carrier)
    PROVE  CrewSound'
<1>1. Crew' = Crew
  BY DEF Crew
<1> QED BY <1>1 DEF RegistersSound, CrewSound, CrewOfCarrier

LEMMA ResourcesCrew ==
    ASSUME RegistersSound,
           \/ \E d \in Drivers, c \in Carriers \cup {None} : CreateDriver(d, c)
           \/ \E d \in Drivers, c \in Carriers \cup {None}, look \in BOOLEAN : UpdateDriver(d, c, look)
           \/ \E r \in Resources, fit \in BOOLEAN : ChangeStatus(r, fit)
           \/ \E r \in Resources : DeleteResource(r)
           \/ \E v \in Vehicles, own \in {"proprio", "agregado"}, c \in Carriers \cup {None}, antt \in BOOLEAN :
                 CreateVehicle(v, own, c, antt) \/ UpdateVehicle(v, own, c, antt)
    PROVE  CrewSound'
<1>1. /\ register \in [Resources -> Rows] /\ Drivers \subseteq Resources /\ Vehicles \subseteq Resources
      /\ Crew \ {None} \subseteq Resources /\ \A r \in Crew \ {None} : Present(r)
  BY DEF RegistersSound, TypeOK, Resources, Crew, Routes, CrewSound
<1>2. ASSUME NEW r \in Resources, NEW row, Saved(r, row)
      PROVE  /\ route' = route /\ register'[r] = row /\ row.present
             /\ \A q \in Resources \ {r} : register'[q] = register[q]
  BY <1>1, <1>2 DEF Saved
<1>3. ASSUME NEW d \in Drivers, NEW c \in Carriers \cup {None},
             CreateDriver(d, c) \/ \E look \in BOOLEAN : UpdateDriver(d, c, look)
      PROVE  CrewSound'
  <2>1. PICK row : /\ Saved(d, row) /\ row.carrier = c /\ (~Present(d) => drifted' = drifted)
                   /\ Present(d) => drifted' = (drifted \/ (d \in Crew /\ c # register[d].carrier))
    BY <1>3, DriverSaved
  <2>2. /\ route' = route /\ register'[d] = row /\ row.present
        /\ \A q \in Resources \ {d} : register'[q] = register[q]
    BY <1>1, <1>2, <2>1
  <2>4. drifted => drifted'
    BY <2>1
  <2>3. ASSUME NEW r \in Crew \ {None}
        PROVE  Present(r)' /\ (drifted' \/ register'[r].carrier = register[r].carrier)
    <3>1. CASE r = d
      BY <1>1, <2>1, <2>2, <3>1 DEF Present
    <3>2. CASE r # d
      BY <1>1, <2>2, <3>2 DEF Present
    <3> QED BY <3>1, <3>2
  <2> QED BY <2>2, <2>3, <2>4, CrewRowsKept
<1>4. ASSUME NEW v \in Vehicles, NEW own \in {"proprio", "agregado"}, NEW c \in Carriers \cup {None},
             NEW antt \in BOOLEAN, CreateVehicle(v, own, c, antt) \/ UpdateVehicle(v, own, c, antt)
      PROVE  CrewSound'
  <2>1. PICK row : /\ Saved(v, row) /\ row.carrier = c /\ (~Present(v) => drifted' = drifted)
                   /\ Present(v) => drifted' = (drifted \/ (v \in Crew /\ c # register[v].carrier))
    BY <1>4, VehicleSaved
  <2>2. /\ route' = route /\ register'[v] = row /\ row.present
        /\ \A q \in Resources \ {v} : register'[q] = register[q]
    BY <1>1, <1>2, <2>1
  <2>4. drifted => drifted'
    BY <2>1
  <2>3. ASSUME NEW r \in Crew \ {None}
        PROVE  Present(r)' /\ (drifted' \/ register'[r].carrier = register[r].carrier)
    <3>1. CASE r = v
      BY <1>1, <2>1, <2>2, <3>1 DEF Present
    <3>2. CASE r # v
      BY <1>1, <2>2, <3>2 DEF Present
    <3> QED BY <3>1, <3>2
  <2> QED BY <2>2, <2>3, <2>4, CrewRowsKept
<1>5. ASSUME NEW r \in Resources, NEW fit \in BOOLEAN, ChangeStatus(r, fit) PROVE CrewSound'
  <2>1. route' = route /\ drifted' = drifted /\ register' = [register EXCEPT ![r].fit = fit]
    BY <1>5 DEF ChangeStatus
  <2>2. \A q \in Resources : /\ register'[q].present = register[q].present
                             /\ register'[q].carrier = register[q].carrier
    BY <1>1, <2>1 DEF Rows
  <2> QED BY <1>1, <2>1, <2>2, CrewRowsKept DEF Present
<1>6. ASSUME NEW r \in Resources, DeleteResource(r) PROVE CrewSound'
  <2>1. route' = route /\ drifted' = drifted /\ r \notin Crew
        /\ \A q \in Resources \ {r} : register'[q] = register[q]
    BY <1>1, <1>6 DEF DeleteResource
  <2> QED BY <1>1, <2>1, CrewRowsKept DEF Present
<1> QED BY <1>3, <1>4, <1>5, <1>6

LEMMA CarriersCrew == ASSUME RegistersSound, CarrierRequest PROVE CrewSound'
<1>1. Crew \ {None} \subseteq Resources /\ \A r \in Crew \ {None} : Present(r)
  BY DEF RegistersSound, TypeOK, Resources, Crew, Routes, CrewSound
<1>2. ASSUME NEW c \in Carriers, NEW vs \in SUBSET Vehicles, NEW antt \in BOOLEAN,
             SyncVehicles(c, vs, antt), route' = route
      PROVE  CrewSound'
  <2>1. RowsSynced(c, vs)
    BY <1>2, SyncedRows
  <2>2. drifted' = (drifted \/ \E v \in (Owned(c) \ vs) \cup (vs \ Owned(c)) : v \in Crew)
    BY <1>2 DEF SyncVehicles
  <2>3. ASSUME NEW r \in Crew \ {None}, ~drifted' PROVE register'[r].carrier = register[r].carrier
    <3>1. CASE r \in vs
      BY <2>1, <2>2, <2>3, <3>1 DEF RowsSynced, Owned
    <3>2. CASE r \notin vs
      BY <1>1, <2>1, <2>2, <2>3, <3>2 DEF RowsSynced
    <3> QED BY <3>1, <3>2
  <2>4. \A r \in Crew \ {None} : Present(r)'
    BY <1>1, <2>1 DEF RowsSynced, Present
  <2> QED BY <1>2, <2>2, <2>3, <2>4, CrewRowsKept
<1>3. \A c \in Carriers : carriers[c].antt \in BOOLEAN
  BY DEF RegistersSound, TypeOK, CarrierRows
<1>4. ASSUME UNCHANGED <<register, route, drifted>> PROVE CrewSound'
  BY <1>1, <1>4, CrewRowsKept DEF Present
<1>5. ASSUME NEW c \in Carriers, NEW vs \in SUBSET Vehicles, NEW antt \in BOOLEAN, CreateCarrier(c, vs, antt)
      PROVE  CrewSound'
  BY <1>2, <1>5 DEF CreateCarrier
<1>6. ASSUME NEW c \in Carriers, NEW vs \in SUBSET Vehicles, UpdateCarrierVehicles(c, vs) PROVE CrewSound'
  BY <1>2, <1>3, <1>6 DEF UpdateCarrierVehicles
<1>7. ASSUME NEW c \in Carriers, DeleteCarrier(c) PROVE CrewSound'
  BY <1>4, <1>7 DEF DeleteCarrier
<1>8. ASSUME NEW c \in Carriers, NEW state \in {"active", "inactive"},
             UpdateCarrier(c, state) \/ \E antt \in BOOLEAN : UpdateCarrierAntt(c, state, antt)
      PROVE  CrewSound'
  BY <1>4, <1>8 DEF UpdateCarrier, UpdateCarrierAntt
<1> QED BY <1>5, <1>6, <1>7, <1>8 DEF CarrierRequest

LEMMA RouteCrew == ASSUME RegistersSound, RouteRequest PROVE CrewSound'
<1>1. /\ route \in Routes /\ branches \subseteq Branches /\ CrewSound
      /\ Crew = {route.driver, route.vehicle}
  BY DEF RegistersSound, TypeOK, Crew
<1>2. register' = register
  BY DEF RouteRequest, CreateRoute, ImportRoute, AssignRoute, ChangeRouteCarrier
<1>8. drifted => drifted'
  BY Drifts
\* It is enough to look at the two of the new crew.
<1>3. ASSUME NEW new, route' = new, new.branch # None,
             \A r \in {new.driver, new.vehicle} \ {None} : Present(r),
             ~drifted' /\ new.carrier # None =>
                 \A r \in {new.driver, new.vehicle} \ {None} : register[r].carrier = new.carrier
      PROVE  CrewSound'
  <2>1. Crew' = {new.driver, new.vehicle}
    BY <1>3 DEF Crew
  <2>2. \A r : Present(r)' <=> Present(r)
    BY <1>2 DEF Present
  <2> QED BY <1>2, <1>3, <2>1, <2>2 DEF CrewSound, CrewOfCarrier
<1>4. ASSUME NEW b \in Branches, NEW c \in Carriers, NEW d \in Drivers \cup {None},
             NEW v \in Vehicles \cup {None}, CreateRoute(b, c, d, v)
      PROVE  CrewSound'
  <2> DEFINE new == [branch |-> b, carrier |-> c, driver |-> d, vehicle |-> v]
  <2>1. route' = new /\ new.branch # None /\ new.carrier = c /\ c # None
        /\ {new.driver, new.vehicle} = {d, v}
    BY <1>4, Constants DEF CreateRoute
  <2>2. \A r \in {d, v} \ {None} : Present(r) /\ register[r].carrier = c
    BY <1>4, <2>1 DEF CreateRoute, ValidResource
  <2> HIDE DEF new
  <2> QED BY <1>3, <2>1, <2>2
<1>5. ASSUME NEW b \in Branches, NEW c \in Carriers \cup {None}, NEW d \in Drivers \cup {None},
             NEW v \in Vehicles \cup {None}, ImportRoute(b, c, d, v)
      PROVE  CrewSound'
  <2>1. PICK x : /\ route' = [route EXCEPT !.branch = b, !.carrier = x, !.driver = d, !.vehicle = v]
                 /\ drifted' = (drifted \/ ((d # None \/ v # None) /\ x # route.carrier))
    BY <1>5 DEF ImportRoute
  <2> DEFINE new == [route EXCEPT !.branch = b, !.carrier = x, !.driver = d, !.vehicle = v]
  <2>2. new.branch = b /\ b # None /\ new.carrier = x /\ {new.driver, new.vehicle} = {d, v}
    BY <1>1, <1>5, Constants DEF Routes
  <2>3. \A r \in {d, v} \ {None} : Present(r)
    BY <1>5 DEF ImportRoute
  <2>4. ASSUME ~drifted', x # None, NEW r \in {d, v} \ {None} PROVE register[r].carrier = x
    <3>1. x = route.carrier /\ ~drifted
      BY <2>1, <2>4
    <3>2. route.branch # None
      BY <1>1, <2>4, <3>1 DEF CrewSound, NoRoute
    <3>3. d = route.driver /\ v = route.vehicle
      BY <1>5, <3>2 DEF ImportRoute
    <3> QED BY <1>1, <2>4, <3>1, <3>3 DEF CrewSound, CrewOfCarrier
  <2> HIDE DEF new
  <2> QED BY <1>3, <2>1, <2>2, <2>3, <2>4 DEF new
<1>6. ASSUME NEW d \in Drivers \cup {None}, NEW v \in Vehicles \cup {None}, AssignRoute(d, v)
      PROVE  CrewSound'
  <2> DEFINE new == [route EXCEPT !.driver = d, !.vehicle = v]
  <2>1. /\ route' = new /\ new.branch = route.branch /\ route.branch # None
        /\ new.carrier = route.carrier /\ {new.driver, new.vehicle} = {d, v}
    BY <1>1, <1>6 DEF AssignRoute, Routes
  <2>2. ASSUME NEW r \in {d, v} \ {None}
        PROVE  Present(r) /\ (~drifted' /\ route.carrier # None => register[r].carrier = route.carrier)
    <3>1. CASE r \in Crew
      BY <1>1, <1>8, <2>2, <3>1 DEF CrewSound, CrewOfCarrier
    <3>2. CASE r \notin Crew
      BY <1>1, <1>6, <2>2, <3>2 DEF AssignRoute, CanAssign, ValidResource
    <3> QED BY <3>1, <3>2
  <2> HIDE DEF new
  <2> QED BY <1>3, <2>1, <2>2
<1>7. ASSUME NEW c \in Carriers, ChangeRouteCarrier(c) PROVE CrewSound'
  <2>1. /\ route' = AfterCarrierChange(c) /\ AfterCarrierChange(c).branch # None
        /\ AfterCarrierChange(c).driver = None /\ AfterCarrierChange(c).vehicle = None
    BY <1>1, <1>7 DEF ChangeRouteCarrier, AfterCarrierChange, Routes
  <2> QED BY <1>3, <2>1
<1> QED BY <1>4, <1>5, <1>6, <1>7 DEF RouteRequest

-----------------------------------------------------------------------------
(* The invariant.                                                           *)

ResourceRequest ==
    \/ \E d \in Drivers, c \in Carriers \cup {None} : CreateDriver(d, c)
    \/ \E d \in Drivers, c \in Carriers \cup {None}, look \in BOOLEAN : UpdateDriver(d, c, look)
    \/ \E r \in Resources, fit \in BOOLEAN : ChangeStatus(r, fit)
    \/ \E r \in Resources : DeleteResource(r)
    \/ \E v \in Vehicles, own \in {"proprio", "agregado"}, c \in Carriers \cup {None}, antt \in BOOLEAN :
          CreateVehicle(v, own, c, antt) \/ UpdateVehicle(v, own, c, antt)

LEMMA RequestParts == Request => Access \/ ResourceRequest \/ CarrierRequest \/ RouteRequest \/ TorreRequest
BY DEF Request, Access, ResourceRequest, CarrierRequest, RouteRequest, TorreRequest

LEMMA StatusOffers ==
    ASSUME RegistersSound, NEW r \in Resources, NEW fit \in BOOLEAN, ChangeStatus(r, fit)
    PROVE  Offering
<1>1. register' = [register EXCEPT ![r].fit = fit] /\ UNCHANGED <<branches, served, available, unsynced>>
  BY DEF ChangeStatus
<1>2. \A q \in Resources : /\ register'[q].carrier = register[q].carrier
                           /\ register'[q].present = register[q].present
  BY <1>1 DEF RegistersSound, TypeOK, Rows
<1>3. LinksMoved
  BY <1>1, <1>2, NothingMoved DEF Present
<1> QED BY <1>1, <1>2, <1>3, NothingNewToOffer DEF Present

LEMMA RequestOffers == ASSUME RegistersSound, Request PROVE Offering
<1>1. CASE Access
  BY <1>1, CreateBranchOffers, UpdateBranchOffers, EnableOffers, ApprovalOffers DEF Access
<1>2. CASE ResourceRequest
  <2>1. ASSUME NEW d \in Drivers, NEW c \in Carriers \cup {None}, CreateDriver(d, c) PROVE Offering
    BY <2>1, DriverOffers
  <2>2. ASSUME NEW d \in Drivers, NEW c \in Carriers \cup {None}, NEW look \in BOOLEAN, UpdateDriver(d, c, look)
        PROVE  Offering
    BY <2>2, DriverOffers
  <2> QED BY <1>2, <2>1, <2>2, StatusOffers, DeletionOffers, VehicleOffers DEF ResourceRequest
<1>3. CASE CarrierRequest
  <2>1. \A c \in Carriers : carriers[c].antt \in BOOLEAN
    BY DEF RegistersSound, TypeOK, CarrierRows
  <2>2. ASSUME NEW c \in Carriers, NEW vs \in SUBSET Vehicles, NEW antt \in BOOLEAN, CreateCarrier(c, vs, antt)
        PROVE  Offering
    BY <2>2, SyncOffers DEF CreateCarrier
  <2>3. ASSUME NEW c \in Carriers, NEW vs \in SUBSET Vehicles, UpdateCarrierVehicles(c, vs) PROVE Offering
    BY <2>1, <2>3, SyncOffers DEF UpdateCarrierVehicles
  <2> QED BY <1>3, <2>2, <2>3, CarrierOffers, DeletionOffers DEF CarrierRequest
<1>4. CASE RouteRequest
  BY <1>4, RouteTyped
<1>5. CASE TorreRequest
  BY <1>5, TorreKeeps
<1> QED BY <1>1, <1>2, <1>3, <1>4, <1>5, RequestParts

LEMMA RequestKeeps == ASSUME RegistersSound, Request PROVE ColumnsTyped' /\ FleetSound' /\ CrewSound'
<1>1. CASE Access
  <2>1. Quietly
    BY <1>1, AccessApart
  <2>2. CrewSound'
    BY <2>1, CrewRowsKept DEF Quietly, RegistersSound, CrewSound, Present
  <2>3. FleetSound'
    BY <2>1, FleetUntouched DEF Quietly, Receiving, ReceiverOf, Present
  <2> QED BY <1>1, <2>2, <2>3, AccessTyped
<1>2. CASE ResourceRequest
  BY <1>2, ResourcesTyped, ResourcesFleet, ResourcesCrew DEF ResourceRequest
<1>3. CASE CarrierRequest
  BY <1>3, CarriersTyped, CarriersFleet, CarriersCrew
<1>4. CASE RouteRequest
  <2>1. UNCHANGED <<carriers, register, fleet>>
    BY <1>4 DEF RouteRequest, CreateRoute, ImportRoute, AssignRoute, ChangeRouteCarrier
  <2>2. FleetSound'
    BY <2>1, FleetUntouched DEF Receiving, ReceiverOf, Present
  <2> QED BY <1>4, <2>2, RouteTyped, RouteCrew
<1>5. CASE TorreRequest
  BY <1>5, TorreKeeps
<1> QED BY <1>1, <1>2, <1>3, <1>4, <1>5, RequestParts

\* The links are typed because the rows they copy are.
LEMMA FleetTyped == ASSUME ColumnsTyped', FleetSound' PROVE fleet' \subseteq CarrierVehicleLink
<1> SUFFICES ASSUME NEW l \in fleet' PROVE l \in CarrierVehicleLink
  OBVIOUS
<1>1. PICK v \in Vehicles : Receiving(v)' /\ l = ReceiverOf(v)'
  BY DEF FleetSound
<1>2. register'[v] \in Rows /\ register'[v].carrier \in Carriers
  BY <1>1 DEF ColumnsTyped, Receiving, Rows, Resources
<1>3. carriers'[register'[v].carrier].antt \in BOOLEAN /\ register'[v].antt \in BOOLEAN
  BY <1>2 DEF ColumnsTyped, CarrierRows, Rows
<1> QED BY <1>1, <1>2, <1>3 DEF ReceiverOf, Authorized, CarrierVehicleLink

LEMMA RegistersSoundStep == RegistersSound /\ [Next]_vars => RegistersSound'
<1> SUFFICES ASSUME RegistersSound, [Next]_vars PROVE RegistersSound'
  OBVIOUS
<1>1. CASE UNCHANGED vars
  BY <1>1 DEF vars, RegistersSound, TypeOK, RowSound, LinkSound, FleetSound, ServedBranchesOffered,
              CrewSound, CrewOfCarrier, Present, Receiving, ReceiverOf, ServedBy, Crew
<1>2. CASE Next
  <2>1. Request /\ requests' = requests + 1 /\ requests < MaxRequests
    BY <1>2 DEF Next
  <2>2. Offering /\ ColumnsTyped' /\ FleetSound' /\ CrewSound'
    BY <2>1, RequestOffers, RequestKeeps
  <2>3. fleet' \subseteq CarrierVehicleLink
    BY <2>2, FleetTyped
  <2>4. requests' \in 0..MaxRequests
    BY <2>1, KindsAssumption DEF RegistersSound, TypeOK
  <2>5. /\ available' \in [Resources -> [Branches -> Availability]]
        /\ \A r \in Resources, b \in Branches : LinkSound(available'[r][b])
        /\ \A r \in Resources : ~Present(r)' => \A b \in Branches : available'[r][b] = Absent
    BY <2>2 DEF Offering, LinksMoved, LinkMoved
  <2>6. TypeOK'
    BY <2>2, <2>3, <2>4, <2>5 DEF TypeOK, ColumnsTyped, Present
  <2> QED BY <2>2, <2>5, <2>6 DEF RegistersSound, ColumnsTyped, Offering, LinkSound
<1> QED BY <1>1, <1>2

THEOREM RegistersSoundAlways == Spec => []RegistersSound
BY RegistersSoundInit, RegistersSoundStep, PTL DEF Spec

\* The carrier on the vehicle and the carrier's links are written by four forms
\* (the vehicle's, the carrier's, its list of vehicles, its removal): after every
\* one of them the two copies agree, the authorisation included.
THEOREM FleetAgreesAlways == Spec => []FleetAgreesWithVehicles
<1>1. RegistersSound => FleetAgreesWithVehicles
  BY FleetAgrees DEF RegistersSound
<1> QED BY <1>1, RegistersSoundAlways, PTL

\* Whichever comes last, the branch, the carrier's link to it, or the driver or
\* vehicle, it is offered there, closed branches and passed-over pairs on record.
THEOREM ServedBranchesOfferedAlways == Spec => []ServedBranchesOffered
<1>1. RegistersSound => ServedBranchesOffered
  BY DEF RegistersSound
<1> QED BY <1>1, RegistersSoundAlways, PTL

\* Only a register that goes past the route, an import of its carrier or the Torre
\* sheet gives it a crew of another carrier.
THEOREM CrewOfCarrierAlways == Spec => []CrewOfCarrier
<1>1. RegistersSound => CrewOfCarrier
  BY DEF RegistersSound, CrewSound
<1> QED BY <1>1, RegistersSoundAlways, PTL

-----------------------------------------------------------------------------
(* Approvals: what is written, unasked, where an approval is required.       *)

LetIn(r, b) ==
    Requires(b, r) /\ policy' = policy /\ Usable(available'[r][b]) /\ ~Usable(available[r][b])
\* Approved before, and held only for its ANTT number.
Held(r, b) == available[r][b].antt /\ available[r][b].approval = "approved"
ByReview(r, b) == \E antt \in BOOLEAN : ReviewAvailability(r, b, "approved", antt)
LetInByReview == \A r \in Resources, b \in Branches : LetIn(r, b) => ByReview(r, b) \/ Held(r, b)

LEMMA NewLinkWaits ==
    ASSUME NEW b \in Branches, NEW r \in Resources, Requires(b, r)
    PROVE  ~Usable(NewLink(b, r))
BY DEF NewLink, Usable

LEMMA OfferedWaits ==
    ASSUME RegistersSound,
           \A r \in Resources : \/ available'[r] = available[r]
                                \/ \E bs : available'[r] = Offered(available[r], r, bs)
                                \/ \E bs : available'[r] = Looked(available[r], r, bs)
    PROVE  LetInByReview
<1> SUFFICES ASSUME NEW r \in Resources, NEW b \in Branches, LetIn(r, b) PROVE Held(r, b)
  BY DEF LetInByReview
<1>1. available[r] \in [Branches -> Availability] /\ \A x \in Branches : LinkSound(available[r][x])
  BY LinksNow
<1>2. Usable(available'[r][b]) /\ ~Usable(available[r][b]) /\ ~Usable(NewLink(b, r))
  BY NewLinkWaits DEF LetIn
<1>3. ASSUME NEW bs, available'[r] = Offered(available[r], r, bs) PROVE FALSE
  BY <1>1, <1>2, <1>3, OfferedAdds
<1>4. ASSUME NEW bs, available'[r] = Looked(available[r], r, bs) PROVE Held(r, b)
  <2>1. /\ available[r][b].antt => available'[r][b] = Lifted(available[r][b])
        /\ ~available[r][b].antt => available'[r][b] \in {available[r][b], NewLink(b, r)}
    BY <1>1, <1>4, LookedAdds
  <2>2. available[r][b].antt /\ Usable(Lifted(available[r][b]))
    BY <1>2, <2>1
  <2>3. available[r][b] \in Availability
    BY <1>1
  <2> QED BY <2>2, <2>3 DEF Held, Usable, Lifted, Availability
<1> QED BY <1>2, <1>3, <1>4

LEMMA OneOfferedWaits ==
    ASSUME RegistersSound, NEW r \in Resources, NEW bs,
           \/ available' = [available EXCEPT ![r] = Offered(@, r, bs)]
           \/ available' = [available EXCEPT ![r] = Looked(@, r, bs)]
    PROVE  LetInByReview
<1>1. \A q \in Resources : q # r => available'[q] = available[q]
  BY LinksNow
<1>2. available'[r] = Offered(available[r], r, bs) \/ available'[r] = Looked(available[r], r, bs)
  BY LinksNow
<1> QED BY <1>1, <1>2, OfferedWaits

LEMMA DecisionsByReview ==
    ASSUME RegistersSound,
           \/ \E b \in Branches, required \in SUBSET {"driver", "vehicle"}, review \in BOOLEAN :
                 ConfigureApproval(b, required, review)
           \/ \E r \in Resources, b \in Branches, active \in BOOLEAN : SetAvailability(r, b, active)
           \/ \E r \in Resources, b \in Branches, decision \in {"approved", "rejected"}, antt \in BOOLEAN :
                 ReviewAvailability(r, b, decision, antt)
           \/ \E r \in Resources : DeleteResource(r)
    PROVE  LetInByReview
<1> SUFFICES ASSUME NEW r \in Resources, NEW b \in Branches, LetIn(r, b) PROVE ByReview(r, b)
  BY DEF LetInByReview
<1>1. /\ available \in [Resources -> [Branches -> Availability]]
      /\ policy \in [Branches -> SUBSET {"driver", "vehicle"}]
      /\ Requires(b, r) /\ policy' = policy
      /\ Usable(available'[r][b]) /\ ~Usable(available[r][b])
  BY DEF RegistersSound, TypeOK, LetIn
\* The requirement was there: the review of a new one is not of this branch.
<1>2. ASSUME NEW x \in Branches, NEW required \in SUBSET {"driver", "vehicle"}, NEW review \in BOOLEAN,
             ConfigureApproval(x, required, review)
      PROVE  FALSE
  <2>1. policy[x] = required
    BY <1>1, <1>2 DEF ConfigureApproval
  <2>2. available[r] \in [Branches -> Availability]
    BY <1>1
  <2>3. available'[r][b] = available[r][b]
    <3>1. CASE ~review
      BY <1>2, <3>1 DEF ConfigureApproval
    <3>2. CASE review
      <4>1. required \ policy[x] = {}
        BY <2>1
      <4>2. available'[r] = [available[r] EXCEPT ![x] = available[r][x]]
        BY <1>2, <3>2, <4>1 DEF ConfigureApproval, Reviewed
      <4> QED BY <2>2, <4>2
    <3> QED BY <3>1, <3>2
  <2> QED BY <1>1, <2>3
<1>3. ASSUME NEW q \in Resources, NEW x \in Branches, NEW link, available' = [available EXCEPT ![q][x] = link]
      PROVE  q = r /\ x = b /\ Usable(link)
  BY <1>1, <1>3
<1>4. ASSUME NEW q \in Resources, NEW x \in Branches, NEW active \in BOOLEAN, SetAvailability(q, x, active)
      PROVE  FALSE
  <2>1. available' = [available EXCEPT ![q][x] = Switched(available[q][x], x, q, active)]
    BY <1>4 DEF SetAvailability
  <2>2. q = r /\ x = b /\ Usable(Switched(available[q][x], x, q, active)) /\ available[q][x] \in Availability
    BY <1>1, <1>3, <2>1
  <2>3. active /\ Usable(NewLink(b, r))
    BY <2>2 DEF Switched, Usable, Availability
  <2> QED BY <1>1, <2>3, NewLinkWaits
<1>5. ASSUME NEW q \in Resources, NEW x \in Branches, NEW decision \in {"approved", "rejected"},
             NEW antt \in BOOLEAN, ReviewAvailability(q, x, decision, antt)
      PROVE  ByReview(r, b)
  <2> DEFINE link == [available[q][x] EXCEPT !.approval = decision, !.antt = antt]
  <2>1. available[q][x] \in Availability /\ available' = [available EXCEPT ![q][x] = link]
    BY <1>1, <1>5 DEF ReviewAvailability
  <2>2. link.approval = decision
    BY <2>1 DEF Availability
  <2> HIDE DEF link
  <2>3. q = r /\ x = b /\ Usable(link)
    BY <1>3, <2>1
  <2>4. decision = "approved"
    BY <2>2, <2>3 DEF Usable
  <2> QED BY <1>5, <2>3, <2>4 DEF ByReview
<1>6. ASSUME NEW q \in Resources, DeleteResource(q) PROVE FALSE
  <2>1. available'[r][b] \in {available[r][b], Absent}
    BY <1>1, <1>6 DEF DeleteResource
  <2> QED BY <1>1, <2>1 DEF Absent, Usable
<1> QED BY <1>2, <1>4, <1>5, <1>6

LEMMA RequestByReview == ASSUME RegistersSound, Request PROVE LetInByReview
<1>1. ASSUME available' = available PROVE LetInByReview
  BY <1>1, OfferedWaits
<1>2. CASE Access
  <2>1. ASSUME NEW b \in Branches, CreateBranch(b) PROVE LetInByReview
    BY <2>1, OfferedWaits DEF CreateBranch
  <2>2. ASSUME NEW c \in Carriers, NEW b \in Branches, EnableCarrierBranch(c, b) PROVE LetInByReview
    BY <2>2, OfferedWaits DEF EnableCarrierBranch, OfferedByCarrier
  <2>3. ASSUME NEW b \in Branches, NEW active \in BOOLEAN, UpdateBranch(b, active) PROVE LetInByReview
    BY <1>1, <2>3 DEF UpdateBranch
  <2> QED BY <1>2, <2>1, <2>2, <2>3, DecisionsByReview DEF Access
<1>3. CASE ResourceRequest
  <2>1. Drivers \subseteq Resources /\ Vehicles \subseteq Resources
    BY DEF Resources
  <2>2. ASSUME NEW d \in Drivers, NEW c \in Carriers \cup {None}, CreateDriver(d, c) PROVE LetInByReview
    BY <2>1, <2>2, OneOfferedWaits DEF CreateDriver
  <2>3. ASSUME NEW d \in Drivers, NEW c \in Carriers \cup {None}, NEW look \in BOOLEAN, UpdateDriver(d, c, look)
        PROVE  LetInByReview
    BY <1>1, <2>1, <2>3, OneOfferedWaits DEF UpdateDriver
  <2>4. ASSUME NEW r \in Resources, NEW fit \in BOOLEAN, ChangeStatus(r, fit) PROVE LetInByReview
    BY <1>1, <2>4 DEF ChangeStatus
  <2>5. ASSUME NEW v \in Vehicles, NEW own, NEW c \in Carriers \cup {None}, NEW antt \in BOOLEAN,
               CreateVehicle(v, own, c, antt) \/ UpdateVehicle(v, own, c, antt)
        PROVE  LetInByReview
    BY <2>1, <2>5, OneOfferedWaits DEF CreateVehicle, UpdateVehicle, SaveVehicle
  <2> QED BY <1>3, <2>2, <2>3, <2>4, <2>5, DecisionsByReview DEF ResourceRequest
<1>4. CASE CarrierRequest
  <2>1. ASSUME NEW c \in Carriers, NEW vs, NEW antt, SyncVehicles(c, vs, antt) PROVE LetInByReview
    BY <2>1, OfferedWaits DEF SyncVehicles
  <2>2. ASSUME NEW c \in Carriers, NEW state, NEW antt, UpdateCarrierAntt(c, state, antt) PROVE LetInByReview
    BY <2>2, OfferedWaits DEF UpdateCarrierAntt
  <2>3. ASSUME NEW c \in Carriers, NEW state, UpdateCarrier(c, state) PROVE LetInByReview
    BY <1>1, <2>3 DEF UpdateCarrier
  <2> QED BY <1>1, <1>4, <2>1, <2>2, <2>3 DEF CarrierRequest, CreateCarrier, UpdateCarrierVehicles, DeleteCarrier
<1>5. CASE RouteRequest
  BY <1>1, <1>5 DEF RouteRequest, CreateRoute, ImportRoute, AssignRoute, ChangeRouteCarrier
<1>6. CASE TorreRequest
  BY <1>1, <1>6 DEF TorreRequest, ImportTorre
<1> QED BY <1>2, <1>3, <1>4, <1>5, <1>6, RequestParts

\* Where a branch requires it, a driver or vehicle becomes usable by the review
\* alone, whichever of the registers, forms and imports was used before; only a
\* vehicle approved before and held for its ANTT number comes back without one.
THEOREM ApprovedOnlyByReviewAlways == Spec => ApprovedOnlyByReview
<1> DEFINE A == \A r \in Resources, b \in Branches :
                   /\ Requires(b, r) /\ policy' = policy
                   /\ Usable(available'[r][b]) /\ ~Usable(available[r][b])
                   => \/ \E antt \in BOOLEAN : ReviewAvailability(r, b, "approved", antt)
                      \/ available[r][b].antt /\ available[r][b].approval = "approved"
<1>1. RegistersSound /\ [Next]_vars => [A]_vars
  <2>1. ASSUME RegistersSound, Next PROVE A
    BY <2>1, RequestByReview DEF Next, LetInByReview, LetIn, ByReview, Held
  <2> QED BY <2>1
<1> HIDE DEF A
<1>2. Spec => [][A]_vars
  BY <1>1, RegistersSoundAlways, PTL DEF Spec
<1> QED BY <1>2 DEF A, ApprovedOnlyByReview

-----------------------------------------------------------------------------
(***************************************************************************)
(* FinanceDocuments.  A period is paid once, however many requests overlap:  *)
(* the row a request inserts is its own, a commit writes no other origin, and *)
(* the index refuses the second account of the period.  The books agree as    *)
(* long as every commit was of one operation on what was in the tables.       *)
(***************************************************************************)
AccountColumns == {"kind", "origin", "discount", "amount", "status", "invoice"}
OfThePeriod == {"statement", "acceptance"}

\* The tables, as far as the payment of a period goes: their columns, whatever
\* the amounts are.
Books(d) ==
    /\ d = [t \in DOMAIN d |-> d[t]] /\ {"accounts", "period"} \subseteq DOMAIN d
    /\ d.accounts = [i \in Documents!Ids |-> d.accounts[i]]
    /\ \A i \in Documents!Ids : d.accounts[i] = [c \in AccountColumns |-> d.accounts[i][c]]
    /\ d.period = [c \in DOMAIN d.period |-> d.period[c]] /\ "payable" \in DOMAIN d.period

Origin(d, i) == d.accounts[i].origin

\* A request writes the origin of the row it inserts alone, and the payment of the
\* period in two of the operations.
Effect(d, q, id, n) ==
    /\ Books(n)
    /\ \A i \in Documents!Ids \ {id} : Origin(n, i) = Origin(d, i)
    /\ \/ q.op = "payable" /\ Origin(n, id) = "statement" /\ n.period.payable = d.period.payable
       \/ q.op = "accept" /\ Origin(n, id) = "acceptance" /\ n.period.payable = id
       \/ /\ q.op \notin {"payable", "accept"} /\ n.period.payable = d.period.payable
          /\ Origin(n, id) \in {Origin(d, id), "manual", "purchase"}

\* None of the accounts and nothing of the period.
LEMMA ElsewhereEffect ==
    ASSUME NEW d, NEW q, NEW id \in Documents!Ids, Books(d), NEW n, n = [t \in DOMAIN d |-> n[t]],
           n.accounts = d.accounts, n.period = d.period, q.op \notin {"payable", "accept"}
    PROVE  Effect(d, q, id, n)
BY DEF Books, Effect, Origin

\* A new row of the accounts; of the period its columns change, if any.
LEMMA InsertEffect ==
    ASSUME NEW d, NEW q, NEW id \in Documents!Ids, Books(d), NEW n, n = [t \in DOMAIN d |-> n[t]],
           NEW row, row = [c \in AccountColumns |-> row[c]], n.accounts = [d.accounts EXCEPT ![id] = row],
           n.period = [c \in DOMAIN d.period |-> n.period[c]],
           \/ q.op = "payable" /\ row.origin = "statement" /\ n.period.payable = d.period.payable
           \/ q.op = "accept" /\ row.origin = "acceptance" /\ n.period.payable = id
           \/ /\ q.op \notin {"payable", "accept"} /\ n.period.payable = d.period.payable
              /\ row.origin \in {"manual", "purchase"}
    PROVE  Effect(d, q, id, n)
<1>1. /\ n.accounts = [i \in Documents!Ids |-> n.accounts[i]] /\ n.accounts[id] = row
      /\ \A i \in Documents!Ids \ {id} : n.accounts[i] = d.accounts[i]
  BY DEF Books
<1>2. Books(n)
  <2>1. \A i \in Documents!Ids : n.accounts[i] = [c \in AccountColumns |-> n.accounts[i][c]]
    <3>1. \A i \in Documents!Ids : d.accounts[i] = [c \in AccountColumns |-> d.accounts[i][c]]
      BY DEF Books
    <3>2. \A i \in Documents!Ids : n.accounts[i] = row \/ n.accounts[i] = d.accounts[i]
      BY <1>1
    <3> QED BY <3>1, <3>2
  <2>2. DOMAIN n = DOMAIN d /\ {"accounts", "period"} \subseteq DOMAIN n
    BY DEF Books
  <2>3. DOMAIN n.period = DOMAIN d.period /\ "payable" \in DOMAIN n.period
    BY DEF Books
  <2> QED BY <1>1, <2>1, <2>2, <2>3 DEF Books
<1>3. Origin(n, id) = row.origin /\ \A i \in Documents!Ids \ {id} : Origin(n, i) = Origin(d, i)
  BY <1>1 DEF Origin
<1> QED BY <1>2, <1>3 DEF Effect

LEMMA PendingRow ==
    ASSUME NEW kind, NEW origin, NEW amount, NEW row, row = Documents!Pending(kind, origin, amount)
    PROVE  row = [c \in AccountColumns |-> row[c]] /\ row.origin = origin
BY DEF Documents!Pending, AccountColumns

LEMMA AccountEffect ==
    ASSUME NEW d, NEW q, NEW id \in Documents!Ids, Books(d), q.op \in {"account", "approve"}
    PROVE  /\ q.op = "account" => Effect(d, q, id, Documents!AfterAccount(d, q, id))
           /\ q.op = "approve" => Effect(d, q, id, Documents!AfterApprove(d, id))
<1>1. CASE q.op = "account"
  <2>1. PICK p, row : /\ p = Documents!Pending(IF q.arg = "payable" THEN "payable" ELSE "receivable",
                                               "manual", q.amount)
                      /\ row = [p EXCEPT !.discount = (q.arg = "discount")]
    OBVIOUS
  <2>2. p = [c \in AccountColumns |-> p[c]] /\ p.origin = "manual"
    BY <2>1, PendingRow
  <2>3. row = [c \in AccountColumns |-> row[c]] /\ row.origin = "manual"
    BY <2>1, <2>2 DEF AccountColumns
  <2>4. PICK n : n = Documents!AfterAccount(d, q, id)
    OBVIOUS
  <2>5. /\ n = [t \in DOMAIN d |-> n[t]] /\ n.period = d.period
        /\ n.accounts = [d.accounts EXCEPT ![id] = row]
    BY <2>1, <2>4 DEF Documents!AfterAccount, Books
  <2>6. d.period = [c \in DOMAIN d.period |-> d.period[c]]
    BY DEF Books
  <2> QED BY <1>1, <2>3, <2>4, <2>5, <2>6, InsertEffect
<1>2. CASE q.op = "approve"
  <2>1. PICK n, row : n = Documents!AfterApprove(d, id) /\ row = Documents!Pending("payable", "purchase", 1)
    OBVIOUS
  <2>2. row = [c \in AccountColumns |-> row[c]] /\ row.origin = "purchase"
    BY <2>1, PendingRow
  <2>3. /\ n = [t \in DOMAIN d |-> n[t]] /\ n.period = d.period
        /\ n.accounts = [d.accounts EXCEPT ![id] = row]
    BY <2>1 DEF Documents!AfterApprove, Books
  <2>4. d.period = [c \in DOMAIN d.period |-> d.period[c]] /\ "payable" \in DOMAIN d.period
    BY DEF Books
  <2>5. n.period = [c \in DOMAIN d.period |-> n.period[c]] /\ n.period.payable = d.period.payable
    BY <2>3, <2>4
  <2>6. Effect(d, q, id, n)
    BY <1>2, <2>2, <2>3, <2>5, InsertEffect
  <2> QED BY <1>2, <2>1, <2>6
<1> QED BY <1>1, <1>2

\* Columns of the accounts change, none of them the origin.
SameOrigins(new, old) ==
    /\ new = [i \in Documents!Ids |-> new[i]]
    /\ \A i \in Documents!Ids : new[i] = [c \in AccountColumns |-> new[i][c]] /\ new[i].origin = old[i].origin

LEMMA OneColumn ==
    ASSUME NEW new, NEW old, SameOrigins(new, old), NEW row \in Documents!Ids,
           NEW column \in AccountColumns \ {"origin"}, NEW value
    PROVE  SameOrigins([new EXCEPT ![row][column] = value], old)
<1> DEFINE a == [new[row] EXCEPT ![column] = value]
           n == [new EXCEPT ![row][column] = value]
<1>1. a = [c \in AccountColumns |-> a[c]] /\ a.origin = old[row].origin
  BY DEF SameOrigins, AccountColumns
<1>2. /\ n = [i \in Documents!Ids |-> n[i]] /\ n[row] = a
      /\ \A i \in Documents!Ids \ {row} : n[i] = new[i]
  BY DEF SameOrigins
<1> HIDE DEF a, n
<1>3. SameOrigins(n, old)
  BY <1>1, <1>2 DEF SameOrigins
<1> QED BY <1>3 DEF n

LEMMA ColumnEffect ==
    ASSUME NEW d, NEW q, NEW id \in Documents!Ids, Books(d), NEW n, n = [t \in DOMAIN d |-> n[t]],
           SameOrigins(n.accounts, d.accounts), n.period = d.period, q.op \notin {"payable", "accept"}
    PROVE  Effect(d, q, id, n)
BY DEF Books, Effect, Origin, SameOrigins

LEMMA AccountChangeEffect ==
    ASSUME NEW d, NEW q, NEW id \in Documents!Ids, Books(d), q.op \in {"update", "settle", "invoice", "cancel"},
           q.row \in Documents!Ids
    PROVE  /\ q.op = "update" => Effect(d, q, id, Documents!AfterUpdate(d, q, id))
           /\ q.op = "settle" => Effect(d, q, id, Documents!AfterSettle(d, q))
           /\ q.op = "invoice" => Effect(d, q, id, Documents!AfterInvoice(d, q))
           /\ q.op = "cancel" => Effect(d, q, id, Documents!AfterCancel(d, q))
<1>1. SameOrigins(d.accounts, d.accounts)
  BY DEF SameOrigins, Books
<1>6. {"status", "discount", "amount", "invoice"} \subseteq AccountColumns \ {"origin"}
  BY DEF AccountColumns
<1>2. CASE q.op = "settle"
  <2> DEFINE n == Documents!AfterSettle(d, q)
  <2>1. /\ n.accounts = [d.accounts EXCEPT ![q.row]["status"] = "paga"]
        /\ n = [t \in DOMAIN d |-> n[t]] /\ n.period = d.period
    BY DEF Documents!AfterSettle, Books
  <2> HIDE DEF n
  <2>2. SameOrigins([d.accounts EXCEPT ![q.row]["status"] = "paga"], d.accounts)
    BY <1>1, <1>6, OneColumn
  <2>3. SameOrigins(n.accounts, d.accounts)
    BY <2>1, <2>2
  <2> QED BY <1>2, <2>1, <2>3, ColumnEffect DEF n
<1>3. CASE q.op = "cancel"
  <2> DEFINE n == Documents!AfterCancel(d, q)
  <2>1. /\ n.accounts = [d.accounts EXCEPT ![q.row]["status"] = "cancelada"]
        /\ n = [t \in DOMAIN d |-> n[t]] /\ n.period = d.period
    BY DEF Documents!AfterCancel, Books
  <2> HIDE DEF n
  <2>2. SameOrigins([d.accounts EXCEPT ![q.row]["status"] = "cancelada"], d.accounts)
    BY <1>1, <1>6, OneColumn
  <2>3. SameOrigins(n.accounts, d.accounts)
    BY <2>1, <2>2
  <2> QED BY <1>3, <2>1, <2>3, ColumnEffect DEF n
<1>4. CASE q.op = "update"
  <2> DEFINE n == Documents!AfterUpdate(d, q, id)
             x == [d.accounts EXCEPT ![q.row]["discount"] = (q.arg = "discount")]
  <2>1. /\ n.accounts = [x EXCEPT ![q.row]["amount"] = q.amount]
        /\ n = [t \in DOMAIN d |-> n[t]] /\ n.period = d.period
    BY DEF Documents!AfterUpdate, Books
  <2>2. SameOrigins(x, d.accounts)
    BY <1>1, <1>6, OneColumn
  <2> HIDE DEF n, x
  <2>3. SameOrigins(n.accounts, d.accounts)
    BY <1>6, <2>1, <2>2, OneColumn
  <2> QED BY <1>4, <2>1, <2>3, ColumnEffect DEF n
<1>5. CASE q.op = "invoice"
  <2> DEFINE n == Documents!AfterInvoice(d, q)
             x == [d.accounts EXCEPT ![q.row]["status"] = "recebida"]
  <2>1. /\ n.accounts = [x EXCEPT ![q.row]["invoice"] = TRUE]
        /\ n = [t \in DOMAIN d |-> n[t]] /\ n.period = d.period
    BY DEF Documents!AfterInvoice, Books
  <2>2. SameOrigins(x, d.accounts)
    BY <1>1, <1>6, OneColumn
  <2> HIDE DEF n, x
  <2>3. SameOrigins(n.accounts, d.accounts)
    BY <1>6, <2>1, <2>2, OneColumn
  <2> QED BY <1>5, <2>1, <2>3, ColumnEffect DEF n
<1> QED BY <1>2, <1>3, <1>4, <1>5

LEMMA PaymentEffect ==
    ASSUME NEW d, NEW q, NEW id \in Documents!Ids, Books(d), q.op \in {"payable", "accept"}
    PROVE  /\ q.op = "payable" => Effect(d, q, id, Documents!AfterPay(d, id))
           /\ q.op = "accept" => Effect(d, q, id, Documents!AfterAccept(d, id))
<1>1. CASE q.op = "payable"
  <2>1. PICK n, row : n = Documents!AfterPay(d, id) /\ row = Documents!Pending("payable", "statement", Documents!Net(d))
    OBVIOUS
  <2>2. row = [c \in AccountColumns |-> row[c]] /\ row.origin = "statement"
    BY <2>1, PendingRow
  <2>3. /\ n = [t \in DOMAIN d |-> n[t]] /\ n.period = d.period
        /\ n.accounts = [d.accounts EXCEPT ![id] = row]
    BY <2>1 DEF Documents!AfterPay, Books
  <2>4. d.period = [c \in DOMAIN d.period |-> d.period[c]] /\ "payable" \in DOMAIN d.period
    BY DEF Books
  <2>5. n.period = [c \in DOMAIN d.period |-> n.period[c]] /\ n.period.payable = d.period.payable
    BY <2>3, <2>4
  <2>6. Effect(d, q, id, n)
    BY <1>1, <2>2, <2>3, <2>5, InsertEffect
  <2> QED BY <1>1, <2>1, <2>6
<1>2. CASE q.op = "accept"
  <2>1. PICK n, row : n = Documents!AfterAccept(d, id) /\ row = Documents!Pending("payable", "acceptance", d.period.net)
    OBVIOUS
  <2>2. row = [c \in AccountColumns |-> row[c]] /\ row.origin = "acceptance"
    BY <2>1, PendingRow
  <2>3. /\ n = [t \in DOMAIN d |-> n[t]] /\ n.period = [d.period EXCEPT !.status = "accepted", !.payable = id]
        /\ n.accounts = [d.accounts EXCEPT ![id] = row]
    BY <2>1 DEF Documents!AfterAccept, Books
  <2>4. d.period = [c \in DOMAIN d.period |-> d.period[c]] /\ "payable" \in DOMAIN d.period
    BY DEF Books
  <2>5. n.period = [c \in DOMAIN d.period |-> n.period[c]] /\ n.period.payable = id
    BY <2>3, <2>4
  <2>6. Effect(d, q, id, n)
    BY <1>2, <2>2, <2>3, <2>5, InsertEffect
  <2> QED BY <1>2, <2>1, <2>6
<1> QED BY <1>1, <1>2

LEMMA PeriodEffect ==
    ASSUME NEW d, NEW q, NEW id \in Documents!Ids, Books(d), q.op \in {"release", "contest", "resolve"}
    PROVE  /\ q.op = "release" => Effect(d, q, id, [d EXCEPT !.period = Documents!Released(d)])
           /\ q.op = "contest" => Effect(d, q, id, Documents!AfterContest(d))
           /\ q.op = "resolve" => Effect(d, q, id, Documents!AfterResolve(d, q, id))
<1>1. CASE q.op = "release"
  BY <1>1 DEF Books, Effect, Origin, Documents!Released
<1>2. CASE q.op = "contest"
  BY <1>2 DEF Books, Effect, Origin, Documents!AfterContest
<1>3. CASE q.op = "resolve"
  <2>1. PICK n, new : n = Documents!AfterResolve(d, q, id) /\ new = Documents!AfterEntry(d, q, id)
    OBVIOUS
  <2>2. new = [t \in DOMAIN d |-> new[t]] /\ new.accounts = d.accounts /\ new.period = d.period
    BY <2>1 DEF Documents!AfterEntry, Books
  <2>3. n = [t \in DOMAIN d |-> n[t]] /\ n.accounts = new.accounts /\ n.period = Documents!Released(new)
    BY <2>1, <2>2 DEF Documents!AfterResolve, Books
  <2>4. /\ n.period = [c \in DOMAIN d.period |-> n.period[c]] /\ "payable" \in DOMAIN d.period
        /\ n.period.payable = d.period.payable
    BY <2>2, <2>3 DEF Documents!Released, Books
  <2>5. Books(n) /\ \A i \in Documents!Ids : Origin(n, i) = Origin(d, i)
    BY <2>2, <2>3, <2>4 DEF Books, Origin
  <2> QED BY <1>3, <2>1, <2>4, <2>5 DEF Effect
<1> QED BY <1>1, <1>2, <1>3

LEMMA AfterEffect ==
    ASSUME NEW d, NEW q \in Documents!Questions, NEW id \in Documents!Ids, Books(d)
    PROVE  Effect(d, q, id, Documents!After(d, q, id))
<1>1. q.op \in Documents!Ops
  BY DEF Documents!Questions, Documents!Ops, Documents!PurchaseOps
<1>2. CASE q.op = "move"
  <2> DEFINE n == Documents!AfterMove(d, q, id)
  <2>1. n = [t \in DOMAIN d |-> n[t]] /\ n.accounts = d.accounts /\ n.period = d.period
    BY DEF Documents!AfterMove, Books
  <2> HIDE DEF n
  <2>2. Effect(d, q, id, n)
    BY <1>2, <2>1, ElsewhereEffect
  <2> QED BY <1>2, <2>2 DEF Documents!After, Documents!PurchaseOps, n
<1>3. CASE q.op \in Documents!PurchaseOps
  BY <1>3, ElsewhereEffect DEF Documents!After, Documents!PurchaseOps, Books
<1>4. CASE q.op \in {"entry", "void"}
  BY <1>4, ElsewhereEffect DEF Documents!After, Documents!PurchaseOps, Documents!AfterEntry, Documents!AfterVoid, Books
<1>5. CASE q.op \in {"account", "approve"}
  BY <1>5, AccountEffect DEF Documents!After, Documents!PurchaseOps
<1>6. CASE q.op \in {"update", "settle", "invoice", "cancel"}
  <2>1. q.row \in Documents!Ids
    BY <1>6 DEF Documents!Questions, Documents!PurchaseOps
  <2> QED BY <1>6, <2>1, AccountChangeEffect DEF Documents!After, Documents!PurchaseOps
<1>7. CASE q.op \in {"payable", "accept"}
  BY <1>7, PaymentEffect DEF Documents!After, Documents!PurchaseOps
<1>8. CASE q.op \in {"release", "contest", "resolve"}
  BY <1>8, PeriodEffect DEF Documents!After, Documents!PurchaseOps
<1> QED BY <1>1, <1>2, <1>3, <1>4, <1>5, <1>6, <1>7, <1>8 DEF Documents!Ops, Documents!PurchaseOps

\* What a commit leaves of the two.
LEMMA MergedBooks ==
    ASSUME NEW now, NEW read, NEW new, Books(now), Books(read), Books(new)
    PROVE  LET m == Documents!Merged(now, read, new) IN
           /\ Books(m)
           /\ \A i \in Documents!Ids :
                 Origin(m, i) = IF Origin(new, i) = Origin(read, i) THEN Origin(now, i) ELSE Origin(new, i)
           /\ m.period.payable = IF new.period.payable = read.period.payable THEN now.period.payable
                                 ELSE new.period.payable
<1> DEFINE m == Documents!Merged(now, read, new)
<1>1. /\ m.accounts = [i \in Documents!Ids |-> Documents!MergedRow(now.accounts[i], read.accounts[i], new.accounts[i])]
      /\ m.period = Documents!MergedRow(now.period, read.period, new.period)
      /\ m = [t \in DOMAIN m |-> m[t]] /\ {"accounts", "period"} \subseteq DOMAIN m
  BY DEF Documents!Merged, Documents!MergedTable
<1> HIDE DEF m
<1>2. ASSUME NEW i \in Documents!Ids
      PROVE  /\ m.accounts[i] = [c \in AccountColumns |-> m.accounts[i][c]]
             /\ Origin(m, i) = IF Origin(new, i) = Origin(read, i) THEN Origin(now, i) ELSE Origin(new, i)
  <2>1. m.accounts[i] = Documents!MergedRow(now.accounts[i], read.accounts[i], new.accounts[i])
    BY <1>1
  <2>2. DOMAIN now.accounts[i] = AccountColumns /\ "origin" \in AccountColumns
    BY DEF Books, AccountColumns
  <2>3. m.accounts[i] = [c \in AccountColumns |->
            IF new.accounts[i][c] = read.accounts[i][c] THEN now.accounts[i][c] ELSE new.accounts[i][c]]
    BY <2>1, <2>2 DEF Documents!MergedRow
  <2> QED BY <2>2, <2>3 DEF Origin
<1>3. /\ m.period = [c \in DOMAIN m.period |-> m.period[c]] /\ "payable" \in DOMAIN m.period
      /\ m.period.payable = IF new.period.payable = read.period.payable THEN now.period.payable
                            ELSE new.period.payable
  BY <1>1 DEF Books, Documents!MergedRow
<1> QED BY <1>1, <1>2, <1>3 DEF Books, m

\* A request under way: its number is its own, and nothing has that id yet.
Underway(r) ==
    /\ r.ask \in Documents!Questions /\ r.id \in 1..made
    /\ Books(r.read) /\ Origin(r.read, r.id) = "none" /\ Origin(db, r.id) = "none"

PeriodPaid(d) == {i \in Documents!Ids : Origin(d, i) \in OfThePeriod}

PeriodOnce(d) ==
    /\ \A i, j \in PeriodPaid(d) : i = j
    /\ d.period.payable # Documents!NoId => d.period.payable \in PeriodPaid(d)

DocumentsSound ==
    /\ made \in 0..MaxDocumentRequests /\ Books(db)
    /\ request = [s \in Slots |-> request[s]]
    /\ \A s \in Slots : \A r \in request[s] : request[s] = {r} /\ Underway(r)
    /\ \A s, t \in Slots : \A r \in request[s], x \in request[t] : r.id = x.id => s = t
    /\ \A i \in Documents!Ids : i > made => Origin(db, i) = "none"
    /\ PeriodOnce(db)

LEMMA DocumentsSoundInit == Documents!Init => DocumentsSound
<1> SUFFICES ASSUME Documents!Init PROVE DocumentsSound
  OBVIOUS
<1>1. Books(db) /\ db.period.payable = Documents!NoId
  BY DEF Documents!Init, Books, Documents!NoAccount, AccountColumns
<1>2. \A i \in Documents!Ids : Origin(db, i) = "none"
  BY DEF Documents!Init, Origin, Documents!NoAccount
<1>3. PeriodPaid(db) = {}
  BY <1>2 DEF PeriodPaid, OfThePeriod
<1>4. made \in 0..MaxDocumentRequests /\ request = [s \in Slots |-> {}]
  BY DocumentsAssumption DEF Documents!Init
<1> QED BY <1>1, <1>2, <1>3, <1>4 DEF DocumentsSound, PeriodOnce

LEMMA BeginSound ==
    ASSUME DocumentsSound, NEW s \in Slots, NEW q \in Documents!Questions, Documents!Begin(s, q)
    PROVE  DocumentsSound'
<1>0. PICK new : new = [ask |-> q, id |-> made + 1, read |-> db]
  OBVIOUS
<1>1. /\ made' = made + 1 /\ request' = [request EXCEPT ![s] = {new}] /\ db' = db
      /\ made \in 0..MaxDocumentRequests /\ made < MaxDocumentRequests
  BY <1>0 DEF Documents!Begin, DocumentsSound
<1>2. made + 1 \in Documents!Ids /\ made + 1 > made /\ made + 1 \in 1..made' /\ made' \in 0..MaxDocumentRequests
  BY <1>1, DocumentsAssumption DEF Documents!Ids
<1>3. new.id = made + 1 /\ new.ask = q /\ new.read = db
  BY <1>0
<1>10. Origin(db, made + 1) = "none" /\ Books(db)
  BY <1>2 DEF DocumentsSound
<1>4. Underway(new)'
  BY <1>1, <1>2, <1>3, <1>10 DEF Underway, Origin
<1>5. request' = [t \in Slots |-> request'[t]] /\ request'[s] = {new}
      /\ \A t \in Slots \ {s} : request'[t] = request[t]
  BY <1>1 DEF DocumentsSound
<1>6. ASSUME NEW t \in Slots, NEW r \in request[t] PROVE request[t] = {r} /\ Underway(r)' /\ r.id \in 1..made /\ r.id # new.id
  BY <1>1, <1>3, <1>6 DEF DocumentsSound, Underway, Origin
<1>7. ASSUME NEW t \in Slots, NEW r \in request'[t] PROVE request'[t] = {r} /\ Underway(r)'
  <2>1. CASE t = s
    BY <1>4, <1>5, <1>7, <2>1
  <2>2. CASE t # s
    BY <1>5, <1>6, <1>7, <2>2
  <2> QED BY <2>1, <2>2
<1>8. \A t, u \in Slots : \A r \in request'[t], x \in request'[u] : r.id = x.id => t = u
  BY <1>5, <1>6 DEF DocumentsSound
<1>9. \A i \in Documents!Ids : i > made' => Origin(db, i) = "none"
  BY <1>1 DEF DocumentsSound, Documents!Ids
<1>11. Books(db') /\ PeriodOnce(db')
  BY <1>1 DEF DocumentsSound
<1> QED BY <1>1, <1>2, <1>5, <1>7, <1>8, <1>9, <1>11 DEF DocumentsSound

LEMMA CommitSound ==
    ASSUME DocumentsSound, NEW s \in Slots, Documents!Commit(s)
    PROVE  DocumentsSound'
<1>1. PICK r \in request[s] :
          LET new == Documents!After(r.read, r.ask, r.id)
          IN  db' = IF Documents!Refused(r, new) THEN db ELSE Documents!Merged(db, r.read, new)
  BY DEF Documents!Commit
<1>2. PICK new : new = Documents!After(r.read, r.ask, r.id)
  OBVIOUS
<1>3. /\ request' = [request EXCEPT ![s] = {}] /\ made' = made
      /\ Underway(r) /\ request[s] = {r} /\ r.id \in Documents!Ids /\ Books(db)
  BY DocumentsAssumption DEF Documents!Commit, DocumentsSound, Underway, Documents!Ids
<1>4. Effect(r.read, r.ask, r.id, new)
  BY <1>2, <1>3, AfterEffect DEF Underway
\* It is enough to look at the tables: the request goes, the others keep their ids.
<1>5. ASSUME Books(db'), \A i \in Documents!Ids \ {r.id} : Origin(db', i) = Origin(db, i), PeriodOnce(db')
      PROVE  DocumentsSound'
  <2>1. /\ request' = [t \in Slots |-> request'[t]] /\ request'[s] = {}
        /\ \A t \in Slots \ {s} : request'[t] = request[t]
    BY <1>3 DEF DocumentsSound
  <2>2. ASSUME NEW t \in Slots \ {s}, NEW x \in request[t] PROVE request[t] = {x} /\ Underway(x)'
    <3>1. request[t] = {x} /\ Underway(x) /\ x.id # r.id /\ x.id \in Documents!Ids
      BY <2>2, DocumentsAssumption DEF DocumentsSound, Underway, Documents!Ids
    <3> QED BY <1>3, <1>5, <3>1 DEF Underway
  <2>3. ASSUME NEW t \in Slots, NEW x \in request'[t] PROVE request'[t] = {x} /\ Underway(x)'
    BY <2>1, <2>2, <2>3
  <2>4. \A t, u \in Slots : \A x \in request'[t], y \in request'[u] : x.id = y.id => t = u
    BY <2>1 DEF DocumentsSound
  <2>5. \A i \in Documents!Ids : i > made' => Origin(db', i) = "none"
    BY <1>3, <1>5 DEF DocumentsSound, Underway, Documents!Ids
  <2> QED BY <1>3, <1>5, <2>1, <2>3, <2>4, <2>5 DEF DocumentsSound, Origin
<1>6. CASE db' = db
  BY <1>3, <1>5, <1>6 DEF DocumentsSound
<1>7. CASE db' # db
  <2>1. db' = Documents!Merged(db, r.read, new) /\ ~Documents!Refused(r, new)
    BY <1>1, <1>2, <1>7
  <2>2. /\ Books(db')
        /\ \A i \in Documents!Ids :
              Origin(db', i) = IF Origin(new, i) = Origin(r.read, i) THEN Origin(db, i) ELSE Origin(new, i)
        /\ db'.period.payable = IF new.period.payable = r.read.period.payable THEN db.period.payable
                                ELSE new.period.payable
    BY <1>3, <1>4, <2>1, MergedBooks DEF Underway, Effect
  <2>3. \A i \in Documents!Ids \ {r.id} : Origin(db', i) = Origin(db, i)
    BY <1>4, <2>2 DEF Effect
  <2>4. Origin(db, r.id) = "none" /\ Origin(r.read, r.id) = "none" /\ PeriodOnce(db)
    BY <1>3 DEF Underway, DocumentsSound
  <2>5. CASE r.ask.op \in {"payable", "accept"}
    <3>1. Origin(new, r.id) \in OfThePeriod /\ new.period.payable \in {r.read.period.payable, r.id}
      BY <1>4, <2>5 DEF Effect, OfThePeriod
    <3>2. PeriodPaid(db) = {}
      BY <1>3, <2>1, <3>1 DEF Documents!Refused, Documents!OfPeriod, PeriodPaid, Origin, OfThePeriod
    <3>3. PeriodPaid(db') = {r.id} /\ db'.period.payable \in {Documents!NoId, r.id}
      BY <1>3, <2>2, <2>3, <2>4, <3>1, <3>2 DEF PeriodPaid, PeriodOnce, OfThePeriod
    <3>4. PeriodOnce(db')
      BY <3>3 DEF PeriodOnce
    <3> QED BY <1>5, <2>2, <2>3, <3>4
  <2>6. CASE r.ask.op \notin {"payable", "accept"}
    <3>1. Origin(db', r.id) \notin OfThePeriod /\ db'.period.payable = db.period.payable
      BY <1>3, <1>4, <2>2, <2>4, <2>6 DEF Effect, OfThePeriod
    <3>2. PeriodPaid(db') = PeriodPaid(db)
      BY <1>3, <2>3, <2>4, <3>1 DEF PeriodPaid, OfThePeriod
    <3>3. PeriodOnce(db')
      BY <2>4, <3>1, <3>2 DEF PeriodOnce
    <3> QED BY <1>5, <2>2, <2>3, <3>3
  <2> QED BY <2>5, <2>6
<1> QED BY <1>6, <1>7

LEMMA DocumentsSoundStep == DocumentsSound /\ [Documents!Next]_documentVars => DocumentsSound'
<1> SUFFICES ASSUME DocumentsSound, [Documents!Next]_documentVars PROVE DocumentsSound'
  OBVIOUS
<1>1. CASE UNCHANGED documentVars
  BY <1>1 DEF documentVars, DocumentsSound, Underway
<1>2. CASE Documents!Next
  BY <1>2, BeginSound, CommitSound DEF Documents!Next
<1> QED BY <1>1, <1>2

\* Two requests for the payment of one period may both have read that there is
\* none: the index refuses the second commit, and a statement that is accepted
\* names the account that was made.
THEOREM PaidOnceAlways == Documents!Spec => []PaidOnce
<1>1. DocumentsSound => PaidOnce
  <2> SUFFICES ASSUME DocumentsSound PROVE PaidOnce
    OBVIOUS
  <2>1. Documents!OfPeriod(db.accounts) = PeriodPaid(db)
    BY DEF Documents!OfPeriod, PeriodPaid, Origin, OfThePeriod
  <2>2. Cardinality(PeriodPaid(db)) <= 1
    <3>1. CASE PeriodPaid(db) = {}
      BY <3>1, FS_EmptySet
    <3>2. ASSUME NEW i \in PeriodPaid(db) PROVE Cardinality(PeriodPaid(db)) <= 1
      <4>1. PeriodPaid(db) = {i}
        BY <3>2 DEF DocumentsSound, PeriodOnce
      <4> QED BY <4>1, FS_Singleton
    <3> QED BY <3>1, <3>2
  <2>3. db.period.payable # Documents!NoId => PeriodPaid(db) = {db.period.payable}
    BY DEF DocumentsSound, PeriodOnce
  <2>4. Cardinality(Documents!OfPeriod(db.accounts)) <= 1
    BY <2>1, <2>2
  <2>5. db.period.payable # Documents!NoId => Documents!OfPeriod(db.accounts) = {db.period.payable}
    BY <2>1, <2>3
  <2>6. Documents!Cardinality(Documents!OfPeriod(db.accounts)) = Cardinality(Documents!OfPeriod(db.accounts))
    BY DEF Documents!Cardinality, Cardinality
  <2> QED BY <2>4, <2>5, <2>6 DEF PaidOnce, Documents!PaidOnce
<1>2. Documents!Spec => []DocumentsSound
  BY DocumentsSoundInit, DocumentsSoundStep, PTL DEF Documents!Spec, documentVars, Documents!vars
<1> QED BY <1>1, <1>2, PTL

-----------------------------------------------------------------------------
(***************************************************************************)
(* Sums over finite sets.  The fold takes one element after the other, in an *)
(* order of its own; what it computes is found again by induction on the     *)
(* subsets, as the absence of a smallest counterexample.                     *)
(***************************************************************************)
Some(S) == CHOOSE x \in S : TRUE
SumsUp(g, f, S) == g = [s \in SUBSET S |-> IF s = {} THEN 0 ELSE f[Some(s)] + g[s \ {Some(s)}]]
Total(f, S) == (CHOOSE g : SumsUp(g, f, S))[S]

LEMMA FoldTotal == \A f, S : Documents!MapThenSumSet(LAMBDA i : f[i], S) = Total(f, S)
BY DEF Documents!MapThenSumSet, Documents!MapThenFoldSet, SumsUp, Total, Some

\* Among the subsets of a finite set with a property there is a smallest.
LEMMA Smallest ==
    ASSUME NEW S, IsFiniteSet(S), NEW B \in SUBSET SUBSET S, B # {}
    PROVE  \E T \in B : \A U \in B : U \subseteq T => U = T
<1>1. FiniteSubsetsOf(S) = SUBSET S
  BY FS_FiniteSubsetsOfFinite
<1>2. IsWellFoundedOn(StrictSubsetOrdering(S), SUBSET S)
  BY <1>1, FS_StrictSubsetOrderingWellFounded
<1>3. PICK T \in B : \A U \in B : ~(<<U, T>> \in StrictSubsetOrdering(S))
  BY <1>2, WFMin
<1>4. ASSUME NEW U \in B, U \subseteq T, U # T PROVE FALSE
  <2>1. <<U, T>> \in StrictSubsetOrdering(S)
    BY <1>4 DEF StrictSubsetOrdering
  <2> QED BY <1>3, <2>1
<1> QED BY <1>4

LEMMA SomeIn == ASSUME NEW S, S # {} PROVE Some(S) \in S
BY DEF Some

\* Two such functions agree where both are defined.
LEMMA SumsAgree ==
    ASSUME NEW S, IsFiniteSet(S), NEW W \in SUBSET S, NEW f, NEW g, NEW h,
           SumsUp(g, f, S), SumsUp(h, f, W)
    PROVE  \A s \in SUBSET W : g[s] = h[s]
<1> DEFINE B == {s \in SUBSET W : g[s] # h[s]}
<1> SUFFICES ASSUME B # {} PROVE FALSE
  OBVIOUS
<1>1. B \in SUBSET SUBSET S
  OBVIOUS
<1>2. PICK T \in B : \A U \in B : U \subseteq T => U = T
  <2> HIDE DEF B
  <2> QED BY <1>1, Smallest
<1>3. T \in SUBSET W /\ T \in SUBSET S
  OBVIOUS
<1>4. /\ g[T] = IF T = {} THEN 0 ELSE f[Some(T)] + g[T \ {Some(T)}]
      /\ h[T] = IF T = {} THEN 0 ELSE f[Some(T)] + h[T \ {Some(T)}]
  BY <1>3 DEF SumsUp
<1>5. CASE T = {}
  BY <1>4, <1>5
<1>6. CASE T # {}
  <2>1. T \ {Some(T)} \in SUBSET W /\ T \ {Some(T)} # T
    BY <1>3, <1>6, SomeIn
  <2>2. g[T \ {Some(T)}] = h[T \ {Some(T)}]
    BY <1>2, <2>1
  <2> QED BY <1>4, <1>6, <2>2
<1> QED BY <1>5, <1>6

LEMMA SumsExist ==
    ASSUME NEW S, IsFiniteSet(S), NEW f
    PROVE  \E g : SumsUp(g, f, S)
<1> DEFINE B == {s \in SUBSET S : ~\E g : SumsUp(g, f, s)}
<1> SUFFICES ASSUME B # {} PROVE FALSE
  OBVIOUS
<1>1. PICK T \in B : \A U \in B : U \subseteq T => U = T
  <2>1. B \in SUBSET SUBSET S
    OBVIOUS
  <2> HIDE DEF B
  <2> QED BY <2>1, Smallest
<1>2. \A U \in SUBSET T : U # T => \E g : SumsUp(g, f, U)
  BY <1>1
<1>3. T \in SUBSET S /\ IsFiniteSet(T) /\ ~\E g : SumsUp(g, f, T)
  BY <1>1, FS_Subset
<1> HIDE DEF B
<1> DEFINE v(U) == (CHOOSE g : SumsUp(g, f, U))[U]
           h == [s \in SUBSET T |-> IF s = {} THEN 0 ELSE f[Some(s)] + v(s \ {Some(s)})]
<1>4. ASSUME NEW U \in SUBSET T, U # T
      PROVE  v(U) = h[U]
  <2>1. PICK g : g = CHOOSE k : SumsUp(k, f, U)
    OBVIOUS
  <2>2. SumsUp(g, f, U) /\ v(U) = g[U]
    BY <1>2, <1>4, <2>1
  <2>3. g[U] = IF U = {} THEN 0 ELSE f[Some(U)] + g[U \ {Some(U)}]
    BY <2>2 DEF SumsUp
  <2>4. CASE U = {}
    BY <2>2, <2>3, <2>4
  <2>5. CASE U # {}
    <3>1. PICK W : W = U \ {Some(U)}
      OBVIOUS
    <3>2. W \in SUBSET U /\ W \in SUBSET T /\ W # T
      BY <1>4, <2>5, <3>1, SomeIn
    <3>3. PICK k : k = CHOOSE g1 : SumsUp(g1, f, W)
      OBVIOUS
    <3>4. SumsUp(k, f, W) /\ v(W) = k[W]
      BY <1>2, <3>2, <3>3
    <3>5. IsFiniteSet(U)
      BY <1>3, FS_Subset
    <3>6. g[W] = k[W]
      BY <2>2, <3>2, <3>4, <3>5, SumsAgree
    <3> HIDE DEF v
    <3>7. h[U] = f[Some(U)] + v(W)
      BY <2>5, <3>1
    <3> QED BY <2>2, <2>3, <2>5, <3>1, <3>4, <3>6, <3>7
  <2> QED BY <2>4, <2>5
<1>5. \A s \in SUBSET T : s # {} => s \ {Some(s)} \in SUBSET T /\ s \ {Some(s)} # T
  BY SomeIn
<1>6. \A s \in SUBSET T : h[s] = IF s = {} THEN 0 ELSE f[Some(s)] + v(s \ {Some(s)})
  OBVIOUS
<1>7. h = [s \in SUBSET T |-> h[s]]
  OBVIOUS
<1> HIDE DEF v, h
<1>8. SumsUp(h, f, T)
  <2>1. \A s \in SUBSET T : h[s] = IF s = {} THEN 0 ELSE f[Some(s)] + h[s \ {Some(s)}]
    BY <1>4, <1>5, <1>6
  <2>2. PICK k : k = [s \in SUBSET T |-> IF s = {} THEN 0 ELSE f[Some(s)] + h[s \ {Some(s)}]]
    OBVIOUS
  <2>3. \A s \in SUBSET T : k[s] = h[s]
    BY <2>1, <2>2
  <2>4. k = [s \in SUBSET T |-> k[s]]
    BY <2>2
  <2>5. h = k
    BY <1>7, <2>3, <2>4
  <2>6. h = [s \in SUBSET T |-> IF s = {} THEN 0 ELSE f[Some(s)] + h[s \ {Some(s)}]]
    BY Zenon, <2>2, <2>5
  <2> QED BY <2>6 DEF SumsUp
<1> QED BY <1>3, <1>8

LEMMA TotalSums ==
    ASSUME NEW S, IsFiniteSet(S), NEW f
    PROVE  \E g : SumsUp(g, f, S) /\ Total(f, S) = g[S]
<1>1. PICK g : g = CHOOSE h : SumsUp(h, f, S)
  OBVIOUS
<1>2. SumsUp(g, f, S)
  BY <1>1, SumsExist
<1> QED BY <1>1, <1>2 DEF Total

\* A sum follows the change of one of its terms.
LEMMA TotalChanged ==
    ASSUME NEW S, IsFiniteSet(S), NEW f \in [S -> Int], NEW h \in [S -> Int], NEW x \in S,
           \A y \in S \ {x} : h[y] = f[y]
    PROVE  Total(f, S) \in Int /\ Total(h, S) = Total(f, S) + (h[x] - f[x])
<1>1. PICK a : SumsUp(a, f, S) /\ Total(f, S) = a[S]
  BY TotalSums
<1>2. PICK b : SumsUp(b, h, S) /\ Total(h, S) = b[S]
  BY TotalSums
<1> DEFINE Right(s) == a[s] \in Int /\ b[s] = a[s] + (IF x \in s THEN h[x] - f[x] ELSE 0)
           B == {s \in SUBSET S : ~Right(s)}
<1>3. ASSUME B # {} PROVE FALSE
  <2>1. PICK T \in B : \A U \in B : U \subseteq T => U = T
    <3>1. B \in SUBSET SUBSET S
      OBVIOUS
    <3> HIDE DEF B
    <3> QED BY <1>3, <3>1, Smallest
  <2>2. T \in SUBSET S /\ ~Right(T)
    OBVIOUS
  <2>3. /\ a[T] = IF T = {} THEN 0 ELSE f[Some(T)] + a[T \ {Some(T)}]
        /\ b[T] = IF T = {} THEN 0 ELSE h[Some(T)] + b[T \ {Some(T)}]
    BY <1>1, <1>2, <2>2 DEF SumsUp
  <2>4. CASE T = {}
    BY <2>2, <2>3, <2>4
  <2>5. CASE T # {}
    <3>1. PICK t, W : t = Some(T) /\ W = T \ {t}
      OBVIOUS
    <3>2. t \in T /\ t \in S /\ W \in SUBSET S /\ W # T /\ W \subseteq T
      BY <2>2, <2>5, <3>1, SomeIn
    <3>3. Right(W)
      BY <2>1, <3>2
    <3>4. a[T] = f[t] + a[W] /\ b[T] = h[t] + b[W]
      BY <2>3, <2>5, <3>1
    <3>5. f[t] \in Int /\ h[t] \in Int /\ h[x] \in Int /\ f[x] \in Int
      BY <3>2
    <3>6. CASE t = x
      <4>1. x \notin W /\ x \in T
        BY <3>1, <3>2, <3>6
      <4> QED BY <2>2, <3>3, <3>4, <3>5, <3>6, <4>1
    <3>7. CASE t # x
      <4>1. (x \in W <=> x \in T) /\ h[t] = f[t]
        BY <3>1, <3>2, <3>7
      <4> QED BY <2>2, <3>3, <3>4, <3>5, <4>1
    <3> QED BY <3>6, <3>7
  <2> QED BY <2>4, <2>5
<1>4. Right(S)
  BY <1>3
<1> QED BY <1>1, <1>2, <1>4

\* A sum of zeros.
LEMMA TotalZero ==
    ASSUME NEW S, IsFiniteSet(S), NEW f, \A x \in S : f[x] = 0
    PROVE  Total(f, S) = 0
<1>1. PICK a : SumsUp(a, f, S) /\ Total(f, S) = a[S]
  BY TotalSums
<1> DEFINE B == {s \in SUBSET S : a[s] # 0}
<1>2. ASSUME B # {} PROVE FALSE
  <2>1. PICK T \in B : \A U \in B : U \subseteq T => U = T
    <3>1. B \in SUBSET SUBSET S
      OBVIOUS
    <3> HIDE DEF B
    <3> QED BY <1>2, <3>1, Smallest
  <2>2. T \in SUBSET S /\ a[T] # 0
    OBVIOUS
  <2>3. a[T] = IF T = {} THEN 0 ELSE f[Some(T)] + a[T \ {Some(T)}]
    BY <1>1, <2>2 DEF SumsUp
  <2>4. T # {} /\ Some(T) \in T
    BY <2>2, <2>3, SomeIn
  <2>5. a[T \ {Some(T)}] = 0
    BY <2>1, <2>2, <2>4
  <2>6. f[Some(T)] = 0
    BY <2>2, <2>4
  <2> QED BY <2>2, <2>3, <2>4, <2>5, <2>6
<1> QED BY <1>1, <1>2

\* The books of one database, whatever the requests under way.
Desks == {"quantity", "movements", "purchase", "accounts", "adjustments", "period", "task"}
EntryColumns == {"kind", "amount", "voided", "account"}
Bought == {"aprovada", "comprada", "recebida"}

Stocked(d) ==
    /\ d.quantity \in Int /\ d.movements \in [Documents!Ids -> Int]
    /\ d.quantity = 1 + Total(d.movements, Documents!Ids)

Purchased(d) == {i \in Documents!Ids : Origin(d, i) = "purchase"}
PurchaseKept(d) ==
    /\ d.purchase = [c \in {"status", "account"} |-> d.purchase[c]]
    /\ Purchased(d) = IF d.purchase.status \in Bought THEN {d.purchase.account} ELSE {}

Counted(a) == a.kind # "none" /\ ~a.voided /\ a.account # Documents!NoId
BackedBy(a, row) == row.discount /\ row.status # "cancelada" /\ row.amount = a.amount
EntriesBacked(d) ==
    /\ d.adjustments = [j \in Documents!Ids |-> d.adjustments[j]]
    /\ \A j \in Documents!Ids :
          /\ d.adjustments[j] = [c \in EntryColumns |-> d.adjustments[j][c]]
          /\ d.adjustments[j].account \in Documents!Ids \cup {Documents!NoId}
          /\ Counted(d.adjustments[j]) => BackedBy(d.adjustments[j], d.accounts[d.adjustments[j].account])
    \* Nothing is to be done with an account that nobody has made.
    /\ \A i \in Documents!Ids : Origin(d, i) = "none" =>
          ~d.accounts[i].discount /\ d.accounts[i].status = "none"

Agreeing(d) == Books(d) /\ Desks \subseteq DOMAIN d /\ Stocked(d) /\ PurchaseKept(d) /\ EntriesBacked(d)

\* Which of the tables an operation leaves as they are.
LEMMA TablesLeft ==
    ASSUME NEW d, NEW q \in Documents!Questions, NEW id \in Documents!Ids, Books(d), Desks \subseteq DOMAIN d,
           NEW n, n = Documents!After(d, q, id)
    PROVE  /\ Desks \subseteq DOMAIN n
           /\ q.op # "move" => n.quantity = d.quantity /\ n.movements = d.movements
           /\ q.op \notin Documents!PurchaseOps \cup {"approve"} => n.purchase = d.purchase
           /\ q.op \notin {"account", "update", "cancel", "entry", "void", "resolve"} =>
                 n.adjustments = d.adjustments
           /\ q.op \notin {"account", "approve", "update", "settle", "invoice", "cancel", "payable", "accept"} =>
                 n.accounts = d.accounts
<1>0. q.op \in Documents!Ops /\ d = [t \in DOMAIN d |-> d[t]]
  BY DEF Documents!Questions, Documents!Ops, Documents!PurchaseOps, Books
<1>1. CASE q.op = "move"
  <2>1. n = Documents!AfterMove(d, q, id)
    BY <1>1 DEF Documents!After, Documents!PurchaseOps
  <2> QED BY <1>0, <1>1, <2>1 DEF Documents!AfterMove, Documents!PurchaseOps, Desks
<1>2. CASE q.op \in Documents!PurchaseOps
  <2>1. n = [d EXCEPT !.purchase.status = Documents!PurchaseStep(q.op).to]
    BY <1>2 DEF Documents!After, Documents!PurchaseOps
  <2> QED BY <1>0, <1>2, <2>1 DEF Documents!PurchaseOps, Desks
<1>3. CASE q.op \in {"approve", "payable", "accept"}
  <2>1. n \in {Documents!AfterApprove(d, id), Documents!AfterPay(d, id), Documents!AfterAccept(d, id)}
        /\ (q.op # "approve" => n # Documents!AfterApprove(d, id) \/ n.purchase = d.purchase)
    BY <1>0, <1>3 DEF Documents!After, Documents!PurchaseOps, Documents!AfterPay, Documents!AfterAccept
  <2> QED BY <1>0, <1>3, <2>1 DEF Documents!AfterApprove, Documents!AfterPay, Documents!AfterAccept, Documents!PurchaseOps, Desks
<1>4. CASE q.op \in {"account", "update", "cancel"}
  <2>1. CASE q.op = "account"
    BY <1>0, <2>1 DEF Documents!After, Documents!AfterAccount, Documents!PurchaseOps, Desks
  <2>2. CASE q.op = "update"
    <3>1. n = Documents!AfterUpdate(d, q, id)
      BY <2>2 DEF Documents!After, Documents!PurchaseOps
    <3> QED BY <1>0, <2>2, <3>1 DEF Documents!AfterUpdate, Documents!PurchaseOps, Desks
  <2>3. CASE q.op = "cancel"
    BY <1>0, <2>3 DEF Documents!After, Documents!AfterCancel, Documents!PurchaseOps, Desks
  <2> QED BY <1>4, <2>1, <2>2, <2>3
<1>5. CASE q.op \in {"settle", "invoice"}
  <2>1. n \in {Documents!AfterSettle(d, q), Documents!AfterInvoice(d, q)}
    BY <1>5 DEF Documents!After, Documents!PurchaseOps
  <2> QED BY <1>0, <1>5, <2>1 DEF Documents!AfterSettle, Documents!AfterInvoice, Documents!PurchaseOps, Desks
<1>6. CASE q.op \in {"entry", "void", "resolve"}
  <2>1. CASE q.op = "resolve"
    BY <1>0, <2>1 DEF Documents!After, Documents!AfterResolve, Documents!AfterEntry, Documents!PurchaseOps, Desks
  <2>2. CASE q.op \in {"entry", "void"}
    BY <1>0, <2>2 DEF Documents!After, Documents!AfterEntry, Documents!AfterVoid, Documents!PurchaseOps, Desks
  <2> QED BY <1>6, <2>1, <2>2
<1>7. CASE q.op \in {"release", "contest"}
  BY <1>0, <1>7 DEF Documents!After, Documents!AfterContest, Documents!PurchaseOps, Desks
<1> QED BY <1>0, <1>1, <1>2, <1>3, <1>4, <1>5, <1>6, <1>7 DEF Documents!Ops, Documents!PurchaseOps

LEMMA StockedStep ==
    ASSUME NEW d, NEW q \in Documents!Questions, NEW id \in Documents!Ids, Agreeing(d), d.movements[id] = 0,
           NEW n, n = Documents!After(d, q, id)
    PROVE  Stocked(n) /\ \A i \in Documents!Ids \ {id} : n.movements[i] = d.movements[i]
<1>1. CASE q.op # "move"
  <2>1. n.quantity = d.quantity /\ n.movements = d.movements
    BY <1>1, TablesLeft DEF Agreeing
  <2> QED BY <2>1 DEF Stocked, Agreeing
<1>2. CASE q.op = "move"
  <2>1. n = Documents!AfterMove(d, q, id)
    BY <1>2 DEF Documents!After, Documents!PurchaseOps
  <2>2. n.quantity = d.quantity + Documents!Delta(q)
        /\ n.movements = [d.movements EXCEPT ![id] = Documents!Delta(q)]
    BY <2>1 DEF Documents!AfterMove, Agreeing, Books, Desks
  <2>3. Documents!Delta(q) \in Int
    BY <1>2 DEF Documents!Delta, Documents!Questions, Documents!Amounts, Documents!PurchaseOps
  <2>4. /\ d.movements \in [Documents!Ids -> Int] /\ n.movements \in [Documents!Ids -> Int]
        /\ n.movements[id] = Documents!Delta(q)
        /\ \A i \in Documents!Ids \ {id} : n.movements[i] = d.movements[i]
    BY <2>2, <2>3 DEF Agreeing, Stocked
  <2>5. IsFiniteSet(Documents!Ids)
    BY DocumentsAssumption, FS_Interval DEF Documents!Ids
  <2>6. Total(d.movements, Documents!Ids) \in Int
        /\ Total(n.movements, Documents!Ids)
             = Total(d.movements, Documents!Ids) + (n.movements[id] - d.movements[id])
    BY <2>4, <2>5, TotalChanged
  <2>7. d.quantity \in Int /\ d.quantity = 1 + Total(d.movements, Documents!Ids)
    BY DEF Agreeing, Stocked
  <2>8. n.quantity \in Int /\ n.quantity = 1 + Total(n.movements, Documents!Ids)
    BY <2>2, <2>3, <2>4, <2>6, <2>7
  <2> QED BY <2>4, <2>8 DEF Stocked
<1> QED BY <1>1, <1>2

LEMMA PurchaseKeptStep ==
    ASSUME NEW d, NEW q \in Documents!Questions, NEW id \in Documents!Ids, Agreeing(d), Origin(d, id) = "none",
           Documents!Can(d, q), NEW n, n = Documents!After(d, q, id)
    PROVE  PurchaseKept(n)
<1>0. Effect(d, q, id, n)
  BY AfterEffect DEF Agreeing
<1>1. CASE q.op \in Documents!PurchaseOps
  <2>1. n = [d EXCEPT !.purchase.status = Documents!PurchaseStep(q.op).to]
    BY <1>1 DEF Documents!After, Documents!PurchaseOps
  <2>2. n.accounts = d.accounts /\ n.purchase = [d.purchase EXCEPT !.status = Documents!PurchaseStep(q.op).to]
    BY <2>1 DEF Agreeing, Books, Desks
  <2>3. d.purchase.status \in Documents!PurchaseStep(q.op).from
    BY <1>1 DEF Documents!Can, Documents!PurchaseOps
  <2>4. d.purchase.status \in Bought <=> Documents!PurchaseStep(q.op).to \in Bought
    BY <1>1, <2>3 DEF Documents!PurchaseOps, Documents!PurchaseStep, Bought
  <2>5. Purchased(n) = Purchased(d)
    BY <2>2 DEF Purchased, Origin
  <2>6. PurchaseKept(d)
    BY DEF Agreeing
  <2> QED BY <2>2, <2>4, <2>5, <2>6 DEF PurchaseKept
<1>2. CASE q.op = "approve"
  <2>1. n = Documents!AfterApprove(d, id)
    BY <1>2 DEF Documents!After, Documents!PurchaseOps
  <2>2. /\ n.purchase = [status |-> "aprovada", account |-> id]
        /\ Origin(n, id) = "purchase"
    BY <2>1 DEF Documents!AfterApprove, Documents!Pending, Agreeing, Books, Desks, Origin
  <2>3. Purchased(d) = {}
    BY <1>2 DEF Documents!Can, Documents!CanApprove, Documents!PurchaseOps, Agreeing, PurchaseKept, Bought
  <2>4. Purchased(n) = {id}
    BY <1>0, <2>2, <2>3 DEF Purchased, Effect
  <2> QED BY <2>2, <2>4 DEF PurchaseKept, Bought
<1>3. CASE q.op \notin Documents!PurchaseOps \cup {"approve"}
  <2>1. n.purchase = d.purchase
    BY <1>3, TablesLeft DEF Agreeing
  <2>2. Origin(n, id) # "purchase"
    <3>1. CASE q.op = "account"
      BY <3>1 DEF Documents!After, Documents!AfterAccount, Documents!Pending, Documents!PurchaseOps, Agreeing, Books, Desks, Origin
    <3>2. CASE q.op \in {"payable", "accept"}
      BY <1>0, <3>2 DEF Effect
    <3>3. CASE q.op \in {"update", "settle", "invoice", "cancel"}
      <4>1. q.row \in Documents!Ids
        BY <3>3 DEF Documents!Questions, Documents!PurchaseOps
      <4>2. Origin(n, id) = Origin(d, id)
        <5>1. Books(d) /\ d.accounts[q.row] = [c \in AccountColumns |-> d.accounts[q.row][c]]
          BY <4>1 DEF Agreeing, Books
        <5>2. CASE q.op = "update"
          BY <4>1, <5>1, <5>2 DEF Documents!After, Documents!AfterUpdate, Documents!PurchaseOps, Books, Origin, AccountColumns
        <5>3. CASE q.op = "settle"
          BY <4>1, <5>1, <5>3 DEF Documents!After, Documents!AfterSettle, Documents!PurchaseOps, Books, Origin, AccountColumns
        <5>4. CASE q.op = "invoice"
          BY <4>1, <5>1, <5>4 DEF Documents!After, Documents!AfterInvoice, Documents!PurchaseOps, Books, Origin, AccountColumns
        <5>5. CASE q.op = "cancel"
          BY <4>1, <5>1, <5>5 DEF Documents!After, Documents!AfterCancel, Documents!PurchaseOps, Books, Origin, AccountColumns
        <5> QED BY <3>3, <5>2, <5>3, <5>4, <5>5
      <4> QED BY <4>2
    <3>4. CASE q.op \notin {"account", "payable", "accept", "update", "settle", "invoice", "cancel"}
      <4>1. n.accounts = d.accounts
        BY <1>3, <3>4, TablesLeft DEF Agreeing
      <4> QED BY <4>1 DEF Origin
    <3> QED BY <3>1, <3>2, <3>3, <3>4
  <2>3. Purchased(n) = Purchased(d)
    BY <1>0, <2>2 DEF Purchased, Effect
  <2> QED BY <2>1, <2>3 DEF PurchaseKept, Agreeing
<1> QED BY <1>1, <1>2, <1>3

\* The entries and the accounts behind them, one account or one entry at a time.
Backed(accounts, adjustments) ==
    \A j \in Documents!Ids : Counted(adjustments[j]) =>
        BackedBy(adjustments[j], accounts[adjustments[j].account])
EntryShape(adjustments) ==
    /\ adjustments = [j \in Documents!Ids |-> adjustments[j]]
    /\ \A j \in Documents!Ids : /\ adjustments[j] = [c \in EntryColumns |-> adjustments[j][c]]
                               /\ adjustments[j].account \in Documents!Ids \cup {Documents!NoId}
Unmade(accounts) ==
    \A i \in Documents!Ids : accounts[i].origin = "none" => ~accounts[i].discount /\ accounts[i].status = "none"

LEMMA EntriesBackedParts ==
    ASSUME NEW d
    PROVE  EntriesBacked(d) <=>
              Backed(d.accounts, d.adjustments) /\ EntryShape(d.adjustments) /\ Unmade(d.accounts)
BY DEF EntriesBacked, Backed, EntryShape, Unmade, Origin

\* What the void of the entry of an account leaves.
LEMMA VoidedEntries ==
    ASSUME NEW d, EntryShape(d.adjustments), NEW i \in Documents!Ids
    PROVE  /\ EntryShape(Documents!Voided(d, i))
           /\ \A j \in Documents!Ids :
                 Counted(Documents!Voided(d, i)[j]) =>
                     Documents!Voided(d, i)[j] = d.adjustments[j] /\ d.adjustments[j].account # i
<1> DEFINE v == Documents!Voided(d, i)
<1>1. ASSUME NEW j \in Documents!Ids
      PROVE  /\ v[j] = [c \in EntryColumns |-> v[j][c]]
             /\ v[j].account \in Documents!Ids \cup {Documents!NoId}
             /\ Counted(v[j]) => v[j] = d.adjustments[j] /\ d.adjustments[j].account # i
  <2>1. v[j] = IF d.adjustments[j].account = i THEN [d.adjustments[j] EXCEPT !.voided = TRUE] ELSE d.adjustments[j]
    BY DEF Documents!Voided, Documents!EntryOf
  <2>2. d.adjustments[j] = [c \in EntryColumns |-> d.adjustments[j][c]]
        /\ d.adjustments[j].account \in Documents!Ids \cup {Documents!NoId}
    BY DEF EntryShape
  <2>3. CASE d.adjustments[j].account = i
    <3>1. v[j] = [d.adjustments[j] EXCEPT !.voided = TRUE]
      BY <2>1, <2>3
    <3>2. v[j].voided = TRUE /\ v[j].account = d.adjustments[j].account /\ v[j] = [c \in EntryColumns |-> v[j][c]]
      BY <2>2, <3>1 DEF EntryColumns
    <3> QED BY <2>2, <3>2 DEF Counted
  <2>4. CASE d.adjustments[j].account # i
    BY <2>1, <2>2, <2>4
  <2> QED BY <2>3, <2>4
<1>2. v = [j \in Documents!Ids |-> v[j]]
  BY DEF Documents!Voided
<1> QED BY <1>1, <1>2 DEF EntryShape

\* A new account under an id that nobody has used, or the row of one that was made.
LEMMA NewRowBacked ==
    ASSUME NEW accounts, NEW adjustments, Backed(accounts, adjustments), Unmade(accounts),
           NEW id \in Documents!Ids, accounts[id].origin = "none",
           NEW new, \A i \in Documents!Ids \ {id} : new[i] = accounts[i],
           EntryShape(adjustments)
    PROVE  Backed(new, adjustments)
<1> SUFFICES ASSUME NEW j \in Documents!Ids, Counted(adjustments[j])
             PROVE  BackedBy(adjustments[j], new[adjustments[j].account])
  BY DEF Backed
<1>1. PICK i : i = adjustments[j].account
  OBVIOUS
<1>2. i \in Documents!Ids /\ BackedBy(adjustments[j], accounts[i])
  BY <1>1 DEF Backed, EntryShape, Counted
<1>3. i # id
  BY <1>2 DEF Unmade, BackedBy
<1> QED BY <1>1, <1>2, <1>3

\* One entry changes, to one that counts for nothing or has its account behind it.
LEMMA NewEntryBacked ==
    ASSUME NEW accounts, NEW adjustments, Backed(accounts, adjustments), EntryShape(adjustments),
           NEW id \in Documents!Ids, NEW a, a = [c \in EntryColumns |-> a[c]],
           a.account \in Documents!Ids \cup {Documents!NoId},
           Counted(a) => BackedBy(a, accounts[a.account])
    PROVE  Backed(accounts, [adjustments EXCEPT ![id] = a]) /\ EntryShape([adjustments EXCEPT ![id] = a])
<1>1. PICK n : n = [adjustments EXCEPT ![id] = a]
  OBVIOUS
<1>2. /\ n = [j \in Documents!Ids |-> n[j]] /\ n[id] = a
      /\ \A j \in Documents!Ids \ {id} : n[j] = adjustments[j]
  BY <1>1 DEF EntryShape
<1>3. EntryShape(n)
  BY <1>2 DEF EntryShape
<1>4. ASSUME NEW j \in Documents!Ids, Counted(n[j]) PROVE BackedBy(n[j], accounts[n[j].account])
  <2>1. CASE j = id
    BY <1>2, <1>4, <2>1
  <2>2. CASE j # id
    BY <1>2, <1>4, <2>2 DEF Backed
  <2> QED BY <2>1, <2>2
<1> QED BY <1>1, <1>3, <1>4 DEF Backed

LEMMA InsertBacked ==
    ASSUME NEW d, NEW q \in Documents!Questions, NEW id \in Documents!Ids, Agreeing(d), Origin(d, id) = "none",
           NEW n, n = Documents!After(d, q, id), q.op \in {"approve", "payable", "accept", "account"}
    PROVE  EntriesBacked(n)
<1>0. /\ Backed(d.accounts, d.adjustments) /\ EntryShape(d.adjustments) /\ Unmade(d.accounts)
      /\ Books(d) /\ Desks \subseteq DOMAIN d /\ d.accounts[id].origin = "none"
  BY EntriesBackedParts DEF Agreeing, Origin
<1>1. /\ \A i \in Documents!Ids \ {id} : n.accounts[i] = d.accounts[i]
      /\ n.accounts[id].origin # "none"
  <2>1. CASE q.op = "approve"
    BY <1>0, <2>1 DEF Documents!After, Documents!AfterApprove, Documents!Pending, Documents!PurchaseOps, Books, Desks
  <2>2. CASE q.op = "payable"
    BY <1>0, <2>2 DEF Documents!After, Documents!AfterPay, Documents!Pending, Documents!PurchaseOps, Books, Desks
  <2>3. CASE q.op = "accept"
    BY <1>0, <2>3 DEF Documents!After, Documents!AfterAccept, Documents!Pending, Documents!PurchaseOps, Books, Desks
  <2>4. CASE q.op = "account"
    BY <1>0, <2>4 DEF Documents!After, Documents!AfterAccount, Documents!Pending, Documents!PurchaseOps, Books, Desks
  <2> QED BY <2>1, <2>2, <2>3, <2>4
<1>2. Backed(n.accounts, d.adjustments)
  BY <1>0, <1>1, NewRowBacked
<1>3. Unmade(n.accounts)
  BY <1>0, <1>1 DEF Unmade
<1>4. CASE q.op # "account" \/ q.arg # "discount"
  <2>1. n.adjustments = d.adjustments
    <3>1. CASE q.op # "account"
      BY <1>0, <3>1, TablesLeft
    <3>2. CASE q.op = "account"
      <4>1. n = Documents!AfterAccount(d, q, id)
        BY <3>2 DEF Documents!After, Documents!PurchaseOps
      <4>2. n.adjustments = [d.adjustments EXCEPT ![id] = d.adjustments[id]]
        BY <1>0, <1>4, <3>2, <4>1 DEF Documents!AfterAccount, Books, Desks
      <4> QED BY <1>0, <4>2 DEF EntryShape
    <3> QED BY <3>1, <3>2
  <2> QED BY <1>0, <1>2, <1>3, <2>1, EntriesBackedParts
<1>5. CASE q.op = "account" /\ q.arg = "discount"
  <2>1. PICK a : a = Documents!Entry("deduction", q.amount, id)
    OBVIOUS
  <2>2. n = Documents!AfterAccount(d, q, id)
    BY <1>5 DEF Documents!After, Documents!PurchaseOps
  <2>3. n.adjustments = [d.adjustments EXCEPT ![id] = a]
    BY <1>0, <1>5, <2>1, <2>2 DEF Documents!AfterAccount, Books, Desks
  <2>4. n.accounts[id].discount /\ n.accounts[id].status = "pendente" /\ n.accounts[id].amount = q.amount
    <3>1. PICK p : p = Documents!Pending("receivable", "manual", q.amount)
      OBVIOUS
    <3>2. PICK yes : yes = (q.arg = "discount")
      OBVIOUS
    <3>3. n.accounts[id] = [p EXCEPT !.discount = yes]
      BY <1>0, <1>5, <2>2, <3>1, <3>2 DEF Documents!AfterAccount, Books, Desks
    <3>4. p.status = "pendente" /\ p.amount = q.amount /\ p = [c \in AccountColumns |-> p[c]]
      BY <3>1 DEF Documents!Pending, AccountColumns
    <3>5. [p EXCEPT !.discount = yes].discount = yes
      BY <3>4 DEF AccountColumns
    <3>6. yes
      BY Zenon, <1>5, <3>2
    <3> QED BY <3>3, <3>4, <3>5, <3>6 DEF AccountColumns
  <2>5. a = [c \in EntryColumns |-> a[c]] /\ a.account = id /\ a.amount = q.amount
    BY <2>1 DEF Documents!Entry, EntryColumns
  <2>6. BackedBy(a, n.accounts[a.account])
    BY <2>4, <2>5 DEF BackedBy
  <2>7. Backed(n.accounts, n.adjustments) /\ EntryShape(n.adjustments)
    BY <1>0, <1>2, <2>3, <2>5, <2>6, NewEntryBacked
  <2> QED BY <1>3, <2>7, EntriesBackedParts
<1> QED BY <1>4, <1>5

\* An account is paid, received or cancelled: its category and its amount stay.
LEMMA SettledRow ==
    ASSUME NEW d, NEW i \in Documents!Ids, Agreeing(d), d.accounts[i].status = "pendente",
           NEW new, \A k \in Documents!Ids \ {i} : new[k] = d.accounts[k],
           new[i].origin = d.accounts[i].origin, new[i].discount = d.accounts[i].discount,
           new[i].amount = d.accounts[i].amount
    PROVE  /\ Unmade(new)
           /\ \A j \in Documents!Ids :
                 /\ Counted(d.adjustments[j])
                 /\ new[i].status # "cancelada" \/ d.adjustments[j].account # i
                 => BackedBy(d.adjustments[j], new[d.adjustments[j].account])
<1>0. Backed(d.accounts, d.adjustments) /\ EntryShape(d.adjustments) /\ Unmade(d.accounts)
  BY EntriesBackedParts DEF Agreeing
<1>1. d.accounts[i].origin # "none"
  BY <1>0 DEF Unmade
<1>2. Unmade(new)
  BY <1>0, <1>1 DEF Unmade
<1>3. ASSUME NEW j \in Documents!Ids, Counted(d.adjustments[j]),
             new[i].status # "cancelada" \/ d.adjustments[j].account # i
      PROVE  BackedBy(d.adjustments[j], new[d.adjustments[j].account])
  <2>1. PICK k : k = d.adjustments[j].account
    OBVIOUS
  <2>2. k \in Documents!Ids /\ BackedBy(d.adjustments[j], d.accounts[k])
    BY <1>0, <1>3, <2>1 DEF Backed, EntryShape, Counted
  <2>3. CASE k = i
    BY <1>3, <2>1, <2>2, <2>3 DEF BackedBy
  <2>4. CASE k # i
    BY <2>1, <2>2, <2>4
  <2> QED BY <2>3, <2>4
<1> QED BY <1>2, <1>3

LEMMA SettleBacked ==
    ASSUME NEW d, NEW q \in Documents!Questions, NEW id \in Documents!Ids, Agreeing(d), Documents!Can(d, q),
           NEW n, n = Documents!After(d, q, id), q.op \in {"settle", "invoice", "cancel"}
    PROVE  EntriesBacked(n)
<1>0. /\ Backed(d.accounts, d.adjustments) /\ EntryShape(d.adjustments) /\ Unmade(d.accounts)
      /\ Books(d) /\ Desks \subseteq DOMAIN d
  BY EntriesBackedParts DEF Agreeing
<1>1. q.row \in Documents!Ids
  BY DEF Documents!Questions, Documents!PurchaseOps
<1>2. d.accounts[q.row].status = "pendente"
  BY DEF Documents!Can, Documents!CanSettle, Documents!PurchaseOps
<1>3. /\ \A k \in Documents!Ids \ {q.row} : n.accounts[k] = d.accounts[k]
      /\ n.accounts[q.row].origin = d.accounts[q.row].origin
      /\ n.accounts[q.row].discount = d.accounts[q.row].discount
      /\ n.accounts[q.row].amount = d.accounts[q.row].amount
      /\ q.op # "cancel" => n.accounts[q.row].status # "cancelada"
  <2>1. CASE q.op = "settle"
    <3>1. n.accounts = [d.accounts EXCEPT ![q.row].status = "paga"]
      BY <1>0, <2>1 DEF Documents!After, Documents!AfterSettle, Documents!PurchaseOps, Books, Desks
    <3> QED BY <1>0, <1>1, <2>1, <3>1 DEF Books, AccountColumns
  <2>2. CASE q.op = "invoice"
    <3>1. n.accounts = [d.accounts EXCEPT ![q.row].status = "recebida", ![q.row].invoice = TRUE]
      BY <1>0, <2>2 DEF Documents!After, Documents!AfterInvoice, Documents!PurchaseOps, Books, Desks
    <3> QED BY <1>0, <1>1, <2>2, <3>1 DEF Books, AccountColumns
  <2>3. CASE q.op = "cancel"
    <3>1. n.accounts = [d.accounts EXCEPT ![q.row].status = "cancelada"]
      BY <1>0, <2>3 DEF Documents!After, Documents!AfterCancel, Documents!PurchaseOps, Books, Desks
    <3> QED BY <1>0, <1>1, <2>3, <3>1 DEF Books, AccountColumns
  <2> QED BY <2>1, <2>2, <2>3
<1>4. /\ Unmade(n.accounts)
      /\ \A j \in Documents!Ids :
            /\ Counted(d.adjustments[j])
            /\ n.accounts[q.row].status # "cancelada" \/ d.adjustments[j].account # q.row
            => BackedBy(d.adjustments[j], n.accounts[d.adjustments[j].account])
  BY <1>1, <1>2, <1>3, SettledRow
<1>5. CASE q.op # "cancel"
  <2>1. n.adjustments = d.adjustments
    BY <1>0, <1>5, TablesLeft
  <2> QED BY <1>0, <1>3, <1>4, <1>5, <2>1, EntriesBackedParts DEF Backed
<1>6. CASE q.op = "cancel"
  <2>1. n.adjustments = Documents!Voided(d, q.row)
    BY <1>0, <1>6 DEF Documents!After, Documents!AfterCancel, Documents!PurchaseOps, Books, Desks
  <2>2. /\ EntryShape(n.adjustments)
        /\ \A j \in Documents!Ids : Counted(n.adjustments[j]) =>
              n.adjustments[j] = d.adjustments[j] /\ d.adjustments[j].account # q.row
    BY <1>0, <1>1, <2>1, VoidedEntries
  <2>3. Backed(n.accounts, n.adjustments)
    BY <1>4, <2>2 DEF Backed
  <2> QED BY <1>4, <2>2, <2>3, EntriesBackedParts
<1> QED BY <1>5, <1>6

LEMMA EntryBacked ==
    ASSUME NEW d, NEW q \in Documents!Questions, NEW id \in Documents!Ids, Agreeing(d),
           NEW n, n = Documents!After(d, q, id), q.op \in {"entry", "void", "resolve"}
    PROVE  EntriesBacked(n)
<1>0. /\ Backed(d.accounts, d.adjustments) /\ EntryShape(d.adjustments) /\ Unmade(d.accounts)
      /\ Books(d) /\ Desks \subseteq DOMAIN d /\ n.accounts = d.accounts
  <2>1. EntriesBacked(d) /\ Books(d) /\ Desks \subseteq DOMAIN d
    BY DEF Agreeing
  <2>2. Backed(d.accounts, d.adjustments) /\ EntryShape(d.adjustments) /\ Unmade(d.accounts)
    BY <2>1, EntriesBackedParts
  <2>3. n.accounts = d.accounts
    BY <2>1, TablesLeft
  <2> QED BY <2>1, <2>2, <2>3
<1>1. CASE q.op = "void"
  <2>1. q.row \in Documents!Ids
    BY <1>1 DEF Documents!Questions, Documents!PurchaseOps
  <2>2. PICK a : a = [d.adjustments[q.row] EXCEPT !.voided = TRUE]
    OBVIOUS
  <2>3. n.adjustments = [d.adjustments EXCEPT ![q.row] = a]
    BY <1>0, <1>1, <2>1, <2>2 DEF Documents!After, Documents!AfterVoid, Documents!PurchaseOps, Books, Desks
  <2>4. d.adjustments[q.row] = [c \in EntryColumns |-> d.adjustments[q.row][c]]
        /\ d.adjustments[q.row].account \in Documents!Ids \cup {Documents!NoId}
    BY <1>0, <2>1 DEF EntryShape
  <2>5. a.voided = TRUE /\ a.account = d.adjustments[q.row].account /\ a = [c \in EntryColumns |-> a[c]]
    BY <2>2, <2>4 DEF EntryColumns
  <2>6. ~Counted(a)
    BY <2>5 DEF Counted
  <2> QED BY <1>0, <2>1, <2>3, <2>4, <2>5, <2>6, NewEntryBacked, EntriesBackedParts
<1>2. CASE q.op \in {"entry", "resolve"}
  <2>1. PICK a : a = Documents!Entry(q.arg, q.amount, Documents!NoId)
    OBVIOUS
  <2>2. n.adjustments = [d.adjustments EXCEPT ![id] = a]
    BY <1>0, <1>2, <2>1 DEF Documents!After, Documents!AfterEntry, Documents!AfterResolve, Documents!PurchaseOps, Books, Desks
  <2>3. a.account = Documents!NoId /\ a = [c \in EntryColumns |-> a[c]]
    BY <2>1 DEF Documents!Entry, EntryColumns
  <2>4. ~Counted(a)
    BY <2>3 DEF Counted
  <2> QED BY <1>0, <2>2, <2>3, <2>4, NewEntryBacked, EntriesBackedParts
<1> QED BY <1>1, <1>2

LEMMA UpdateBacked ==
    ASSUME NEW d, NEW q \in Documents!Questions, NEW id \in Documents!Ids, Agreeing(d), Documents!Can(d, q),
           NEW n, n = Documents!After(d, q, id), q.op = "update"
    PROVE  EntriesBacked(n)
<1>0. /\ Backed(d.accounts, d.adjustments) /\ EntryShape(d.adjustments) /\ Unmade(d.accounts)
      /\ Books(d) /\ Desks \subseteq DOMAIN d
  BY EntriesBackedParts DEF Agreeing
<1>1. q.row \in Documents!Ids
  BY DEF Documents!Questions, Documents!PurchaseOps
<1>2. d.accounts[q.row].status = "pendente" /\ d.accounts[q.row].origin # "none"
  BY <1>0, <1>1 DEF Documents!Can, Documents!CanUpdate, Documents!PurchaseOps, Unmade
<1>3. PICK yes : yes = (q.arg = "discount")
  OBVIOUS
<1>4. n = Documents!AfterUpdate(d, q, id)
  BY DEF Documents!After, Documents!PurchaseOps
<1>5. /\ n.accounts = [d.accounts EXCEPT ![q.row].discount = yes, ![q.row].amount = q.amount]
      /\ n.adjustments = Documents!UpdatedEntries(d, q, id)
  BY <1>0, <1>3, <1>4 DEF Documents!AfterUpdate, Books, Desks
<1>6. /\ \A k \in Documents!Ids \ {q.row} : n.accounts[k] = d.accounts[k]
      /\ n.accounts[q.row].origin = d.accounts[q.row].origin
      /\ n.accounts[q.row].status = "pendente"
      /\ n.accounts[q.row].amount = q.amount
      /\ n.accounts[q.row].discount = yes
  BY <1>0, <1>1, <1>2, <1>5 DEF Books, AccountColumns
<1>7. Unmade(n.accounts)
  BY <1>0, <1>2, <1>6 DEF Unmade
\* The entries of other accounts stay backed as they are.
<1>8. ASSUME NEW j \in Documents!Ids, Counted(d.adjustments[j]), d.adjustments[j].account # q.row
      PROVE  BackedBy(d.adjustments[j], n.accounts[d.adjustments[j].account])
  <2>1. PICK k : k = d.adjustments[j].account
    OBVIOUS
  <2>2. k \in Documents!Ids /\ BackedBy(d.adjustments[j], d.accounts[k])
    BY <1>0, <1>8, <2>1 DEF Backed, EntryShape, Counted
  <2> QED BY <1>6, <1>8, <2>1, <2>2
<1>9. q.arg = "discount" => \A a : a.amount = q.amount => BackedBy(a, n.accounts[q.row])
  <2>1. ASSUME q.arg = "discount" PROVE n.accounts[q.row].discount
    <3>1. yes
      BY Zenon, <1>3, <2>1
    <3> QED BY <1>6, <3>1
  <2> QED BY <1>6, <2>1 DEF BackedBy
<1>10. CASE q.arg = "discount" /\ Documents!EntryOf(d, q.row) = {}
  <2>1. PICK a : a = Documents!Entry("deduction", q.amount, q.row)
    OBVIOUS
  <2>2. n.adjustments = [d.adjustments EXCEPT ![id] = a]
    BY <1>5, <1>10, <2>1 DEF Documents!UpdatedEntries
  <2>3. a.account = q.row /\ a.amount = q.amount /\ a = [c \in EntryColumns |-> a[c]]
    BY <2>1 DEF Documents!Entry, EntryColumns
  <2>4. Backed(n.accounts, d.adjustments)
    BY <1>8, <1>10 DEF Backed, Documents!EntryOf
  <2>5. BackedBy(a, n.accounts[a.account])
    BY <1>9, <1>10, <2>3
  <2>6. Backed(n.accounts, n.adjustments) /\ EntryShape(n.adjustments)
    BY <1>0, <1>1, <2>2, <2>3, <2>4, <2>5, NewEntryBacked
  <2> QED BY <1>7, <2>6, EntriesBackedParts
<1>11. CASE q.arg = "discount" /\ Documents!EntryOf(d, q.row) # {}
  <2>1. n.adjustments = [j \in Documents!Ids |-> IF j \in Documents!EntryOf(d, q.row)
                             THEN [d.adjustments[j] EXCEPT !.amount = q.amount] ELSE d.adjustments[j]]
    BY <1>5, <1>11 DEF Documents!UpdatedEntries
  <2>2. n.adjustments = [j \in Documents!Ids |-> n.adjustments[j]]
    BY <2>1
  <2>3. ASSUME NEW j \in Documents!Ids
        PROVE  /\ n.adjustments[j] = [c \in EntryColumns |-> n.adjustments[j][c]]
               /\ n.adjustments[j].account \in Documents!Ids \cup {Documents!NoId}
               /\ Counted(n.adjustments[j]) => BackedBy(n.adjustments[j], n.accounts[n.adjustments[j].account])
    <3>0. d.adjustments[j] = [c \in EntryColumns |-> d.adjustments[j][c]]
          /\ d.adjustments[j].account \in Documents!Ids \cup {Documents!NoId}
      BY <1>0 DEF EntryShape
    <3>1. CASE d.adjustments[j].account = q.row
      <4>1. n.adjustments[j] = [d.adjustments[j] EXCEPT !.amount = q.amount]
        BY <2>1, <3>1 DEF Documents!EntryOf
      <4>2. /\ n.adjustments[j] = [c \in EntryColumns |-> n.adjustments[j][c]]
            /\ n.adjustments[j].account = q.row /\ n.adjustments[j].amount = q.amount
        BY <3>0, <3>1, <4>1 DEF EntryColumns
      <4> QED BY <1>1, <1>9, <1>11, <4>2
    <3>2. CASE d.adjustments[j].account # q.row
      <4>1. n.adjustments[j] = d.adjustments[j]
        BY <2>1, <3>2 DEF Documents!EntryOf
      <4> QED BY <1>8, <3>0, <3>2, <4>1
    <3> QED BY <3>1, <3>2
  <2> QED BY <1>7, <2>2, <2>3, EntriesBackedParts DEF EntryShape, Backed
<1>12. CASE q.arg # "discount"
  <2>1. CASE d.accounts[q.row].discount
    <3>1. n.adjustments = Documents!Voided(d, q.row)
      BY <1>5, <1>12, <2>1 DEF Documents!UpdatedEntries
    <3>2. /\ EntryShape(n.adjustments)
          /\ \A j \in Documents!Ids : Counted(n.adjustments[j]) =>
                n.adjustments[j] = d.adjustments[j] /\ d.adjustments[j].account # q.row
      BY <1>0, <1>1, <3>1, VoidedEntries
    <3>3. Backed(n.accounts, n.adjustments)
      BY <1>8, <3>2 DEF Backed
    <3> QED BY <1>7, <3>2, <3>3, EntriesBackedParts
  <2>2. CASE ~d.accounts[q.row].discount
    <3>1. n.adjustments = d.adjustments
      BY <1>5, <1>12, <2>2 DEF Documents!UpdatedEntries
    <3>2. \A j \in Documents!Ids : Counted(d.adjustments[j]) => d.adjustments[j].account # q.row
      BY <1>0, <2>2 DEF Backed, BackedBy
    <3>3. Backed(n.accounts, n.adjustments)
      BY <1>8, <3>1, <3>2 DEF Backed
    <3> QED BY <1>0, <1>7, <3>1, <3>3, EntriesBackedParts
  <2> QED BY <2>1, <2>2
<1> QED BY <1>10, <1>11, <1>12

\* One operation after another keeps the books.
LEMMA AgreeingStep ==
    ASSUME NEW d, NEW q \in Documents!Questions, NEW id \in Documents!Ids, Agreeing(d),
           Origin(d, id) = "none", d.movements[id] = 0, Documents!Can(d, q), NEW n, n = Documents!After(d, q, id)
    PROVE  Agreeing(n) /\ \A i \in Documents!Ids \ {id} : n.movements[i] = d.movements[i]
<1>1. EntriesBacked(n)
  <2>0. q.op \in Documents!Ops
    BY DEF Documents!Questions, Documents!Ops, Documents!PurchaseOps
  <2>1. CASE q.op \in {"approve", "payable", "accept", "account"}
    BY <2>1, InsertBacked
  <2>2. CASE q.op \in {"settle", "invoice", "cancel"}
    BY <2>2, SettleBacked
  <2>3. CASE q.op \in {"entry", "void", "resolve"}
    BY <2>3, EntryBacked
  <2>4. CASE q.op = "update"
    BY <2>4, UpdateBacked
  <2>5. CASE q.op \in Documents!PurchaseOps \cup {"move", "release", "contest"}
    <3>1. n.accounts = d.accounts /\ n.adjustments = d.adjustments
      BY <2>5, TablesLeft DEF Agreeing, Documents!PurchaseOps
    <3> QED BY <3>1, EntriesBackedParts DEF Agreeing
  <2> QED BY <2>0, <2>1, <2>2, <2>3, <2>4, <2>5 DEF Documents!Ops, Documents!PurchaseOps
<1>2. Books(n) /\ Desks \subseteq DOMAIN n
  BY AfterEffect, TablesLeft DEF Effect, Agreeing
<1> QED BY <1>1, <1>2, StockedStep, PurchaseKeptStep DEF Agreeing

\* As long as no commit was over another, every commit was of one operation on what
\* was in the tables; and the row a request inserts is one that nobody has moved.
Untouched ==
    /\ \A i \in Documents!Ids : i > made => db.movements[i] = 0
    /\ \A s \in Slots : \A r \in request[s] : db.movements[r.id] = 0

BooksSound == DocumentsSound /\ (~stale => Agreeing(db) /\ Untouched)

LEMMA BooksSoundInit == Documents!Init => BooksSound
<1> SUFFICES ASSUME Documents!Init PROVE Agreeing(db) /\ Untouched
  BY DocumentsSoundInit DEF BooksSound
<1>1. /\ db.quantity = 1 /\ db.movements = [i \in Documents!Ids |-> 0]
      /\ db.purchase = [status |-> "none", account |-> Documents!NoId]
      /\ db.accounts = [i \in Documents!Ids |-> Documents!NoAccount]
      /\ db.adjustments = [i \in Documents!Ids |-> Documents!NoAdjustment]
      /\ Desks \subseteq DOMAIN db /\ request = [s \in Slots |-> {}]
  BY DEF Documents!Init, Desks
<1>2. Books(db)
  BY DocumentsSoundInit DEF DocumentsSound
<1>3. Stocked(db)
  <2>1. IsFiniteSet(Documents!Ids)
    BY DocumentsAssumption, FS_Interval DEF Documents!Ids
  <2>2. Total(db.movements, Documents!Ids) = 0
    BY <1>1, <2>1, TotalZero
  <2> QED BY <1>1, <2>2 DEF Stocked
<1>4. PurchaseKept(db)
  BY <1>1 DEF PurchaseKept, Purchased, Origin, Bought, Documents!NoAccount
<1>5. EntriesBacked(db)
  <2>1. \A j \in Documents!Ids : db.adjustments[j] = Documents!NoAdjustment /\ db.accounts[j] = Documents!NoAccount
    BY <1>1
  <2>2. db.adjustments = [j \in Documents!Ids |-> db.adjustments[j]]
    BY <1>1
  <2>3. /\ Documents!NoAdjustment = [c \in EntryColumns |-> Documents!NoAdjustment[c]]
        /\ Documents!NoAdjustment.account = Documents!NoId /\ Documents!NoAdjustment.kind = "none"
    BY DEF EntryColumns, Documents!NoAdjustment
  <2>4. ~Documents!NoAccount.discount /\ Documents!NoAccount.status = "none"
    BY DEF Documents!NoAccount
  <2> QED BY <2>1, <2>2, <2>3, <2>4 DEF EntriesBacked, Counted
<1>6. Untouched
  BY <1>1 DEF Untouched
<1> QED BY <1>1, <1>2, <1>3, <1>4, <1>5, <1>6 DEF Agreeing

LEMMA BooksBegin ==
    ASSUME BooksSound, NEW s \in Slots, NEW q \in Documents!Questions, Documents!Begin(s, q)
    PROVE  BooksSound'
<1>1. DocumentsSound'
  BY BeginSound DEF BooksSound
<1>2. ASSUME ~stale' PROVE Agreeing(db') /\ Untouched'
  <2>0. PICK new : new = [ask |-> q, id |-> made + 1, read |-> db]
    OBVIOUS
  <2>1. /\ made' = made + 1 /\ request' = [request EXCEPT ![s] = {new}] /\ db' = db /\ stale' = stale
        /\ made < MaxDocumentRequests /\ made \in 0..MaxDocumentRequests
    BY <2>0 DEF Documents!Begin, BooksSound, DocumentsSound
  <2>2. Agreeing(db) /\ Untouched
    BY <1>2, <2>1 DEF BooksSound
  <2>3. new.id = made + 1 /\ made + 1 \in Documents!Ids /\ made + 1 > made
    BY <2>0, <2>1, DocumentsAssumption DEF Documents!Ids
  <2>4. db.movements[new.id] = 0
    BY <2>2, <2>3 DEF Untouched
  <2>5. /\ request = [t \in Slots |-> request[t]] /\ request'[s] = {new}
        /\ \A t \in Slots \ {s} : request'[t] = request[t]
    BY <2>1 DEF BooksSound, DocumentsSound
  <2>6. \A t \in Slots : \A r \in request'[t] : db.movements[r.id] = 0
    BY <2>2, <2>4, <2>5 DEF Untouched
  <2>7. \A i \in Documents!Ids : i > made' => db.movements[i] = 0
    BY <2>1, <2>2 DEF Untouched, Documents!Ids
  <2> QED BY <2>1, <2>2, <2>6, <2>7 DEF Untouched
<1> QED BY <1>1, <1>2 DEF BooksSound

LEMMA BooksCommit ==
    ASSUME BooksSound, NEW s \in Slots, Documents!Commit(s)
    PROVE  BooksSound'
<1>1. DocumentsSound'
  BY CommitSound DEF BooksSound
<1>2. ASSUME ~stale' PROVE Agreeing(db') /\ Untouched'
  <2>1. PICK r \in request[s] :
            stale' = (stale \/ db' # IF Documents!Can(db, r.ask) THEN Documents!After(db, r.ask, r.id) ELSE db)
    BY DEF Documents!Commit
  <2>2. ~stale /\ db' = IF Documents!Can(db, r.ask) THEN Documents!After(db, r.ask, r.id) ELSE db
    BY <1>2, <2>1
  <2>3. Agreeing(db) /\ Untouched /\ DocumentsSound
    BY <2>2 DEF BooksSound
  <2>4. Underway(r) /\ made' = made /\ request' = [request EXCEPT ![s] = {}]
    BY <2>3 DEF DocumentsSound, Documents!Commit
  <2>5. r.ask \in Documents!Questions /\ r.id \in Documents!Ids /\ r.id \in 1..made /\ made \in Nat
        /\ Origin(db, r.id) = "none" /\ db.movements[r.id] = 0
    BY <2>3, <2>4, DocumentsAssumption DEF Underway, Untouched, Documents!Ids, DocumentsSound
  <2>6. Agreeing(db') /\ \A i \in Documents!Ids \ {r.id} : db'.movements[i] = db.movements[i]
    <3>1. CASE Documents!Can(db, r.ask)
      BY <2>2, <2>3, <2>5, <3>1, AgreeingStep
    <3>2. CASE ~Documents!Can(db, r.ask)
      BY <2>2, <2>3, <3>2
    <3> QED BY <3>1, <3>2
  <2>7. \A i \in Documents!Ids : i > made' => db'.movements[i] = 0
    BY <2>3, <2>4, <2>5, <2>6 DEF Untouched, Documents!Ids
  <2>8. ASSUME NEW t \in Slots, NEW x \in request'[t] PROVE db'.movements[x.id] = 0
    <3>1. t # s /\ x \in request[t]
      BY <2>3, <2>4, <2>8 DEF DocumentsSound
    <3>2. x.id # r.id /\ x.id \in Documents!Ids
      BY <2>3, <3>1, DocumentsAssumption DEF DocumentsSound, Underway, Documents!Ids
    <3> QED BY <2>3, <2>6, <3>1, <3>2 DEF Untouched
  <2> QED BY <2>6, <2>7, <2>8 DEF Untouched
<1> QED BY <1>1, <1>2 DEF BooksSound

LEMMA BooksSoundStep == BooksSound /\ [Documents!Next]_documentVars => BooksSound'
<1> SUFFICES ASSUME BooksSound, [Documents!Next]_documentVars PROVE BooksSound'
  OBVIOUS
<1>1. CASE UNCHANGED documentVars
  <2>1. DocumentsSound'
    BY <1>1, DocumentsSoundStep DEF BooksSound
  <2>2. db' = db /\ request' = request /\ made' = made /\ stale' = stale
    BY <1>1 DEF documentVars
  <2> QED BY <2>1, <2>2 DEF BooksSound, Untouched
<1>2. CASE Documents!Next
  BY <1>2, BooksBegin, BooksCommit DEF Documents!Next
<1> QED BY <1>1, <1>2

\* The quantity of the part is the sum of its movements, an approved purchase has
\* its one account, and a counted deduction has its discount behind it, as long as
\* no request has committed over another.
THEOREM BooksAgreeAlways == Documents!Spec => []BooksAgree
<1>1. BooksSound => BooksAgree
  <2> SUFFICES ASSUME BooksSound, ~stale
               PROVE  /\ db.quantity = 1 + Documents!MapThenSumSet(LAMBDA i : db.movements[i], Documents!Ids)
                      /\ {i \in Documents!Ids : db.accounts[i].origin = "purchase"}
                           = IF db.purchase.status \in {"aprovada", "comprada", "recebida"}
                             THEN {db.purchase.account} ELSE {}
                      /\ \A j \in Documents!Entries(db) : db.adjustments[j].account # Documents!NoId =>
                            /\ db.accounts[db.adjustments[j].account].discount
                            /\ db.accounts[db.adjustments[j].account].status # "cancelada"
                            /\ db.accounts[db.adjustments[j].account].amount = db.adjustments[j].amount
    BY DEF BooksAgree, Documents!BooksAgree
  <2>1. Stocked(db) /\ PurchaseKept(db) /\ EntriesBacked(db)
    BY DEF BooksSound, Agreeing
  <2>2. db.quantity = 1 + Documents!MapThenSumSet(LAMBDA i : db.movements[i], Documents!Ids)
    <3>1. PICK f : f = db.movements
      OBVIOUS
    <3>2. Documents!MapThenSumSet(LAMBDA i : f[i], Documents!Ids) = Total(f, Documents!Ids)
      BY FoldTotal
    <3> QED BY <2>1, <3>1, <3>2 DEF Stocked
  <2>3. {i \in Documents!Ids : db.accounts[i].origin = "purchase"}
          = IF db.purchase.status \in {"aprovada", "comprada", "recebida"} THEN {db.purchase.account} ELSE {}
    BY <2>1 DEF PurchaseKept, Purchased, Origin, Bought
  <2>4. \A j \in Documents!Entries(db) : db.adjustments[j].account # Documents!NoId =>
            /\ db.accounts[db.adjustments[j].account].discount
            /\ db.accounts[db.adjustments[j].account].status # "cancelada"
            /\ db.accounts[db.adjustments[j].account].amount = db.adjustments[j].amount
    BY <2>1 DEF EntriesBacked, Counted, BackedBy, Documents!Entries
  <2> QED BY <2>2, <2>3, <2>4
<1>2. Documents!Spec => []BooksSound
  BY BooksSoundInit, BooksSoundStep, PTL DEF Documents!Spec, documentVars, Documents!vars
<1> QED BY <1>1, <1>2, PTL

-----------------------------------------------------------------------------
(***************************************************************************)
(* DatabaseBootstrap.  BootstrapSound for any number of processes, releases, *)
(* revenues, deaths and edits.  What a bootstrap has read stays true enough   *)
(* until its commit: the lock keeps other bootstraps out, and the             *)
(* synchronisation never writes a freight without its receivable.            *)
(***************************************************************************)
Process == [at: Stages, release: Releases \cup {"none"}, read: BootRows \cup {NotRead}]
Working == {"columns", "reading", "writing", "recording", "unlocking"}

LockHeld == \A p \in Processes : process[p].at \in Working => lock = {p}

AllBilled == \A v \in Trips : rows.freight[v] # 0 => rows.receivable[v] # 0

PreparedBy(p) ==
    /\ process[p].at # "down" => process[p].release \in Releases
    /\ process[p].at \in {"reading", "writing", "recording", "unlocking", "serving"} => columns
    /\ process[p].at \in {"unlocking", "serving"} => process[p].release \in applied
    /\ process[p].at = "recording" => AllBilled
Prepared ==
    /\ applied # {} => columns /\ AllBilled
    /\ \A p \in Processes : PreparedBy(p)

Seeds == rows.default <= 1 /\ seeded <= rows.default + renamed

\* A receivable never goes, and a freight only changes together with it.
StillTrue(read) ==
    /\ rows.default <= read.default
    /\ \A v \in Trips : rows.receivable[v] = 0 => rows.freight[v] = read.freight[v]
    /\ \A v \in Trips : read.receivable[v] # 0 => rows.receivable[v] # 0
ReadsSound ==
    \A p \in Processes : process[p].at = "writing" => process[p].read \in BootRows /\ StillTrue(process[p].read)

UnpaidFollow == \A v \in Trips \ rows.paid : rows.receivable[v] # 0 => rows.receivable[v] = rows.freight[v]
SyncSound ==
    sync # NoSync =>
        /\ sync.account # "absent" => rows.receivable[sync.trip] # 0
        /\ sync.account = "paid" => sync.trip \in rows.paid

BootInv ==
    /\ BootTypeOK /\ LockHeld /\ Prepared /\ Seeds /\ ReadsSound
    /\ UnpaidFollow /\ SyncSound /\ LegacyOnOffer

LEMMA BootInvInit == BootInit => BootInv
<1> SUFFICES ASSUME BootInit PROVE BootInv
  OBVIOUS
<1>1. /\ rows \in BootRows
      /\ rows.default \in {0, 1} /\ rows.receivable \in [Trips -> {0}] /\ rows.paid = {}
      /\ rows.legacy = "given" => rows.profile = "active"
  BY DEF BootInit, BootRows, Amounts
<1>2. \A p \in Processes : process[p] = Down
  BY DEF BootInit
<1>3. Down \in Process
  BY DEF Down, Process, Stages
<1>4. BootTypeOK
  <2>1. process \in [Processes -> Process]
    BY <1>3 DEF BootInit
  <2>2. faults \in 0..MaxFaults /\ edits \in 0..MaxEdits
    BY BoundsAssumption DEF BootInit
  <2>3. applied \subseteq Releases /\ columns \in BOOLEAN /\ lock \subseteq Processes /\ sync = NoSync
        /\ seeded \in Nat /\ renamed \in Nat
    BY DEF BootInit
  <2> QED
    BY <1>1, <2>1, <2>2, <2>3 DEF BootTypeOK, Process
<1>5. LockHeld /\ Prepared /\ ReadsSound
  BY <1>2 DEF BootInit, LockHeld, Prepared, PreparedBy, ReadsSound, Working, Down
<1>6. Seeds
  BY <1>1 DEF BootInit, Seeds
<1>7. UnpaidFollow /\ SyncSound /\ LegacyOnOffer
  BY <1>1 DEF BootInit, UnpaidFollow, SyncSound, LegacyOnOffer
<1> QED
  BY <1>4, <1>5, <1>6, <1>7 DEF BootInv

\* A process moves on: the others stay where they are.
LEMMA Moving ==
    ASSUME BootTypeOK, NEW p \in Processes, NEW stage \in Stages, NEW release \in Releases \cup {"none"},
           NEW read \in BootRows \cup {NotRead}, Moves(p, stage, release, read)
    PROVE  /\ process' \in [Processes -> Process]
           /\ process'[p] = [at |-> stage, release |-> release, read |-> read]
           /\ \A q \in Processes : q # p => process'[q] = process[q]
<1>1. [at |-> stage, release |-> release, read |-> read] \in Process
  BY DEF Process
<1>2. process \in [Processes -> Process]
  BY DEF BootTypeOK, Process
<1> QED
  BY <1>1, <1>2 DEF Moves

LEMMA Going ==
    ASSUME BootTypeOK, NEW p \in Processes, NEW stage \in Stages, Goes(p, stage)
    PROVE  /\ process' \in [Processes -> Process]
           /\ process'[p].at = stage /\ process'[p].release = process[p].release
           /\ \A q \in Processes : q # p => process'[q] = process[q]
<1>1. process[p].release \in Releases \cup {"none"}
  BY DEF BootTypeOK
<1>2. Moves(p, stage, process[p].release, NotRead)
  BY DEF Goes
<1>3. /\ process' \in [Processes -> Process]
      /\ process'[p] = [at |-> stage, release |-> process[p].release, read |-> NotRead]
      /\ \A q \in Processes : q # p => process'[q] = process[q]
  BY <1>1, <1>2, Moving
<1> QED
  BY <1>3

\* A process dies or does not come up: it leaves the lock.
LEMMA GoingDown ==
    ASSUME BootTypeOK, NEW p \in Processes, process' = [process EXCEPT ![p] = Down]
    PROVE  /\ process' \in [Processes -> Process]
           /\ process'[p].at = "down"
           /\ \A q \in Processes : q # p => process'[q] = process[q]
<1>1. Down \in Process /\ Down.at = "down"
  BY DEF Process, Down, Stages
<1> QED
  BY <1>1 DEF BootTypeOK, Process

\* What holds when a process takes a step that writes no row.
LEMMA RowsKept ==
    ASSUME BootInv, NEW p \in Processes, NEW stage \in Stages, stage # "writing",
           process' \in [Processes -> Process], process'[p].at = stage,
           \A q \in Processes : q # p => process'[q] = process[q],
           UNCHANGED <<rows, sync, seeded, renamed, edits>>,
           applied' \subseteq Releases, applied \subseteq applied', columns' \in BOOLEAN, columns => columns',
           faults' \in 0..MaxFaults,
           lock' \subseteq Processes, stage \in Working => lock' = {p},
           \A q \in Processes : q # p /\ process[q].at \in Working => lock' = {q},
           applied' # {} => columns' /\ AllBilled,
           stage \in {"reading", "writing", "recording", "unlocking", "serving"} => columns',
           stage # "down" => process'[p].release \in Releases,
           stage \in {"unlocking", "serving"} => process'[p].release \in applied',
           stage = "recording" => AllBilled
    PROVE  BootInv'
<1>1. BootTypeOK'
  BY DEF BootInv, BootTypeOK, Process, BootRows
<1>2. LockHeld'
  BY DEF BootInv, LockHeld
<1>3. AllBilled' = AllBilled
  BY DEF AllBilled
<1>4. Prepared'
  <2>1. ASSUME NEW q \in Processes, q # p PROVE PreparedBy(q)'
    BY <2>1, <1>3 DEF BootInv, Prepared, PreparedBy
  <2>2. PreparedBy(p)'
    BY <1>3 DEF PreparedBy
  <2> QED
    BY <2>1, <2>2, <1>3 DEF Prepared
<1>5. ReadsSound'
  BY DEF BootInv, ReadsSound, StillTrue
<1>6. Seeds' /\ UnpaidFollow' /\ SyncSound' /\ LegacyOnOffer'
  BY DEF BootInv, Seeds, UnpaidFollow, SyncSound, LegacyOnOffer
<1> QED
  BY <1>1, <1>2, <1>4, <1>5, <1>6 DEF BootInv

LEMMA ProcessSteps ==
    ASSUME BootInv, NEW p \in Processes,
           \/ \E r \in Releases : StartProcess(p, r)
           \/ Acquire(p) \/ AddMissingColumns(p) \/ FailRows(p) \/ RecordVersion(p) \/ Unlock(p)
           \/ ProcessDies(p)
    PROVE  BootInv'
<1> USE DEF BootInv
<1>0. /\ BootTypeOK /\ process[p] \in Process /\ lock \subseteq Processes
      /\ applied \subseteq Releases /\ columns \in BOOLEAN /\ faults \in 0..MaxFaults
      /\ \A q \in Processes : process[q].at \in Working => lock = {q}
      /\ PreparedBy(p) /\ (applied # {} => columns /\ AllBilled)
  BY DEF BootTypeOK, Process, LockHeld, Prepared
<1>1. ASSUME NEW r \in Releases, StartProcess(p, r) PROVE BootInv'
  <2>1. Moves(p, "waiting", r, NotRead) /\ "waiting" \in Stages
    BY <1>1 DEF StartProcess, Stages
  <2>2. /\ process' \in [Processes -> Process]
        /\ process'[p] = [at |-> "waiting", release |-> r, read |-> NotRead]
        /\ \A q \in Processes : q # p => process'[q] = process[q]
    BY <1>0, <2>1, Moving
  <2>3. process' \in [Processes -> Process] /\ process'[p].at = "waiting"
        /\ process'[p].release \in Releases
        /\ \A q \in Processes : q # p => process'[q] = process[q]
    BY <2>2
  <2> QED
    BY <1>0, <1>1, <2>3, RowsKept DEF StartProcess, Stages, Working
<1>2. CASE Acquire(p)
  <2> DEFINE stage == IF process[p].release \in applied THEN "unlocking" ELSE "columns"
  <2>1. stage \in Stages /\ Goes(p, stage) /\ stage \in {"unlocking", "columns"}
    BY <1>2 DEF Acquire, Stages
  <2>6. process[p].release \in Releases
    BY <1>0, <1>2 DEF Acquire, At, PreparedBy
  <2>2. lock = {} /\ lock' = {p} /\ UNCHANGED <<applied, columns, rows, sync, seeded, renamed, faults, edits>>
    BY <1>2 DEF Acquire, LockFree
  <2>3. /\ process' \in [Processes -> Process]
        /\ process'[p].at = stage /\ process'[p].release = process[p].release
        /\ \A q \in Processes : q # p => process'[q] = process[q]
    BY <1>0, <2>1, Going
  <2>4. \A q \in Processes : process[q].at \notin Working
    BY <1>0, <2>2
  <2>5. stage = "unlocking" => process[p].release \in applied
    OBVIOUS
  <2> HIDE DEF stage
  <2> QED
    BY <1>0, <2>1, <2>2, <2>3, <2>4, <2>5, <2>6, RowsKept
<1>3. CASE AddMissingColumns(p)
  <2>1. Goes(p, "reading") /\ "reading" \in Stages /\ lock = {p} /\ process[p].release \in Releases
    BY <1>0, <1>3 DEF AddMissingColumns, Stages, At, Working, PreparedBy
  <2>2. /\ process' \in [Processes -> Process] /\ process'[p].at = "reading"
        /\ process'[p].release = process[p].release
        /\ \A q \in Processes : q # p => process'[q] = process[q]
    BY <1>0, <2>1, Going
  <2>3. columns' = TRUE /\ UNCHANGED <<applied, rows, lock, sync, seeded, renamed, faults, edits>>
    BY <1>3 DEF AddMissingColumns
  <2> QED
    BY <1>0, <2>1, <2>2, <2>3, RowsKept
<1>4. CASE FailRows(p) \/ ProcessDies(p)
  <2>1. /\ process' = [process EXCEPT ![p] = Down] /\ lock' = lock \ {p} /\ faults' \in 0..MaxFaults
        /\ UNCHANGED <<applied, columns, rows, sync, seeded, renamed, edits>>
    BY <1>0, <1>4, BoundsAssumption DEF FailRows, ProcessDies
  <2>2. /\ process' \in [Processes -> Process] /\ process'[p].at = "down"
        /\ \A q \in Processes : q # p => process'[q] = process[q]
    BY <1>0, <2>1, GoingDown
  <2>3. \A q \in Processes : q # p /\ process[q].at \in Working => lock' = {q}
    BY <1>0, <2>1
  <2>4. "down" \in Stages /\ "down" \notin Working
    BY DEF Stages, Working
  <2> QED
    BY <1>0, <2>1, <2>2, <2>3, <2>4, RowsKept
<1>5. CASE RecordVersion(p)
  <2>1. Goes(p, "unlocking") /\ "unlocking" \in Stages /\ lock = {p} /\ columns /\ AllBilled
    BY <1>0, <1>5 DEF RecordVersion, Stages, At, Working, PreparedBy
  <2>2. /\ process' \in [Processes -> Process] /\ process'[p].at = "unlocking"
        /\ process'[p].release = process[p].release
        /\ \A q \in Processes : q # p => process'[q] = process[q]
    BY <1>0, <2>1, Going
  <2>3. /\ applied' = applied \cup {process[p].release}
        /\ UNCHANGED <<columns, rows, lock, sync, seeded, renamed, faults, edits>>
    BY <1>5 DEF RecordVersion
  <2>4. process[p].release \in Releases
    BY <1>0, <1>5 DEF RecordVersion, At, PreparedBy
  <2> QED
    BY <1>0, <2>1, <2>2, <2>3, <2>4, RowsKept
<1>6. CASE Unlock(p)
  <2>1. Goes(p, "serving") /\ "serving" \in Stages /\ lock = {p} /\ columns /\ process[p].release \in applied
    BY <1>0, <1>6 DEF Unlock, Stages, At, Working, PreparedBy
  <2>2. /\ process' \in [Processes -> Process] /\ process'[p].at = "serving"
        /\ process'[p].release = process[p].release
        /\ \A q \in Processes : q # p => process'[q] = process[q]
    BY <1>0, <2>1, Going
  <2>3. lock' = lock \ {p} /\ UNCHANGED <<applied, columns, rows, sync, seeded, renamed, faults, edits>>
    BY <1>6 DEF Unlock
  <2>4. \A q \in Processes : q # p => process[q].at \notin Working
    BY <1>0, <2>1
  <2>5. "serving" \notin Working
    BY DEF Working
  <2> QED
    BY <1>0, <2>1, <2>2, <2>3, <2>4, <2>5, RowsKept
<1> QED
  BY <1>1, <1>2, <1>3, <1>4, <1>5, <1>6

\* The transaction of the rows begins: what it reads is what there is.
LEMMA ReadingStep == ASSUME BootInv, NEW p \in Processes, ReadRows(p) PROVE BootInv'
<1> USE DEF BootInv
<1>1. process[p] \in Process /\ process[p].at = "reading" /\ rows \in BootRows /\ lock = {p} /\ columns
  BY DEF BootTypeOK, Process, ReadRows, At, LockHeld, Working, Prepared, PreparedBy
<1>2. Moves(p, "writing", process[p].release, rows) /\ "writing" \in Stages
      /\ process[p].release \in Releases \cup {"none"}
  BY <1>1 DEF ReadRows, Stages, Process
<1>3. UNCHANGED <<applied, columns, rows, lock, sync, seeded, renamed, faults, edits>>
  BY DEF ReadRows
<1>4. /\ process' \in [Processes -> Process]
      /\ process'[p] = [at |-> "writing", release |-> process[p].release, read |-> rows]
      /\ \A q \in Processes : q # p => process'[q] = process[q]
  BY <1>1, <1>2, Moving
<1>5. BootTypeOK'
  BY <1>3, <1>4 DEF BootTypeOK, Process, BootRows
<1>6. LockHeld'
  BY <1>1, <1>3, <1>4 DEF LockHeld, Working
<1>7. Prepared'
  <2>1. AllBilled' = AllBilled
    BY <1>3 DEF AllBilled
  <2>2. ASSUME NEW q \in Processes PROVE PreparedBy(q)'
    <3>1. CASE q = p
      BY <1>1, <1>3, <1>4, <3>1 DEF PreparedBy, Prepared
    <3>2. CASE q # p
      BY <1>3, <1>4, <2>1, <3>2 DEF PreparedBy, Prepared
    <3> QED
      BY <3>1, <3>2
  <2> QED
    BY <1>3, <2>1, <2>2 DEF Prepared
<1>8. ReadsSound'
  <2>1. StillTrue(rows)
    BY <1>1 DEF StillTrue, BootRows
  <2>2. ASSUME NEW q \in Processes, NEW read, read = process'[q].read, process'[q].at = "writing"
        PROVE  read \in BootRows /\ StillTrue(read)
    <3>1. CASE q = p
      BY <1>1, <1>4, <2>1, <2>2, <3>1
    <3>2. CASE q # p
      BY <1>4, <2>2, <3>2 DEF ReadsSound
    <3> QED
      BY <3>1, <3>2
  <2>3. ASSUME NEW read PROVE StillTrue(read)' <=> StillTrue(read)
    BY <1>3 DEF StillTrue
  <2> QED
    BY <2>2, <2>3 DEF ReadsSound, StillTrue, BootRows
<1>9. Seeds' /\ UnpaidFollow' /\ SyncSound' /\ LegacyOnOffer'
  BY <1>3 DEF Seeds, UnpaidFollow, SyncSound, LegacyOnOffer
<1> QED
  BY <1>5, <1>6, <1>7, <1>8, <1>9

\* Its commit: the index has kept the synchronisation out of what was missing.
LEMMA CommitStep == ASSUME BootInv, NEW p \in Processes, CommitRows(p) PROVE BootInv'
<1> USE DEF BootInv
<1> PICK read : read = process[p].read
  OBVIOUS
<1>1. /\ process[p] \in Process /\ process[p].at = "writing" /\ rows \in BootRows /\ lock = {p} /\ columns
      /\ read \in BootRows /\ StillTrue(read) /\ process[p].release \in Releases
  BY DEF BootTypeOK, Process, CommitRows, At, LockHeld, Working, Prepared, PreparedBy, ReadsSound
<1>2. /\ Goes(p, "recording") /\ Billable(read) /\ rows' = Seeded(read)
      /\ seeded' = seeded + DefaultBranch(read)
      /\ UNCHANGED <<applied, columns, lock, sync, renamed, faults, edits>>
  BY DEF CommitRows
<1>3. /\ process' \in [Processes -> Process] /\ process'[p].at = "recording"
      /\ process'[p].release = process[p].release
      /\ \A q \in Processes : q # p => process'[q] = process[q]
  BY <1>2, Going DEF Stages
<1>4. rows' = [default |-> rows.default + DefaultBranch(read), profile |-> ProfileAfter(read),
               legacy |-> LegacyAfter(rows), freight |-> rows.freight, receivable |-> BillRevenues(read),
               paid |-> rows.paid, entry |-> PostRevenues(read)]
  BY <1>1, <1>2 DEF Seeded, BootRows
<1>5. BillRevenues(read) \in [Trips -> Amounts] /\ PostRevenues(read) \in [Trips -> Amounts]
  BY <1>1 DEF BillRevenues, PostRevenues, BootRows
<1>6. rows' \in BootRows
  <2>1. ProfileAfter(read) \in {"absent", "active", "inactive"} /\ LegacyAfter(rows) \in {"none", "given", "late"}
    BY DEF ProfileAfter, LegacyAfter
  <2>2. rows.default + DefaultBranch(read) \in Nat
    BY <1>1 DEF DefaultBranch, BootRows
  <2> QED
    BY <1>1, <1>4, <1>5, <2>1, <2>2 DEF BootRows
<1>7. BootTypeOK'
  BY <1>2, <1>3, <1>6 DEF BootTypeOK, Process, DefaultBranch, BootRows
<1>8. LockHeld'
  BY <1>1, <1>2, <1>3 DEF LockHeld, Working
\* What was missing has not been billed since it was read; the rest was never missing.
<1>9. ASSUME NEW v \in Trips
      PROVE  /\ v \in Missing(read) => rows'.receivable[v] = rows.freight[v] /\ rows.receivable[v] = 0
             /\ v \notin Missing(read) => rows'.receivable[v] = rows.receivable[v]
             /\ rows.freight[v] # 0 => rows'.receivable[v] # 0
             /\ rows'.freight = rows.freight /\ rows'.paid = rows.paid
  <2>1. v \in Missing(read) <=> read.freight[v] # 0 /\ read.receivable[v] = 0
    BY DEF Missing
  <2>2. rows'.receivable[v] = IF v \in Missing(read) THEN read.freight[v] ELSE rows.receivable[v]
    BY <1>4 DEF BillRevenues
  <2>3. v \in Missing(read) => rows.receivable[v] = 0
    BY <1>2 DEF Billable
  <2>4. rows.receivable[v] = 0 => rows.freight[v] = read.freight[v]
    BY <1>1 DEF StillTrue
  <2>5. read.receivable[v] # 0 => rows.receivable[v] # 0
    BY <1>1 DEF StillTrue
  <2>6. rows'.freight = rows.freight /\ rows'.paid = rows.paid
    BY <1>4
  <2> QED
    BY <2>1, <2>2, <2>3, <2>4, <2>5, <2>6
<1>10. AllBilled'
  BY <1>9 DEF AllBilled
<1>11. Prepared'
  <2>1. ASSUME NEW q \in Processes PROVE PreparedBy(q)'
    <3>1. CASE q = p
      BY <1>1, <1>2, <1>3, <1>10, <3>1 DEF PreparedBy
    <3>2. CASE q # p
      BY <1>2, <1>3, <1>10, <3>2 DEF PreparedBy, Prepared
    <3> QED
      BY <3>1, <3>2
  <2> QED
    BY <1>1, <1>2, <1>10, <2>1 DEF Prepared
<1>12. ReadsSound'
  BY <1>1, <1>3 DEF ReadsSound, LockHeld, Working
<1>13. Seeds'
  <2>1. rows'.default = rows.default + DefaultBranch(read) /\ rows.default \in Nat /\ read.default \in Nat
    BY <1>1, <1>4 DEF BootRows
  <2>2. rows.default <= read.default /\ rows.default <= 1 /\ seeded <= rows.default + renamed
    BY <1>1 DEF StillTrue, Seeds
  <2> QED
    BY <1>2, <2>1, <2>2 DEF Seeds, DefaultBranch, BootTypeOK
<1>14. UnpaidFollow'
  BY <1>9 DEF UnpaidFollow
<1>15. SyncSound'
  <2>1. ASSUME sync # NoSync PROVE sync.trip \in Trips
    BY <2>1 DEF BootTypeOK
  <2>2. \A v \in Trips : rows.receivable[v] # 0 => rows'.receivable[v] # 0
    BY <1>9
  <2>3. rows'.paid = rows.paid
    BY <1>4
  <2> QED
    BY <1>2, <2>1, <2>2, <2>3 DEF SyncSound
<1>16. LegacyOnOffer'
  BY <1>4 DEF LegacyOnOffer, LegacyAfter
<1> QED
  BY <1>7, <1>8, <1>11, <1>12, <1>13, <1>14, <1>15, <1>16

\* A write by another, with the processes where they are: what a bootstrap has read
\* stays true when no receivable goes and no freight changes without one.
LEMMA EditKept ==
    ASSUME BootInv, UNCHANGED <<applied, columns, process, lock, seeded, faults>>,
           rows' \in BootRows, edits' \in 0..MaxEdits, renamed' \in Nat,
           sync' \in {NoSync} \cup [trip: Trips, amount: Amounts \ {0}, account: {"absent", "due", "paid"}],
           rows'.default <= rows.default,
           \A v \in Trips : rows.receivable[v] # 0 => rows'.receivable[v] # 0,
           \A v \in Trips : rows'.receivable[v] = 0 => rows'.freight[v] = rows.freight[v]
    PROVE  BootTypeOK' /\ LockHeld' /\ Prepared' /\ ReadsSound'
<1> USE DEF BootInv
<1>1. BootTypeOK'
  BY DEF BootTypeOK
<1>2. LockHeld'
  BY DEF LockHeld
<1>3. AllBilled => AllBilled'
  BY DEF AllBilled
<1>4. Prepared'
  BY <1>3 DEF Prepared, PreparedBy
<1>5. ReadsSound'
  <2>1. ASSUME NEW read \in BootRows, StillTrue(read) PROVE StillTrue(read)'
    <3>1. rows.default \in Nat /\ rows'.default \in Nat /\ read.default \in Nat
      BY DEF BootTypeOK, BootRows
    <3>2. rows'.default <= read.default
      BY <2>1, <3>1 DEF StillTrue
    <3>3. \A v \in Trips : rows'.receivable[v] = 0 => rows'.freight[v] = read.freight[v]
      BY <2>1 DEF StillTrue
    <3>4. \A v \in Trips : read.receivable[v] # 0 => rows'.receivable[v] # 0
      BY <2>1 DEF StillTrue
    <3> QED
      BY <3>2, <3>3, <3>4 DEF StillTrue
  <2>2. ASSUME NEW q \in Processes, NEW read, read = process[q].read, process[q].at = "writing"
        PROVE  read \in BootRows /\ StillTrue(read)'
    BY <2>1, <2>2 DEF ReadsSound
  <2>3. process' = process
    OBVIOUS
  <2> QED
    BY <2>2, <2>3 DEF ReadsSound, StillTrue, BootRows
<1> QED
  BY <1>1, <1>2, <1>4, <1>5

LEMMA EditTyped == ASSUME BootInv, Edit PROVE edits' \in 0..MaxEdits
  BY BoundsAssumption DEF BootInv, BootTypeOK, Edit

LEMMA RenameStep == ASSUME BootInv, RenameBranch PROVE BootInv'
<1> USE DEF BootInv
<1>1. rows \in BootRows /\ rows.default > 0 /\ renamed \in Nat /\ seeded \in Nat
  BY DEF BootTypeOK, RenameBranch
<1>2. rows' = [rows EXCEPT !.default = rows.default - 1] /\ renamed' = renamed + 1
      /\ UNCHANGED <<applied, columns, process, lock, sync, seeded, faults>>
  BY DEF RenameBranch
<1>3. rows' \in BootRows /\ rows'.default = rows.default - 1 /\ rows'.receivable = rows.receivable
      /\ rows'.freight = rows.freight /\ rows'.paid = rows.paid
      /\ rows'.legacy = rows.legacy /\ rows'.profile = rows.profile
  BY <1>1, <1>2 DEF BootRows
<1>4. rows.default \in Nat /\ rows'.default <= rows.default
  BY <1>1, <1>3 DEF BootRows
<1>5. edits' \in 0..MaxEdits
  BY EditTyped DEF RenameBranch
<1>6. BootTypeOK' /\ LockHeld' /\ Prepared' /\ ReadsSound'
  BY <1>1, <1>2, <1>3, <1>4, <1>5, EditKept DEF BootTypeOK
<1>7. Seeds'
  BY <1>1, <1>2, <1>3, <1>4 DEF Seeds
<1>8. UnpaidFollow' /\ SyncSound' /\ LegacyOnOffer'
  BY <1>2, <1>3 DEF UnpaidFollow, SyncSound, LegacyOnOffer
<1> QED
  BY <1>6, <1>7, <1>8

LEMMA GiveStep == ASSUME BootInv, GiveLegacyRole PROVE BootInv'
<1> USE DEF BootInv
<1> PICK given \in {"late", "given"} : rows' = [rows EXCEPT !.legacy = given]
  BY DEF GiveLegacyRole
<1>1. rows \in BootRows /\ rows.profile = "active"
      /\ UNCHANGED <<applied, columns, process, lock, sync, seeded, renamed, faults>>
  BY DEF BootTypeOK, GiveLegacyRole
<1>2. rows' \in BootRows /\ rows'.default = rows.default /\ rows'.receivable = rows.receivable
      /\ rows'.freight = rows.freight /\ rows'.paid = rows.paid /\ rows'.profile = rows.profile
  BY <1>1 DEF BootRows
<1>3. rows.default \in Nat
  BY <1>1 DEF BootRows
<1>4. edits' \in 0..MaxEdits
  BY EditTyped DEF GiveLegacyRole
<1>5. BootTypeOK' /\ LockHeld' /\ Prepared' /\ ReadsSound'
  BY <1>1, <1>2, <1>3, <1>4, EditKept DEF BootTypeOK
<1>6. Seeds' /\ UnpaidFollow' /\ SyncSound' /\ LegacyOnOffer'
  BY <1>1, <1>2 DEF Seeds, UnpaidFollow, SyncSound, LegacyOnOffer
<1> QED
  BY <1>5, <1>6

LEMMA SettleStep == ASSUME BootInv, NEW v \in Trips, SettleReceivable(v) PROVE BootInv'
<1> USE DEF BootInv
<1>1. rows \in BootRows /\ rows' = [rows EXCEPT !.paid = rows.paid \cup {v}]
      /\ UNCHANGED <<applied, columns, process, lock, sync, seeded, renamed, faults>>
  BY DEF BootTypeOK, SettleReceivable
<1>2. rows' \in BootRows /\ rows'.default = rows.default /\ rows'.receivable = rows.receivable
      /\ rows'.freight = rows.freight /\ rows'.paid = rows.paid \cup {v}
      /\ rows'.profile = rows.profile /\ rows'.legacy = rows.legacy
  BY <1>1 DEF BootRows
<1>3. rows.default \in Nat
  BY <1>1 DEF BootRows
<1>4. edits' \in 0..MaxEdits
  BY EditTyped DEF SettleReceivable
<1>5. BootTypeOK' /\ LockHeld' /\ Prepared' /\ ReadsSound'
  BY <1>1, <1>2, <1>3, <1>4, EditKept DEF BootTypeOK
<1>6. Seeds' /\ UnpaidFollow' /\ SyncSound' /\ LegacyOnOffer'
  BY <1>1, <1>2 DEF Seeds, UnpaidFollow, SyncSound, LegacyOnOffer
<1> QED
  BY <1>5, <1>6

LEMMA BeginStep ==
    ASSUME BootInv, NEW v \in Trips, NEW amount \in Amounts \ {0}, BeginFreight(v, amount) PROVE BootInv'
<1> USE DEF BootInv
<1>1. rows \in BootRows /\ UNCHANGED <<applied, columns, rows, process, lock, seeded, renamed, faults>>
  BY DEF BootTypeOK, BeginFreight
<1> PICK account \in {"absent", "due", "paid"} :
      /\ sync' = [trip |-> v, amount |-> amount, account |-> account]
      /\ account # "absent" => rows.receivable[v] # 0
      /\ account = "paid" => v \in rows.paid
  BY DEF BeginFreight
<1>2. rows.default \in Nat /\ rows' = rows
  BY <1>1 DEF BootRows
<1>3. edits' \in 0..MaxEdits
  BY EditTyped DEF BeginFreight
<1>4. BootTypeOK' /\ LockHeld' /\ Prepared' /\ ReadsSound'
  BY <1>1, <1>2, <1>3, EditKept DEF BootTypeOK
<1>5. Seeds' /\ UnpaidFollow' /\ LegacyOnOffer'
  BY <1>1 DEF Seeds, UnpaidFollow, LegacyOnOffer
<1>6. SyncSound'
  BY <1>1 DEF SyncSound
<1> QED
  BY <1>4, <1>5, <1>6

\* A run of the synchronisation commits: refused by the index, or freight and
\* receivable together.
LEMMA FreightStep == ASSUME BootInv, CommitFreight PROVE BootInv'
<1> USE DEF BootInv
<1> PICK v, amount, account : v = sync.trip /\ amount = sync.amount /\ account = sync.account
  OBVIOUS
<1>1. /\ rows \in BootRows /\ v \in Trips /\ amount \in Amounts \ {0} /\ account \in {"absent", "due", "paid"}
      /\ account # "absent" => rows.receivable[v] # 0
      /\ account = "paid" => v \in rows.paid
  BY DEF BootTypeOK, CommitFreight, SyncSound
<1>2. UNCHANGED <<applied, columns, process, lock, seeded, renamed, faults, edits>> /\ sync' = NoSync
  BY DEF CommitFreight
<1> PICK billed : billed = Billed(v, amount)
  OBVIOUS
<1>3. /\ billed \in Amounts /\ billed # 0
      /\ billed # amount => account = "paid" /\ billed = rows.receivable[v]
  BY <1>1 DEF Billed, BootRows
<1>4. \/ rows' = rows
      \/ rows' = [rows EXCEPT !.freight = [rows.freight EXCEPT ![v] = amount],
                              !.receivable = [rows.receivable EXCEPT ![v] = billed]]
  BY DEF CommitFreight
<1>5. /\ rows' \in BootRows /\ rows'.default = rows.default /\ rows'.paid = rows.paid
      /\ rows'.profile = rows.profile /\ rows'.legacy = rows.legacy
      /\ \/ rows'.freight = rows.freight /\ rows'.receivable = rows.receivable
         \/ /\ rows'.freight = [rows.freight EXCEPT ![v] = amount]
            /\ rows'.receivable = [rows.receivable EXCEPT ![v] = billed]
  <2>1. CASE rows' = rows
    BY <1>1, <2>1
  <2>2. ASSUME NEW freight \in [Trips -> Amounts], NEW receivable \in [Trips -> Amounts],
               rows' = [rows EXCEPT !.freight = freight, !.receivable = receivable]
        PROVE  /\ rows' \in BootRows /\ rows'.default = rows.default /\ rows'.paid = rows.paid
               /\ rows'.profile = rows.profile /\ rows'.legacy = rows.legacy
               /\ rows'.freight = freight /\ rows'.receivable = receivable
    BY <1>1, <2>2 DEF BootRows
  <2>3. /\ [rows.freight EXCEPT ![v] = amount] \in [Trips -> Amounts]
        /\ [rows.receivable EXCEPT ![v] = billed] \in [Trips -> Amounts]
    BY <1>1, <1>3 DEF BootRows
  <2> QED
    BY <1>4, <2>1, <2>2, <2>3
<1>6. ASSUME NEW u \in Trips
      PROVE  /\ rows.receivable[u] # 0 => rows'.receivable[u] # 0
             /\ rows'.receivable[u] = 0 => rows'.freight[u] = rows.freight[u]
             /\ u \notin rows.paid /\ rows'.receivable[u] # 0 => rows'.receivable[u] = rows'.freight[u]
  <2>1. rows.freight \in [Trips -> Amounts] /\ rows.receivable \in [Trips -> Amounts]
    BY <1>1 DEF BootRows
  <2>2. u \notin rows.paid /\ rows.receivable[u] # 0 => rows.receivable[u] = rows.freight[u]
    BY DEF UnpaidFollow
  <2>3. CASE u = v
    BY <1>1, <1>3, <1>5, <2>1, <2>2, <2>3
  <2>4. CASE u # v
    BY <1>1, <1>5, <2>1, <2>2, <2>4
  <2> QED
    BY <2>3, <2>4
<1>7. rows.default \in Nat /\ edits' \in 0..MaxEdits /\ renamed' \in Nat
  BY <1>1, <1>2 DEF BootTypeOK, BootRows
<1>8. BootTypeOK' /\ LockHeld' /\ Prepared' /\ ReadsSound'
  BY <1>2, <1>5, <1>6, <1>7, EditKept
<1>9. UnpaidFollow'
  BY <1>5, <1>6 DEF UnpaidFollow
<1>10. Seeds' /\ SyncSound' /\ LegacyOnOffer'
  BY <1>2, <1>5 DEF Seeds, SyncSound, LegacyOnOffer
<1> QED
  BY <1>8, <1>9, <1>10

LEMMA BootInvNext == BootInv /\ [BootNext]_bootVars => BootInv'
<1> SUFFICES ASSUME BootInv, [BootNext]_bootVars PROVE BootInv'
  OBVIOUS
<1>1. CASE UNCHANGED bootVars
  BY <1>1 DEF bootVars, BootInv, BootTypeOK, LockHeld, Prepared, PreparedBy, AllBilled, Seeds,
              ReadsSound, StillTrue, UnpaidFollow, SyncSound, LegacyOnOffer
<1>2. ASSUME NEW p \in Processes,
             \/ \E r \in Releases : StartProcess(p, r)
             \/ Acquire(p) \/ AddMissingColumns(p) \/ FailRows(p) \/ RecordVersion(p) \/ Unlock(p)
             \/ ProcessDies(p)
      PROVE  BootInv'
  BY <1>2, ProcessSteps
<1>3. ASSUME NEW p \in Processes, ReadRows(p) PROVE BootInv'
  BY <1>3, ReadingStep
<1>4. ASSUME NEW p \in Processes, CommitRows(p) PROVE BootInv'
  BY <1>4, CommitStep
<1>5. CASE RenameBranch
  BY <1>5, RenameStep
<1>6. CASE GiveLegacyRole
  BY <1>6, GiveStep
<1>7. ASSUME NEW v \in Trips, SettleReceivable(v) PROVE BootInv'
  BY <1>7, SettleStep
<1>8. ASSUME NEW v \in Trips, NEW a \in Amounts \ {0}, BeginFreight(v, a) PROVE BootInv'
  BY <1>8, BeginStep
<1>9. CASE CommitFreight
  BY <1>9, FreightStep
<1> QED
  BY <1>1, <1>2, <1>3, <1>4, <1>5, <1>6, <1>7, <1>8, <1>9 DEF BootNext

LEMMA BootInvSound == BootInv => BootstrapSound
<1> SUFFICES ASSUME BootInv PROVE BootstrapSound
  OBVIOUS
<1>1. ServesPrepared
  BY DEF BootInv, Prepared, PreparedBy, ServesPrepared, Serving, At
<1>2. SeedsOnce
  <2>1. seeded \in Nat /\ renamed \in Nat /\ rows.default \in Nat
    BY DEF BootInv, BootTypeOK, BootRows
  <2> QED
    BY <2>1 DEF BootInv, Seeds, SeedsOnce
<1>3. RevenuesBilled
  BY DEF BootInv, Prepared, AllBilled, UnpaidFollow, RevenuesBilled
<1> QED
  BY <1>1, <1>2, <1>3 DEF BootInv, BootstrapSound

\* The rows, the processes and the synchronisation keep their types.
THEOREM BootTypeCorrect == BootSpec => []BootTypeOK
<1>1. BootSpec => []BootInv
  BY BootInvInit, BootInvNext, PTL DEF BootSpec
<1>2. BootInv => BootTypeOK
  BY DEF BootInv
<1> QED
  BY <1>1, <1>2, PTL

\* Any number of processes of any releases may start, wait for each other, die half
\* way (init_db) and serve while rows are renamed, paid and synchronised: what the
\* bootstrap promises holds.
THEOREM BootstrapSoundAlways == BootSpec => []BootstrapSound
<1>1. BootSpec => []BootInv
  BY BootInvInit, BootInvNext, PTL DEF BootSpec
<1> QED
  BY <1>1, BootInvSound, PTL

=============================================================================
