----------------------------- MODULE PlanProofs -----------------------------
(***************************************************************************)
(* What conversation plans promise, for any number of devices, packages,   *)
(* grants, requests and transactions: PlansSafe.                           *)
(*                                                                         *)
(* It rests on PlanInv: a package a transaction has reserved stays on its  *)
(* shelf and has one holder, and what a plan was made from (the creator's  *)
(* device, the grant, the relationships) held when its transaction read    *)
(* it.  PlansSafe alone is not inductive: it says nothing of what a        *)
(* transaction between its two statements is about to write.               *)
(***************************************************************************)
EXTENDS ConversationPlans, FiniteSetTheorems, TLAPS

-----------------------------------------------------------------------------
(* Plans, their packages and their grants.                                 *)

GrantRecords == [state : {"none", "active", "ended"}, until : Nat]
ShelfRecords == [state : {"none", "available", "revoked", "taken", "used"}, plan : Nat]
RequestRecords == [status : {"pending", "declined"}, grant : Grants, device : CustomerDevices]
PlanRecords == [relationship : Nat, kind : {"create", "accept"}, grant : Grants, creator : Devices,
                packages : SUBSET Packages, expires : Nat, consumed : BOOLEAN, activated : Nat,
                revoked : SUBSET Devices, generations : SUBSET Nat, seen : SUBSET Nat]
PlannerRecords == [kind : {"none", "create", "accept"}, grant : Grants \cup {NoGrant}, request : Nat,
                   creator : Devices \cup {NoGrant}, relationships : SUBSET Nat,
                   packages : SUBSET Packages, now : Nat, revoked : SUBSET Devices,
                   generations : SUBSET Nat]

PlanTypes ==
    /\ planNow \in Nat /\ device \in [Devices -> {"active", "revoked"}]
    /\ staff \in SUBSET StaffDevices /\ grant \in [Grants -> GrantRecords]
    /\ shelf \in [Packages -> ShelfRecords] /\ publishing \in SUBSET Packages
    /\ request \in Seq(RequestRecords) /\ relationship \in Seq(Nat)
    /\ plan \in Seq(PlanRecords) /\ planner \in [Planners -> PlannerRecords]

\* A package is of no plan before it is taken, and is inserted once.
ShelvesKept ==
    /\ \A p \in publishing : shelf[p].state = "none"
    /\ \A p \in Packages : shelf[p].state \in {"none", "available", "revoked"} => shelf[p].plan = 0

\* A package a transaction has locked stays available and is locked by it alone.
ReservationsHold ==
    \A t \in Planners :
      /\ planner[t].kind = "none" => planner[t].packages = {}
      /\ \A p \in planner[t].packages : shelf[p].state = "available"
      /\ \A u \in Planners \ {t} : planner[t].packages \cap planner[u].packages = {}

\* What a transaction read holds until it commits, or bounds what it will insert.
TransactionFounded(t) ==
    LET tx == planner[t]
    IN /\ tx.grant \in Grants /\ tx.creator \in Devices \ tx.revoked
       /\ \A p \in tx.packages : ShelfOf[p] \notin tx.revoked
       /\ grant[tx.grant].state # "none" /\ tx.now < grant[tx.grant].until
       /\ tx.kind = "create" => grant[tx.grant].state = "active"
       /\ tx.relationships \subseteq DOMAIN relationship
       /\ tx.generations # {} => Cardinality(tx.relationships) > 1
TransactionsFounded == \A t \in Planners : planner[t].kind # "none" => TransactionFounded(t)

\* What a plan was made from.
PlanFounded(n) ==
    /\ plan[n].relationship \in DOMAIN relationship
    /\ plan[n].creator \notin plan[n].revoked
    /\ \A p \in plan[n].packages : ShelfOf[p] \notin plan[n].revoked
    /\ grant[plan[n].grant].state # "none"
    /\ plan[n].expires < grant[plan[n].grant].until + PlanTtl
    /\ plan[n].consumed => plan[n].activated < grant[plan[n].grant].until + PlanTtl
    /\ plan[n].generations # {} => Cardinality(plan[n].seen) > 1
PlansFounded == \A n \in DOMAIN plan : PlanFounded(n)

PlanInv ==
    /\ PlanTypes /\ ShelvesKept /\ ReservationsHold /\ TransactionsFounded /\ PlansFounded
    /\ PackageInOnePlan

LEMMA IdlePlanner ==
  NotPlanning \in PlannerRecords /\ NotPlanning.kind = "none" /\ NotPlanning.packages = {}
BY Zenon DEF NotPlanning, PlannerRecords

LEMMA PlanRows ==
  ASSUME PlanTypes, NEW n \in DOMAIN plan
  PROVE  /\ n \in 1..Len(plan) /\ plan[n] \in PlanRecords /\ plan[n].grant \in Grants
         /\ plan[n].packages \subseteq Packages /\ plan[n].expires \in Nat
         /\ plan[n].consumed \in BOOLEAN
<1>1. plan \in Seq(PlanRecords) BY Zenon DEF PlanTypes
<1> HIDE DEF PlanRecords
<1>2. n \in 1..Len(plan) /\ plan[n] \in PlanRecords BY <1>1
<1> QED BY <1>2, Zenon DEF PlanRecords

LEMMA PlanStart == ASSUME PlanInit PROVE PlanInv
<1>1. [state |-> "none", until |-> 0] \in GrantRecords /\ [state |-> "none", plan |-> 0] \in ShelfRecords
  BY Zenon DEF GrantRecords, ShelfRecords
<1>2. PlanTypes BY <1>1, IdlePlanner DEF PlanInit, PlanTypes
<1>3. \A p \in Packages : shelf[p].state = "none" /\ shelf[p].plan = 0 BY Zenon DEF PlanInit
<1>4. \A t \in Planners : planner[t].kind = "none" /\ planner[t].packages = {}
  BY IdlePlanner, Zenon DEF PlanInit
<1>5. DOMAIN plan = {} BY DEF PlanInit
<1> QED BY <1>2, <1>3, <1>4, <1>5, Zenon DEF PlanInit, PlanInv, ShelvesKept, ReservationsHold,
             TransactionsFounded, PlansFounded, PackageInOnePlan

\* Steps that touch neither grants, shelves, relationships, plans nor transactions.
LEMMA PlansUntouched ==
  ASSUME PlanInv, PlanTypes', publishing' \subseteq publishing,
         UNCHANGED <<grant, shelf, relationship, plan, planner>>
  PROVE  PlanInv'
<1>1. ShelvesKept' BY Zenon DEF PlanInv, ShelvesKept
<1>2. ReservationsHold' BY Zenon DEF PlanInv, ReservationsHold
<1>3. TransactionsFounded' BY Zenon DEF PlanInv, TransactionsFounded, TransactionFounded
<1>4. PlansFounded' BY Zenon DEF PlanInv, PlansFounded, PlanFounded
<1>5. PackageInOnePlan' BY DEF PlanInv, PackageInOnePlan
<1> QED BY <1>1, <1>2, <1>3, <1>4, <1>5, Zenon DEF PlanInv

\* A grant appears, or ends while no plan is being created on it.
LEMMA GrantMoved ==
  ASSUME PlanInv, NEW g \in Grants, NEW row \in GrantRecords, row.state # "none",
         grant' = [grant EXCEPT ![g] = row],
         grant[g].state # "none" => row.until = grant[g].until,
         \A t \in Planners : planner[t].kind = "create" => planner[t].grant # g,
         UNCHANGED <<planNow, device, staff, shelf, publishing, request, relationship, plan, planner>>
  PROVE  PlanInv'
<1>1. PlanTypes' BY Zenon DEF PlanInv, PlanTypes
<1>2. grant'[g] = row /\ \A h \in Grants \ {g} : grant'[h] = grant[h]
  BY Zenon DEF PlanInv, PlanTypes
<1>3. \A h \in Grants : grant[h].state # "none" =>
        grant'[h].state # "none" /\ grant'[h].until = grant[h].until
  BY <1>2, Zenon
<1>4. ShelvesKept' BY Zenon DEF PlanInv, ShelvesKept
<1>5. ReservationsHold' BY Zenon DEF PlanInv, ReservationsHold
<1>6. TransactionsFounded'
  <2> SUFFICES ASSUME NEW t \in Planners, planner[t].kind # "none"
               PROVE  TransactionFounded(t)'
    BY Zenon DEF TransactionsFounded
  <2>1. TransactionFounded(t) BY Zenon DEF PlanInv, TransactionsFounded
  <2> QED BY <1>2, <1>3, <2>1 DEF TransactionFounded
<1>7. \A n \in DOMAIN plan : plan[n].grant \in Grants BY PlanRows, Zenon DEF PlanInv
<1>8. PlansFounded'
  <2> SUFFICES ASSUME NEW n \in DOMAIN plan PROVE PlanFounded(n)' BY Zenon DEF PlansFounded
  <2>1. PlanFounded(n) BY Zenon DEF PlanInv, PlansFounded
  <2> QED BY <1>3, <1>7, <2>1, Zenon DEF PlanFounded
<1>9. PackageInOnePlan' BY DEF PlanInv, PackageInOnePlan
<1> QED BY <1>1, <1>4, <1>5, <1>6, <1>8, <1>9, Zenon DEF PlanInv

LEMMA IssueGrantStep == ASSUME PlanInv, NEW g \in Grants, IssueGrant(g) PROVE PlanInv'
<1> DEFINE row == [state |-> "active", until |-> planNow + GrantLease]
<1>1. row \in GrantRecords /\ row.state # "none"
  BY PlanConstants DEF PlanInv, PlanTypes, GrantRecords
<1>2. /\ grant[g].state = "none" /\ grant' = [grant EXCEPT ![g] = row]
      /\ UNCHANGED <<planNow, device, staff, shelf, publishing, request, relationship, plan, planner>>
  BY Zenon DEF IssueGrant
<1>3. \A t \in Planners : planner[t].kind = "create" => planner[t].grant # g
  BY <1>2, Zenon DEF PlanInv, TransactionsFounded, TransactionFounded
<1> HIDE DEF row
<1> QED BY <1>1, <1>2, <1>3, GrantMoved, Zenon

LEMMA EndGrantStep == ASSUME PlanInv, NEW g \in Grants, EndGrant(g) PROVE PlanInv'
<1> DEFINE row == [grant[g] EXCEPT !.state = "ended"]
<1>1. row \in GrantRecords /\ row.state # "none" /\ row.until = grant[g].until
  BY Zenon DEF PlanInv, PlanTypes, GrantRecords
<1>2. /\ grant' = [grant EXCEPT ![g] = row]
      /\ UNCHANGED <<planNow, device, staff, shelf, publishing, request, relationship, plan, planner>>
  BY Zenon DEF EndGrant
<1>3. \A t \in Planners : planner[t].kind = "create" => planner[t].grant # g
  BY Zenon DEF EndGrant, Running
<1> HIDE DEF row
<1> QED BY <1>1, <1>2, <1>3, GrantMoved, Zenon

\* Publication inserts a package that no plan has.
LEMMA ShelfMoved ==
  ASSUME PlanInv, shelf' \in [Packages -> ShelfRecords], publishing' \subseteq Packages,
         \A p \in Packages : shelf'[p].plan = shelf[p].plan,
         \A p \in Packages : shelf'[p].state = "none" => shelf[p].state = "none",
         \A p \in Packages : shelf'[p].state # shelf[p].state =>
           /\ shelf[p].state \in {"none", "available"} /\ shelf'[p].state \in {"available", "revoked"}
           /\ \A t \in Planners : p \notin planner[t].packages,
         \A p \in publishing' : shelf'[p].state = "none",
         device' \in [Devices -> {"active", "revoked"}],
         UNCHANGED <<planNow, staff, grant, request, relationship, plan, planner>>
  PROVE  PlanInv'
<1>1. PlanTypes /\ ShelvesKept /\ ReservationsHold /\ PackageInOnePlan BY Zenon DEF PlanInv
<1>2. PlanTypes' BY <1>1, Zenon DEF PlanTypes
<1>3. ShelvesKept' BY <1>1, Zenon DEF ShelvesKept
<1>4. \A t \in Planners : planner[t].packages \subseteq Packages BY <1>1, Zenon
    DEF PlanTypes, PlannerRecords
<1>5. ReservationsHold' BY <1>1, <1>4, Zenon DEF ReservationsHold
<1>6. TransactionsFounded' BY Zenon DEF PlanInv, TransactionsFounded, TransactionFounded
<1>7. PlansFounded' BY DEF PlanInv, PlansFounded, PlanFounded
<1>8. PackageInOnePlan'
  <2>1. \A n \in DOMAIN plan : plan[n].packages \subseteq Packages BY <1>1, PlanRows, Zenon
  <2> QED BY <1>1, <2>1 DEF PackageInOnePlan
<1> QED BY <1>2, <1>3, <1>5, <1>6, <1>7, <1>8, Zenon DEF PlanInv

LEMMA PublishBeginStep == ASSUME PlanInv, NEW p \in Packages, PublishBegin(p) PROVE PlanInv'
<1>1. /\ shelf[p].state = "none" /\ publishing' = publishing \cup {p}
      /\ UNCHANGED <<planNow, device, staff, grant, shelf, request, relationship, plan, planner>>
  BY Zenon DEF PublishBegin
<1>2. \A q \in publishing' : shelf[q].state = "none" BY <1>1, Zenon DEF PlanInv, ShelvesKept
<1>3. PlanTypes BY Zenon DEF PlanInv
<1>4. shelf' \in [Packages -> ShelfRecords] /\ device' \in [Devices -> {"active", "revoked"}]
      /\ publishing' \subseteq Packages
  BY <1>1, <1>3, Zenon DEF PlanTypes
<1> QED BY <1>1, <1>2, <1>4, ShelfMoved, Zenon

LEMMA PublishEndStep == ASSUME PlanInv, NEW p \in Packages, PublishEnd(p) PROVE PlanInv'
<1> DEFINE row == [shelf[p] EXCEPT !.state = "available"]
<1>1. /\ p \in publishing /\ publishing' = publishing \ {p} /\ shelf' = [shelf EXCEPT ![p] = row]
      /\ UNCHANGED <<planNow, device, staff, grant, request, relationship, plan, planner>>
  BY Zenon DEF PublishEnd
<1>2. PlanTypes /\ ShelvesKept /\ ReservationsHold BY Zenon DEF PlanInv
<1>3. row \in ShelfRecords /\ row.state = "available" /\ row.plan = shelf[p].plan
  BY <1>2, Zenon DEF PlanTypes, ShelfRecords
<1> HIDE DEF row
<1>4. shelf' \in [Packages -> ShelfRecords] /\ shelf'[p] = row
      /\ \A q \in Packages \ {p} : shelf'[q] = shelf[q]
  BY <1>1, <1>2, <1>3, Zenon DEF PlanTypes
<1>5. shelf[p].state = "none" /\ \A q \in publishing : q \in Packages /\ shelf[q].state = "none"
  BY <1>1, <1>2, Zenon DEF ShelvesKept, PlanTypes
<1>6. \A t \in Planners : p \notin planner[t].packages BY <1>2, <1>5, Zenon DEF ReservationsHold
<1>7. device' \in [Devices -> {"active", "revoked"}] /\ publishing' \subseteq Packages
  BY <1>1, <1>2, Zenon DEF PlanTypes
<1>8. \A q \in publishing' : shelf'[q].state = "none" BY <1>1, <1>4, <1>5, Zenon
<1> QED BY <1>1, <1>3, <1>4, <1>5, <1>6, <1>7, <1>8, ShelfMoved

\* The shelf of a revoked device is destroyed but for what is reserved or taken.
LEMMA RevokeInstallationStep ==
  ASSUME PlanInv, NEW d \in Devices, RevokeInstallation(d)
  PROVE  PlanInv'
<1>1. /\ device' = [device EXCEPT ![d] = "revoked"] /\ \A p \in Reserved : ShelfOf[p] # d
      /\ UNCHANGED <<planNow, staff, grant, publishing, request, relationship, plan, planner>>
  BY Zenon DEF RevokeInstallation
<1>2. PlanTypes /\ ShelvesKept BY Zenon DEF PlanInv
<1>3. \A p \in Packages : /\ [shelf[p] EXCEPT !.state = "revoked"] \in ShelfRecords
                          /\ [shelf[p] EXCEPT !.state = "revoked"].state = "revoked"
                          /\ [shelf[p] EXCEPT !.state = "revoked"].plan = shelf[p].plan
  BY <1>2, Zenon DEF PlanTypes, ShelfRecords
<1>4. /\ shelf' \in [Packages -> ShelfRecords]
      /\ \A p \in Packages : /\ shelf'[p].plan = shelf[p].plan
                             /\ IF ShelfOf[p] = d /\ shelf[p].state = "available"
                                THEN shelf'[p].state = "revoked"
                                ELSE shelf'[p].state = shelf[p].state
  BY <1>2, <1>3, Zenon DEF RevokeInstallation, PlanTypes
<1>5. \A t \in Planners : \A p \in planner[t].packages : ShelfOf[p] # d BY <1>1, Zenon DEF Reserved
<1>6. device' \in [Devices -> {"active", "revoked"}] /\ publishing' \subseteq Packages
  BY <1>1, <1>2, Zenon DEF PlanTypes
<1>7. \A p \in publishing' : shelf'[p].state = "none"
  BY <1>1, <1>2, <1>4, <1>6, Zenon DEF ShelvesKept
<1> QED BY <1>1, <1>4, <1>5, <1>6, <1>7, ShelfMoved, Zenon

LEMMA RegisterStaffStep == ASSUME PlanInv, NEW d \in StaffDevices, RegisterStaff(d) PROVE PlanInv'
<1>1. /\ staff' = staff \cup {d}
      /\ UNCHANGED <<planNow, device, grant, shelf, publishing, request, relationship, plan, planner>>
  BY Zenon DEF RegisterStaff
<1>2. PlanTypes' BY <1>1, Zenon DEF PlanInv, PlanTypes
<1> QED BY <1>1, <1>2, PlansUntouched, Zenon

LEMMA CreateRequestStep ==
  ASSUME PlanInv, NEW g \in Grants, NEW d \in CustomerDevices, CreateRequest(g, d)
  PROVE  PlanInv'
<1> DEFINE q == [status |-> "pending", grant |-> g, device |-> d]
<1>1. /\ request' = Append(request, q)
      /\ UNCHANGED <<planNow, device, staff, grant, shelf, publishing, relationship, plan, planner>>
  BY Zenon DEF CreateRequest
<1>2. q \in RequestRecords BY Zenon DEF RequestRecords
<1> HIDE DEF q
<1>3. PlanTypes' BY <1>1, <1>2 DEF PlanInv, PlanTypes
<1> QED BY <1>1, <1>3, PlansUntouched, Zenon

LEMMA DeclineRequestStep ==
  ASSUME PlanInv, NEW i \in DOMAIN request, DeclineRequest(i)
  PROVE  PlanInv'
<1> DEFINE q == [request[i] EXCEPT !.status = "declined"]
<1>1. /\ request' = [request EXCEPT ![i] = q]
      /\ UNCHANGED <<planNow, device, staff, grant, shelf, publishing, relationship, plan, planner>>
  BY Zenon DEF DeclineRequest
<1>2. request \in Seq(RequestRecords) /\ PlanTypes BY Zenon DEF PlanInv, PlanTypes
<1>3. request[i] \in RequestRecords BY <1>2
<1>4. q \in RequestRecords BY <1>3, Zenon DEF RequestRecords
<1> HIDE DEF q
<1>5. request' \in Seq(RequestRecords) BY <1>1, <1>2, <1>4
<1>6. PlanTypes' BY <1>1, <1>2, <1>5, Zenon DEF PlanTypes
<1> QED BY <1>1, <1>6, PlansUntouched, Zenon

\* A transaction ends, with whatever it has inserted: the others keep what they read.
LEMMA TransactionLeaves ==
  ASSUME PlanInv, NEW t \in Planners, planner' = [planner EXCEPT ![t] = NotPlanning]
  PROVE  /\ planner' \in [Planners -> PlannerRecords]
         /\ planner'[t].kind = "none" /\ planner'[t].packages = {}
         /\ \A u \in Planners \ {t} : planner'[u] = planner[u]
BY IdlePlanner, Zenon DEF PlanInv, PlanTypes

LEMMA PlanAbortStep == ASSUME PlanInv, NEW t \in Planners, PlanAbort(t) PROVE PlanInv'
<1>1. /\ planner' = [planner EXCEPT ![t] = NotPlanning]
      /\ UNCHANGED <<planNow, device, staff, grant, shelf, publishing, request, relationship, plan>>
  BY Zenon DEF PlanAbort
<1>2. /\ planner' \in [Planners -> PlannerRecords]
      /\ planner'[t].kind = "none" /\ planner'[t].packages = {}
      /\ \A u \in Planners \ {t} : planner'[u] = planner[u]
  BY <1>1, TransactionLeaves, Zenon
<1>3. PlanTypes' BY <1>1, <1>2, Zenon DEF PlanInv, PlanTypes
<1>4. ReservationsHold' BY <1>1, <1>2 DEF PlanInv, ReservationsHold
<1>5. TransactionsFounded' BY <1>1, <1>2, Zenon DEF PlanInv, TransactionsFounded, TransactionFounded
<1>6. PlansFounded' BY <1>1, Zenon DEF PlanInv, PlansFounded, PlanFounded
<1> QED BY <1>1, <1>3, <1>4, <1>5, <1>6, Zenon DEF PlanInv, ShelvesKept, PackageInOnePlan

\* Where the customer has one relationship its live generation is reused, so a
\* transaction that plans next to a live one has seen two.
LEMMA TwoRelationships ==
  ASSUME PlanTypes, ~Reusable, ActiveGenerations # {}
  PROVE  Cardinality(DOMAIN relationship) > 1
<1>1. relationship \in Seq(Nat) /\ Len(relationship) \in Nat
      /\ DOMAIN relationship = 1..Len(relationship)
  BY DEF PlanTypes
<1>2. PICK r \in DOMAIN relationship : relationship[r] # 0 BY Zenon DEF ActiveGenerations
<1>3. Len(relationship) > 1 BY <1>1, <1>2 DEF Reusable
<1> DEFINE n == Len(relationship)
<1>4. n \in Nat /\ n > 1 BY <1>1, <1>3, Zenon
<1> HIDE DEF n
<1>5. Cardinality(1..n) = IF 1 > n THEN 0 ELSE n - 1 + 1 BY <1>4, FS_Interval
<1>6. Cardinality(1..n) > 1 BY <1>4, <1>5
<1> QED BY <1>1, <1>6, Zenon DEF n

\* createPlan and acceptRequest up to their inserts.
LEMMA PlanBegun ==
  ASSUME PlanInv, NEW t \in Planners, NEW kind \in {"create", "accept"}, NEW g \in Grants,
         NEW i \in Nat, NEW d \in Devices, device[d] = "active", GrantLive(g), ~Reusable,
         NEW welcomed \in SUBSET Devices, \A w \in welcomed : device[w] = "active",
         Plan(t, kind, g, i, d, welcomed),
         UNCHANGED <<planNow, device, staff, grant, shelf, publishing, request, relationship, plan>>
  PROVE  PlanInv'
<1>1. PlanTypes /\ ReservationsHold /\ TransactionsFounded BY Zenon DEF PlanInv
<1>2. PICK packages \in ReserveKeyPackages(welcomed) :
        planner' = [planner EXCEPT ![t] =
           [kind |-> kind, grant |-> g, request |-> i, creator |-> d,
            relationships |-> DOMAIN relationship, packages |-> packages, now |-> planNow,
            revoked |-> Revoked, generations |-> ActiveGenerations]]
  BY Zenon DEF Plan
<1> DEFINE tx == [kind |-> kind, grant |-> g, request |-> i, creator |-> d,
                  relationships |-> DOMAIN relationship, packages |-> packages, now |-> planNow,
                  revoked |-> Revoked, generations |-> ActiveGenerations]
<1>3. \A p \in packages : /\ p \in Packages /\ shelf[p].state = "available" /\ p \notin Reserved
                          /\ ShelfOf[p] \in welcomed
  BY DEF ReserveKeyPackages, Unlocked, OnShelf
<1>4. DOMAIN relationship \in SUBSET Nat /\ ActiveGenerations \in SUBSET Nat
  BY <1>1 DEF PlanTypes, ActiveGenerations
<1>5. Revoked \in SUBSET Devices /\ d \notin Revoked /\ \A p \in packages : ShelfOf[p] \notin Revoked
  BY <1>3, Zenon DEF Revoked
<1>6. packages \in SUBSET Packages /\ planNow \in Nat BY <1>1, <1>3, Zenon DEF PlanTypes
<1>7. tx \in PlannerRecords BY <1>4, <1>5, <1>6, Zenon DEF PlannerRecords
<1>8. /\ tx.kind = kind /\ tx.grant = g /\ tx.creator = d /\ tx.packages = packages
      /\ tx.relationships = DOMAIN relationship /\ tx.now = planNow /\ tx.revoked = Revoked
      /\ tx.generations = ActiveGenerations
  BY Zenon
<1>9. planner' = [planner EXCEPT ![t] = tx] BY <1>2, Zenon
<1> HIDE DEF tx
<1>10. /\ planner' \in [Planners -> PlannerRecords] /\ planner'[t] = tx
       /\ \A u \in Planners \ {t} : planner'[u] = planner[u]
  BY <1>1, <1>7, <1>9, Zenon DEF PlanTypes
<1>11. PlanTypes' BY <1>1, <1>10, Zenon DEF PlanTypes
<1>12. ReservationsHold'
  <2>1. \A u \in Planners : planner[u].packages \cap packages = {} BY <1>3 DEF Reserved
  <2>2. tx.kind # "none" BY <1>8, Zenon
  <2> QED BY <1>1, <1>3, <1>8, <1>10, <2>1, <2>2, SMTT(30) DEF ReservationsHold
<1>13. TransactionFounded(t)'
  <2>1. grant[g].state = "active" /\ planNow < grant[g].until
    BY <1>1, Zenon DEF GrantLive, PlanTypes, GrantRecords
  <2>2. ActiveGenerations # {} => Cardinality(DOMAIN relationship) > 1
    BY <1>1, TwoRelationships, Zenon
  <2> QED BY <1>5, <1>8, <1>10, <2>1, <2>2, Zenon DEF TransactionFounded
<1>14. TransactionsFounded' BY <1>1, <1>10, <1>13, SMTT(30)
    DEF TransactionsFounded, TransactionFounded
<1>15. PlansFounded' BY Zenon DEF PlanInv, PlansFounded, PlanFounded
<1> QED BY <1>11, <1>12, <1>14, <1>15 DEF PlanInv, ShelvesKept, PackageInOnePlan

LEMMA CreatePlanBeginStep ==
  ASSUME PlanInv, NEW t \in Planners, NEW g \in Grants, NEW d \in CustomerDevices,
         CreatePlanBegin(t, g, d)
  PROVE  PlanInv'
<1>1. ActiveStaff \in SUBSET Devices /\ \A w \in ActiveStaff : device[w] = "active"
  BY Zenon DEF PlanInv, PlanTypes, ActiveStaff, Devices
<1>2. d \in Devices /\ 0 \in Nat /\ "create" \in {"create", "accept"} BY Zenon DEF Devices
<1>3. /\ GrantLive(g) /\ device[d] = "active" /\ ~Reusable /\ Plan(t, "create", g, 0, d, ActiveStaff)
      /\ UNCHANGED <<planNow, device, staff, grant, shelf, publishing, request, relationship, plan>>
  BY Zenon DEF CreatePlanBegin
<1> QED BY <1>1, <1>2, <1>3, PlanBegun, Zenon

LEMMA AcceptRequestBeginStep ==
  ASSUME PlanInv, NEW t \in Planners, NEW i \in DOMAIN request, NEW d \in StaffDevices,
         AcceptRequestBegin(t, i, d)
  PROVE  PlanInv'
<1>1. request \in Seq(RequestRecords) BY Zenon DEF PlanInv, PlanTypes
<1>2. i \in Nat /\ request[i] \in RequestRecords BY <1>1
<1>3. request[i].grant \in Grants BY <1>2, Zenon DEF RequestRecords
<1>4. ActiveCustomer \in SUBSET Devices /\ \A w \in ActiveCustomer : device[w] = "active"
  BY Zenon DEF ActiveCustomer, Devices
<1>5. d \in Devices /\ device[d] = "active" /\ "accept" \in {"create", "accept"}
  BY Zenon DEF AcceptRequestBegin, ActiveStaff, Devices
<1>6. /\ GrantLive(request[i].grant) /\ ~Reusable
      /\ Plan(t, "accept", request[i].grant, i, d, ActiveCustomer)
      /\ UNCHANGED <<planNow, device, staff, grant, shelf, publishing, request, relationship, plan>>
  BY Zenon DEF AcceptRequestBegin
<1> QED BY <1>2, <1>3, <1>4, <1>5, <1>6, PlanBegun, Zenon

\* Where a new plan's relationship is, and that no relationship goes.
RelationshipOf(seen) ==
    IF Cardinality(seen) = 1 THEN CHOOSE q \in seen : TRUE ELSE Len(relationship) + 1
RelationshipKept(seen) ==
    relationship' = IF Cardinality(seen) = 1 THEN relationship ELSE Append(relationship, 0)

LEMMA RelationshipFound ==
  ASSUME PlanTypes, NEW seen, seen \subseteq DOMAIN relationship, RelationshipKept(seen)
  PROVE  /\ relationship' \in Seq(Nat) /\ DOMAIN relationship \subseteq DOMAIN relationship'
         /\ RelationshipOf(seen) \in DOMAIN relationship' /\ RelationshipOf(seen) \in Nat
<1> DEFINE known == Cardinality(seen) = 1
<1> DEFINE r == RelationshipOf(seen)
<1>0. /\ r = IF known THEN CHOOSE q \in seen : TRUE ELSE Len(relationship) + 1
      /\ relationship' = IF known THEN relationship ELSE Append(relationship, 0)
  BY Zenon DEF RelationshipKept, RelationshipOf
<1> HIDE DEF r
<1>1. relationship \in Seq(Nat) BY Zenon DEF PlanTypes
<1>2. CASE known
  <2>1. seen # {} BY <1>2, FS_EmptySet
  <2>2. r \in seen /\ relationship' = relationship BY <1>0, <1>2, <2>1, Zenon
  <2> QED BY <1>1, <2>2 DEF r
<1>3. CASE ~known
  <2>1. /\ relationship' \in Seq(Nat) /\ Len(relationship') = Len(relationship) + 1
        /\ Len(relationship) \in Nat
    BY <1>0, <1>1, <1>3
  <2>2. DOMAIN relationship = 1..Len(relationship) /\ DOMAIN relationship' = 1..Len(relationship')
    BY <1>1, <2>1
  <2>3. r = Len(relationship) + 1 BY <1>0, <1>3, Zenon
  <2> QED BY <2>1, <2>2, <2>3 DEF r
<1> QED BY <1>2, <1>3, Zenon

\* A plan takes packages only its transaction has locked; they were available, so
\* no earlier plan has them.
LEMMA MaterializeStep == ASSUME PlanInv, NEW t \in Planners, MaterializePlan(t) PROVE PlanInv'
<1> DEFINE tx == planner[t]
<1> DEFINE r == RelationshipOf(tx.relationships)
<1> DEFINE row == [relationship |-> r, kind |-> tx.kind, grant |-> tx.grant, creator |-> tx.creator,
                   packages |-> tx.packages, expires |-> tx.now + PlanTtl, consumed |-> FALSE,
                   activated |-> 0, revoked |-> tx.revoked, generations |-> tx.generations,
                   seen |-> tx.relationships]
<1> DEFINE taken == [state |-> "taken", plan |-> Len(plan) + 1]
<1>1. /\ PlanTypes /\ ShelvesKept /\ ReservationsHold /\ TransactionsFounded /\ PlansFounded
      /\ PackageInOnePlan
  BY Zenon DEF PlanInv
<1>2. /\ tx.kind # "none" /\ plan' = Append(plan, row)
      /\ RelationshipKept(tx.relationships)
      /\ shelf' = [p \in Packages |-> IF p \in tx.packages /\ shelf[p].state = "available"
                                      THEN taken ELSE shelf[p]]
      /\ planner' = [planner EXCEPT ![t] = NotPlanning]
      /\ UNCHANGED <<planNow, device, staff, grant, publishing, request>>
  BY Zenon DEF MaterializePlan, RelationshipOf, RelationshipKept
<1>3. TransactionFounded(t) BY <1>1, <1>2, Zenon DEF TransactionsFounded
<1>4. tx \in PlannerRecords BY <1>1, Zenon DEF PlanTypes
<1>5. /\ relationship' \in Seq(Nat) /\ DOMAIN relationship \subseteq DOMAIN relationship'
      /\ r \in DOMAIN relationship' /\ r \in Nat
  <2>1. tx.relationships \subseteq DOMAIN relationship BY <1>3, Zenon DEF TransactionFounded
  <2> QED BY <1>1, <1>2, <2>1, RelationshipFound, Zenon
<1> HIDE DEF r
<1>6. row \in PlanRecords
  BY <1>2, <1>3, <1>4, <1>5, PlanConstants, SMTT(30)
      DEF PlanRecords, PlannerRecords, TransactionFounded
<1>7. /\ row.relationship = r /\ row.grant = tx.grant /\ row.creator = tx.creator
      /\ row.packages = tx.packages /\ row.expires = tx.now + PlanTtl /\ row.consumed = FALSE
      /\ row.revoked = tx.revoked /\ row.generations = tx.generations
      /\ row.seen = tx.relationships
  BY Zenon
<1> HIDE DEF row
<1>8. Len(plan) \in Nat /\ plan \in Seq(PlanRecords) /\ DOMAIN plan = 1..Len(plan)
  BY <1>1, SMTT(30) DEF PlanTypes
<1>9. /\ plan' \in Seq(PlanRecords) /\ DOMAIN plan' = 1..(Len(plan) + 1)
      /\ plan'[Len(plan) + 1] = row /\ \A n \in DOMAIN plan : plan'[n] = plan[n]
  BY <1>2, <1>6, <1>8
<1>10. taken \in ShelfRecords /\ taken.state = "taken" /\ taken.plan = Len(plan) + 1
  BY <1>8, SMTT(30) DEF ShelfRecords
<1>11. /\ tx.packages \subseteq Packages /\ \A p \in tx.packages : shelf[p].state = "available"
       /\ \A u \in Planners \ {t} : planner[u].packages \cap tx.packages = {}
  BY <1>1, <1>4, Zenon DEF ReservationsHold, PlannerRecords
<1> HIDE DEF taken
<1>12. /\ shelf' \in [Packages -> ShelfRecords] /\ \A p \in tx.packages : shelf'[p] = taken
       /\ \A p \in Packages \ tx.packages : shelf'[p] = shelf[p]
  BY <1>1, <1>2, <1>10, <1>11, Zenon DEF PlanTypes
<1>13. /\ planner' \in [Planners -> PlannerRecords]
       /\ planner'[t].kind = "none" /\ planner'[t].packages = {}
       /\ \A u \in Planners \ {t} : planner'[u] = planner[u]
  BY <1>2, TransactionLeaves, ZenonT(30)
<1>14. PlanTypes' BY <1>1, <1>2, <1>5, <1>9, <1>12, <1>13, Zenon DEF PlanTypes
<1>15. ShelvesKept'
  <2>1. \A p \in publishing : p \in Packages /\ p \notin tx.packages
    BY <1>1, <1>11, Zenon DEF ShelvesKept, PlanTypes
  <2> QED BY <1>1, <1>2, <1>10, <1>12, <2>1, Zenon DEF ShelvesKept
<1>16. ReservationsHold'
  <2>1. \A u \in Planners : planner[u].packages \subseteq Packages
    BY <1>1, Zenon DEF PlanTypes, PlannerRecords
  <2> QED BY <1>1, <1>11, <1>12, <1>13, <2>1 DEF ReservationsHold
<1>17. TransactionsFounded'
  BY <1>1, <1>2, <1>5, <1>13, Zenon DEF TransactionsFounded, TransactionFounded
<1>18. PlansFounded'
  <2>1. ASSUME NEW n \in DOMAIN plan PROVE PlanFounded(n)'
    BY <1>1, <1>2, <1>5, <1>9, Zenon DEF PlansFounded, PlanFounded
  <2>2. tx.grant \in Grants /\ grant[tx.grant] \in GrantRecords
    BY <1>1, <1>3, Zenon DEF TransactionFounded, PlanTypes
  <2>3. row.expires < grant[tx.grant].until + PlanTtl
    BY <1>3, <1>4, <1>7, <2>2, PlanConstants, SMTT(30)
        DEF TransactionFounded, PlannerRecords, GrantRecords
  <2>4. /\ tx.creator \notin tx.revoked /\ \A p \in tx.packages : ShelfOf[p] \notin tx.revoked
        /\ grant[tx.grant].state # "none"
        /\ tx.generations # {} => Cardinality(tx.relationships) > 1
    BY <1>3, Zenon DEF TransactionFounded
  <2>5. /\ row.creator \notin row.revoked /\ \A p \in row.packages : ShelfOf[p] \notin row.revoked
        /\ grant[row.grant].state # "none"
        /\ row.generations # {} => Cardinality(row.seen) > 1
    BY <1>7, <2>4, Zenon
  <2>6. row.expires < grant[row.grant].until + PlanTtl BY <1>7, <2>3, Zenon
  <2>7. row.relationship \in DOMAIN relationship' /\ ~row.consumed BY <1>5, <1>7, Zenon
  <2>8. ASSUME NEW n, n = Len(plan) + 1 PROVE PlanFounded(n)'
    BY <1>2, <1>9, <2>5, <2>6, <2>7, <2>8, ZenonT(30) DEF PlanFounded
  <2> QED BY <1>8, <1>9, <2>1, <2>8, SMTT(30) DEF PlansFounded
<1>19. PackageInOnePlan'
  <2>1. ASSUME NEW n \in DOMAIN plan, NEW p \in plan[n].packages
        PROVE  /\ shelf'[p].plan = n /\ shelf'[p].state = IF plan[n].consumed THEN "used" ELSE "taken"
    <3>1. p \in Packages BY <1>1, <2>1, PlanRows, Zenon
    <3>2. p \notin tx.packages BY <1>1, <1>11, <2>1, Zenon DEF PackageInOnePlan
    <3> QED BY <1>1, <1>12, <2>1, <3>1, <3>2 DEF PackageInOnePlan
  <2>2. \A p \in row.packages : shelf'[p].plan = Len(plan) + 1 /\ shelf'[p].state = "taken"
    BY <1>7, <1>10, <1>12, Zenon
  <2>3. ~row.consumed BY <1>7, Zenon
  <2> QED BY <1>8, <1>9, <2>1, <2>2, <2>3 DEF PackageInOnePlan
<1> QED BY <1>14, <1>15, <1>16, <1>17, <1>18, <1>19, Zenon DEF PlanInv

\* The row of a plan activated at v.
Consumed(x) == [x EXCEPT !.consumed = TRUE]
ActivatedAt(x, v) == [Consumed(x) EXCEPT !.activated = v]

LEMMA RowActivated ==
  ASSUME NEW x \in PlanRecords, NEW v \in Nat
  PROVE  /\ ActivatedAt(x, v) \in PlanRecords /\ ActivatedAt(x, v).consumed = TRUE
         /\ ActivatedAt(x, v).activated = v
         /\ ActivatedAt(x, v).relationship = x.relationship /\ ActivatedAt(x, v).creator = x.creator
         /\ ActivatedAt(x, v).packages = x.packages /\ ActivatedAt(x, v).grant = x.grant
         /\ ActivatedAt(x, v).expires = x.expires /\ ActivatedAt(x, v).revoked = x.revoked
         /\ ActivatedAt(x, v).generations = x.generations /\ ActivatedAt(x, v).seen = x.seen
<1>1. Consumed(x) \in PlanRecords BY ZenonT(30) DEF Consumed, PlanRecords
<1>2. ActivatedAt(x, v) \in PlanRecords BY <1>1, ZenonT(30) DEF ActivatedAt, PlanRecords
<1> QED BY <1>2, Zenon DEF ActivatedAt, Consumed, PlanRecords

LEMMA PlanActivated ==
  ASSUME PlanTypes, NEW n \in DOMAIN plan,
         plan' = [plan EXCEPT ![n].consumed = TRUE, ![n].activated = planNow]
  PROVE  /\ plan' \in Seq(PlanRecords) /\ DOMAIN plan' = DOMAIN plan
         /\ plan'[n] = ActivatedAt(plan[n], planNow)
         /\ \A m \in DOMAIN plan \ {n} : plan'[m] = plan[m]
<1> DEFINE row == ActivatedAt(plan[n], planNow)
<1> DEFINE moved == [plan EXCEPT ![n].consumed = TRUE]
<1>1. plan \in Seq(PlanRecords) /\ planNow \in Nat BY Zenon DEF PlanTypes
<1>2. plan[n] \in PlanRecords /\ row \in PlanRecords BY <1>1, PlanRows, RowActivated, Zenon
<1>3. Consumed(plan[n]) \in PlanRecords BY <1>2, ZenonT(30) DEF Consumed, PlanRecords
<1>4. moved = [plan EXCEPT ![n] = Consumed(plan[n])] BY Zenon DEF Consumed
<1>5. plan' = [moved EXCEPT ![n].activated = planNow] BY Zenon
<1> HIDE DEF moved
<1>6. moved \in Seq(PlanRecords) /\ DOMAIN moved = DOMAIN plan /\ moved[n] = Consumed(plan[n])
      /\ \A m \in DOMAIN plan \ {n} : moved[m] = plan[m]
  BY <1>1, <1>3, <1>4
<1>7. plan' = [moved EXCEPT ![n] = row] BY <1>5, <1>6, Zenon DEF ActivatedAt
<1> HIDE DEF row
<1>8. DOMAIN plan' = DOMAIN plan /\ plan'[n] = row BY <1>6, <1>7, Zenon
<1>9. plan' \in Seq(PlanRecords)
  <2>1. n \in 1..Len(moved) BY <1>6
  <2>2. row \in PlanRecords BY <1>2, Zenon DEF row
  <2>3. [moved EXCEPT ![n] = row] \in Seq(PlanRecords) BY <1>6, <2>1, <2>2
  <2> QED BY <1>7, <2>3, Zenon
<1>10. \A m \in DOMAIN plan \ {n} : plan'[m] = plan[m] BY <1>6, <1>7, Zenon
<1> QED BY <1>8, <1>9, <1>10, Zenon DEF row

\* Activation uses exactly the packages of its plan.
LEMMA ActivateStep ==
  ASSUME PlanInv, NEW n \in DOMAIN plan, NEW welcomed \in SUBSET Devices, Activate(n, welcomed)
  PROVE  PlanInv'
<1> DEFINE r == plan[n].relationship
<1>1. /\ PlanTypes /\ ShelvesKept /\ ReservationsHold /\ TransactionsFounded /\ PlansFounded
      /\ PackageInOnePlan
  BY Zenon DEF PlanInv
<1>2. /\ plan[n].expires > planNow
      /\ plan' = [plan EXCEPT ![n].consumed = TRUE, ![n].activated = planNow]
      /\ relationship' = [relationship EXCEPT ![r] = n]
      /\ shelf' = [p \in Packages |-> IF shelf[p].plan = n
                                      THEN [shelf[p] EXCEPT !.state = "used"] ELSE shelf[p]]
      /\ UNCHANGED <<planNow, device, staff, grant, publishing, request, planner>>
  BY Zenon DEF Activate, Activatable
<1>3. n \in Nat /\ n # 0 /\ plan[n] \in PlanRecords /\ planNow \in Nat
  BY <1>1, PlanRows, SMTT(30) DEF PlanTypes
<1>4. /\ plan' \in Seq(PlanRecords) /\ DOMAIN plan' = DOMAIN plan
      /\ plan'[n] = ActivatedAt(plan[n], planNow)
      /\ \A m \in DOMAIN plan \ {n} : plan'[m] = plan[m]
  BY <1>1, <1>2, PlanActivated, Zenon
<1>5. /\ plan'[n].consumed = TRUE /\ plan'[n].activated = planNow /\ plan'[n].relationship = r
      /\ plan'[n].creator = plan[n].creator /\ plan'[n].packages = plan[n].packages
      /\ plan'[n].grant = plan[n].grant /\ plan'[n].expires = plan[n].expires
      /\ plan'[n].revoked = plan[n].revoked /\ plan'[n].generations = plan[n].generations
      /\ plan'[n].seen = plan[n].seen
  <2>1. plan'[n] = ActivatedAt(plan[n], planNow) BY <1>4, Zenon
  <2>2. plan[n] \in PlanRecords /\ planNow \in Nat BY <1>3, Zenon
  <2> DEFINE row == ActivatedAt(plan[n], planNow)
  <2>3. /\ row.consumed = TRUE /\ row.activated = planNow
        /\ row.relationship = plan[n].relationship /\ row.creator = plan[n].creator
        /\ row.packages = plan[n].packages /\ row.grant = plan[n].grant
        /\ row.expires = plan[n].expires /\ row.revoked = plan[n].revoked
        /\ row.generations = plan[n].generations /\ row.seen = plan[n].seen
    BY <2>2, RowActivated, Zenon
  <2>4. plan'[n] = row BY <2>1, Zenon
  <2> HIDE DEF row
  <2> QED BY <2>3, <2>4, Zenon
<1>6. PlanFounded(n) BY <1>1, Zenon DEF PlansFounded
<1>7. relationship' \in Seq(Nat) /\ DOMAIN relationship' = DOMAIN relationship
  <2>1. r \in DOMAIN relationship /\ relationship \in Seq(Nat) BY <1>1, <1>6, Zenon
      DEF PlanFounded, PlanTypes
  <2> HIDE DEF r
  <2> QED BY <1>2, <1>3, <2>1
<1>8. \A p \in Packages : /\ [shelf[p] EXCEPT !.state = "used"] \in ShelfRecords
                          /\ [shelf[p] EXCEPT !.state = "used"].state = "used"
                          /\ [shelf[p] EXCEPT !.state = "used"].plan = shelf[p].plan
  BY <1>1, Zenon DEF PlanTypes, ShelfRecords
<1>9. /\ shelf' \in [Packages -> ShelfRecords]
      /\ \A p \in Packages : /\ shelf'[p].plan = shelf[p].plan
                             /\ IF shelf[p].plan = n THEN shelf'[p].state = "used"
                                ELSE shelf'[p].state = shelf[p].state
  BY <1>1, <1>2, <1>8, Zenon DEF PlanTypes
<1> HIDE DEF r
<1>10. PlanTypes' BY <1>1, <1>2, <1>4, <1>7, <1>9, Zenon DEF PlanTypes
<1>11. publishing \subseteq Packages BY <1>1, Zenon DEF PlanTypes
<1>12. ShelvesKept' BY <1>1, <1>2, <1>3, <1>9, <1>11, Zenon DEF ShelvesKept
<1>13. ReservationsHold'
  <2>1. \A u \in Planners : planner[u].packages \subseteq Packages
    BY <1>1, Zenon DEF PlanTypes, PlannerRecords
  <2>2. \A u \in Planners : \A p \in planner[u].packages : shelf'[p].state = "available"
    BY <1>1, <1>3, <1>9, <2>1 DEF ReservationsHold, ShelvesKept
  <2> QED BY <1>1, <1>2, <2>2, Zenon DEF ReservationsHold
<1>14. TransactionsFounded'
  BY <1>1, <1>2, <1>7, Zenon DEF TransactionsFounded, TransactionFounded
<1>15. PlansFounded'
  <2>1. ASSUME NEW m \in DOMAIN plan, m # n PROVE PlanFounded(m)'
    BY <1>1, <1>2, <1>4, <1>7, <2>1, Zenon DEF PlansFounded, PlanFounded
  <2>2. plan[n].grant \in Grants /\ plan[n].expires \in Nat BY <1>1, PlanRows, Zenon
  <2>3. grant[plan[n].grant].until \in Nat BY <1>1, <2>2, Zenon DEF PlanTypes, GrantRecords
  <2>4. planNow < grant[plan[n].grant].until + PlanTtl
    BY <1>2, <1>3, <1>6, <2>2, <2>3, PlanConstants DEF PlanFounded
  <2>5. r = plan[n].relationship BY Zenon DEF r
  <2>6. PlanFounded(n)' BY <1>2, <1>5, <1>6, <1>7, <2>4, <2>5, SMTT(30) DEF PlanFounded
  <2> QED BY <1>4, <2>1, <2>6, Zenon DEF PlansFounded
<1>16. PackageInOnePlan'
  <2>1. \A m \in DOMAIN plan : plan[m].packages \subseteq Packages BY <1>1, PlanRows, Zenon
  <2> QED BY <1>1, <1>4, <1>5, <1>9, <2>1, SMTT(30) DEF PackageInOnePlan
<1> QED BY <1>10, <1>12, <1>13, <1>14, <1>15, <1>16, Zenon DEF PlanInv

LEMMA PlanTickStep == ASSUME PlanInv, PlanTick PROVE PlanInv'
<1>1. /\ planNow' = planNow + 1
      /\ UNCHANGED <<device, staff, grant, shelf, publishing, request, relationship, plan, planner>>
  BY Zenon DEF PlanTick
<1>2. PlanTypes' BY <1>1 DEF PlanInv, PlanTypes
<1> QED BY <1>1, <1>2, PlansUntouched, Zenon

LEMMA PlanStep == ASSUME PlanInv, [PlanNext]_planVars PROVE PlanInv'
<1>1. CASE UNCHANGED planVars
  <2>1. UNCHANGED <<planNow, device, staff, grant, shelf, publishing, request, relationship, plan,
                    planner>>
    BY <1>1, Zenon DEF planVars
  <2>2. PlanTypes' BY <2>1, Zenon DEF PlanInv, PlanTypes
  <2> QED BY <2>1, <2>2, PlansUntouched, Zenon
<1>2. CASE PlanTick BY <1>2, PlanTickStep, Zenon
<1>3. ASSUME NEW g \in Grants, IssueGrant(g) PROVE PlanInv' BY <1>3, IssueGrantStep, Zenon
<1>4. ASSUME NEW g \in Grants, EndGrant(g) PROVE PlanInv' BY <1>4, EndGrantStep, Zenon
<1>5. ASSUME NEW g \in Grants, NEW d \in CustomerDevices, CreateRequest(g, d) PROVE PlanInv'
  BY <1>5, CreateRequestStep, Zenon
<1>6. ASSUME NEW d \in StaffDevices, RegisterStaff(d) PROVE PlanInv' BY <1>6, RegisterStaffStep
<1>7. ASSUME NEW p \in Packages, PublishBegin(p) PROVE PlanInv' BY <1>7, PublishBeginStep
<1>8. ASSUME NEW p \in Packages, PublishEnd(p) PROVE PlanInv' BY <1>8, PublishEndStep
<1>9. ASSUME NEW d \in Devices, RevokeInstallation(d) PROVE PlanInv'
  BY <1>9, RevokeInstallationStep, Zenon
<1>10. ASSUME NEW i \in DOMAIN request, DeclineRequest(i) PROVE PlanInv'
  BY <1>10, DeclineRequestStep, Zenon
<1>11. ASSUME NEW t \in Planners, MaterializePlan(t) PROVE PlanInv' BY <1>11, MaterializeStep
<1>12. ASSUME NEW t \in Planners, PlanAbort(t) PROVE PlanInv' BY <1>12, PlanAbortStep
<1>13. ASSUME NEW t \in Planners, NEW g \in Grants, NEW d \in CustomerDevices, CreatePlanBegin(t, g, d)
       PROVE  PlanInv'
  BY <1>13, CreatePlanBeginStep, Zenon
<1>14. ASSUME NEW t \in Planners, NEW i \in DOMAIN request, NEW d \in StaffDevices,
              AcceptRequestBegin(t, i, d)
       PROVE  PlanInv'
  BY <1>14, AcceptRequestBeginStep, Zenon
<1>15. ASSUME NEW n \in DOMAIN plan, NEW welcomed \in SUBSET Devices, Activate(n, welcomed)
       PROVE  PlanInv'
  BY <1>15, ActivateStep, Zenon
<1> QED
  BY Zenon, <1>1, <1>2, <1>3, <1>4, <1>5, <1>6, <1>7, <1>8, <1>9, <1>10, <1>11, <1>12, <1>13, <1>14,
           <1>15 DEF PlanNext

\* PlansSafe, for any number of devices, packages, grants, requests and transactions
\* and any overlap of planning, activation and revocation (conversationPlanStore.ts).
THEOREM PlansAlwaysSafe == PlanSpec => []PlansSafe
<1>1. PlanInit => PlanInv BY PlanStart, Zenon
<1>2. PlanInv /\ [PlanNext]_planVars => PlanInv' BY PlanStep, Zenon
<1>3. PlanInv => PlansSafe
  <2> SUFFICES ASSUME PlanInv PROVE PlansSafe BY Zenon
  <2>1. PackageInOnePlan /\ PlansFounded /\ TransactionsFounded BY Zenon DEF PlanInv
  <2>2. RevokedNotWelcomed BY <2>1, Zenon DEF RevokedNotWelcomed, PlansFounded, PlanFounded
  <2>3. ActivatedUnderGrant
    BY <2>1, Zenon DEF ActivatedUnderGrant, PlansFounded, PlanFounded, TransactionsFounded,
                TransactionFounded, Running
  <2>4. ReusedUnlessSplit BY <2>1, Zenon DEF ReusedUnlessSplit, PlansFounded, PlanFounded
  <2> QED BY <2>1, <2>2, <2>3, <2>4, Zenon DEF PlansSafe
<1> QED BY <1>1, <1>2, <1>3, PTL DEF PlanSpec
=============================================================================
