------------------------- MODULE ConversationPlans -------------------------
(***************************************************************************)
(* From a grant to a conversation: requests (conversationRequestStore.ts), *)
(* plans and their activation (conversationPlanStore.ts), the shelves of   *)
(* KeyPackages they take from, and revocation of devices                   *)
(* (publishKeyPackages and revokeInstallation of http/messagingHttp.ts),   *)
(* for one customer of one project.                                        *)
(*                                                                         *)
(* createPlan and acceptRequest are two actions each: Begin makes the      *)
(* reads and takes the row locks, End inserts and commits.  Two plan       *)
(* transactions of one customer hold no lock in common unless they name    *)
(* one grant or one request, or a relationship's row is there to lock.     *)
(***************************************************************************)
EXTENDS Integers, Sequences, FiniteSets, TLC

CONSTANTS CustomerDevices, StaffDevices,
          Grants,          \* the customer's grants
          Packages, ShelfOf, \* KeyPackages, and the device each is made by
          Planners,        \* plan transactions that may run at once
          PlanTtl,         \* PLAN_TTL_MILLISECONDS, in ticks
          GrantLease,      \* GRANT_LEASE_MILLISECONDS
          PlanClock, MaxRequests, MaxPlans,   \* bounds
          NoGrant

ASSUME PlanConstants ==
    /\ {PlanTtl, GrantLease} \subseteq Nat \ {0}
    /\ ShelfOf \in [Packages -> CustomerDevices \cup StaffDevices]

Devices == CustomerDevices \cup StaffDevices

VARIABLES planNow,
          device,         \* installations and their credentials: active or revoked
          staff,          \* installations registered in project_staff_registrations
          grant,          \* eligibility_grants: [state, until]
          shelf,          \* key_packages: [state, plan]
          publishing,     \* packages whose insert follows a read of the credential
          request,        \* conversation_requests
          relationship,   \* relationships: the active conversation, 0 when null
          plan,           \* conversation_plans with their members
          planner         \* transactions in progress

planVars == <<planNow, device, staff, grant, shelf, publishing, request,
              relationship, plan, planner>>

NotPlanning == [kind |-> "none", grant |-> NoGrant, request |-> 0, creator |-> NoGrant,
                relationships |-> {}, packages |-> {}, now |-> 0, revoked |-> {},
                generations |-> {}]

PlanInit ==
    /\ planNow = 0
    /\ device = [d \in Devices |-> "active"]
    /\ staff = {}
    /\ grant = [g \in Grants |-> [state |-> "none", until |-> 0]]
    /\ shelf = [p \in Packages |-> [state |-> "none", plan |-> 0]]
    /\ publishing = {}
    /\ request = << >> /\ relationship = << >> /\ plan = << >>
    /\ planner = [t \in Planners |-> NotPlanning]

Revoked == { d \in Devices : device[d] = "revoked" }
Running == { t \in Planners : planner[t].kind # "none" }
Reserved == UNION { planner[t].packages : t \in Planners }

-----------------------------------------------------------------------------
(* issuePurchaseGrant, once the purchase has been verified (EligibilityGrants);
   a purchase can be claimed again, for another grant. *)
IssueGrant(g) ==
    /\ grant[g].state = "none"
    /\ \E d \in CustomerDevices : device[d] = "active"
    /\ grant' = [grant EXCEPT ![g] = [state |-> "active", until |-> planNow + GrantLease]]
    /\ UNCHANGED <<planNow, device, staff, shelf, publishing, request, relationship, plan, planner>>

(* The keeper suspends, revokes or expires a grant; its UPDATE waits for the lock
   createPlan holds on it. *)
EndGrant(g) ==
    /\ grant[g].state = "active"
    /\ \A t \in Running : planner[t].kind = "create" => planner[t].grant # g
    /\ grant' = [grant EXCEPT ![g].state = "ended"]
    /\ UNCHANGED <<planNow, device, staff, shelf, publishing, request, relationship, plan, planner>>

GrantLive(g) == grant[g].state = "active" /\ grant[g].until > planNow

(* registerStaffForRef, for a device of the project's owner. *)
RegisterStaff(d) ==
    /\ device[d] = "active"
    /\ staff' = staff \cup {d}
    /\ UNCHANGED <<planNow, device, grant, shelf, publishing, request, relationship, plan, planner>>

(* publishKeyPackages: the credential is read once, the inserts follow. *)
PublishBegin(p) ==
    /\ shelf[p].state = "none" /\ p \notin publishing
    /\ device[ShelfOf[p]] = "active"
    /\ publishing' = publishing \cup {p}
    /\ UNCHANGED <<planNow, device, staff, grant, shelf, request, relationship, plan, planner>>

PublishEnd(p) ==
    /\ p \in publishing
    /\ publishing' = publishing \ {p}
    /\ shelf' = [shelf EXCEPT ![p].state = "available"]
    /\ UNCHANGED <<planNow, device, staff, grant, request, relationship, plan, planner>>

(* revokeInstallation; it waits for packages of the device being reserved. *)
RevokeInstallation(d) ==
    /\ device[d] = "active"
    /\ \A p \in Reserved : ShelfOf[p] # d
    /\ device' = [device EXCEPT ![d] = "revoked"]
    /\ shelf' = [p \in Packages |-> IF ShelfOf[p] = d /\ shelf[p].state = "available"
                                    THEN [shelf[p] EXCEPT !.state = "revoked"] ELSE shelf[p]]
    /\ UNCHANGED <<planNow, staff, grant, publishing, request, relationship, plan, planner>>

-----------------------------------------------------------------------------
ActiveGenerations == { r \in DOMAIN relationship : relationship[r] # 0 }

(* createRequest.  The one-pending index turns the insert that lost a race into
   an error. *)
CreateRequest(g, d) ==
    /\ \A t \in Running : planner[t].kind = "create" => planner[t].grant # g
    /\ GrantLive(g) /\ device[d] = "active"
    /\ Cardinality(ActiveGenerations) # 1
    /\ \A i \in DOMAIN request : request[i].status # "pending"
    /\ Len(request) < MaxRequests
    /\ request' = Append(request, [status |-> "pending", grant |-> g, device |-> d])
    /\ UNCHANGED <<planNow, device, staff, grant, shelf, publishing, relationship, plan, planner>>

(* declineRequest, by any registered device, revoked or not. *)
DeclineRequest(i) ==
    /\ request[i].status = "pending" /\ staff # {}
    /\ \A t \in Running : planner[t].request # i
    /\ request' = [request EXCEPT ![i].status = "declined"]
    /\ UNCHANGED <<planNow, device, staff, grant, shelf, publishing, relationship, plan, planner>>

-----------------------------------------------------------------------------
(* Relationship rows are read FOR UPDATE: those another plan transaction holds
   are waited for. *)
RelationshipsFree == \A t \in Running : planner[t].relationships = {}

(* An active generation is reused where the customer has one relationship. *)
Reusable == Len(relationship) = 1 /\ relationship[1] # 0

(* reserveKeyPackages: of each device that has some, one available package that no
   other transaction has locked (SKIP LOCKED). *)
OnShelf(d) == { p \in Packages : ShelfOf[p] = d /\ shelf[p].state = "available" }
LockIgnored(d) == OnShelf(d)
Unlocked(d) == OnShelf(d) \ Reserved
ReserveKeyPackages(devices) ==
    { s \in SUBSET UNION { Unlocked(d) : d \in devices } :
        \A d \in devices : Cardinality(s \cap Unlocked(d)) = IF Unlocked(d) = {} THEN 0 ELSE 1 }

Plan(t, kind, g, i, creator, welcomed) ==
    \E packages \in ReserveKeyPackages(welcomed) :
      /\ packages # {}
      /\ planner' = [planner EXCEPT ![t] =
           [kind |-> kind, grant |-> g, request |-> i, creator |-> creator,
            relationships |-> DOMAIN relationship, packages |-> packages, now |-> planNow,
            revoked |-> Revoked, generations |-> ActiveGenerations]]

ActiveStaff == { d \in staff : device[d] = "active" }
ActiveCustomer == { d \in CustomerDevices : device[d] = "active" }

CreatePlanBegin(t, g, d) ==
    /\ planner[t] = NotPlanning /\ Len(plan) + Cardinality(Running) < MaxPlans
    /\ \A u \in Running : planner[u].kind = "create" => planner[u].grant # g
    /\ GrantLive(g)
    /\ d \in CustomerDevices /\ device[d] = "active"
    /\ RelationshipsFree /\ ~Reusable
    /\ Plan(t, "create", g, 0, d, ActiveStaff)
    /\ UNCHANGED <<planNow, device, staff, grant, shelf, publishing, request, relationship, plan>>

AcceptRequestBegin(t, i, d) ==
    /\ planner[t] = NotPlanning /\ Len(plan) + Cardinality(Running) < MaxPlans
    /\ \A u \in Running : planner[u].request # i
    /\ request[i].status = "pending"
    /\ d \in ActiveStaff
    /\ GrantLive(request[i].grant)
    /\ request[i].device \in ActiveCustomer
    /\ RelationshipsFree /\ ~Reusable
    /\ Plan(t, "accept", request[i].grant, i, d, ActiveCustomer)
    /\ UNCHANGED <<planNow, device, staff, grant, shelf, publishing, request, relationship, plan>>

(* materializePlan: a relationship unless exactly one was there, the plan, its
   members, and the take of their packages. *)
MaterializePlan(t) ==
    LET tx == planner[t]
        known == Cardinality(tx.relationships) = 1
    IN /\ tx.kind # "none"
       /\ relationship' = IF known THEN relationship ELSE Append(relationship, 0)
       /\ plan' = Append(plan,
            [relationship |-> IF known THEN CHOOSE r \in tx.relationships : TRUE
                              ELSE Len(relationship) + 1,
             kind |-> tx.kind, grant |-> tx.grant, creator |-> tx.creator, packages |-> tx.packages,
             expires |-> tx.now + PlanTtl, consumed |-> FALSE, activated |-> 0,
             revoked |-> tx.revoked, generations |-> tx.generations, seen |-> tx.relationships])
       /\ shelf' = [p \in Packages |-> IF p \in tx.packages /\ shelf[p].state = "available"
                                       THEN [state |-> "taken", plan |-> Len(plan) + 1]
                                       ELSE shelf[p]]
       /\ planner' = [planner EXCEPT ![t] = NotPlanning]
       /\ UNCHANGED <<planNow, device, staff, grant, publishing, request>>

(* The transaction ends with an error, or its process stops. *)
PlanAbort(t) ==
    /\ planner[t].kind # "none"
    /\ planner' = [planner EXCEPT ![t] = NotPlanning]
    /\ UNCHANGED <<planNow, device, staff, grant, shelf, publishing, request, relationship, plan>>

(* activate, by the plan's creator: the conversation takes the plan's number. *)
Activatable(n) == ~plan[n].consumed /\ plan[n].expires > planNow

(* One Welcome for every member the plan welcomes, and for no one else. *)
WelcomesMatch(n, welcomed) == welcomed = { ShelfOf[p] : p \in plan[n].packages }

Activate(n, welcomed) ==
    LET r == plan[n].relationship
    IN /\ Activatable(n) /\ WelcomesMatch(n, welcomed)
       /\ device[plan[n].creator] = "active"
       /\ \A t \in Running : r \notin planner[t].relationships
       /\ plan' = [plan EXCEPT ![n].consumed = TRUE, ![n].activated = planNow]
       /\ relationship' = [relationship EXCEPT ![r] = n]
       /\ shelf' = [p \in Packages |-> IF shelf[p].plan = n
                                       THEN [shelf[p] EXCEPT !.state = "used"] ELSE shelf[p]]
       /\ UNCHANGED <<planNow, device, staff, grant, publishing, request, planner>>

PlanTick ==
    /\ planNow < PlanClock
    /\ planNow' = planNow + 1
    /\ UNCHANGED <<device, staff, grant, shelf, publishing, request, relationship, plan, planner>>

PlanNext ==
    \/ PlanTick
    \/ \E g \in Grants : \/ IssueGrant(g) \/ EndGrant(g)
                         \/ \E d \in CustomerDevices : CreateRequest(g, d)
    \/ \E d \in StaffDevices : RegisterStaff(d)
    \/ \E p \in Packages : PublishBegin(p) \/ PublishEnd(p)
    \/ \E d \in Devices : RevokeInstallation(d)
    \/ \E i \in DOMAIN request : DeclineRequest(i)
    \/ \E t \in Planners :
         \/ MaterializePlan(t) \/ PlanAbort(t)
         \/ \E g \in Grants, d \in CustomerDevices : CreatePlanBegin(t, g, d)
         \/ \E i \in DOMAIN request, d \in StaffDevices : AcceptRequestBegin(t, i, d)
    \/ \E n \in DOMAIN plan, welcomed \in SUBSET Devices : Activate(n, welcomed)

PlanSpec == PlanInit /\ [][PlanNext]_planVars

-----------------------------------------------------------------------------
(* A KeyPackage is welcomed once: it is in the members of one plan at most, taken
   for as long as that plan is not activated and used from then on, whatever
   plans, activations and revocations run at once (reserveKeyPackages skips the
   rows other transactions hold). *)
PackageInOnePlan ==
    \A n \in DOMAIN plan : \A p \in plan[n].packages :
      /\ shelf[p].plan = n
      /\ shelf[p].state = IF plan[n].consumed THEN "used" ELSE "taken"

(* No plan begun after a device was revoked includes it, as creator or as a
   member, even when a package of it reached the shelf after its shelf was
   destroyed (the queries for members look at the installation's status). *)
RevokedNotWelcomed ==
    \A n \in DOMAIN plan :
      /\ plan[n].creator \notin plan[n].revoked
      /\ \A p \in plan[n].packages : ShelfOf[p] \notin plan[n].revoked

(* A conversation starts on the customer's purchase: it is activated within
   PlanTtl of a moment at which its grant was live, and createPlan's grant was
   live to the end of the transaction. *)
ActivatedUnderGrant ==
    /\ \A n \in DOMAIN plan : plan[n].consumed =>
         plan[n].activated < grant[plan[n].grant].until + PlanTtl
    /\ \A t \in Running : planner[t].kind = "create" => grant[planner[t].grant].state = "active"

(* A second generation is planned next to a live one only for a customer who
   has come to have two relationships. *)
ReusedUnlessSplit ==
    \A n \in DOMAIN plan : plan[n].generations # {} => Cardinality(plan[n].seen) > 1

(* A relationship has at most one active generation: the conversation its
   pointer names is the only one activated for it. *)
OneActiveGeneration ==
    \A m, n \in DOMAIN plan :
      plan[m].consumed /\ plan[n].consumed /\ plan[m].relationship = plan[n].relationship => m = n

(* A plan takes packages nobody else has, welcomes no revoked device, starts on
   a live grant, and opens a second generation only where the customer has two
   relationships, with any overlap of planning, activation and revocation
   (createPlan, activate). *)
PlansSafe ==
    /\ PackageInOnePlan
    /\ RevokedNotWelcomed
    /\ ActivatedUnderGrant
    /\ ReusedUnlessSplit
=============================================================================
