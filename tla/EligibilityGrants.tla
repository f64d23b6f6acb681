------------------------- MODULE EligibilityGrants -------------------------
(***************************************************************************)
(* Eligibility grants (entitlement/eligibilityStore.ts) and the keeper     *)
(* that rechecks them (scripts/keeper/recheck-grants.mjs).  A purchase is  *)
(* verified outside any transaction and the grant inserted afterwards; a   *)
(* pass of the keeper reads the anchors of the active grants once and asks *)
(* the providers about one anchor after the other.                         *)
(***************************************************************************)
EXTENDS Integers, FiniteSets

CONSTANTS GrantIds,
          Anchors, ChainOf,   \* finalized blocks, and the chain of each
          RelayAnchor,        \* stands for the null anchor of a relay's grant
          LeaseTicks,         \* GRANT_LEASE_MILLISECONDS
          GrantClock          \* bound on the clock

ASSUME GrantConstants ==
    /\ LeaseTicks \in Nat \ {0} /\ GrantClock \in Nat
    /\ RelayAnchor \notin Anchors

VARIABLES grantNow,
          orphaned,      \* anchors that are no longer on their chain
          eligibility,   \* eligibility_grants: [state, anchor, until]
          claim,         \* issuePurchaseGrant calls: the anchor verified, before the insert
          recheck,       \* the keeper's pass
          outages        \* chains about which a pass got no agreed answer

grantVars == <<grantNow, orphaned, eligibility, claim, recheck, outages>>

NoGrantRow == [state |-> "none", anchor |-> RelayAnchor, until |-> 0]
NoPass == [at |-> "idle", todo |-> {}, suspend |-> {}, due |-> {}]
Chains == { ChainOf[b] : b \in Anchors }

GrantInit ==
    /\ grantNow = 0
    /\ orphaned = {}
    /\ eligibility = [g \in GrantIds |-> NoGrantRow]
    /\ claim = [g \in GrantIds |-> RelayAnchor]
    /\ recheck = NoPass
    /\ outages = {}

-----------------------------------------------------------------------------
(* issuePurchaseGrant up to the verifier's answer that the purchase is on a
   finalized block (PurchaseEvidence checks the answer itself). *)
VerifyPurchaseClaim(g, b) ==
    /\ eligibility[g].state = "none" /\ claim[g] = RelayAnchor
    /\ b \notin orphaned
    /\ claim' = [claim EXCEPT ![g] = b]
    /\ UNCHANGED <<grantNow, orphaned, eligibility, recheck, outages>>

(* Its transaction; the project, policy, wallet link and device it looks up may
   have it refused, which leaves no trace. *)
InsertPurchaseGrant(g) ==
    /\ claim[g] # RelayAnchor
    /\ \/ eligibility' = [eligibility EXCEPT ![g] =
            [state |-> "active", anchor |-> claim[g], until |-> grantNow + LeaseTicks]]
       \/ UNCHANGED eligibility
    /\ claim' = [claim EXCEPT ![g] = RelayAnchor]
    /\ UNCHANGED <<grantNow, orphaned, recheck, outages>>

(* issueRelayGrant. *)
IssueRelayGrant(g) ==
    /\ eligibility[g].state = "none" /\ claim[g] = RelayAnchor
    /\ eligibility' = [eligibility EXCEPT ![g] =
         [state |-> "active", anchor |-> RelayAnchor, until |-> grantNow + LeaseTicks]]
    /\ UNCHANGED <<grantNow, orphaned, claim, recheck, outages>>

Active == { g \in GrantIds : eligibility[g].state = "active" }
AnchoredOn(c) == { g \in GrantIds : eligibility[g].anchor # RelayAnchor
                                    /\ ChainOf[eligibility[g].anchor] = c }
SetState(rows, state) ==
    eligibility' = [g \in GrantIds |-> IF g \in rows
                                       THEN [eligibility[g] EXCEPT !.state = state]
                                       ELSE eligibility[g]]

-----------------------------------------------------------------------------
(* pass() reads the anchors of the active grants.  due is kept for the property. *)
RecheckBegin ==
    /\ recheck.at = "idle"
    /\ recheck' = [at |-> "checking", suspend |-> {},
                   todo |-> { eligibility[g].anchor : g \in Active } \ {RelayAnchor},
                   due |-> { g \in Active : eligibility[g].anchor \in orphaned }]
    /\ UNCHANGED <<grantNow, orphaned, eligibility, claim, outages>>

ChecksDone(b) == [recheck EXCEPT !.todo = @ \ {b}]
AnchorPassedOver(b) == ChecksDone(b)
NoAnswer(b) == [ChecksDone(b) EXCEPT !.suspend = @ \cup {ChainOf[b]}]

(* One anchor: the providers fail or disagree and its chain will be suspended,
   or they agree and the grants of an orphaned anchor are revoked at once.  The
   other anchors of a chain to be suspended are passed over. *)
RecheckAnchor(b) ==
    /\ recheck.at = "checking" /\ b \in recheck.todo
    /\ \/ /\ ChainOf[b] \in recheck.suspend
          /\ recheck' = ChecksDone(b)
          /\ UNCHANGED <<eligibility, outages>>
       \/ /\ ChainOf[b] \notin recheck.suspend
          /\ recheck' = NoAnswer(b)
          /\ outages' = outages \cup {ChainOf[b]}
          /\ UNCHANGED eligibility
       \/ /\ ChainOf[b] \notin recheck.suspend
          /\ recheck' = ChecksDone(b)
          /\ IF b \in orphaned
             THEN SetState({ g \in GrantIds : eligibility[g].anchor = b
                               /\ eligibility[g].state \in {"active", "suspended"} }, "revoked")
             ELSE UNCHANGED eligibility
          /\ UNCHANGED outages
    /\ UNCHANGED <<grantNow, orphaned, claim>>

SuspendChain(c) == SetState(Active \cap AnchoredOn(c), "suspended")

(* The chains noted are suspended one by one, *)
RecheckSuspend(c) ==
    /\ recheck.at = "checking" /\ recheck.todo = {} /\ c \in recheck.suspend
    /\ SuspendChain(c)
    /\ recheck' = [recheck EXCEPT !.suspend = @ \ {c}]
    /\ UNCHANGED <<grantNow, orphaned, claim, outages>>

(* and the grants whose lease has ended are swept. *)
RecheckSweep ==
    /\ recheck.at = "checking" /\ recheck.todo = {} /\ recheck.suspend = {}
    /\ SetState({ g \in Active : eligibility[g].until <= grantNow }, "expired")
    /\ recheck' = [recheck EXCEPT !.at = "idle"]
    /\ UNCHANGED <<grantNow, orphaned, claim, outages>>

(* The pass fails (the database, or the process): the next starts afresh. *)
RecheckFails ==
    /\ recheck.at = "checking"
    /\ recheck' = NoPass
    /\ UNCHANGED <<grantNow, orphaned, eligibility, claim, outages>>

Orphan(b) ==
    /\ b \notin orphaned
    /\ orphaned' = orphaned \cup {b}
    /\ UNCHANGED <<grantNow, eligibility, claim, recheck, outages>>

GrantTick ==
    /\ grantNow < GrantClock
    /\ grantNow' = grantNow + 1
    /\ UNCHANGED <<orphaned, eligibility, claim, recheck, outages>>

GrantNext ==
    \/ GrantTick \/ RecheckBegin \/ RecheckSweep \/ RecheckFails
    \/ \E g \in GrantIds :
         \/ InsertPurchaseGrant(g) \/ IssueRelayGrant(g)
         \/ \E b \in Anchors : VerifyPurchaseClaim(g, b)
    \/ \E b \in Anchors : RecheckAnchor(b) \/ Orphan(b)
    \/ \E c \in Chains : RecheckSuspend(c)

GrantSpec == GrantInit /\ [][GrantNext]_grantVars

-----------------------------------------------------------------------------
(* The recheck fails closed: when a pass has run to its end, no grant that was
   active at its start on an anchor already orphaned is active, whether the
   providers saw the orphan, failed or disagreed. *)
RecheckFailsClosed ==
    recheck.at = "idle" => \A g \in recheck.due : eligibility[g].state # "active"

(* An outage stays on its chain: a grant is suspended only when the providers of
   its own chain failed, and a relay's grant, which has no anchor, never is. *)
OutageStaysOnChain ==
    \A g \in GrantIds : eligibility[g].state = "suspended" =>
      eligibility[g].anchor # RelayAnchor /\ ChainOf[eligibility[g].anchor] \in outages

(* The recheck neither leaves a grant active on a purchase that is gone nor
   suspends one for the outage of another chain (recheck-grants.mjs). *)
RecheckSafe ==
    /\ RecheckFailsClosed
    /\ OutageStaysOnChain
=============================================================================
