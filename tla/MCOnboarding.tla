---------------------------- MODULE MCOnboarding ----------------------------
(***************************************************************************)
(* Instances of the components by which accounts, devices and conversations*)
(* come to be: enrollment, session families, the replay guard of DPoP      *)
(* proofs, conversation plans, eligibility grants and embed contexts.      *)
(* They share no row these models read, so a behaviour moves one of them   *)
(* (focus) and the rest stay at their start.  The model values n1 ... q2   *)
(* are interchangeable within each pair and play a part in each instance.  *)
(***************************************************************************)
EXTENDS Enrollment, Sessions, ProofReplay, ConversationPlans, EligibilityGrants, EmbedContexts

CONSTANTS n1, n2, m1, m2, k1, k2, q1, q2,
          customer, staffer, customerPackage, theOrigin

VARIABLE focus

onboardingVars == <<focus, enrollmentVars, sessionVars, proofVars, planVars, grantVars, embedVars>>

Interchangeable ==
    Permutations({n1, n2}) \cup Permutations({m1, m2})
      \cup Permutations({k1, k2}) \cup Permutations({q1, q2})

TheTokenKey == "t1" :> "k1"
TheShelves == customerPackage :> customer @@ k1 :> staffer @@ k2 :> staffer
TheChains == "b1" :> 1 @@ "b2" :> 1 @@ "b3" :> 2

OnboardingInit ==
    /\ focus \in {"enrollment", "sessions", "proofs", "plans", "grants", "embed"}
    /\ EnrollmentInit /\ SessionInit /\ ProofInit /\ PlanInit /\ GrantInit /\ EmbedInit

OnboardingNext ==
    /\ UNCHANGED focus
    /\ \/ focus = "enrollment" /\ EnrollmentNext
          /\ UNCHANGED <<sessionVars, proofVars, planVars, grantVars, embedVars>>
       \/ focus = "sessions" /\ SessionNext
          /\ UNCHANGED <<enrollmentVars, proofVars, planVars, grantVars, embedVars>>
       \/ focus = "proofs" /\ ProofNext
          /\ UNCHANGED <<enrollmentVars, sessionVars, planVars, grantVars, embedVars>>
       \/ focus = "plans" /\ PlanNext
          /\ UNCHANGED <<enrollmentVars, sessionVars, proofVars, grantVars, embedVars>>
       \/ focus = "grants" /\ GrantNext
          /\ UNCHANGED <<enrollmentVars, sessionVars, proofVars, planVars, embedVars>>
       \/ focus = "embed" /\ EmbedNext
          /\ UNCHANGED <<enrollmentVars, sessionVars, proofVars, planVars, grantVars>>

OnboardingSpec == OnboardingInit /\ [][OnboardingNext]_onboardingVars
=============================================================================
