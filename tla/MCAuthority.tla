---------------------------- MODULE MCAuthority ----------------------------
(***************************************************************************)
(* The validators of production/authority/, each with its environment.     *)
(* They share no state, so one component (focus) moves in a behaviour and  *)
(* the others stay in their initial state.                                 *)
(***************************************************************************)
EXTENDS RefundLedger, AuthorityRoots, AuthorityDecisions, PurchaseEvidence, DeviceEnrollment

CONSTANTS p1, p2, s1, s2, phone

VARIABLE focus

authorityVars == <<focus, refundVars, rootVars, decisionVars, purchaseVars, enrollVars>>

-----------------------------------------------------------------------------
(* Refund ledger: one that signs any history, forks included; one that
   attaches any record, of any scope, to a head; an honest one under delay,
   replay and ageing; an honest one across a change of authority. *)
AnyHistory ==
  [honest |-> FALSE, mixed |-> FALSE, replays |-> FALSE, maxHeads |-> 3, maxLookups |-> 2,
   maxAnswers |-> 1, maxNow |-> 0, maxAge |-> 1, maxGen |-> 1, scopes |-> {"item"}]
AnyRecord ==
  [AnyHistory EXCEPT !.mixed = TRUE, !.maxHeads = 2, !.scopes = {"item", "purchase", "other"}]
HonestLedger ==
  [AnyHistory EXCEPT !.honest = TRUE, !.replays = TRUE, !.maxAnswers = 2, !.maxNow = 2]
NewAuthority ==
  [HonestLedger EXCEPT !.maxNow = 1, !.maxAge = 0, !.maxGen = 2]
TheRefundInstances == {AnyHistory, AnyRecord, HonestLedger, NewAuthority}

(* Root authority: overlapping scans, with several transitions in a
   block and over several blocks; a delegation over a change of
   holder; a loss of root by an orphaned block. *)
OwnedBy(p) == [kind |-> "jbprojects-owner", who |-> p]
OperatedBy(p) == [kind |-> "revnet-operator-set", who |-> p]
ScanInstance ==
  [part |-> "scan", roots |-> {OwnedBy(p1), OperatedBy(p1)}, blocks |-> 2, logs |-> 2,
   events |-> 3, rounds |-> 2, time |-> 0, lifetime |-> 1, delegations |-> 0]
LongScanInstance == [ScanInstance EXCEPT !.blocks = 3, !.logs = 1]
StaffInstance ==
  [ScanInstance EXCEPT !.part = "staff", !.roots = {OwnedBy(p1), OwnedBy(p2)}, !.rounds = 1,
                       !.time = 2, !.delegations = 1]
LossInstance ==
  [ScanInstance EXCEPT !.part = "loss", !.roots = {OwnedBy(p1), OperatedBy(p2)},
                       !.blocks = 3, !.rounds = 1, !.time = 2]
TheRootInstances == {ScanInstance, LongScanInstance, StaffInstance, LossInstance}

(* Decisions: every set of evidence for a purchase; every set for a member of
   staff; concurrent decisions over one audit head. *)
Ref(kind, subject, resource, gen, expires, refund, from) ==
  [kind |-> kind, subject |-> subject, resource |-> resource, generation |-> gen,
   expires |-> expires, refund |-> refund, from |-> from]
Buy(id) == [kind |-> "purchase-support", id |-> id]
TheStaff == [kind |-> "project-staff", id |-> 0]
Credentialed ==
  {Ref("device-credential", s1, DNone, DNone, 2, DNone, 0),
   Ref("device-credential", s2, DNone, DNone, 3, DNone, 0)}
BuyWorld == Credentialed \cup
  {Ref("finalized-receipt", DNone, Buy(1), DNone, Forever, DNone, 0),
   Ref("purchase-beneficiary", s1, Buy(1), DNone, Forever, DNone, 0),
   Ref("purchase-beneficiary", s2, Buy(2), DNone, Forever, DNone, 0),
   Ref("refund-ledger", DNone, Buy(1), DNone, 1, "no-applicable-entry", 0),
   Ref("refund-ledger", DNone, Buy(1), DNone, 3, "dispute-open", 1),
   Ref("refund-ledger", DNone, Buy(1), DNone, 4, "purchase-upheld", 2),
   Ref("refund-ledger", DNone, Buy(2), DNone, 4, "no-applicable-entry", 0)}
StaffWorld == Credentialed \cup
  {Ref("project-root", DNone, DNone, DNone, Forever, DNone, 0),
   Ref("authority-generation", DNone, TheStaff, 1, Forever, DNone, 0),
   Ref("authority-generation", DNone, TheStaff, 2, Forever, DNone, 0),
   Ref("staff-delegation", s1, TheStaff, 1, 1, DNone, 0),
   Ref("staff-delegation", s1, TheStaff, 2, 3, DNone, 0),
   Ref("staff-delegation", s2, TheStaff, 2, 3, DNone, 0)}
BuyInstance ==
  [requests |-> {[subject |-> s1, resource |-> Buy(1)]}, world |-> BuyWorld, whole |-> FALSE,
   negatives |-> {}, expiries |-> 0..4, generations |-> {DNone}, concurrent |-> FALSE,
   gates |-> 1, time |-> 3]
TeamInstance ==
  [BuyInstance EXCEPT !.requests = {[subject |-> s1, resource |-> TheStaff]},
                      !.world = StaffWorld, !.generations = {DNone, 1, 2}]
AuditInstance ==
  [BuyInstance EXCEPT
     !.world = { e \in BuyWorld : \/ e.kind = "finalized-receipt"
                                  \/ e.subject = s1
                                  \/ e.kind = "refund-ledger" /\ e.expires = 1 },
     !.whole = TRUE, !.negatives = {"ineligible", "unavailable"}, !.expiries = {1},
     !.concurrent = TRUE, !.gates = 2, !.time = 1]
TheDecisionInstances == {BuyInstance, TeamInstance, AuditInstance}

(* Enrollment: one phone two accounts try to enroll at overlapping times. *)
TheEnrollees ==
  << [account |-> s1, device |-> phone, opens |-> 0, closes |-> 2, package |-> 3],
     [account |-> s2, device |-> phone, opens |-> 1, closes |-> 2, package |-> 4] >>

-----------------------------------------------------------------------------
Components == {"refund", "roots", "decisions", "purchase", "enroll"}

AuthorityInit ==
    /\ focus \in Components
    /\ RefundInit /\ RootInit /\ DecisionInit /\ PurchaseInit /\ EnrollInit
    /\ focus # "refund" => rinst = AnyHistory
    /\ focus # "roots" => ainst = ScanInstance
    /\ focus # "decisions" => dinst = AuditInstance

AuthorityNext ==
    /\ UNCHANGED focus
    /\ \/ focus = "refund" /\ RefundNext
          /\ UNCHANGED <<rootVars, decisionVars, purchaseVars, enrollVars>>
       \/ focus = "roots" /\ RootNext
          /\ UNCHANGED <<refundVars, decisionVars, purchaseVars, enrollVars>>
       \/ focus = "decisions" /\ DecisionNext
          /\ UNCHANGED <<refundVars, rootVars, purchaseVars, enrollVars>>
       \/ focus = "purchase" /\ PurchaseNext
          /\ UNCHANGED <<refundVars, rootVars, decisionVars, enrollVars>>
       \/ focus = "enroll" /\ EnrollNext
          /\ UNCHANGED <<refundVars, rootVars, decisionVars, purchaseVars>>

AuthoritySpec == AuthorityInit /\ [][AuthorityNext]_authorityVars
=============================================================================
