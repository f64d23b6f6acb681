------------------------- MODULE AuthorityDecisions -------------------------
(***************************************************************************)
(* The authority gate: authority/decisions.ts.  A gate request names a     *)
(* subject, a resource and an instant.  A decision engine, which is not    *)
(* trusted, gathers evidence references and decides; the decision is       *)
(* recorded in the audit log before it is released; the gate parses the    *)
(* decision and its audit record and only then hands out the lease.        *)
(*                                                                         *)
(* The evidence that exists is a constant: what the verifiers behind the   *)
(* other ports established.  A reference is a record                       *)
(*   [kind, subject, resource, generation, expires, refund, from]          *)
(* with DNone for an absent field.  Digests are injective, so a decision   *)
(* or an audit record is compared by its content; policy and project are   *)
(* constant.                                                               *)
(***************************************************************************)
EXTENDS Integers, Sequences, FiniteSets

CONSTANTS
    DecisionInstances, \* [requests, world, whole, expiries, generations,
                       \*  negatives, concurrent, gates, time]
    MaxLease,          \* MAX_AUTHORITY_LEASE_LIFETIME_MS
    Forever,           \* an instant no clock reaches
    DNone

VARIABLES
    dinst,     \* the instance chosen
    dnow,
    gates,     \* gate requests, in the order they were opened
    auditLog,  \* the audit records, oldest first
    leases     \* leases handed out

decisionVars == <<dinst, dnow, gates, auditLog, leases>>

Staff(resource) == resource.kind = "project-staff"
ProjectBound == {"finalized-receipt", "purchase-beneficiary", "tier-purchase", "project-root",
                 "authority-generation", "staff-delegation", "refund-ledger"}
SubjectBound == {"device-credential", "purchase-beneficiary", "tier-purchase",
                 "staff-delegation"}

Of(evidence, kind) == {e \in evidence : e.kind = kind}

PurchaseKind(resource) ==
    IF resource.kind = "purchase-support" THEN "purchase-beneficiary" ELSE "tier-purchase"

RequiredEvidence(resource) ==
    {"device-credential"} \cup
    (IF Staff(resource) THEN {"project-root", "authority-generation", "staff-delegation"}
     ELSE {"finalized-receipt", PurchaseKind(resource), "refund-ledger"})

(***************************************************************************)
(* Validation.                                                             *)
(***************************************************************************)
\* parseEvidence: one reference of each kind
EvidenceListed(evidence) ==
    \A e, f \in evidence : e.kind = f.kind => e = f

\* A refund reference carries a status and clears exactly two of them
RefundClear(status) == status \in {"no-applicable-entry", "purchase-upheld"}

EvidenceCoherent(d) ==
    \A e \in d.evidence :
      /\ e.kind \in ProjectBound \ {"project-root"} => e.resource = d.resource
      /\ (e.kind = "refund-ledger") = (e.refund # DNone)
      /\ e.refund # DNone => e.from <= d.at /\ e.from < e.expires /\ e.expires # Forever

EligibleEvidence(d) ==
    /\ \A e \in d.evidence :
         /\ e.expires > d.at
         /\ e.kind \in SubjectBound => e.subject = d.subject
    /\ \E e \in Of(d.evidence, "device-credential") : e.expires # Forever
    /\ ~Staff(d.resource) =>
         /\ Of(d.evidence, PurchaseKind(d.resource)) # {}
         /\ \E e \in Of(d.evidence, "refund-ledger") : RefundClear(e.refund) /\ e.from <= d.at
    /\ \A kind \in RequiredEvidence(d.resource) : Of(d.evidence, kind) # {}

\* The lease of an eligible decision
LeaseFits(d) ==
    /\ d.issued = d.at
    /\ d.expires > d.issued
    /\ d.expires - d.issued <= MaxLease
    /\ \A e \in d.evidence : d.expires <= e.expires
    /\ Staff(d.resource) = (d.generation # DNone)
    /\ d.generation # DNone =>
         \A e \in d.evidence :
           /\ e.generation \in {DNone, d.generation}
           /\ e.kind \in {"authority-generation", "staff-delegation"} =>
                e.generation = d.generation

EligibleDecision(d) ==
    /\ EvidenceListed(d.evidence) /\ d.evidence # {}
    /\ EvidenceCoherent(d)
    /\ EligibleEvidence(d)
    /\ LeaseFits(d)

\* parseIneligibleDecision, parsePendingDecision, parseUnavailableDecision:
\* a negative decision needs no positive evidence
NegativeDecision(d) ==
    EvidenceListed(d.evidence) /\ EvidenceCoherent(d)

DecisionParses(d) ==
    IF d.status = "eligible" THEN EligibleDecision(d) ELSE NegativeDecision(d)

\* assertDecisionMatchesRequest
MatchesRequest(d, request) ==
    d.at = request.at /\ d.subject = request.subject /\ d.resource = request.resource
    /\ d.request = request.id

\* A slip: the record may extend any audit head
AuditRecordAnyHead(g) ==
    IF g.decision.audited
    THEN /\ g.record # 0
         /\ auditLog[g.record].decision = g.decision
    ELSE g.decision.status = "unavailable"

\* The audit record that came with the decision commits to it, was recorded
\* after it, and extends the audit head the gate trusts.  Only a decision
\* that reports the audit store unavailable comes without one
AuditRecordAccepted(g) ==
    IF g.decision.audited
    THEN /\ g.record # 0
         /\ auditLog[g.record].decision = g.decision
         /\ auditLog[g.record].recordedAt >= g.decision.at
         /\ g.record = g.trusted + 1
    ELSE /\ g.decision.status = "unavailable"
         /\ g.record = 0

DecisionAccepted(g) ==
    /\ DecisionParses(g.decision)
    /\ MatchesRequest(g.decision, g.request)
    /\ AuditRecordAccepted(g)

(***************************************************************************)
(* The gate, the engine and the audit sink.                                *)
(***************************************************************************)
DecisionInit ==
    /\ dinst \in DecisionInstances
    /\ dnow = 0 /\ gates = << >> /\ auditLog = << >> /\ leases = {}

SetGate(i, g) == gates' = [gates EXCEPT ![i] = g]

\* A gate request is made; the caller reads the audit head it trusts
OpenGate ==
    /\ Len(gates) < dinst.gates
    /\ \E r \in dinst.requests :
         gates' = Append(gates,
           [request |-> [id |-> Len(gates) + 1, subject |-> r.subject, resource |-> r.resource,
                         at |-> dnow],
            trusted |-> Len(auditLog), phase |-> "asked", decision |-> DNone, record |-> 0])
    /\ UNCHANGED <<dinst, dnow, auditLog, leases>>

\* The engine's decision: on any evidence, for any lease, or another request's
Decisions(request) ==
    {[request |-> request.id, subject |-> request.subject, resource |-> request.resource,
      at |-> request.at, status |-> "eligible", evidence |-> evidence, issued |-> request.at,
      expires |-> expires, generation |-> generation, audited |-> TRUE] :
        evidence \in IF dinst.whole THEN {dinst.world} ELSE SUBSET dinst.world,
        expires \in dinst.expiries,
        generation \in dinst.generations}
    \cup
    {[request |-> request.id, subject |-> request.subject, resource |-> request.resource,
      at |-> request.at, status |-> status, evidence |-> {}, issued |-> 0, expires |-> 0,
      generation |-> DNone, audited |-> TRUE] :
        status \in dinst.negatives}

Decide ==
    \E i \in 1..Len(gates) :
      /\ gates[i].phase = "asked"
      /\ \E j \in 1..Len(gates) : \E d \in Decisions(gates[j].request) :
           /\ dinst.concurrent \/ i = j
           /\ SetGate(i, [gates[i] EXCEPT !.phase = "decided", !.decision = d])
      /\ UNCHANGED <<dinst, dnow, auditLog, leases>>

\* appendBeforeRelease: persisted, or already persisted under the same
\* idempotency key; the answer may be lost, and the engine asks again
PersistAudit ==
    \E i \in 1..Len(gates), answered \in BOOLEAN :
      LET g    == gates[i]
          same == {n \in 1..Len(auditLog) : auditLog[n].decision = g.decision}
          n    == IF same = {} THEN Len(auditLog) + 1 ELSE CHOOSE m \in same : TRUE
      IN /\ g.phase = "decided"
         /\ auditLog' = IF same = {}
                        THEN Append(auditLog, [decision |-> g.decision, recordedAt |-> dnow])
                        ELSE auditLog
         /\ SetGate(i, IF answered THEN [g EXCEPT !.phase = "audited", !.record = n] ELSE g)
         /\ UNCHANGED <<dinst, dnow, leases>>

\* The audit store is unavailable: the engine can only answer so
AuditUnavailable ==
    \E i \in 1..Len(gates) :
      /\ gates[i].phase = "decided"
      /\ \E honest \in BOOLEAN :
           SetGate(i, [gates[i] EXCEPT !.phase = "audited",
             !.decision = IF honest THEN [@ EXCEPT !.status = "unavailable", !.audited = FALSE]
                          ELSE [@ EXCEPT !.audited = FALSE]])
      /\ UNCHANGED <<dinst, dnow, auditLog, leases>>

\* parseAuthorityDecision: an accepted eligible decision hands out its lease
Release ==
    \E i \in 1..Len(gates) :
      LET g == gates[i] IN
      /\ g.phase = "audited"
      /\ SetGate(i, [g EXCEPT !.phase = IF DecisionAccepted(g) THEN "released" ELSE "refused"])
      /\ leases' = IF DecisionAccepted(g) /\ g.decision.status = "eligible"
                   THEN leases \cup {[gate |-> i, subject |-> g.request.subject,
                                      resource |-> g.request.resource,
                                      issued |-> g.decision.issued, expires |-> g.decision.expires,
                                      generation |-> g.decision.generation]}
                   ELSE leases
      /\ UNCHANGED <<dinst, dnow, auditLog>>

DecisionTick ==
    /\ dnow < dinst.time
    /\ dinst.concurrent \/ gates = << >>
    /\ dnow' = dnow + 1
    /\ UNCHANGED <<dinst, gates, auditLog, leases>>

DecisionNext ==
    \/ OpenGate \/ Decide \/ PersistAudit \/ AuditUnavailable \/ Release \/ DecisionTick

DecisionSpec == DecisionInit /\ [][DecisionNext]_decisionVars

(***************************************************************************)
(* Properties.                                                             *)
(***************************************************************************)
\* Throughout a lease its holder has a live device credential, and for a
\* purchase a purchase of their own that a ledger head, read no later than the
\* decision and still fresh, does not block; for staff a live delegation to
\* them of one and the same authority generation.  Whatever evidence the
\* engine gathers, no lease outlives what it rests on
\* (parseEligibleDecision, assertEvidenceCoherence, assertEligibleEvidence).
LeaseSupported ==
    \A l \in leases : \A t \in l.issued..l.expires - 1 :
      /\ \E e \in dinst.world : e.kind = "device-credential" /\ e.subject = l.subject /\ t < e.expires
      /\ ~Staff(l.resource) =>
           /\ \E e \in dinst.world : /\ e.kind = PurchaseKind(l.resource)
                               /\ e.subject = l.subject /\ e.resource = l.resource
           /\ \E e \in dinst.world : /\ e.kind = "refund-ledger" /\ e.resource = l.resource
                               /\ RefundClear(e.refund) /\ e.from <= l.issued /\ t < e.expires
      /\ Staff(l.resource) =>
           \E e \in dinst.world : /\ e.kind = "staff-delegation" /\ e.subject = l.subject
                            /\ e.generation = l.generation /\ t < e.expires
                            /\ \E f \in dinst.world : /\ f.kind = "authority-generation"
                                                /\ f.generation = e.generation

\* Two decisions taken on the same audit head are never both released, and
\* every released decision is in the audit log exactly once, also when the
\* sink's answer was lost and the append repeated
\* (parseAuthorityAuditRecord, assertAuditMatchesDecision).
ReleasedOncePerHead ==
    LET released == {i \in 1..Len(gates) : gates[i].phase = "released"
                                           /\ gates[i].decision.audited}
    IN /\ \A i, j \in released : gates[i].trusted = gates[j].trusted => i = j
       /\ \A i \in released :
            Cardinality({n \in 1..Len(auditLog) :
                           auditLog[n].decision = gates[i].decision}) = 1
       /\ \A i \in 1..Len(gates) :
            gates[i].phase = "released" /\ gates[i].decision.status = "eligible"
              => i \in released

\* An eligible decision is one a caller may act on: its lease rests on live
\* evidence to its last instant, and it is released once, after its audit record
\* (parseEligibleDecision, parseAuthorityAuditRecord).
DecisionsSupported ==
    /\ LeaseSupported
    /\ ReleasedOncePerHead
=============================================================================
