---------------------------- MODULE RefundLedger ----------------------------
(***************************************************************************)
(* The refund ledger boundary of authority/purchases.ts, for one purchase  *)
(* resource.  The business signs a chain of stable heads off chain; the    *)
(* service asks for the current head with a fresh lookup challenge, checks *)
(* the signed answer against its persisted checkpoint (prepare), waits for *)
(* the signature verifier, and turns the answer into an eligibility effect *)
(* (finalize).                                                             *)
(*                                                                         *)
(* A digest is collision free, so a stable head is named by its index in   *)
(* `heads' and a record is the value of the head's fields it repeats.  The *)
(* root signer, its evidence, its proof, its device credential, the policy *)
(* and its revision all belong to one authority generation: comparing them *)
(* is comparing generations.  Both digests of a lookup are its number.     *)
(*                                                                         *)
(* The ledger, the network and the caller that stores the checkpoint are   *)
(* outside src/.  The ledger may sign anything a key can sign, forks and   *)
(* illegal case histories included, unless the instance says `honest'.     *)
(***************************************************************************)
EXTENDS Integers, Sequences, FiniteSets

CONSTANTS
    RefundInstances,  \* [honest, mixed, replays, maxHeads, maxLookups, maxAnswers,
                      \*  maxNow, maxAge, maxGen, scopes]
    RNone             \* no checkpoint, no record, no resolution

VARIABLES
    rinst,      \* the instance, chosen once
    rnow,       \* the clock
    rgen,       \* the project's current authority generation
    heads,      \* every stable head signed so far
    lookups,    \* when each lookup challenge was issued
    answers,    \* signed answers under way; they may be late, or replayed
    prepared,   \* results between prepare and finalize
    observed,   \* the checkpoint, latestObservedHead: an index or 0
    verdicts    \* finalized results, oldest first

refundVars == <<rinst, rnow, rgen, heads, lookups, answers, prepared, observed, verdicts>>

(***************************************************************************)
(* What a head says.                                                       *)
(***************************************************************************)
States == {"refund-recorded", "dispute-open", "dispute-resolved"}

\* parseRefundRecord: a state admits these resolutions and no other
ResolutionFits(state, resolution) ==
    \/ state = "refund-recorded" /\ resolution = "refund"
    \/ state = "dispute-open" /\ resolution = RNone
    \/ state = "dispute-resolved" /\ resolution \in {"refund", "purchase-upheld"}

\* refundEligibilityEffect
RefundEligibilityEffect(state, resolution) ==
    IF state = "dispute-resolved" /\ resolution = "purchase-upheld" THEN "clear" ELSE "block"

Cases == {c \in [rev : 1..2, state : States,
                 resolution : {"refund", "purchase-upheld", RNone},
                 scope : rinst.scopes] : ResolutionFits(c.state, c.resolution)}

Recorded(h) == heads[h].case # RNone

EffectOf(h) ==
    IF Recorded(h) THEN RefundEligibilityEffect(heads[h].case.state, heads[h].case.resolution)
                   ELSE "clear"

RecordOf(h) == IF Recorded(h) THEN heads[h] ELSE RNone

\* assertRefundScopeAppliesToResource: the whole purchase, or the queried item
ScopeApplies(scope) == scope \in {"purchase", "item"}

(***************************************************************************)
(* The checks of prepareRefundLedgerResult, against the checkpoint `obs'.  *)
(***************************************************************************)
\* assertRefundHeadFreshAndMonotonic
FreshAndMonotonic(h, signedAt, obs) ==
    /\ heads[h].at <= signedAt
    /\ signedAt <= rnow
    /\ rnow - signedAt <= rinst.maxAge
    /\ obs # 0 =>
         \/ heads[h].seq = heads[obs].seq /\ h = obs
         \/ /\ heads[h].seq = heads[obs].seq + 1
            /\ heads[h].prior = obs
            /\ heads[h].at >= heads[obs].at

\* assertRefundSignerAndPolicy: the signer, its evidence and the policy are
\* those of the current authority
SignerAndPolicy(gen) == gen = rgen

\* A slip: a head without an entry may follow a recorded one
HeadAcceptedEmptied(a, l, obs) ==
    /\ SignerAndPolicy(heads[a.head].gen)
    /\ a.lookup = l
    /\ FreshAndMonotonic(a.head, a.signedAt, obs)

\* parseRefundLedgerHead
HeadAccepted(a, l, obs) ==
    /\ SignerAndPolicy(heads[a.head].gen)
    /\ a.lookup = l
    /\ FreshAndMonotonic(a.head, a.signedAt, obs)
    /\ ~ (/\ obs # 0
          /\ heads[a.head].seq = heads[obs].seq + 1
          /\ Recorded(obs)
          /\ ~Recorded(a.head))

\* A case that opens at this head
Opens(case) == case.rev = 1 /\ case.state # "dispute-resolved"

\* parseObservedRefundOrderCase: the order case the checkpoint carries
ObservedCase(obs) == heads[obs].case

\* assertRefundOrderCaseTransition
CaseTransition(rec, obs) ==
    IF obs = 0 THEN Opens(rec.case)
    ELSE IF rec.seq = heads[obs].seq THEN rec = RecordOf(obs)
    ELSE /\ rec.seq = heads[obs].seq + 1
         /\ IF ~Recorded(obs) THEN Opens(rec.case)
            ELSE /\ rec.case.rev = ObservedCase(obs).rev + 1
                 /\ rec.case.scope = ObservedCase(obs).scope
                 /\ ObservedCase(obs).state = "dispute-open"
                 /\ rec.case.state \in {"dispute-open", "dispute-resolved"}

\* parseRefundRecord, and the comparison of record and head in prepare
RecordAccepted(a, obs) ==
    LET rec == a.record IN
    /\ SignerAndPolicy(rec.gen)
    /\ (obs # 0 /\ rec.seq = heads[obs].seq + 1) => rec.prior = obs
    /\ ScopeApplies(rec.case.scope)
    /\ CaseTransition(rec, obs)
    /\ rec = RecordOf(a.head)

\* prepareRefundLedgerResult: a no-entry head is judged alone, a recorded
\* head with the record it names
PrepareAccepts(a, l, obs) ==
    /\ HeadAccepted(a, l, obs)
    /\ (a.record = RNone) <=> ~Recorded(a.head)
    /\ Recorded(a.head) => RecordAccepted(a, obs)

(***************************************************************************)
(* The actions.                                                            *)
(***************************************************************************)
RefundInit ==
    /\ rinst \in RefundInstances
    /\ rnow = 0 /\ rgen = 1
    /\ heads = << >> /\ lookups = << >>
    /\ answers = {} /\ prepared = {}
    /\ observed = 0 /\ verdicts = << >>

\* An honest ledger signs one history, and only legal order cases
Legal(h, parent) ==
    /\ parent = Len(heads)
    /\ h.case # RNone =>
         IF parent = 0 THEN Opens(h.case)
         ELSE IF ~Recorded(parent) THEN Opens(h.case)
         ELSE /\ heads[parent].case.state = "dispute-open"
              /\ h.case.rev = heads[parent].case.rev + 1
              /\ h.case.scope = heads[parent].case.scope
              /\ h.case.state # "refund-recorded"
    /\ (parent # 0 /\ Recorded(parent)) => h.case # RNone

\* The business records an entry on top of some head it signed before
SignHead ==
    /\ Len(heads) < rinst.maxHeads
    /\ \E parent \in 0..Len(heads), case \in Cases \cup {RNone} :
         LET h == [seq |-> IF parent = 0 THEN 1 ELSE heads[parent].seq + 1,
                   prior |-> parent, gen |-> rgen, at |-> rnow, case |-> case]
         IN /\ rinst.honest => Legal(h, parent)
            /\ heads' = Append(heads, h)
    /\ UNCHANGED <<rinst, rnow, rgen, lookups, answers, prepared, observed, verdicts>>

\* The service issues a fresh lookup request and challenge
Ask ==
    /\ Len(lookups) < rinst.maxLookups
    /\ lookups' = Append(lookups, rnow)
    /\ UNCHANGED <<rinst, rnow, rgen, heads, answers, prepared, observed, verdicts>>

\* The ledger signs a head for a lookup and attaches a record
Answer ==
    \E l \in DOMAIN lookups, h \in DOMAIN heads :
      \E r \in IF rinst.mixed THEN {RecordOf(k) : k \in DOMAIN heads} ELSE {RecordOf(h)} :
        /\ Cardinality(answers) < rinst.maxAnswers
        /\ rinst.honest => h = Len(heads)
        /\ answers' = answers \cup {[lookup |-> l, head |-> h, record |-> r, signedAt |-> rnow]}
        /\ answers' # answers
        /\ UNCHANGED <<rinst, rnow, rgen, heads, lookups, prepared, observed, verdicts>>

\* parseRefundLedgerExpectation: the lookup, the authority, the checkpoint and
\* the instant a result is judged by
Expectation(l) == [lookup |-> l, base |-> observed, gen |-> rgen, at |-> rnow]

\* Prepare judges one answer; a refused answer throws and changes nothing
Prepare ==
    \E a \in answers, l \in DOMAIN lookups :
      /\ \A p \in prepared : p.expected.lookup # l
      /\ \A i \in DOMAIN verdicts : verdicts[i].lookup # l
      /\ PrepareAccepts(a, l, observed)
      /\ prepared' = prepared \cup {[expected |-> Expectation(l), answer |-> a]}
      /\ answers' = IF rinst.replays THEN answers ELSE answers \ {a}
      /\ UNCHANGED <<rinst, rnow, rgen, heads, lookups, observed, verdicts>>

\* parseRefundAttestationVerificationResult: the verifier's word counts for the
\* attestation it was asked about
AttestationVerified(p, v) == v.status = "verified" /\ v.of = p

\* finalizeRefundLedgerResult, with the word of the signature verifier; the
\* caller stores the new checkpoint only over the one it prepared from
Finalize ==
    \E p \in prepared, of \in prepared :
      /\ AttestationVerified(p, [status |-> "verified", of |-> of])
      /\ prepared' = prepared \ {p}
      /\ IF p.expected.base = observed
         THEN /\ observed' = p.answer.head
              /\ verdicts' = Append(verdicts,
                    [lookup |-> p.expected.lookup, head |-> p.answer.head,
                     at |-> p.expected.at, gen |-> p.expected.gen,
                     effect |-> EffectOf(p.answer.head)])
         ELSE UNCHANGED <<observed, verdicts>>
      /\ UNCHANGED <<rinst, rnow, rgen, heads, lookups, answers>>

\* The verifier reports "invalid" or "unavailable", or the process restarts:
\* prepared results live in memory only and never reach a verdict
Discard ==
    \E p \in prepared :
      /\ prepared' = prepared \ {p}
      /\ UNCHANGED <<rinst, rnow, rgen, heads, lookups, answers, observed, verdicts>>

RefundTick ==
    /\ rnow < rinst.maxNow
    /\ rnow' = rnow + 1
    /\ UNCHANGED <<rinst, rgen, heads, lookups, answers, prepared, observed, verdicts>>

\* The project's authority moves to its next generation
Rotate ==
    /\ rgen < rinst.maxGen
    /\ rgen' = rgen + 1
    /\ UNCHANGED <<rinst, rnow, heads, lookups, answers, prepared, observed, verdicts>>

RefundNext ==
    \/ SignHead \/ Ask \/ Answer \/ Prepare \/ Finalize \/ Discard \/ RefundTick \/ Rotate

RefundSpec == RefundInit /\ [][RefundNext]_refundVars

(***************************************************************************)
(* Properties.                                                             *)
(***************************************************************************)
\* A blocked order case is cleared only by upholding the purchase: whatever
\* the ledger signs and however answers are replayed, a "clear" result after
\* a "block" result is a later revision of the same dispute, of the same
\* scope, resolved for the purchase; a refund, once seen, never clears
\* (parseRefundLedgerHead, assertRefundOrderCaseTransition).
ClearedOnlyByUpholding ==
    \A i, j \in DOMAIN verdicts :
      LET b == verdicts[i].head
          c == verdicts[j].head
      IN (i < j /\ verdicts[i].effect = "block" /\ verdicts[j].effect = "clear") =>
           /\ heads[b].case.state = "dispute-open"
           /\ Recorded(c) /\ heads[c].case.scope = heads[b].case.scope
           /\ heads[c].case.rev > heads[b].case.rev

\* The accepted heads are one history without a gap, even when the signer forks
\* the ledger and two lookups are prepared at once
\* (assertRefundHeadFreshAndMonotonic).
OneLedgerHistory ==
    \A i \in DOMAIN verdicts :
      i > 1 => \/ verdicts[i].head = verdicts[i - 1].head
               \/ heads[verdicts[i].head].prior = verdicts[i - 1].head

\* A result of an honest ledger misses nothing recorded before its lookup was
\* asked, nor anything older than the maximum head age: a late or replayed
\* answer never yields an old effect (lookup challenge and signedAt checks).
ResultIsCurrent ==
    rinst.honest =>
      \A i \in DOMAIN verdicts, h \in DOMAIN heads :
        (\/ heads[h].at < lookups[verdicts[i].lookup]
         \/ heads[h].at < verdicts[i].at - rinst.maxAge)
          => heads[h].seq <= heads[verdicts[i].head].seq

\* An honest ledger is never refused by a service that keeps up: when the
\* checkpoint is the tip or its predecessor and the tip is of the current
\* generation, a fresh answer to a new lookup is accepted (the legal
\* transitions of the ledger and of the checks are the same).
HonestTipAccepted ==
    LET tip == Len(heads)
        a   == [lookup |-> 0, head |-> tip, record |-> RecordOf(tip), signedAt |-> rnow]
    IN (/\ rinst.honest /\ observed # 0
        /\ heads[tip].gen = rgen
        /\ heads[tip].seq <= heads[observed].seq + 1
        /\ Recorded(tip) => ScopeApplies(heads[tip].case.scope))
         => PrepareAccepts(a, 0, observed)

\* What a caller may rely on when it acts on a refund result, for every ledger,
\* replay and pair of overlapping lookups: blocks are lifted only by upholding
\* the purchase, the accepted heads are one history, a result misses nothing
\* recorded before it was asked for, and an honest tip is never refused
\* (parseRefundLedgerResult).
RefundResultsSound ==
    /\ ClearedOnlyByUpholding
    /\ OneLedgerHistory
    /\ ResultIsCurrent
    /\ HonestTipAccepted
=============================================================================
