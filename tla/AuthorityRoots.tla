--------------------------- MODULE AuthorityRoots ---------------------------
(***************************************************************************)
(* Who may act for a project: authority/delegations.ts and                 *)
(* authority/revocations.ts.  Scan rounds read the stored checkpoint, ask  *)
(* an untrusted scanner for the authority events of the finalized blocks   *)
(* after it, validate the report and apply it with compare-and-swap.  The  *)
(* accepted generations decide which staff delegations count, and a        *)
(* generation whose root is lost or orphaned is retired.                   *)
(*                                                                         *)
(* The chain, the scanner and the stores behind the ports are outside      *)
(* src/.  Identifiers and digests are injective and are replaced by what   *)
(* they identify; the fields that pin the project, the manifest and the    *)
(* adapter are constant.                                                   *)
(***************************************************************************)
EXTENDS Integers, Sequences, FiniteSets, SequencesExt

CONSTANTS
    RootInstances,  \* [part, roots, blocks, logs, events, rounds, time, lifetime, delegations]: which
                    \* part is exercised, the roots a project may have, and bounds
    ANone           \* no principal

VARIABLES
    ainst,        \* the instance chosen
    chain,        \* the root set by each authority event, per finalized block
    rounds,       \* scan rounds: the checkpoint read and the scanner's report
    checkpoint,   \* [through, count, last]: the stored checkpoint
    generations,  \* the stored generations
    anow,
    deviceVersion, \* revocation version of the staff device's credential
    delegations,  \* signed staff delegations
    staffUses,    \* accepted uses of a delegation
    orphans,      \* blocks the finality verifier reports as orphaned
    requests,     \* revocation requests that were accepted
    retired       \* generations retired

chainVars == <<chain, rounds, checkpoint, generations>>
staffVars == <<anow, deviceVersion, delegations, staffUses>>
lossVars  == <<orphans, requests, retired>>
rootVars  == <<ainst, chainVars, staffVars, lossVars>>

RootKinds == {"jbprojects-owner", "revnet-operator-set"}
NoRoot == [kind |-> "no-current-authority", who |-> ANone]
Disabled(root) == root = NoRoot

(***************************************************************************)
(* Generations.                                                            *)
(***************************************************************************)
\* The cause a change of root carries
CauseOf(old, new) ==
    CASE Disabled(new) /\ old.kind = "jbprojects-owner"    -> "project-owner-burned"
      [] Disabled(new) /\ old.kind = "revnet-operator-set" -> "revnet-operator-relinquished"
      [] Disabled(new)                                     -> "canonical-authority-disabled"
      [] Disabled(old) \/ old.kind # new.kind              -> "authority-mode-change"
      [] old.who = new.who                                 -> "recovery-rotation"
      [] new.kind = "jbprojects-owner"                     -> "ordinary-owner-transfer"
      [] OTHER                                             -> "revnet-operator-replacement"

CauseMatchesRoots(old, new, cause) ==
    cause = CauseOf(old, new) \/ (Disabled(new) /\ cause = "canonical-authority-disabled")

\* Position in the chain; two events of a block are ordered by their log index
Later(a, b) == a.block > b.block \/ (a.block = b.block /\ a.log > b.log)

GenerationWellFormed(g) ==
    /\ g.seq >= 1
    /\ (g.seq = 1) = (g.prior = 0)
    /\ (g.seq = 1) = (g.cause = "bootstrap")

SuccessorGeneration(prev, next) ==
    /\ next.prior = prev.seq
    /\ next.seq = prev.seq + 1
    /\ CauseMatchesRoots(prev.root, next.root, next.cause)
    /\ Later(next, prev)

\* A pinned source exists for the causes of each authority mode; the source of
\* an event that ends the authority is the one of the mode it ends
SourcePinned(prior, g) ==
    (IF ~Disabled(g.root) THEN g.root.kind
     ELSE IF prior = << >> THEN "none" ELSE Last(prior).root.kind) \in RootKinds

(***************************************************************************)
(* The chain (external).                                                   *)
(***************************************************************************)
\* The events of blocks first..last, oldest first
Events(first, last) ==
    FlattenSeq([b \in 1..last - first + 1 |->
        [i \in 1..Len(chain[first + b - 1]) |->
            [block |-> first + b - 1, log |-> i, root |-> chain[first + b - 1][i]]]])

RootBefore(events, i, base) ==
    IF i > 1 THEN events[i - 1].root ELSE IF base = << >> THEN NoRoot ELSE Last(base).root

\* A root may change, end and be set again; nothing ends twice
FinalizeBlock ==
    /\ Len(chain) < ainst.blocks
    /\ \E n \in 0..ainst.logs : \E new \in [1..n -> ainst.roots \cup {NoRoot}] :
         /\ chain' = Append(chain, new)
         /\ LET all == Events(1, Len(chain))'
            IN /\ Len(all) <= ainst.events
               /\ \A i \in 1..Len(all) :
                    ~(Disabled(all[i].root) /\ Disabled(RootBefore(all, i, << >>)))
    /\ UNCHANGED <<ainst, rounds, checkpoint, generations, staffVars, lossVars>>

(***************************************************************************)
(* Scan rounds.                                                            *)
(***************************************************************************)
\* What an honest scanner derives from the events after a checkpoint
HonestGenerations(base, events) ==
    [i \in 1..Len(events) |->
       LET seq == Len(base) + i IN
       [seq |-> seq, prior |-> seq - 1, root |-> events[i].root,
        block |-> events[i].block, log |-> events[i].log,
        cause |-> IF seq = 1 THEN "bootstrap"
                  ELSE CauseOf(RootBefore(events, i, base), events[i].root)]]

ReportFrom(base, first, head) ==
    LET found == HonestGenerations(generations, Events(first, head))
        all   == generations \o found
    IN [base |-> base, start |-> first, through |-> head, found |-> found,
        count |-> base.count + Len(found),
        last |-> IF all = << >> THEN 0 ELSE Last(all).seq]

HonestReport(base, head) == ReportFrom(base, base.through + 1, head)

\* Reports that are wrong in one respect
FaultyReports(r) ==
    {[r EXCEPT !.found = RemoveAt(r.found, i)] : i \in 1..Len(r.found)}
    \cup (IF r.start < r.through THEN {ReportFrom(r.base, r.start + 1, r.through)} ELSE {})
    \cup {[r EXCEPT !.found = Reverse(r.found)],
          [r EXCEPT !.through = r.start, !.found = SelectSeq(r.found, LAMBDA g : g.block = r.start)]}
    \cup {old.report : old \in rounds}

\* current, then scanFinalizedRange up to the finalized head the caller chose
BeginRound ==
    /\ Cardinality(rounds) < ainst.rounds
    /\ checkpoint.through < Len(chain)
    /\ \E head \in checkpoint.through + 1..Len(chain) :
         LET honest == HonestReport(checkpoint, head) IN
         \E report \in {honest} \cup (IF ainst.part = "scan" THEN FaultyReports(honest) ELSE {}) :
           rounds' = rounds \cup
             {[prev |-> checkpoint, gens |-> generations, head |-> head, report |-> report]}
    /\ UNCHANGED <<ainst, chain, checkpoint, generations, staffVars, lossVars>>

\* A slip: a scan may start anywhere after the checkpoint
RangeContinuesLater(r) ==
    /\ r.report.base = r.prev
    /\ r.report.start >= r.prev.through + 1
    /\ r.report.through = r.head

\* The report continues the checkpoint the round read, without gap or replay,
\* up to the expected head
RangeContinues(r) ==
    /\ r.report.base = r.prev
    /\ r.report.start = r.prev.through + 1
    /\ r.report.through = r.head
    /\ r.report.through >= r.report.start
    /\ (r.prev.count = 0) = (r.gens = << >>)
    /\ r.gens # << >> => r.prev.last = Last(r.gens).seq

GenerationsContinue(r) ==
    LET all == r.gens \o r.report.found IN
    /\ \A i \in 1..Len(r.report.found) :
         LET g     == r.report.found[i]
             prior == SubSeq(all, 1, Len(r.gens) + i - 1)
         IN /\ GenerationWellFormed(g)
            /\ g.block \in r.report.start..r.report.through
            /\ IF prior = << >> THEN g.seq = 1 ELSE SuccessorGeneration(Last(prior), g)
            /\ SourcePinned(prior, g)
    /\ all # << >>

CountsClose(r) ==
    LET all == r.gens \o r.report.found IN
    /\ r.report.count = r.prev.count + Len(r.report.found)
    /\ r.report.last = Last(all).seq

ScanAccepted(r) == RangeContinues(r) /\ GenerationsContinue(r) /\ CountsClose(r)

\* parseFinalizedAuthorityTransitionScan, then applyFinalizedScanAtomically
\* expecting the checkpoint the round read; a refused report or a version
\* conflict changes nothing.  The answer may be lost and the round tried again
EndRound ==
    \E r \in rounds :
      /\ rounds' \in {rounds \ {r}, rounds}
      /\ IF ScanAccepted(r) /\ r.prev = checkpoint
         THEN /\ checkpoint' = [through |-> r.report.through, count |-> r.report.count,
                                last |-> r.report.last]
              /\ generations' = generations \o r.report.found
         ELSE UNCHANGED <<checkpoint, generations>>
      /\ UNCHANGED <<ainst, chain, staffVars, lossVars>>

(***************************************************************************)
(* Staff delegations.                                                      *)
(***************************************************************************)
\* The root of a generation signs a delegation for the staff device
Delegate ==
    /\ ainst.part = "staff"
    /\ \E g \in 1..Len(generations), starts \in 0..1, life \in 1..ainst.lifetime + 1 :
         LET d == [gen |-> g, issuer |-> generations[g].root.who, version |-> deviceVersion,
                   issued |-> anow, notBefore |-> anow + starts, expires |-> anow + life]
         IN /\ ~Disabled(generations[g].root)
            /\ Cardinality(delegations) < ainst.delegations
            /\ delegations' = delegations \cup {d}
    /\ UNCHANGED <<ainst, chainVars, anow, deviceVersion, staffUses, lossVars>>

\* parseProjectStaffDelegation against the current generation and credential
DelegationAccepted(d) ==
    LET current == Last(generations) IN
    /\ ~Disabled(current.root)
    /\ d.gen = current.seq
    /\ d.issuer = current.root.who
    /\ d.version = deviceVersion
    /\ d.notBefore >= d.issued /\ d.expires > d.notBefore
    /\ d.expires - d.issued <= ainst.lifetime
    /\ d.notBefore <= anow /\ anow < d.expires

UseDelegation ==
    /\ generations # << >>
    /\ \E d \in delegations :
         /\ DelegationAccepted(d)
         /\ staffUses' = staffUses \cup
              {[del |-> d, at |-> anow, version |-> deviceVersion, through |-> checkpoint.through]}
    /\ UNCHANGED <<ainst, chainVars, anow, deviceVersion, delegations, lossVars>>

RevokeDevice ==
    /\ ainst.part = "staff" /\ deviceVersion = 0
    /\ deviceVersion' = deviceVersion + 1
    /\ UNCHANGED <<ainst, chainVars, anow, delegations, staffUses, lossVars>>

RootTick ==
    /\ ainst.part = "staff" /\ anow < ainst.time
    /\ anow' = anow + 1
    /\ UNCHANGED <<ainst, chainVars, deviceVersion, delegations, staffUses, lossVars>>

(***************************************************************************)
(* Loss and revocation.                                                    *)
(***************************************************************************)
\* parseCanonicalityResult: a block is reported orphaned
ReportOrphan ==
    /\ ainst.part = "loss"
    /\ \E b \in 1..Len(chain) : orphans = {} /\ orphans' = {b}
    /\ UNCHANGED <<ainst, chainVars, staffVars, requests, retired>>

\* Loss evidence names an active predecessor and the tombstone after it
LossEvidenceAccepted(pred, tombstone) ==
    /\ ~Disabled(pred.root)
    /\ Disabled(tombstone.root)
    /\ tombstone.seq = pred.seq + 1
    /\ tombstone.cause \in {"project-owner-burned", "revnet-operator-relinquished",
                            "canonical-authority-disabled"}
    /\ tombstone.cause = "project-owner-burned" => pred.root.kind = "jbprojects-owner"
    /\ tombstone.cause = "revnet-operator-relinquished" => pred.root.kind = "revnet-operator-set"
    /\ Later(tombstone, pred)

\* A cause: the loss a tombstone describes, or an orphaned block
RevocationCauses ==
    {[kind |-> "loss", pred |-> generations[p].seq, who |-> generations[p].root,
      block |-> 0] :
       p \in {p \in 1..Len(generations) : \E t \in 1..Len(generations) :
                LossEvidenceAccepted(generations[p], generations[t])}}
    \cup {[kind |-> "orphaned", pred |-> 0, who |-> NoRoot, block |-> b] : b \in orphans}

\* parseAuthorityRevocationRequest: the cause must be about exactly the
\* generation to retire
RevocationAccepted(cause, g) ==
    /\ cause.kind = "orphaned" => cause.block = g.block
    /\ cause.kind = "loss" => cause.pred = g.seq /\ cause.who = g.root

RequestRevocation ==
    /\ ainst.part = "loss"
    /\ \E g \in 1..Len(generations), cause \in RevocationCauses :
         /\ RevocationAccepted(cause, generations[g])
         /\ g \notin retired \cup requests
         /\ requests' = requests \cup {g}
    /\ UNCHANGED <<ainst, chainVars, staffVars, orphans, retired>>

\* revokeAndEnqueueRekey answers committed, its answer is lost after the
\* commit, or it is unavailable and the request is made again
CommitRevocation ==
    /\ \E g \in requests, answered \in BOOLEAN :
         /\ retired' = retired \cup {g}
         /\ requests' = IF answered THEN requests \ {g} ELSE requests
    /\ UNCHANGED <<ainst, chainVars, staffVars, orphans>>

(***************************************************************************)
(* Specification.                                                          *)
(***************************************************************************)
RootInit ==
    /\ ainst \in RootInstances
    /\ chain = << >> /\ rounds = {}
    /\ checkpoint = [through |-> 0, count |-> 0, last |-> 0]
    /\ generations = << >>
    /\ anow = 0 /\ deviceVersion = 0 /\ delegations = {} /\ staffUses = {}
    /\ orphans = {} /\ requests = {} /\ retired = {}

RootNext ==
    \/ FinalizeBlock \/ BeginRound \/ EndRound
    \/ Delegate \/ UseDelegation \/ RevokeDevice \/ RootTick
    \/ ReportOrphan \/ RequestRevocation \/ CommitRevocation

RootSpec == RootInit /\ [][RootNext]_rootVars

(***************************************************************************)
(* Properties.                                                             *)
(***************************************************************************)
\* The stored generations are exactly the authority events of the chain up to
\* the stored checkpoint.  Rounds that overlap, replayed reports, and reports
\* with a missing, reordered or skipped range neither lose a transition nor
\* count one twice, and two changes inside one block stay two generations
\* (parseFinalizedAuthorityTransitionScan, applyFinalizedScanAtomically).
GenerationsExact ==
    LET events == Events(1, checkpoint.through) IN
    /\ checkpoint.count = Len(generations)
    /\ Len(generations) = Len(events)
    /\ \A i \in 1..Len(events) :
         /\ generations[i].root = events[i].root
         /\ generations[i].block = events[i].block /\ generations[i].log = events[i].log

\* An honest report on the stored checkpoint is accepted whatever happened on
\* the chain before, so scanning cannot get stuck once the first root exists
\* (parseFinalizedAuthorityTransitionScan).
HonestScanAccepted ==
    \A head \in checkpoint.through + 1..Len(chain) :
      LET report == HonestReport(checkpoint, head)
      IN generations \o report.found # << >> =>
           ScanAccepted([prev |-> checkpoint, gens |-> generations, head |-> head,
                         report |-> report])

\* Staff acts only for the account that held the project at the checkpoint, on
\* a credential that was not revoked and within the permitted lifetime: a
\* delegation ends with the generation that signed it, even when the same
\* account holds the project again later (parseProjectStaffDelegation).
StaffActsForHolder ==
    \A u \in staffUses :
      LET events == Events(1, u.through) IN
      /\ u.del.gen = Len(events)
      /\ Last(events).root.who = u.del.issuer
      /\ u.version = u.del.version
      /\ u.at < u.del.issued + ainst.lifetime

\* Only a generation whose root really ended, or whose own block is orphaned,
\* is ever retired (parseAuthorityRevocationRequest,
\* parseFinalizedAuthorityLossEvidence).
RetiredForCause ==
    \A g \in retired :
      LET events == Events(1, Len(chain))
      IN events[g].block \in orphans \/ Disabled(events[g + 1].root)

\* Project authority follows the chain and nothing else: generations are its
\* authority events, honest scans always go on, staff acts for the holder of the
\* project alone, and only what ended is retired (delegations.ts,
\* revocations.ts).
RootsFollowChain ==
    /\ GenerationsExact
    /\ HonestScanAccepted
    /\ StaffActsForHolder
    /\ RetiredForCause
=============================================================================
