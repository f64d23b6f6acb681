------------------------------ MODULE PageSync ------------------------------
(***************************************************************************)
(* The client's verification of conversation pages and log heads           *)
(* (delivery/sync.ts).  A client holds a verified prefix of a              *)
(* conversation: its head, the MLS projection, the staged proposals, the   *)
(* policy projection and its witness and policy anchors.  It asks for a    *)
(* page after the prefix, checks whatever the service returns and, when    *)
(* every check passes, adopts the page as the new prefix.                  *)
(*                                                                         *)
(* The service is not trusted: it signs any log and any policy log, may be *)
(* restored from a backup and go on along another branch, and may answer   *)
(* with a window of any branch.  The witness is trusted: it co-signs one   *)
(* lineage.  A hash is the value it commits to, so the head hash at a      *)
(* position is the log up to that position.                                *)
(***************************************************************************)
EXTENDS Integers, Sequences, FiniteSets, SequencesExt

CONSTANTS
  Clients,    \* installations that sync the conversation
  Joined,     \* Joined[c]: the position of the Commit that made c a member
  Limit,      \* requested page limit
  Instances,  \* bounds to explore, as records, see below
  None

\* An instance says who syncs, which proposals are recorded, which clients may be
\* removed, how long the log and the policy log grow, how often the service is
\* restored, how far it purges, and whether it publishes ill-formed envelopes and
\* answers with altered pages.
ASSUME PageSyncAssumption ==
  /\ Limit \in Nat \ {0}
  /\ Joined \in [Clients -> {1, 2}]
  /\ \A i \in Instances :
       /\ i.clients \subseteq Clients /\ i.removable \subseteq Clients
       /\ {i.positions, i.policies, i.forks, i.floor} \subseteq Nat
       /\ i.faulty \in BOOLEAN

VARIABLES
  inst,       \* the instance explored: constant through a behaviour
  hist,       \* [log, pol, ends]: the branch the service is on
  lost,       \* branches abandoned by a restore
  witnessed,  \* the lineage the witness co-signs: a log
  floor,      \* first retained position
  cl          \* cl[c]: the verified prefix of client c

vars == <<inst, hist, lost, witnessed, floor, cl>>

Branches == lost \cup {hist}

(***************************************************************************)
(* Envelopes, policy heads and the projections they lead to.  A policy     *)
(* head names the log prefix it was issued at and the mandatory proposals. *)
(***************************************************************************)
Upto(seq, n) == SubSeq(seq, 1, n)

PositionOf(head) == Len(head.base)

Mandatory(pol) == Last(pol).mandatory

IsCommit(e) == e.class = "mls_commit"

ChangesRoster(log, p) == IsCommit(log[p]) /\ (p = 1 \/ log[p].uses # {})

Projection(log) ==
  [epoch  |-> Cardinality({p \in DOMAIN log : IsCommit(log[p])}),
   roster |-> Cardinality({p \in DOMAIN log : ChangesRoster(log, p)})]

Application(at, tag) ==
  [class |-> "application", at |-> at, prop |-> None, uses |-> {},
   removes |-> None, bound |-> TRUE, tag |-> tag]

Creation ==
  [Application([epoch |-> 0, roster |-> 0], 0) EXCEPT !.class = "mls_commit"]

\* What the service may publish next.  Only an ill-behaved service publishes an
\* envelope of another epoch or a Commit of a sender without a roster credential.
Envelopes(log, tag) ==
  LET ats    == {Projection(log)} \cup
                  IF inst.faulty THEN {Projection(Upto(log, Len(log) - 1))} ELSE {}
      bounds == {TRUE} \cup IF inst.faulty THEN {FALSE} ELSE {}
      plain  == {Application(at, tag) : at \in ats}
  IN plain
     \cup {[e EXCEPT !.class = "external_proposal", !.prop = x] :
             e \in plain, x \in inst.proposals}
     \cup {[Application(Projection(log), tag) EXCEPT
              !.class = "mls_commit", !.uses = u, !.removes = d, !.bound = b] :
             u \in SUBSET inst.proposals, d \in {None}, b \in bounds}
     \cup {[Application(Projection(log), tag) EXCEPT
              !.class = "mls_commit", !.uses = u, !.removes = d] :
             u \in SUBSET inst.proposals \ {{}}, d \in inst.removable}

(***************************************************************************)
(* The client's stored prefix.  A client that created the conversation     *)
(* starts before its Commit; one that joined by a Welcome starts at the    *)
(* head before its Add.                                                    *)
(***************************************************************************)
FirstHead == [base |-> <<>>, mandatory |-> {}]

Bootstrap(c) ==
  LET log == Upto(<<Creation>>, Joined[c] - 1)
  IN [anchor  |-> log,               \* verified log prefix (its head hash)
      mls     |-> Projection(log),   \* MLS projection at the anchor
      staged  |-> <<>>,              \* staged proposals at the anchor
      pol     |-> <<FirstHead>>,     \* policy projection at the anchor
      cursor  |-> None,              \* cursor of the last page, by its position
      removed |-> None,              \* position of the Commit that removed c
      hw      |-> <<FirstHead>>,     \* trusted policy anchor
      wit     |-> <<>>,              \* trusted witness anchor: its tree
      head    |-> <<>>]              \* last verified log head

Init ==
  /\ inst \in Instances
  /\ hist = [log |-> <<Creation>>, pol |-> <<FirstHead>>, ends |-> <<1>>]
  /\ lost = {}
  /\ witnessed = <<>>
  /\ floor = 1
  /\ cl = [c \in Clients |-> Bootstrap(c)]

ParsedPrefix(k) ==
  /\ PositionOf(Last(k.pol)) <= Len(k.anchor)
  /\ PositionOf(Last(k.pol)) = Len(k.anchor) => Last(k.pol).base = k.anchor
  /\ \A i \in DOMAIN k.staged :
       /\ k.staged[i].required => k.staged[i].prop \in Mandatory(k.pol)
       /\ k.staged[i].position <= Len(k.anchor)
       /\ k.staged[i].epoch = k.mls.epoch

RequestedAfter(c, k) == IF k.cursor = None THEN Joined[c] - 1 ELSE k.cursor

(***************************************************************************)
(* A page: the branch it was cut from, the positions of its events, its    *)
(* snapshot (end position, policy sequence, MLS projection), the witness   *)
(* receipt (position and tree size), the Welcome flag, hasMore and the     *)
(* position in the next cursor.                                            *)
(***************************************************************************)
\* What conversationPageReader returns: the stored projection of the page end.
HonestPage(c, k, b) ==
  LET after == RequestedAfter(c, k)
      cap   == IF k.removed \in DOMAIN b.log THEN k.removed ELSE Len(b.log)
      n     == IF cap - after < Limit THEN cap - after ELSE Limit
      end   == after + n
  IN [branch  |-> b,
      events  |-> [i \in 1..n |-> after + i],
      welcome |-> after = Joined[c] - 1 /\ Joined[c] # 1,
      end     |-> end,
      policy  |-> IF end = Len(k.anchor) THEN Len(k.pol) ELSE b.ends[end],
      mls     |-> Projection(Upto(b.log, end)),
      receipt |-> IF Len(witnessed) < end THEN Len(witnessed) ELSE end,
      tree    |-> Len(witnessed),
      more    |-> cap > end,
      next    |-> end]

\* What a faulty service may return instead: a page that differs in one respect.
FaultyPages(c, k, b) ==
  LET h == HonestPage(c, k, b)
  IN    {[h EXCEPT !.events = @ \o <<p>>, !.end = p, !.next = p,
                   !.policy = b.ends[p], !.mls = Projection(Upto(b.log, p))] :
           p \in DOMAIN b.log}
   \cup {[h EXCEPT !.events = Tail(@)] : x \in {y \in {0} : h.events # <<>>}}
   \cup {[h EXCEPT !.events = <<>>, !.end = Len(k.anchor), !.next = Len(k.anchor),
                   !.policy = q, !.mls = k.mls] : q \in DOMAIN b.pol}
   \cup {[h EXCEPT !.policy = q] : q \in DOMAIN b.pol}
   \cup {[h EXCEPT !.end = p] : p \in DOMAIN b.log}
   \cup {[h EXCEPT !.mls.epoch = @ - 1], [h EXCEPT !.welcome = ~@],
         [h EXCEPT !.more = ~@], [h EXCEPT !.next = @ + 1]}
   \cup {[h EXCEPT !.receipt = p, !.tree = t] :
           p \in DOMAIN witnessed, t \in DOMAIN witnessed}

(***************************************************************************)
(* verifyConversationPage: the structural checks.                          *)
(***************************************************************************)
HeadAt(pg, p) == Upto(pg.branch.log, p)

\* Heads the page proves: the anchor's and those of its events.
ProvenHead(k, pg, p, head) ==
  \/ p = Len(k.anchor) /\ head = k.anchor
  \/ p \in Range(pg.events) /\ head = HeadAt(pg, p)

Visible(c, k, p) == p >= Joined[c] /\ (k.removed # None => p <= k.removed)

RequestHolds(c, k) ==
  LET after == RequestedAfter(c, k)
  IN /\ after >= Joined[c] - 1
     /\ k.removed # None => after <= k.removed
     /\ after = Len(k.anchor)
     /\ after # k.removed => floor <= after + 1

\* Fault: positions are compared, head hashes are not.
ChainedByPosition(k, pg) ==
  \A i \in DOMAIN pg.events : pg.events[i] = Len(k.anchor) + i

Chained(k, pg) ==
  \A i \in DOMAIN pg.events :
    /\ pg.events[i] = Len(k.anchor) + i
    /\ HeadAt(pg, pg.events[i] - 1) =
         IF i = 1 THEN k.anchor ELSE HeadAt(pg, pg.events[i - 1])

EventsHold(c, k, pg) ==
  /\ Len(pg.events) <= Limit
  /\ Chained(k, pg)
  /\ \A i \in DOMAIN pg.events : Visible(c, k, pg.events[i])
  /\ Len(k.anchor) = Joined[c] - 1 =>
       /\ pg.events # <<>>
       /\ IsCommit(pg.branch.log[pg.events[1]])
  /\ pg.welcome <=> (Len(k.anchor) = Joined[c] - 1 /\ Joined[c] # 1)

ReceiptHolds(k, pg) ==
  /\ pg.receipt # 0
  /\ ProvenHead(k, pg, pg.receipt, Upto(witnessed, pg.receipt))

PolicyAnchored(k, pg) ==
  LET head == pg.branch.pol[pg.policy]
  IN PositionOf(head) < Len(k.anchor) \/ ProvenHead(k, pg, PositionOf(head), head.base)

SnapshotHolds(k, pg) ==
  /\ ProvenHead(k, pg, pg.end, HeadAt(pg, pg.end))
  /\ ReceiptHolds(k, pg)
  /\ PolicyAnchored(k, pg)
  /\ IF pg.events = <<>>
     THEN /\ ~pg.more /\ pg.end = Len(k.anchor)
          /\ Upto(pg.branch.pol, pg.policy) = k.pol
     ELSE pg.end = Last(pg.events)
  /\ k.removed # None => pg.end <= k.removed
  /\ pg.end = k.removed => ~pg.more

(***************************************************************************)
(* The verifier ports and the evidence they return, bound field for field  *)
(* to the request: every head of a branch is signed; the witness proves    *)
(* its receipt in a tree that extends the one the client trusts; policy    *)
(* heads are proved to lie on the policy log the client trusts, and to be  *)
(* the head in force at the page end ("page-exact").                       *)
(***************************************************************************)
ProofsHold(k, pg) ==
  /\ pg.receipt <= pg.tree
  /\ pg.tree >= Len(k.wit)
  /\ IsPrefix(k.wit, Upto(witnessed, pg.tree))

PolicyHeadHolds(k, pg) ==
  /\ PositionOf(pg.branch.pol[pg.policy]) <= pg.end
  /\ IsPrefix(Upto(pg.branch.pol, pg.policy), k.hw)
  /\ \A i \in pg.policy + 1..Len(k.hw) : PositionOf(k.hw[i]) >= pg.end

\* Fault: a transition at the anchor's own position is taken for an old one.
TransitionsAfter(k, pg) ==
  SelectSeq(SubSeq(pg.branch.pol, Len(k.pol) + 1, pg.policy),
            LAMBDA t : PositionOf(t) > Len(k.anchor))

\* The complete list of mandatory-set changes between two policy heads.
Transitions(k, pg) == SubSeq(pg.branch.pol, Len(k.pol) + 1, pg.policy)

\* The cutoffs in force before an event, and those its position carries.
ActiveBefore(k, trans, p) ==
  LET before == SelectSeq(trans, LAMBDA t : PositionOf(t) < p)
  IN IF before = <<>> THEN Mandatory(k.pol) ELSE Last(before).mandatory

ReplayHolds(k, pg) ==
  LET trans == Transitions(k, pg)
      prior(i) == IF i = 1 THEN Last(k.pol) ELSE trans[i - 1]
  IN /\ pg.policy >= Len(k.pol)
     /\ pg.policy = Len(k.pol) => Upto(pg.branch.pol, pg.policy) = k.pol
     /\ \A i \in DOMAIN trans :
          /\ PositionOf(trans[i]) \in Len(k.anchor)..pg.end
          /\ PositionOf(trans[i]) >= PositionOf(prior(i))
          /\ trans[i].mandatory # prior(i).mandatory
          /\ ProvenHead(k, pg, PositionOf(trans[i]), trans[i].base)
     /\ \A j \in DOMAIN pg.events :
          LET p == pg.events[j]
              e == pg.branch.log[p]
          IN /\ e.class = "application" => ActiveBefore(k, trans, p) = {}
             /\ \A i \in DOMAIN trans :
                  /\ PositionOf(trans[i]) = p
                  /\ prior(i).mandatory \ trans[i].mandatory # {}
                  => IsCommit(e)

(***************************************************************************)
(* verifyOrderedMlsTranscript: the events of a page are replayed in order, *)
(* and the policy transitions between them.  A state of the replay holds   *)
(* the MLS projection, the staged queue, the mandatory proposals in force, *)
(* the transitions left and the last Commit of this page.                  *)
(***************************************************************************)
\* Fault: a requirement may be lifted by any policy head.
ApplyTransitionAny(st, t) == [st EXCEPT !.active = t.mandatory]

\* A requirement is lifted only at the Commit that consumed it.
ApplyTransition(st, t) ==
  LET lifted == st.active \ t.mandatory
  IN [st EXCEPT
        !.ok = /\ @
               /\ \/ lifted = {}
                  \/ /\ st.commit # None
                     /\ st.commit.position = PositionOf(t)
                     /\ lifted \subseteq st.commit.uses,
        !.active = t.mandatory]

ApplyCutoffs(st, bound) ==
  LET due(t) == PositionOf(t) < bound
      rest   == SelectSeq(st.left, LAMBDA t : ~due(t))
  IN FoldLeft(ApplyTransition, [st EXCEPT !.left = rest], SelectSeq(st.left, due))

StagedProps(st) == {st.staged[i].prop : i \in DOMAIN st.staged}

ReplayApplication(st) ==
  [st EXCEPT !.ok = @ /\ st.active = {} /\ st.staged = <<>>]

\* The proposal is staged, and is mandatory when the policy in force at its position
\* requires it.
ReplayProposal(st, e, p) ==
  LET cut == ApplyCutoffs(st, p + 1)
  IN [cut EXCEPT
        !.ok = @ /\ e.prop \notin StagedProps(st),
        !.staged = Append(@, [prop |-> e.prop, required |-> e.prop \in cut.active,
                              position |-> p, epoch |-> e.at.epoch])]

\* parseMlsCommitProjectionEvidence: the proposals a Commit must consume, and the
\* client itself as its target at the ends of the membership window.
CommitEvidenceHolds(c, k, st, e, p) ==
  /\ e.uses \subseteq StagedProps(st)
  /\ st.active \subseteq e.uses
  /\ p = k.removed => e.removes = c /\ e.uses # {}

ReplayCommit(c, k, st, e, p) ==
  LET next == [epoch  |-> st.mls.epoch + 1,
               roster |-> IF p = 1 \/ e.uses # {} THEN st.mls.roster + 1
                                                  ELSE st.mls.roster]
  IN ApplyCutoffs([st EXCEPT
                     !.ok = /\ @ /\ st.active \subseteq StagedProps(st)
                            /\ e.bound
                            /\ CommitEvidenceHolds(c, k, st, e, p),
                     !.mls = next, !.staged = <<>>,
                     !.commit = [position |-> p, uses |-> e.uses]], p + 1)

ReplayEvent(c, k, log, before, p) ==
  LET cut == ApplyCutoffs(before, p)
      e   == log[p]
      st  == [cut EXCEPT !.ok = @ /\ e.at = cut.mls]
  IN CASE e.class = "application"       -> ReplayApplication(st)
       [] e.class = "external_proposal" -> ReplayProposal(st, e, p)
       [] e.class = "mls_commit"        -> ReplayCommit(c, k, st, e, p)

PageStart(k, trans) ==
  [ok |-> TRUE, mls |-> k.mls, staged |-> k.staged, active |-> Mandatory(k.pol),
   left |-> trans, commit |-> None]

Replayed(c, k, pg) ==
  ApplyCutoffs(FoldLeft(LAMBDA st, p : ReplayEvent(c, k, pg.branch.log, st, p),
                        PageStart(k, Transitions(k, pg)), pg.events),
               pg.end + 1)

TranscriptHolds(c, k, pg) ==
  LET st == Replayed(c, k, pg)
  IN /\ st.ok /\ st.left = <<>>
     /\ st.active = Mandatory(Upto(pg.branch.pol, pg.policy))
     /\ st.mls = pg.mls

\* parseAndVerifyConversationPageJsonInternal: the checks in their order.
Accepts(c, k, pg) ==
  /\ ParsedPrefix(k)
  /\ RequestHolds(c, k)
  /\ EventsHold(c, k, pg)
  /\ SnapshotHolds(k, pg)
  /\ pg.next = pg.end
  /\ ProofsHold(k, pg)
  /\ PolicyHeadHolds(k, pg)
  /\ ReplayHolds(k, pg)
  /\ TranscriptHolds(c, k, pg)

\* parseAndVerifyConversationLogHeadInternal: a head of a branch, its receipt and
\* the append-only proof from the anchor.
AcceptsHead(c, k, b, p) ==
  LET head == Upto(b.log, p)
  IN /\ p <= Len(witnessed) /\ head = Upto(witnessed, p)
     /\ p >= Len(k.anchor)
     /\ k.removed = None => p >= Joined[c]
     /\ k.removed # None => p = k.removed
     /\ p = Len(k.anchor) => head = k.anchor
     /\ p = Len(k.anchor) + 1 => Upto(head, p - 1) = k.anchor
     /\ IsPrefix(k.wit, witnessed)
     /\ IsPrefix(k.anchor, head)

(***************************************************************************)
(* Steps of the service, the witness and the clients.                      *)
(***************************************************************************)
Tag == Cardinality(lost)

\* consumeCommit and recordProposal store the projection of the new position after
\* the head that drops the consumed requirements, in one transaction.
Publish(e) ==
  LET log == Append(hist.log, e)
      m   == Mandatory(hist.pol)
      pol == IF e.uses \cap m = {} THEN hist.pol
             ELSE Append(hist.pol, [base |-> log, mandatory |-> m \ e.uses])
  IN /\ Len(hist.log) < inst.positions
     /\ hist' = [log |-> log, pol |-> pol, ends |-> Append(hist.ends, Len(pol))]
     /\ UNCHANGED <<inst, lost, witnessed, floor, cl>>

ChangePolicy(m) ==
  /\ Len(hist.pol) < inst.policies /\ m # Mandatory(hist.pol)
  /\ hist' = [hist EXCEPT !.pol = Append(@, [base |-> hist.log, mandatory |-> m])]
  /\ UNCHANGED <<inst, lost, witnessed, floor, cl>>

\* The service is restored from a backup taken at position p.
Restore(p) ==
  /\ Cardinality(lost) < inst.forks
  /\ lost' = lost \cup {hist}
  /\ hist' = [log  |-> Upto(hist.log, p),
              pol  |-> Upto(hist.pol, hist.ends[p]),
              ends |-> Upto(hist.ends, p)]
  /\ UNCHANGED <<inst, witnessed, floor, cl>>

Purge ==
  /\ floor < Len(hist.log) /\ floor < inst.floor
  /\ floor' = floor + 1
  /\ UNCHANGED <<inst, hist, lost, witnessed, cl>>

WitnessHead(p) ==
  /\ IsStrictPrefix(witnessed, Upto(hist.log, p))
  /\ witnessed' = Upto(hist.log, p)
  /\ UNCHANGED <<inst, hist, lost, floor, cl>>

SyncPage(c, pg) ==
  LET k  == cl[c]
      st == Replayed(c, k, pg)
  IN /\ Accepts(c, k, pg)
     /\ cl' = [cl EXCEPT ![c] = [@ EXCEPT
                 !.anchor = IF pg.events = <<>> THEN k.anchor ELSE HeadAt(pg, pg.end),
                 !.mls = st.mls, !.staged = st.staged,
                 !.pol = Upto(pg.branch.pol, pg.policy), !.cursor = pg.next,
                 !.wit = Upto(witnessed, pg.tree)]]
     /\ UNCHANGED <<inst, hist, lost, witnessed, floor>>

SyncHead(c, b, p) ==
  /\ AcceptsHead(c, cl[c], b, p)
  /\ cl' = [cl EXCEPT ![c] = [@ EXCEPT !.head = Upto(b.log, p), !.wit = witnessed]]
  /\ UNCHANGED <<inst, hist, lost, witnessed, floor>>

\* The current policy head, proved consistent with the one the client trusts.
RefreshPolicy(c, b) ==
  /\ IsStrictPrefix(cl[c].hw, b.pol)
  /\ cl' = [cl EXCEPT ![c].hw = b.pol]
  /\ UNCHANGED <<inst, hist, lost, witnessed, floor>>

LearnRemoval(c, b, p) ==
  /\ cl[c].removed = None /\ p > Joined[c]
  /\ IsCommit(b.log[p]) /\ b.log[p].removes = c
  /\ cl' = [cl EXCEPT ![c].removed = p]
  /\ UNCHANGED <<inst, hist, lost, witnessed, floor>>

\* An expired cursor: the client starts again from its join, keeping what it trusts
\* of the witness and of the policy log.  It is refused when that is purged.
RestartSync(c) ==
  /\ cl[c].cursor # None /\ floor <= Joined[c]
  /\ cl' = [cl EXCEPT ![c] = [Bootstrap(c) EXCEPT
              !.removed = cl[c].removed, !.hw = cl[c].hw,
              !.wit = cl[c].wit, !.head = cl[c].head]]
  /\ UNCHANGED <<inst, hist, lost, witnessed, floor>>

\* A page may change nothing only if it is refused or repeats the prefix.
Sync(c) ==
  \E b \in Branches :
    Len(b.log) >= Len(cl[c].anchor) /\
      \E pg \in {HonestPage(c, cl[c], b)}
                 \cup IF inst.faulty THEN FaultyPages(c, cl[c], b) ELSE {} :
        SyncPage(c, pg)

Next ==
  \/ \E e \in Envelopes(hist.log, Tag) : Publish(e)
  \/ \E m \in SUBSET inst.proposals : ChangePolicy(m)
  \/ \E p \in 1..Len(hist.log) - 1 : Restore(p)
  \/ Purge
  \/ \E p \in DOMAIN hist.log : WitnessHead(p)
  \/ \E c \in inst.clients :
       \/ Sync(c)
       \/ \E b \in Branches : \E p \in DOMAIN b.log : SyncHead(c, b, p)
       \/ \E b \in Branches : RefreshPolicy(c, b)
       \/ \E b \in Branches : \E p \in DOMAIN b.log : LearnRemoval(c, b, p)
       \/ RestartSync(c)

Spec == Init /\ [][Next]_vars

(***************************************************************************)
(* Reference: when a whole transcript is well formed, without pages.       *)
(***************************************************************************)
InForce(pol, bound) ==
  Last(SelectSeq(pol, LAMBDA h : PositionOf(h) < bound)).mandatory

PendingAt(log, p) ==
  {q \in 1..p - 1 : /\ log[q].class = "external_proposal"
                    /\ \A r \in q..p - 1 : ~IsCommit(log[r])}

PendingProps(log, p) == {log[q].prop : q \in PendingAt(log, p)}

WellFormedAt(log, pol, p) ==
  LET e == log[p]
  IN /\ e.at = Projection(Upto(log, p - 1))
     /\ e.class = "application" => InForce(pol, p) = {} /\ PendingAt(log, p) = {}
     /\ e.class = "external_proposal" => e.prop \notin PendingProps(log, p)
     /\ IsCommit(e) => /\ InForce(pol, p) \subseteq e.uses
                       /\ e.uses \subseteq PendingProps(log, p)
                       /\ e.bound

LiftedByCommit(log, pol, i) ==
  LET p == PositionOf(pol[i])
      lifted == pol[i - 1].mandatory \ pol[i].mandatory
  IN lifted = {} \/ (IsCommit(log[p]) /\ lifted \subseteq log[p].uses)

WellFormed(log, pol, from) ==
  /\ \A p \in from..Len(log) : WellFormedAt(log, pol, p)
  /\ \A i \in 2..Len(pol) : LiftedByCommit(log, pol, i)

\* Page by page verification is sound: however the service cuts a log into pages,
\* what a client has accepted since it joined is a well-formed transcript as a
\* whole (no application traffic behind a mandatory or staged proposal, Commits in
\* epoch order that consume every requirement, requirements lifted by their Commit
\* only), and the projection it carries from page to page is that transcript's.
TranscriptValid ==
  \A c \in Clients :
    LET k == cl[c]
    IN /\ WellFormed(k.anchor, k.pol, Joined[c])
       /\ k.mls = Projection(k.anchor)
       /\ StagedProps(k) = PendingProps(k.anchor, Len(k.anchor) + 1)

\* Page by page verification is complete: a client on the service's branch accepts
\* the page conversationPageReader returns whenever the log it ends is well formed,
\* a receipt covers the anchor and the policy anchor is fresh; it is never stuck,
\* provided no page hid a policy head from it.
HonestAccepted ==
  \A c \in Clients :
    LET k == cl[c]
    IN /\ IsPrefix(k.anchor, hist.log) /\ IsPrefix(k.hw, hist.pol)
       /\ k.pol = Upto(hist.pol, IF k.anchor = <<>> THEN 1 ELSE hist.ends[Len(k.anchor)])
       /\ IsPrefix(witnessed, hist.log)
       /\ RequestHolds(c, k)
       /\ (k.removed # None => k.removed <= Len(hist.log) /\ hist.log[k.removed].removes = c)
       =>
       LET pg  == HonestPage(c, k, hist)
           end == Upto(hist.log, pg.end)
           pol == Upto(hist.pol, pg.policy)
       IN /\ pg.receipt >= Len(k.anchor) /\ pg.receipt >= 1
          /\ pg.policy <= Len(k.hw)
          /\ WellFormed(end, pol, Joined[c])
          /\ Len(k.anchor) = Joined[c] - 1 => pg.end >= Joined[c] /\ IsCommit(end[Joined[c]])
          /\ k.removed # None /\ pg.end = k.removed => end[pg.end].uses # {}
          => Accepts(c, k, pg)

\* Clients that verified a log head hold heads of one lineage, even when the service
\* signs two branches and serves each client another one.
NoSplitView ==
  \A c, d \in Clients :
    IsPrefix(cl[c].head, cl[d].head) \/ IsPrefix(cl[d].head, cl[c].head)

\* A verified prefix only ever grows at its end, unless the client starts again from
\* its join; and even then its witness and policy anchors are never lowered.
NeverRolledBack ==
  [][\A c \in Clients :
       /\ IsPrefix(cl[c].anchor, cl'[c].anchor) \/ cl'[c].cursor = None
       /\ IsPrefix(cl[c].wit, cl'[c].wit)
       /\ IsPrefix(cl[c].hw, cl'[c].hw)]_vars

\* What page verification promises of any service, honest or not: a client's
\* transcript is valid as a whole, and no two clients hold heads of two lineages
\* (parseAndVerifyConversationPageJson, the witness and policy anchors of sync.ts).
PagesSound ==
  /\ TranscriptValid
  /\ NoSplitView
=============================================================================
