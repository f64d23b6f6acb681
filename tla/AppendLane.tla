----------------------------- MODULE AppendLane -----------------------------
(***************************************************************************)
(* The application-append lane of one conversation of the production       *)
(* Delivery service.  HTTP requests run the orchestrator of                *)
(* src/src/production/delivery/service.ts as concurrent invocations over   *)
(* the PostgreSQL store of                                                 *)
(* src/src/production/storage/postgresDeliveryStore.ts:                    *)
(*                                                                         *)
(*   preflight -> lookup -> load -> admit -> reserve -> signer             *)
(*                                            -> finalize  (or retire)     *)
(*                                                                         *)
(* Every store call is one READ COMMITTED transaction.  The locking ones   *)
(* serialise on the conversation's custody row, so each is one action; the *)
(* reads of the preflight take no lock, and writers commit between them.   *)
(* An invocation that times out answers its client at once while its       *)
(* transaction may still commit, or be lost with the process.  The other   *)
(* writers of the fenced rows (membership intents, proposals, commits,     *)
(* policy heads) appear by what they do to the rows the lane reads.        *)
(*                                                                         *)
(* Hashes are modelled by what they identify: a log head is the log        *)
(* itself, a snapshot digest is the snapshot, an intent digest is the      *)
(* reservation's lane generation (fresh for every reservation).            *)
(***************************************************************************)
EXTENDS Integers, Sequences, FiniteSets

CONSTANTS
  Installations,   \* member installations that may send
  Targets,         \* of membership intents: a member to remove, or None (an addition)
  Commands,        \* the append requests clients issue
  Invocations,     \* server-side request slots, reused after each answer
  None,            \* "no value"
  PendingTtl,      \* most ticks a reservation stays finalizable
  HttpTtl,         \* ticks an HTTP idempotency row is honoured
  OperationLimit,  \* quota: operations allowed in the window
  MaxTime,         \* bound on the clock
  MaxPosition,     \* bound on the log
  MaxVersion,      \* bound on policy heads and epochs
  MaxGeneration    \* bound on reservation attempts

ASSUME CommandsAssumption ==
  /\ Installations # {}
  /\ \A c \in Commands : c.sender \in Installations /\ c.etag \in Nat

ASSUME BoundsAssumption ==
  /\ Targets \subseteq Installations \cup {None}
  /\ PendingTtl \in Nat \ {0} /\ HttpTtl \in Nat \ {0}
  /\ OperationLimit \in Nat /\ MaxTime \in Nat
  /\ MaxPosition \in Nat /\ MaxVersion \in Nat /\ MaxGeneration \in Nat

VARIABLES
  clock,       \* database and application time, in ticks
  log,         \* the envelopes of the conversation, by position
  graph,       \* the other authority rows a snapshot is rebuilt from
  members,     \* installations with a live membership: roster and recipients
  grants,      \* installations whose send grant is active
  fence,       \* delivery_sender_fences: snapshot digest of each sender
  custody,     \* the digest on the custody row itself
  lane,        \* application_append_lanes.lane_generation
  pendings,    \* application_append_pendings
  live,        \* intents whose quota reservation row is 'live'
  quota,       \* the conversation's quota counter row
  accepted,    \* application_append_acceptances
  http,        \* application_append_http_idempotency
  tombstones,  \* application_append_retirements
  mailbox,     \* mailbox entries of each installation, oldest first
  pc,          \* the phase each invocation is in
  call,        \* its command
  seen,        \* the snapshot its last preflight returned
  target,      \* the intent it is resuming
  owns,        \* returnAcceptance: the intent answers its own command
  memory,      \* its signer's fence records
  result       \* what its client has been told

authority  == <<log, graph, members, grants, fence, custody>>
laneRows   == <<lane, pendings, live, quota>>
outcomes   == <<accepted, http, tombstones, mailbox>>
db         == <<authority, laneRows, outcomes>>
invocation == <<pc, call, seen, target, owns, memory, result>>
vars       == <<clock, db, invocation>>

-----------------------------------------------------------------------------
(* Commands and the digests taken of them.                                 *)

\* applicationEnvelopeSemanticallyEqual compares this part of a command.
Identity(c) == [sender |-> c.sender, envelope |-> c.envelope, etag |-> c.etag]

\* The HTTP idempotency scope: the sender and its key.
Scope(c) == <<c.sender, c.key>>

\* The request commitment covers If-Match and the raw body, not the key.
Commitment(c) == <<c.envelope, c.etag>>

Entries ==
  [ class: {"application", "proposal", "commit"},
    identity: {Identity(c) : c \in Commands} \cup {None}, received: Nat ]

Application(c, t) == [class |-> "application", identity |-> Identity(c), received |-> t]
ServiceEntry(class) == [class |-> class, identity |-> None, received |-> clock]

-----------------------------------------------------------------------------
(* The authority snapshot and its fence.                                   *)

\* reconstructAuthoritySnapshot: live reservations are subtracted again, so
\* that the result is the base the fence was computed over.
Snapshot(s) ==
  [ sender     |-> s,
    member     |-> s \in members,
    granted    |-> s \in grants,
    log        |-> log,
    active     |-> graph.phase = "active",
    removals   |-> graph.target # None /\ graph.phase \in {"requested", "proposed"},
    witnessed  |-> graph.witnessed,
    version    |-> graph.version,
    operations |-> quota.operations,
    reserved   |-> quota.reserved - Cardinality(live),
    rowVersion |-> quota.rowVersion - Cardinality(live) ]

\* loadAuthority throws unless the rebuilt snapshot reproduces the fence; a
\* sender without a fence row is compared with the custody row's digest.
FenceHolds(s) == Snapshot(s) = IF fence[s] = None THEN custody ELSE fence[s]

\* The custody row keeps the digest of the first active grant's sender.
LegacyDigest == Snapshot(CHOOSE s \in grants : TRUE)

\* Mutant: only the digest of the custody row is refreshed.
RefreshCustodyRowOnly == UNCHANGED fence /\ custody' = LegacyDigest'

\* refreshCustodySnapshotDigest: last step of every writer of fenced rows.
RefreshCustody ==
  /\ fence' = [s \in Installations |-> IF s \in grants' THEN Snapshot(s)' ELSE None]
  /\ custody' = LegacyDigest'

\* Mutant: the witness of the policy head is not looked at.
AllowedUnwitnessed(snap, c) ==
  /\ snap.active /\ ~snap.removals /\ snap.member /\ snap.granted
  /\ snap.version = c.etag
  /\ snap.operations + snap.reserved + 1 <= OperationLimit

\* evaluateLockedApplicationAppend on a snapshot the command was read with.
Allowed(snap, c) ==
  /\ snap.active /\ ~snap.removals /\ snap.member /\ snap.granted
  /\ snap.witnessed
  /\ snap.version = c.etag
  /\ snap.operations + snap.reserved + 1 <= OperationLimit

\* The transitions of the quota counter: reserve, convert at publication, and
\* release at retirement.
QuotaReserved(q) ==
  [ operations |-> q.operations, reserved |-> q.reserved + 1,
    rowVersion |-> q.rowVersion + 1 ]

QuotaConverted(q) ==
  [ operations |-> q.operations + 1, reserved |-> q.reserved - 1,
    rowVersion |-> q.rowVersion + 1 ]

QuotaReleased(q) ==
  [ operations |-> q.operations, reserved |-> q.reserved - 1,
    rowVersion |-> q.rowVersion + 1 ]

-----------------------------------------------------------------------------
(* Replay lookups, in the order the store performs them.                   *)

\* A row past expires_at stays in the table but is no longer honoured.
LiveHttp(c) == {h \in http : h.scope = Scope(c) /\ h.expires > clock}

AcceptedConflict(c) ==
  \/ \E h \in LiveHttp(c) : h.commitment # Commitment(c)
  \/ /\ LiveHttp(c) = {}
     /\ \E a \in accepted : /\ a.command.envelope = c.envelope
                            /\ Identity(a.command) # Identity(c)

HttpReplay(c, a) ==
  \E h \in LiveHttp(c) : h.commitment = Commitment(c) /\ h.envelope = a.command.envelope

EnvelopeReplay(c, a) == LiveHttp(c) = {} /\ Identity(a.command) = Identity(c)

AcceptedReplay(c, a) == HttpReplay(c, a) \/ EnvelopeReplay(c, a)

\* Mutant: only the idempotency key is looked up, not the envelope.
AcceptedMissByKey(c) == LiveHttp(c) = {}

AcceptedMiss(c) ==
  LiveHttp(c) = {} /\ \A a \in accepted : a.command.envelope # c.envelope

\* requireReplayMatchesCurrentCommand: the parser of a phase result refuses an
\* HTTP replay whose admitted command carries another idempotency key.
Detached(c, a) == HttpReplay(c, a) /\ a.command.key # c.key

PendingConflict(c, p) ==
  IF Scope(p.command) = Scope(c)
    THEN Commitment(p.command) # Commitment(c)
    ELSE p.command.envelope = c.envelope /\ Identity(p.command) # Identity(c)

\* Mutant: whichever intent is pending is taken for the caller's own.
PendingIsAnyones(c, p) == TRUE

\* The pending intent answers this command; any other intent blocks it.
PendingIsOwn(c, p) == Scope(p.command) = Scope(c) \/ p.command.envelope = c.envelope

Position(p) == Len(p.expected.log) + 1

\* The lane is free again: the pending row is deleted.
LaneCleared == pendings' = {}

-----------------------------------------------------------------------------
(* Answering and moving between phases.                                    *)

NoResult == [status |-> "none", position |-> 0]

Statuses == {"none", "accepted", "conflict", "rejected", "malformed", "unavailable"}

TransactionPhases == {"reserve", "finalize", "retire"}
ReadPhases == {"preflight", "lookup", "load", "admit", "signer"}

\* The invocation returns and its locals are gone, the command excepted when
\* the client holds a receipt for it.  A client that already gave up keeps the
\* answer it got from the timeout.
Answer(i, status, position) ==
  /\ pc' = [pc EXCEPT ![i] = "done"]
  /\ result' = [result EXCEPT ![i] =
       IF @ = NoResult THEN [status |-> status, position |-> position] ELSE @]
  /\ seen' = [seen EXCEPT ![i] = None]
  /\ target' = [target EXCEPT ![i] = None]
  /\ owns' = [owns EXCEPT ![i] = FALSE]
  /\ memory' = [memory EXCEPT ![i] = {}]
  /\ call' = IF result'[i].status = "accepted" THEN call ELSE [call EXCEPT ![i] = None]

\* The invocation goes on to another phase, unless nobody waits for it.
Continue(i, phase, snap, p, own) ==
  IF result[i] = NoResult
    THEN /\ pc' = [pc EXCEPT ![i] = phase]
         /\ seen' = [seen EXCEPT ![i] = snap]
         /\ target' = [target EXCEPT ![i] = p]
         /\ owns' = [owns EXCEPT ![i] = own]
         /\ UNCHANGED <<call, memory, result>>
    ELSE Answer(i, "unavailable", 0)

\* PENDING_DRAINED, or "retry" from the reservation: the next loop iteration.
Again(i) == Continue(i, "preflight", None, None, FALSE)

\* resumePendingApplicationAppend is entered with this intent.
Resume(i, p) == Continue(i, "signer", None, p, PendingIsOwn(call[i], p))

\* "retry" from finalize: the same transaction is tried again.
Retry(i) == Continue(i, pc[i], seen[i], target[i], owns[i])

\* The replay answers preflight and reservation have in common.
ReplayAccepted(i) ==
  \/ AcceptedConflict(call[i]) /\ Answer(i, "conflict", 0)
  \/ \E a \in accepted :
       /\ AcceptedReplay(call[i], a)
       /\ ~AcceptedConflict(call[i])
       /\ IF Detached(call[i], a) THEN Answer(i, "malformed", 0)
                                  ELSE Answer(i, "accepted", a.position)

ReplayPending(i) ==
  \E p \in pendings : IF PendingConflict(call[i], p) THEN Answer(i, "conflict", 0)
                                                     ELSE Resume(i, p)

-----------------------------------------------------------------------------
(* The phases of an invocation.                                            *)

\* An append request of an installation with an active send grant arrives.
Start(i, c) ==
  /\ pc[i] = "done"
  /\ c.sender \in grants
  /\ pc' = [pc EXCEPT ![i] = "preflight"]
  /\ call' = [call EXCEPT ![i] = c]
  /\ result' = [result EXCEPT ![i] = NoResult]
  /\ UNCHANGED <<clock, db, seen, target, owns, memory>>

\* applicationAppendPreflight.read and the dispatch on its result, in three
\* reads between which others may commit: the acceptances, ...
Preflight(i) ==
  /\ pc[i] = "preflight"
  /\ \/ ReplayAccepted(i)
     \/ AcceptedMiss(call[i]) /\ Continue(i, "lookup", None, None, FALSE)
  /\ UNCHANGED <<clock, db>>

\* ... the pending intent, ...
LookupPending(i) ==
  /\ pc[i] = "lookup"
  /\ \/ ReplayPending(i)
     \/ pendings = {} /\ Continue(i, "load", None, None, FALSE)
  /\ UNCHANGED <<clock, db>>

\* The rows of an authority that is loaded without the lock are read one
\* statement at a time: a writer that commits in between makes the rebuilt
\* snapshot differ from the fence, and the port fails.
TornRead(i) == Answer(i, "malformed", 0)

\* ... and the authority.
LoadAuthority(i) ==
  /\ pc[i] = "load"
  /\ \/ TornRead(i)
     \/ ~FenceHolds(call[i].sender) /\ Answer(i, "malformed", 0)
     \/ /\ FenceHolds(call[i].sender)
        /\ Continue(i, "admit", Snapshot(call[i].sender), None, FALSE)
  /\ UNCHANGED <<clock, db>>

\* The wire inspector and the policy verifier each load the authority again and
\* compare it with the snapshot.
StillCurrent(i) ==
  /\ FenceHolds(call[i].sender)
  /\ log = seen[i].log /\ graph.version = seen[i].version

\* Admission: the ports' checks, then the evaluator decides on the snapshot.
Admit(i) ==
  /\ pc[i] = "admit"
  /\ \/ TornRead(i)
     \/ ~StillCurrent(i) /\ Answer(i, "malformed", 0)
     \/ /\ StillCurrent(i)
        /\ IF Allowed(seen[i], call[i])
             THEN Continue(i, "reserve", seen[i], None, FALSE)
             ELSE Answer(i, "rejected", 0)
  /\ UNCHANGED <<clock, db>>

\* Mutant: the fan-out leaves out the sender's own mailbox.
RecipientsButSender(c) == members \ {c.sender}

\* deriveApplicationAppendFanoutPlan: every member, the sender included.
Recipients(c) == members

\* prepareUnsignedApplicationAppend: the intent for the next position.  Its
\* expiry is the least of the reservation TTL and the expiries of the policy
\* head, credentials, signing key and quota window.
Intent(i, expires) ==
  [ id         |-> lane + 1,
    command    |-> call[i],
    entry      |-> Application(call[i], clock),
    expected   |-> seen[i],
    expires    |-> expires,
    recipients |-> Recipients(call[i]) ]

\* The reservation proper, after every replay and fence check has passed.
ReserveIntent(i, expires) ==
  LET p == Intent(i, expires) IN
  /\ expires <= MaxTime /\ Len(log) < MaxPosition /\ lane < MaxGeneration
  /\ lane' = lane + 1
  /\ IF quota.rowVersion = seen[i].rowVersion
       THEN /\ quota' = QuotaReserved(quota)
            /\ pendings' = pendings \cup {p}
            /\ live' = live \cup {p.id}
            /\ Continue(i, "signer", None, p, TRUE)
       ELSE Again(i) /\ UNCHANGED <<pendings, live, quota>>
  /\ UNCHANGED <<authority, outcomes>>

\* The evaluator runs again at the database's time; a head, credential or
\* window that expired since the preflight rejects.  The generation is spent.
ReserveRejected(i) ==
  /\ lane < MaxGeneration
  /\ lane' = lane + 1
  /\ Answer(i, "rejected", 0)
  /\ UNCHANGED <<authority, pendings, live, quota, outcomes>>

\* reserveApplicationAppendAtomically.
Reserve(i) ==
  LET c == call[i] IN
  /\ pc[i] = "reserve"
  /\ \/ ~FenceHolds(c.sender) /\ Answer(i, "malformed", 0) /\ UNCHANGED db
     \/ FenceHolds(c.sender) /\ ReplayAccepted(i) /\ UNCHANGED db
     \/ FenceHolds(c.sender) /\ AcceptedMiss(c) /\ ReplayPending(i) /\ UNCHANGED db
     \/ /\ FenceHolds(c.sender) /\ AcceptedMiss(c) /\ pendings = {}
        /\ seen[i] # Snapshot(c.sender)
        /\ Again(i) /\ UNCHANGED db
     \/ /\ FenceHolds(c.sender) /\ AcceptedMiss(c) /\ pendings = {}
        /\ seen[i] = Snapshot(c.sender)
        /\ \/ ReserveRejected(i)
           \/ \E ttl \in 1..PendingTtl : ReserveIntent(i, clock + ttl)
  /\ UNCHANGED clock

\* The checkpoint signer.  Its fence records live as long as the request that
\* created them: every request builds its own signer.
FenceRecords(i, p) == {r \in memory[i] : r.position = Position(p)}

\* signExact before the expiry, resolveOrCancelIfUnsigned after it.
SignerStatus(i, p) ==
  LET own == {r \in FenceRecords(i, p) : r.id = p.id} IN
  CASE own # {} -> (CHOOSE r \in own : TRUE).status
    [] own = {} /\ clock < p.expires -> "signed"
    [] own = {} /\ clock >= p.expires -> "cancelled"

\* Mutant: an intent that cannot be signed any more is refused, not cancelled.
SignerRefusesExpired(i, p) ==
  \/ \E r \in FenceRecords(i, p) : r.status = "signed" /\ r.id # p.id
  \/ SignerStatus(i, p) # "signed"

SignerRefuses(i, p) ==
  /\ clock < p.expires
  /\ \/ \E r \in FenceRecords(i, p) : r.status = "signed" /\ r.id # p.id
     \/ SignerStatus(i, p) # "signed"

Signer(i) ==
  LET p == target[i]
      status == SignerStatus(i, p)
  IN
  /\ pc[i] = "signer"
  /\ IF SignerRefuses(i, p)
       THEN Answer(i, "malformed", 0)
       ELSE /\ memory' = [memory EXCEPT ![i] =
                 @ \cup {[id |-> p.id, position |-> Position(p), status |-> status]}]
            /\ pc' = [pc EXCEPT ![i] = IF status = "signed" THEN "finalize" ELSE "retire"]
            /\ UNCHANGED <<call, seen, target, owns, result>>
  /\ UNCHANGED <<clock, db>>

\* Finalization finds the intent already published by another invocation.  The
\* stored evidence is the other's unless both were produced in one millisecond.
FinalizedElsewhere(i, a) ==
  \/ Answer(i, "malformed", 0)
  \/ /\ a.intent = target[i].id /\ ~Detached(call[i], a)
     /\ IF owns[i] THEN Answer(i, "accepted", a.position) ELSE Again(i)

\* HTTP idempotency rows for the admitted command and, when it names the same
\* envelope, the current one; ON CONFLICT (http_scope_hash) DO NOTHING.
HttpRows(p, c) ==
  { [ scope      |-> Scope(x),
      commitment |-> Commitment(x),
      envelope   |-> p.command.envelope,
      expires    |-> clock + HttpTtl ] :
    x \in { y \in {p.command, c} : /\ Identity(y) = Identity(p.command)
                                   /\ \A h \in http : h.scope # Scope(y) } }

Deliver(recipients, position) ==
  mailbox' = [s \in Installations |->
    IF s \in recipients THEN Append(mailbox[s], position) ELSE mailbox[s]]

\* Mutant: the log is left out of the comparison.
StillExpectedButLog(p) ==
  [Snapshot(p.command.sender) EXCEPT !.log = p.expected.log] = p.expected

\* The authority is still the one the intent was reserved under.
StillExpected(p) == Snapshot(p.command.sender) = p.expected

\* The writes of finalizeApplicationAppendAtomically.
FinalizeIntent(i) ==
  LET p == target[i] IN
  IF quota.rowVersion = p.expected.rowVersion + 1
    THEN /\ quota' = QuotaConverted(quota)
         /\ live' = live \ {p.id}
         /\ log' = Append(p.expected.log, p.entry)
         /\ accepted' = accepted \cup
              {[intent |-> p.id, command |-> p.command, position |-> Position(p)]}
         /\ Deliver(p.recipients, Position(p))
         /\ UNCHANGED <<graph, members, grants>>
         /\ RefreshCustody
         /\ http' = http \cup HttpRows(p, call[i])
         /\ LaneCleared
         /\ UNCHANGED <<lane, tombstones>>
         /\ IF owns[i] THEN Answer(i, "accepted", Position(p)) ELSE Again(i)
    ELSE Retry(i) /\ UNCHANGED db

\* finalizeApplicationAppendAtomically and the dispatch on its result.
Finalize(i) ==
  LET c == call[i]
      p == target[i]
      s == p.command.sender
  IN
  /\ pc[i] = "finalize"
  /\ \/ ~FenceHolds(s) /\ Answer(i, "malformed", 0) /\ UNCHANGED db
     \/ FenceHolds(s) /\ AcceptedConflict(c) /\ Answer(i, "conflict", 0) /\ UNCHANGED db
     \/ /\ FenceHolds(s) /\ ~AcceptedConflict(c)
        /\ \E a \in accepted : AcceptedReplay(c, a) /\ FinalizedElsewhere(i, a)
        /\ UNCHANGED db
     \/ /\ FenceHolds(s) /\ AcceptedMiss(c) /\ p \notin pendings
        /\ \/ \E a \in accepted : a.intent = p.id /\ FinalizedElsewhere(i, a)
           \/ (\A a \in accepted : a.intent # p.id) /\ Retry(i)
        /\ UNCHANGED db
     \/ /\ FenceHolds(s) /\ AcceptedMiss(c) /\ p \in pendings
        /\ ~StillExpected(p)
        /\ Retry(i) /\ UNCHANGED db
     \/ /\ FenceHolds(s) /\ AcceptedMiss(c) /\ p \in pendings
        /\ StillExpected(p)
        /\ FinalizeIntent(i)
  /\ UNCHANGED clock

\* The writes of retireExpiredApplicationAppendAtomically.
RetireIntent(i) ==
  LET p == target[i] IN
  IF quota.rowVersion = p.expected.rowVersion + 1
    THEN /\ quota' = QuotaReleased(quota)
         /\ live' = live \ {p.id}
         /\ LaneCleared
         /\ tombstones' = tombstones \cup {p.id}
         /\ UNCHANGED <<log, graph, members, grants, lane, accepted, http, mailbox>>
         /\ RefreshCustody
         /\ Again(i)
    ELSE Answer(i, "malformed", 0) /\ UNCHANGED db

\* retireExpiredApplicationAppendAtomically and the dispatch on its result.  The
\* tombstone is looked for before the lock is taken: a retirement that commits
\* in between is not seen, and the intent is found missing.
Retire(i) ==
  LET p == target[i] IN
  /\ pc[i] = "retire"
  /\ \/ p.id \in tombstones /\ Again(i) /\ UNCHANGED db
     \/ /\ ~FenceHolds(p.command.sender) \/ p \notin pendings \/ clock < p.expires
        /\ Answer(i, "malformed", 0) /\ UNCHANGED db
     \/ /\ p.id \notin tombstones
        /\ FenceHolds(p.command.sender) /\ p \in pendings /\ clock >= p.expires
        /\ RetireIntent(i)
  /\ UNCHANGED clock

\* The request deadline passes, or the server dies: the client is told (or must
\* assume) "unavailable".  A transaction already sent to the database goes on.
Timeout(i) ==
  /\ result[i] = NoResult
  /\ \/ pc[i] \in ReadPhases /\ Answer(i, "unavailable", 0)
     \/ /\ pc[i] \in TransactionPhases
        /\ result' = [result EXCEPT ![i] = [status |-> "unavailable", position |-> 0]]
        /\ UNCHANGED <<pc, call, seen, target, owns, memory>>
  /\ UNCHANGED <<clock, db>>

\* The transaction nobody waits for never commits.
Lost(i) ==
  /\ pc[i] \in TransactionPhases /\ result[i] # NoResult
  /\ Answer(i, "unavailable", 0)
  /\ UNCHANGED <<clock, db>>

Tick == clock < MaxTime /\ clock' = clock + 1 /\ UNCHANGED <<db, invocation>>

-----------------------------------------------------------------------------
(* The other writers of the fenced rows, by what they do to the rows the    *)
(* lane reads.  Each ends with a refresh of the custody digest.  Those that *)
(* append an envelope take the next position and sign its head without      *)
(* looking at the lane.                                                     *)

OtherWriter == /\ UNCHANGED <<clock, laneRows, accepted, http, tombstones, invocation>>
               /\ RefreshCustody

\* createIntent: add (no target) or remove one of the members.
CreateIntent(t) ==
  /\ graph.phase = "active" /\ t \in members \cup {None}
  /\ graph' = [graph EXCEPT !.phase = "requested", !.target = t]
  /\ UNCHANGED <<log, members, grants, mailbox>>
  /\ OtherWriter

\* cancelIntent and expireIntents: only an addition lets the conversation
\* return to active.
EndIntent ==
  /\ graph.phase \in {"requested", "proposed"}
  /\ graph' = [graph EXCEPT !.phase = IF graph.target = None THEN "active" ELSE "abandoned",
                            !.target = None]
  /\ UNCHANGED <<log, members, grants, mailbox>>
  /\ OtherWriter

\* recordProposal: the signed external proposal enters the log.
RecordProposal ==
  /\ graph.phase = "requested" /\ Len(log) < MaxPosition
  /\ log' = Append(log, ServiceEntry("proposal"))
  /\ graph' = [graph EXCEPT !.phase = "proposed"]
  /\ UNCHANGED <<members, grants, mailbox>>
  /\ OtherWriter

\* consumeCommit: the roster changes and the head is re-issued unwitnessed.  A
\* removal revokes the member's grant; an addition re-issues every grant row the
\* conversation has as active.  The committer is another live member.
ConsumeCommit ==
  /\ graph.phase = "proposed" /\ Len(log) < MaxPosition /\ graph.version < MaxVersion
  /\ members \ {graph.target} # {} /\ grants \ {graph.target} # {}
  /\ log' = Append(log, ServiceEntry("commit"))
  /\ members' = members \ {graph.target}
  /\ grants' = IF graph.target = None THEN Installations ELSE grants \ {graph.target}
  /\ graph' = [ phase |-> "active", target |-> None, witnessed |-> FALSE,
                version |-> graph.version + 1 ]
  /\ Deliver(members', Len(log) + 1)
  /\ OtherWriter

\* renewExpiringPolicyHeads: a new, still unwitnessed head.
RenewHead ==
  /\ graph.phase = "active" /\ graph.witnessed /\ graph.version < MaxVersion
  /\ graph' = [graph EXCEPT !.version = @ + 1, !.witnessed = FALSE]
  /\ UNCHANGED <<log, members, grants, mailbox>>
  /\ OtherWriter

\* runPolicyWitnessSync: the head's checkpoint has been witnessed.
WitnessHead ==
  /\ ~graph.witnessed
  /\ graph' = [graph EXCEPT !.witnessed = TRUE]
  /\ UNCHANGED <<log, members, grants, mailbox>>
  /\ OtherWriter

-----------------------------------------------------------------------------
Init ==
  /\ clock = 0
  /\ log = <<>>
  /\ graph = [phase |-> "active", target |-> None, witnessed |-> FALSE, version |-> 0]
  /\ members = Installations /\ grants = Installations
  /\ lane = 0 /\ pendings = {} /\ live = {}
  /\ quota = [operations |-> 0, reserved |-> 0, rowVersion |-> 0]
  /\ fence = [s \in Installations |-> Snapshot(s)]
  /\ custody = LegacyDigest
  /\ accepted = {} /\ http = {} /\ tombstones = {}
  /\ mailbox = [s \in Installations |-> <<>>]
  /\ pc = [i \in Invocations |-> "done"]
  /\ call = [i \in Invocations |-> None]
  /\ seen = [i \in Invocations |-> None]
  /\ target = [i \in Invocations |-> None]
  /\ owns = [i \in Invocations |-> FALSE]
  /\ memory = [i \in Invocations |-> {}]
  /\ result = [i \in Invocations |-> NoResult]

Step(i) == \/ Preflight(i) \/ LookupPending(i) \/ LoadAuthority(i) \/ Admit(i)
           \/ Reserve(i) \/ Signer(i) \/ Finalize(i) \/ Retire(i)
           \/ Timeout(i) \/ Lost(i)

Writer == \/ \E t \in Targets : CreateIntent(t)
          \/ EndIntent \/ RecordProposal \/ ConsumeCommit \/ RenewHead \/ WitnessHead

Next == \/ \E i \in Invocations : (\E c \in Commands : Start(i, c)) \/ Step(i)
        \/ Writer
        \/ Tick

Spec == Init /\ [][Next]_vars

\* Clients keep retrying, no phase is starved for ever by timeouts, the
\* deadline timer fires and time passes.
Fairness ==
  /\ WF_vars(Tick)
  /\ \A i \in Invocations :
       /\ \A c \in Commands : SF_vars(Start(i, c))
       /\ SF_vars(Preflight(i)) /\ SF_vars(LookupPending(i)) /\ SF_vars(Signer(i))
       /\ SF_vars(Finalize(i)) /\ SF_vars(Retire(i))
       /\ WF_vars(Timeout(i)) /\ WF_vars(Lost(i))

FairSpec == Spec /\ Fairness
-----------------------------------------------------------------------------
(* What the lane promises.                                                 *)

GraphRows ==
  [ phase: {"active", "requested", "proposed", "abandoned"},
    target: Installations \cup {None}, witnessed: BOOLEAN, version: Nat ]

QuotaRows == [operations: Nat, reserved: Nat, rowVersion: Nat]

Snapshots ==
  [ sender: Installations, member: BOOLEAN, granted: BOOLEAN, log: Seq(Entries),
    active: BOOLEAN, removals: BOOLEAN, witnessed: BOOLEAN, version: Nat,
    operations: Nat, reserved: Int, rowVersion: Int ]

\* "No value" is not a snapshot.
ASSUME NoneAssumption == None \notin Snapshots

Intents ==
  [ id: Nat, command: Commands, entry: Entries, expected: Snapshots, expires: Nat,
    recipients: SUBSET Installations ]

\* Every row and every local variable holds a value of its type; an invocation
\* has the locals its phase needs.
TypeOK ==
  /\ clock \in Nat
  /\ log \in Seq(Entries)
  /\ graph \in GraphRows
  /\ members \subseteq Installations /\ grants \subseteq Installations
  /\ fence \in [Installations -> Snapshots \cup {None}] /\ custody \in Snapshots
  /\ lane \in Nat /\ pendings \subseteq Intents /\ live \subseteq Nat
  /\ quota \in QuotaRows
  /\ accepted \subseteq [intent: Nat, command: Commands, position: Nat]
  /\ http \subseteq [ scope: {Scope(c) : c \in Commands}, expires: Nat,
                      commitment: {Commitment(c) : c \in Commands},
                      envelope: {c.envelope : c \in Commands} ]
  /\ tombstones \subseteq Nat
  /\ mailbox \in [Installations -> Seq(Nat)]
  /\ pc \in [Invocations -> ReadPhases \cup TransactionPhases \cup {"done"}]
  /\ call \in [Invocations -> Commands \cup {None}]
  /\ seen \in [Invocations -> Snapshots \cup {None}]
  /\ target \in [Invocations -> Intents \cup {None}]
  /\ owns \in [Invocations -> BOOLEAN]
  /\ result \in [Invocations -> [status: Statuses, position: Nat]]
  /\ \A i \in Invocations :
       /\ memory[i] \subseteq [id: Nat, position: Nat, status: {"signed", "cancelled"}]
       /\ pc[i] # "done" => call[i] \in Commands
       /\ pc[i] \in {"admit", "reserve"} => seen[i] \in Snapshots
       /\ pc[i] \in {"signer", "finalize", "retire"} => target[i] \in Intents

\* Exactly once: whatever retries, replays, drains by other requests and late
\* commits of timed-out requests happen, the acceptances and the application
\* envelopes of the log correspond one to one, and no envelope identifier is
\* accepted twice.
ExactlyOnce ==
  /\ \A a \in accepted :
       /\ a.position \in DOMAIN log
       /\ log[a.position].class = "application"
       /\ log[a.position].identity = Identity(a.command)
  /\ \A n \in DOMAIN log :
       log[n].class = "application" => \E a \in accepted : a.position = n
  /\ \A a, b \in accepted :
       a.command.envelope = b.command.envelope \/ a.position = b.position => a = b

\* A receipt is true for ever: the position a client was given holds the very
\* envelope it asked to append, whichever request published it.
ReceiptsHold ==
  \A i \in Invocations : result[i].status = "accepted" =>
    /\ result[i].position \in DOMAIN log
    /\ log[result[i].position].class = "application"
    /\ log[result[i].position].identity = Identity(call[i])

\* The lane is a fence: there is at most one pending intent, and an intent is
\* pending, published or retired, never two of these.  A cancellation racing a
\* late finalization cannot leave both a tombstone and an acceptance.
IntentResolvedOnce ==
  /\ \A p, q \in pendings : p = q
  /\ \A p \in pendings : p.id \notin tombstones
  /\ \A a \in accepted : a.intent \notin tombstones
  /\ \A a \in accepted, p \in pendings : a.intent # p.id

\* Reserved capacity belongs to the pending intent and is converted or given
\* back exactly once: the counter is the number of accepted envelopes plus one
\* reservation per pending intent.
CapacityConserved ==
  /\ live = {p.id : p \in pendings}
  /\ quota.reserved = Cardinality(pendings)
  /\ quota.operations = Cardinality(accepted)

\* No writer of this conversation leaves a fence behind: a member with an active
\* grant is never locked out by loadAuthority's digest comparison.
FencesCurrent == \A s \in grants : FenceHolds(s)

\* Every current member was routed every application envelope exactly once, in
\* log order.
MailboxComplete ==
  \A s \in members :
    /\ \A m, n \in DOMAIN mailbox[s] : m < n => mailbox[s][m] < mailbox[s][n]
    /\ \A n \in DOMAIN log :
         log[n].class = "application" => \E m \in DOMAIN mailbox[s] : mailbox[s][m] = n

Published == {n \in DOMAIN log' \ DOMAIN log : log'[n].class = "application"}

\* An envelope becomes visible only in a step in which the conversation is
\* active with no membership change under way, its policy head is witnessed and
\* is the one the sender sealed against, and the sender is still a member with
\* its grant, although all of this was checked at reservation, before the signer
\* ran.
PublishedUnderAuthority ==
  [][ \A n \in Published :
        /\ graph.phase = "active" /\ graph.witnessed
        /\ graph.version = log'[n].identity.etag
        /\ log'[n].identity.sender \in members \cap grants ]_vars

-----------------------------------------------------------------------------
(* What the promises rest on.                                              *)

Resuming == {"signer", "finalize", "retire"}

\* A pending intent is one the lane handed out: its entry is its command's, the
\* envelope is not published yet, and the snapshot it was reserved under
\* allowed the command.
PendingFits ==
  \A p \in pendings :
    /\ p.id <= lane
    /\ p.entry.class = "application" /\ p.entry.identity = Identity(p.command)
    /\ \A a \in accepted : a.command.envelope # p.command.envelope
    /\ p.expected.sender = p.command.sender
    /\ Allowed(p.expected, p.command)

\* Intent identifiers are never reused.
IntentsSpent ==
  /\ \A a \in accepted : a.intent <= lane
  /\ \A n \in tombstones : n <= lane

\* What an invocation resumes is the intent of that identifier, as pending or
\* as published, and it is the invocation's own only if it answers its command.
TargetKnown ==
  \A i \in Invocations : pc[i] \in Resuming =>
    /\ target[i].id <= lane
    /\ \A p \in pendings : p.id = target[i].id => p = target[i]
    /\ \A a \in accepted : a.intent = target[i].id => a.command = target[i].command
    /\ owns[i] => Identity(target[i].command) = Identity(call[i])

\* An idempotency row describes the acceptance it points at, whichever of the
\* two commands of a finalization it was written for.
HttpKnown ==
  \A h \in http :
    /\ \E a \in accepted : a.command.envelope = h.envelope
    /\ \A a \in accepted : a.command.envelope = h.envelope =>
         Identity(a.command) = [ sender   |-> h.scope[1],
                                 envelope |-> h.commitment[1],
                                 etag     |-> h.commitment[2] ]

\* The snapshot an invocation carries is the sender's and no newer than the log.
SeenFits ==
  \A i \in Invocations : pc[i] \in {"admit", "reserve"} =>
    /\ seen[i].sender = call[i].sender
    /\ Len(seen[i].log) <= Len(log)
    /\ pc[i] = "reserve" => Allowed(seen[i], call[i])

\* The inductive invariant of the lane.
LaneInv ==
  /\ TypeOK
  /\ ExactlyOnce /\ ReceiptsHold /\ IntentResolvedOnce /\ CapacityConserved
  /\ PendingFits /\ IntentsSpent /\ TargetKnown /\ HttpKnown /\ SeenFits

-----------------------------------------------------------------------------
(* What the lane promises for the future, and what documents say of it.    *)

\* A stranded reservation does not stop the conversation: once it has expired
\* some request of a member retires it (or finalizes it before).
LaneDrains == pendings # {} ~> pendings = {}

\* Section 2.3 of service-api.md: an exact retry under a live idempotency key
\* returns the original result.  The preflight never answers a retry of an
\* accepted envelope with an error.
RetryReturnsReceipt ==
  [][ \A i \in Invocations :
        /\ pc[i] = "preflight"
        /\ \E a \in accepted : Identity(a.command) = Identity(call[i])
        => result'[i].status # "malformed" ]_vars

\* Section 2.3 of service-api.md: only a true replay miss consults the current
\* admission policy and quotas.  A client told "rejected" is told the truth: its
\* envelope is not in the log at that moment.
RejectionIsTrue ==
  [][ \A i \in Invocations :
        result[i] = NoResult /\ result'[i].status = "rejected" =>
          \A a \in accepted' : Identity(a.command) # Identity(call[i]) ]_vars

\* A duplicate finalize returns the original receipt: an invocation whose own
\* intent has been published by another request is not answered with an error.
DuplicateFinalizeReturnsReceipt ==
  [][ \A i \in Invocations :
        /\ pc[i] = "finalize" /\ owns[i]
        /\ \E a \in accepted : a.intent = target[i].id /\ a.command = call[i]
        => result'[i].status # "malformed" ]_vars

\* The reservation fences the conversation lane: while an intent is pending, no
\* writer other than its finalization extends the log.
NoWriterPassesReservation ==
  [][ log' # log /\ pendings # {} => pendings' = {} ]_vars

\* The lane implements the abstract log: the log only grows, one entry a step,
\* no envelope identifier enters it twice, and receipts are given only for
\* envelopes that are in it.
Abstract == INSTANCE AppendLog WITH
  Clients <- Invocations, published <- log, asked <- call, told <- result

ImplementsLog == Abstract!Spec
=============================================================================
