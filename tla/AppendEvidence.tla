--------------------------- MODULE AppendEvidence ---------------------------
(***************************************************************************)
(* What the append service of src/src/production/delivery/service.ts       *)
(* believes of its ports.  AppendLane takes the answers of the store, the  *)
(* signer and the verifiers for what they are; here each answer is a value *)
(* the service parses before it acts on it, and a port may alter one       *)
(* answer: report another time, hand over another command's result, or     *)
(* change one field of a stored intent or of a stored acceptance.          *)
(*                                                                         *)
(*   preflight -> inspect -> reserve -> ask -> sign -> fence -> signature  *)
(*        |                                      \-> retire    -> finalize *)
(*        \-> historical fence -> historical signature                     *)
(*                                                                         *)
(* A digest is modelled by the value it commits to, a log head by the log, *)
(* a checkpoint signature by the checkpoint it signs; an Ed25519 record    *)
(* signature verifies exactly when the signer issued that record.          *)
(***************************************************************************)
EXTENDS Integers, Sequences, FiniteSetsExt

CONSTANTS
  AeCalls,      \* invocations of appendApplicationEnvelope
  AeCommands,   \* [key, conv, env]: idempotency key, conversation, envelope
  AeLane,       \* the conversation whose lane the calls work on
  AeDevices,    \* its routing rows
  AeNone,       \* "no value"
  AePendingTtl, \* APPLICATION_APPEND_PENDING_MAX_TTL, in ticks
  AePolicyTtl,  \* ticks a policy head stays fresh after its verification
  AeTimeout,    \* APPLICATION_APPEND_OPERATION_TIMEOUT, in ticks
  AeQuota,      \* operations the quota window allows
  AeBounds      \* instances: [now, altered, commands], bounds on the clock and
                \* on the altered answers, and the commands the calls are for

ASSUME AppendEvidenceAssumption ==
  /\ \A c \in AeCommands : DOMAIN c = {"key", "conv", "env"}
  /\ {AePendingTtl, AePolicyTtl, AeTimeout} \subseteq Nat \ {0} /\ AeQuota \in Nat
  /\ \A b \in AeBounds : /\ b.now \in Nat /\ b.altered \in Nat
                         /\ \A c \in b.commands : c \in AeCommands /\ c.conv = AeLane

VARIABLES
  aeInst,      \* the instance explored, chosen at the start
  aeNow,       \* the clock port and the database clock
  aeStore,     \* [log, used, pending, accepted, retired] of the lane
  aeIssued,    \* fence records each call's signer has issued
  aePrepared,  \* intents prepareUnsigned has built (history)
  aeAltered,   \* number of altered answers so far
  aeCall       \* the local state of each invocation

aeVars == <<aeInst, aeNow, aeStore, aeIssued, aePrepared, aeAltered, aeCall>>

-----------------------------------------------------------------------------
(* Building an intent.                                                     *)

\* Two commands for one envelope may carry different idempotency keys: the
\* command digest tells them apart, the semantic identity does not.
CommandDigest(c) == c
SemanticIdentity(c) == <<c.conv, c.env>>
SameSemantics(c, d) == SemanticIdentity(c) = SemanticIdentity(d)

\* The locked snapshot: the head is the log, the roster hash the routing rows.
LockedSnapshot ==
  [conv |-> AeLane, log |-> aeStore.log, used |-> aeStore.used,
   roster |-> AeDevices, verified |-> 0]

SnapshotDigest(s) == s

\* The policy proof refreshes only the proof fields of the snapshot.
Refreshed(s, policy) == [s EXCEPT !.verified = policy.at]

PolicyEvidence(s, t) == [conv |-> s.conv, log |-> s.log, at |-> t]
PolicyMatches(p, s) == p.conv = s.conv /\ p.log = s.log

WireEvidence(c) == [conv |-> c.conv, env |-> c.env]

Envelope(c, s, t) ==
  [conv |-> c.conv, pos |-> Len(s.log) + 1, env |-> c.env, at |-> t,
   prev |-> s.log, head |-> Append(s.log, c.env)]

ChainHolds(e) == e.head = Append(e.prev, e.env) /\ (e.pos = 1 => e.prev = <<>>)

EnvelopeMatches(e, c, s) == e.conv = c.conv /\ e.env = c.env /\ e.prev = s.log

\* The bounds on a pending intent's life that differ here: its own TTL and
\* the freshness of the policy head it was admitted under.
PendingExpiresAt(s, t) == Min({t + AePendingTtl, s.verified + AePolicyTtl})
HasLiveInterval(s, started, t) == started <= t /\ t < s.verified + AePolicyTtl

\* Routing rows are accepted only complete: their hash is the conversation's.
FanoutPlan(s, pos, rows) == [conv |-> s.conv, pos |-> pos, to |-> rows]
RoutingComplete(s, rows) == rows = s.roster

Allowed(s) == s.used < AeQuota

PreparationDigest(i) ==
  <<i.cmdDigest, i.baseDigest, i.authDigest, i.started, i.expires, i.fence,
    i.envelope, i.wire, i.policy, i.plan, i.auth.used + 1>>

Reservation(prep, fence) == [prep |-> prep, fence |-> fence, ops |-> 1, state |-> "live"]

\* The conversation and usage rows after the append, and what it reserves.
CommitProjection(s, head, reservation) ==
  [log |-> head, used |-> s.used + 1, reservation |-> reservation]

IntentDigest(i) ==
  <<i.cmdDigest, i.prep, i.projection.reservation, i.plan, i.fence, i.expires>>

\* createPendingIntentValue, from what the reservation transaction supplies.
PendingIntent(c, s, policy, wire, fence, started, t) ==
  LET auth == Refreshed(s, policy)
      e == Envelope(c, auth, t)
      i0 == [cmd |-> c, cmdDigest |-> CommandDigest(c), base |-> s,
             baseDigest |-> SnapshotDigest(s),
             auth |-> auth, authDigest |-> SnapshotDigest(auth), wire |-> wire,
             policy |-> policy, envelope |-> e, started |-> started,
             expires |-> PendingExpiresAt(auth, t), fence |-> fence,
             rows |-> AeDevices, plan |-> FanoutPlan(auth, e.pos, AeDevices),
             quotas |-> auth.used + 1, prep |-> <<>>, projection |-> <<>>,
             digest |-> <<>>]
      i1 == [i0 EXCEPT !.prep = PreparationDigest(i0)]
      i2 == [i1 EXCEPT !.projection =
               CommitProjection(auth, e.head, Reservation(i1.prep, fence))]
  IN  [i2 EXCEPT !.digest = IntentDigest(i2)]

-----------------------------------------------------------------------------
(* Parsing what the store returns.                                         *)

OverlayHolds(i) ==
  /\ PolicyMatches(i.policy, i.base)
  /\ i.auth = Refreshed(i.base, i.policy)

DigestsHold(i) ==
  /\ i.cmdDigest = CommandDigest(i.cmd)
  /\ i.baseDigest = SnapshotDigest(i.base)
  /\ i.authDigest = SnapshotDigest(i.auth)

ExpiryAndFanoutHold(i) ==
  /\ HasLiveInterval(i.auth, i.started, i.envelope.at)
  /\ i.expires = PendingExpiresAt(i.auth, i.envelope.at)
  /\ RoutingComplete(i.auth, i.rows)
  /\ i.envelope.pos = Len(i.auth.log) + 1
  /\ i.plan = FanoutPlan(i.auth, i.envelope.pos, i.rows)

TransitionHolds(i) ==
  /\ Allowed(i.auth)
  /\ i.projection.reservation = Reservation(i.prep, i.fence)
  /\ i.projection = CommitProjection(i.auth, i.envelope.head, i.projection.reservation)
  /\ i.quotas = i.auth.used + 1

\* parsePendingApplicationAppendIntent.
PendingParses(i) ==
  /\ DigestsHold(i)
  /\ ChainHolds(i.envelope)
  /\ OverlayHolds(i)
  /\ i.auth.conv = i.cmd.conv
  /\ i.wire = WireEvidence(i.cmd)
  /\ EnvelopeMatches(i.envelope, i.cmd, i.auth)
  /\ ExpiryAndFanoutHold(i)
  /\ i.prep = PreparationDigest(i)
  /\ TransitionHolds(i)
  /\ i.digest = IntentDigest(i)

Checkpoint(e) == [conv |-> e.conv, pos |-> e.pos, prev |-> e.prev, head |-> e.head]

\* The fields a signer's fence record shares with the request it answers.
FenceBinding(i) ==
  [intent |-> i.digest, checkpoint |-> Checkpoint(i.envelope), fence |-> i.fence,
   expires |-> i.expires, started |-> i.started]

Bound(res, i) == res.binding = FenceBinding(i)

AcceptedIntent(i, res) ==
  [cmd |-> i.cmd, cmdDigest |-> i.cmdDigest, auth |-> i.auth,
   envelope |-> i.envelope, wire |-> i.wire, policy |-> i.policy,
   prep |-> i.prep, digest |-> i.digest, started |-> i.started,
   expires |-> i.expires, fence |-> i.fence, plan |-> i.plan,
   reservation |-> i.projection.reservation, resolution |-> res]

\* parseAcceptedApplicationAppendIntent: the preparation is no longer
\* recomputed (its inputs are gone), only committed to by the digest.
AcceptedIntentParses(i) ==
  /\ i.cmdDigest = CommandDigest(i.cmd)
  /\ i.auth.conv = i.cmd.conv
  /\ i.plan.conv = i.envelope.conv /\ i.plan.pos = i.envelope.pos
  /\ ChainHolds(i.envelope)
  /\ i.wire = WireEvidence(i.cmd)
  /\ PolicyMatches(i.policy, i.auth)
  /\ EnvelopeMatches(i.envelope, i.cmd, i.auth)
  /\ i.digest = <<i.cmdDigest, i.prep, i.reservation, i.plan, i.fence, i.expires>>
  /\ i.resolution.status = "signed" /\ Bound(i.resolution, i)

Signed(e, sig) == [body |-> e, sig |-> sig]
Receipt(x) == [conv |-> x.body.conv, pos |-> x.body.pos, env |-> x.body.env,
               at |-> x.body.at, checkpoint |-> Checkpoint(x.body), sig |-> x.sig]
FanoutEvidence(plan, x) == [plan |-> plan, env |-> x.body.env, head |-> x.body.head]
SignatureEvidence(e, sig, t) == [checkpoint |-> Checkpoint(e), sig |-> sig, at |-> t]
FenceEvidence(res, t) == [record |-> res, at |-> t]

\* requireReplayMatchesCurrentCommand.
ReplayMatches(replay, c, admitted) ==
  /\ c.conv = admitted.conv
  /\ replay # "blocked" => SameSemantics(c, admitted)
  /\ replay = "none" => CommandDigest(c) = CommandDigest(admitted)
  /\ replay = "http" => c.key = admitted.key

\* Mutant: the receipt is not compared with the envelope it describes.
ReceiptUncompared(a, c) ==
  /\ a.to = c
  /\ AcceptedIntentParses(a.intent)
  /\ ReplayMatches(a.replay, c, a.intent.cmd)
  /\ a.signed.body = a.intent.envelope
  /\ a.sigEv.checkpoint = Checkpoint(a.signed.body) /\ a.sigEv.sig = a.signed.sig
  /\ a.fenceEv.record = a.intent.resolution
  /\ a.fanout = FanoutEvidence(a.intent.plan, a.signed)
  /\ a.finalized <= a.observed

\* parsePersistedApplicationAppendAcceptance, for the call's command.
AcceptanceParses(a, c) ==
  /\ a.to = c
  /\ AcceptedIntentParses(a.intent)
  /\ ReplayMatches(a.replay, c, a.intent.cmd)
  /\ a.signed.body = a.intent.envelope
  /\ a.receipt = Receipt(a.signed)
  /\ a.sigEv.checkpoint = Checkpoint(a.signed.body) /\ a.sigEv.sig = a.signed.sig
  /\ a.fenceEv.record = a.intent.resolution
  /\ a.fanout = FanoutEvidence(a.intent.plan, a.signed)
  /\ a.finalized <= a.observed

\* parseApplicationAppendPhaseResult.
PhaseParses(r, c) ==
  CASE r.status \in {"retry", "conflict", "rejected", "unavailable"} -> TRUE
    [] r.status = "retired" -> r.to = c /\ r.retiredAt <= r.observed
    [] r.status = "miss" -> r.to = c /\ r.digest = r.snapshot /\ r.prev = r.snapshot.log
    [] r.status = "pending" -> /\ r.to = c /\ PendingParses(r.intent)
                               /\ r.reserved <= r.observed
                               /\ r.replay # "blocked"
                               /\ ReplayMatches(r.replay, c, r.intent.cmd)
    [] r.status = "blocked" -> /\ r.to = c /\ PendingParses(r.intent)
                               /\ r.reserved <= r.observed
                               /\ r.intent.cmd.conv = c.conv
    [] r.status = "accepted" -> AcceptanceParses(r, c)

-----------------------------------------------------------------------------
(* Time, and how a call ends.                                              *)

Idle == [phase |-> "idle", cmd |-> AeNone, started |-> 0, at |-> 0,
         base |-> AeNone, policy |-> AeNone, pending |-> AeNone, own |-> FALSE,
         resolve |-> FALSE, res |-> AeNone, fenceEv |-> AeNone,
         sigEv |-> AeNone, acc |-> AeNone, result |-> AeNone, receipt |-> AeNone]

\* timestampWasObservedDuringInvocation, with the clock read on completion.
ObservedDuring(k, t) ==
  LET c == aeCall[k] IN c.started <= t /\ t <= aeNow /\ aeNow < c.started + AeTimeout

Set(k, c) == aeCall' = [aeCall EXCEPT ![k] = c]

\* The facts a call still holds when it starts over, and when it answers.
Restarted(c) == [Idle EXCEPT !.phase = "preflight", !.cmd = c.cmd, !.started = c.started]
Answered(c, result) ==
  [c EXCEPT !.phase = "done", !.result = result, !.policy = AeNone, !.res = AeNone,
            !.fenceEv = AeNone, !.sigEv = AeNone, !.acc = AeNone]

Restart(k) == Set(k, Restarted(aeCall[k]))
Answer(k, result) == Set(k, Answered(aeCall[k], result))
Accept(k, receipt) == Set(k, [Answered(aeCall[k], "accepted") EXCEPT !.receipt = receipt])

\* A drained blocker's acceptance is never the caller's own: it throws.
PublicAcceptance(k, r) ==
  IF r.replay = "blocked" THEN Answer(k, "threw") ELSE Accept(k, r.receipt)

\* A port's answer: what it really found, or that answer altered.
Port(k, real, altered, Handle(_)) ==
  \/ Handle(real) /\ UNCHANGED aeAltered
  \/ /\ aeAltered < aeInst.altered
     /\ \E r \in altered : Handle(r)
     /\ aeAltered' = aeAltered + 1

Restamped(r) == {[r EXCEPT !.observed = t] : t \in {0, aeNow + 1} \ {r.observed}}
Misaddressed(r) == {[r EXCEPT !.to = c] : c \in AeCommands \ {r.to}}

\* One field of a stored intent changed, or one consistent pair of fields.
IntentAlterations(i) ==
  LET fewer == {AeDevices \ {d} : d \in AeDevices} IN
  UNION {{[i EXCEPT !.cmd = c], [i EXCEPT !.cmd = c, !.cmdDigest = c],
          [i EXCEPT !.wire = WireEvidence(c)]} : c \in AeCommands \ {i.cmd}}
  \cup UNION {{[i EXCEPT !.rows = d], [i EXCEPT !.plan.to = d],
               [i EXCEPT !.rows = d, !.plan.to = d]} : d \in fewer}
  \cup {[i EXCEPT !.base.used = @ + 1], [i EXCEPT !.auth.used = @ + 1],
        [i EXCEPT !.auth.verified = @ + 1, !.authDigest.verified = @ + 1],
        [i EXCEPT !.policy.at = @ + 1], [i EXCEPT !.envelope.pos = @ + 1],
        [i EXCEPT !.envelope.at = @ + 1], [i EXCEPT !.envelope.prev = <<i.cmd.env>>],
        [i EXCEPT !.started = @ + 1], [i EXCEPT !.expires = @ + 1],
        [i EXCEPT !.fence = @ + 1], [i EXCEPT !.projection.used = @ + 1],
        [i EXCEPT !.quotas = @ + 1]}

\* The same for a stored acceptance; the last three are consistent forgeries
\* of a signature, of a fence record, and of an envelope with its receipt.
AcceptanceAlterations(a) ==
  LET record == [a.intent.resolution EXCEPT !.at = @ + 1]
      forged == Signed(a.signed.body, AeNone)
      moved == Signed([a.signed.body EXCEPT !.pos = @ + 1], a.signed.sig)
  IN  {[a EXCEPT !.replay = r] : r \in {"none", "http", "envelope", "blocked"}}
      \cup {[a EXCEPT !.intent.cmd = c, !.intent.cmdDigest = c] : c \in AeCommands}
      \cup {[a EXCEPT !.receipt.pos = @ + 1], [a EXCEPT !.intent.expires = @ + 1],
            [a EXCEPT !.sigEv.at = @ + 1], [a EXCEPT !.fanout.plan.to = {}],
            [a EXCEPT !.finalized = a.observed + 1],
            [a EXCEPT !.signed = forged, !.receipt = Receipt(forged), !.sigEv.sig = AeNone],
            [a EXCEPT !.intent.resolution = record, !.fenceEv.record = record],
            [a EXCEPT !.signed = moved, !.receipt = Receipt(moved)]}

\* What the persistence port may answer instead of r.
Alterations(r) ==
  CASE r.status \in {"retry", "conflict"} -> {}
    [] r.status = "retired" -> Restamped(r) \cup Misaddressed(r)
    [] r.status = "miss" ->
         Restamped(r) \cup Misaddressed(r)
         \cup {[r EXCEPT !.snapshot.used = @ + 1], [r EXCEPT !.snapshot.log = <<"alien">>]}
    [] r.status \in {"pending", "blocked"} ->
         Restamped(r) \cup Misaddressed(r)
         \cup {[r EXCEPT !.intent = i] : i \in IntentAlterations(r.intent)}
         \cup {[r EXCEPT !.status = "pending", !.replay = x] :
                 x \in {"none", "http", "envelope", "blocked"} \ {r.replay}}
    [] r.status = "accepted" ->
         Restamped(r) \cup Misaddressed(r) \cup (AcceptanceAlterations(r) \ {r})

-----------------------------------------------------------------------------
(* The persistence port, as the service uses it.                           *)

Replay(c, i) ==
  IF CommandDigest(c) = i.cmdDigest THEN "none"
  ELSE IF SameSemantics(c, i.cmd) THEN "envelope" ELSE "blocked"

AcceptedAnswer(c, a, replay) ==
  [a EXCEPT !.to = c, !.replay = replay, !.observed = aeNow]

\* An acceptance already stored for the command: by its key, or its envelope.
StoredAnswers(c) ==
  {IF a.intent.cmd.key = c.key
   THEN IF a.intent.cmd.env = c.env THEN AcceptedAnswer(c, a, "http")
        ELSE [status |-> "conflict"]
   ELSE AcceptedAnswer(c, a, "envelope") :
      a \in {b \in aeStore.accepted : b.intent.cmd.key = c.key \/ b.intent.cmd.env = c.env}}

PendingAnswer(c, i) ==
  [status |-> IF Replay(c, i) = "blocked" THEN "blocked" ELSE "pending",
   replay |-> Replay(c, i), to |-> c, intent |-> i, reserved |-> i.envelope.at,
   observed |-> aeNow]

Retry == [status |-> "retry"]

\* What is found before anything is reserved: a stored acceptance wins, then
\* the lane's pending intent, else the fallback.
Found(c, fallback) ==
  IF StoredAnswers(c) # {} THEN CHOOSE r \in StoredAnswers(c) : TRUE
  ELSE IF aeStore.pending # AeNone THEN PendingAnswer(c, aeStore.pending)
  ELSE fallback

-----------------------------------------------------------------------------
(* The invocation.                                                         *)

BeginCall(k, c) ==
  /\ aeCall[k].phase = "idle"
  /\ Set(k, Restarted([cmd |-> c, started |-> aeNow]))
  /\ UNCHANGED <<aeNow, aeStore, aeIssued, aePrepared, aeAltered>>

\* The branches preflight and reservation share.
HandlePhase(k, r) ==
  LET c == aeCall[k]
      current == ObservedDuring(k, r.observed) IN
  IF ~PhaseParses(r, c.cmd) THEN Answer(k, "malformed")
  ELSE IF r.status = "retry" THEN Restart(k)
  ELSE IF r.status = "conflict" THEN Answer(k, "conflict")
  ELSE IF r.status = "retired" \/ ~current THEN Answer(k, "malformed")
  ELSE CASE r.status = "accepted" ->
              IF r.replay = "blocked" THEN Answer(k, "malformed")
              ELSE Set(k, [c EXCEPT !.phase = "historicalFence", !.acc = r])
         [] r.status \in {"pending", "blocked"} ->
              Set(k, [c EXCEPT !.phase = "ask", !.pending = r.intent,
                               !.own = (r.status = "pending")])
         [] r.status = "miss" ->
              IF r.snapshot.conv # c.cmd.conv THEN Answer(k, "rejected")
              ELSE Set(k, [c EXCEPT !.phase = "inspect", !.base = r.snapshot,
                                    !.at = r.observed])

ReadPreflight(k) ==
  LET c == aeCall[k].cmd
      miss == [status |-> "miss", to |-> c, snapshot |-> LockedSnapshot,
               digest |-> LockedSnapshot, prev |-> aeStore.log, observed |-> aeNow]
      real == Found(c, miss)
  IN  /\ aeCall[k].phase = "preflight"
      /\ Port(k, real, Alterations(real), LAMBDA r : HandlePhase(k, r))
      /\ UNCHANGED <<aeNow, aeStore, aeIssued, aePrepared>>

\* Wire inspection and policy-head proof, in parallel.  The verifiers compare
\* the request with the current snapshot, so a lane that moved is unavailable.
InspectAndVerify(k) ==
  LET c == aeCall[k]
      real == [wire |-> WireEvidence(c.cmd), policy |-> PolicyEvidence(c.base, c.at)]
      Handle(r) ==
        IF r.wire # WireEvidence(c.cmd) \/ r.policy # PolicyEvidence(c.base, c.at)
        THEN Answer(k, "malformed")
        ELSE IF ~Allowed(Refreshed(c.base, r.policy)) THEN Answer(k, "rejected")
        ELSE Set(k, [c EXCEPT !.phase = "reserve", !.policy = r.policy])
  IN  /\ c.phase = "inspect"
      /\ IF aeStore.log # c.base.log
         THEN Answer(k, "malformed") /\ UNCHANGED aeAltered
         ELSE Port(k, real,
                   {[real EXCEPT !.wire = WireEvidence(d)] : d \in AeCommands \ {c.cmd}}
                   \cup {[real EXCEPT !.policy.at = @ + 1]}, Handle)
      /\ UNCHANGED <<aeNow, aeStore, aeIssued, aePrepared>>

\* The reservation transaction with its prepareUnsigned callback.
ReserveAtomically(k) ==
  LET c == aeCall[k]
      found == Found(c.cmd, AeNone)
      auth == Refreshed(c.base, c.policy)
      intent == PendingIntent(c.cmd, c.base, c.policy, WireEvidence(c.cmd),
                              Cardinality(aePrepared) + 1, c.started, aeNow)
      new == PendingAnswer(c.cmd, intent)
  IN  /\ c.phase = "reserve"
      /\ \/ /\ found # AeNone
            /\ Port(k, found, Alterations(found), LAMBDA r : HandlePhase(k, r))
            /\ UNCHANGED <<aeStore, aePrepared>>
         \/ /\ found = AeNone /\ LockedSnapshot # c.base
            /\ Port(k, Retry, {}, LAMBDA r : HandlePhase(k, r))
            /\ UNCHANGED <<aeStore, aePrepared>>
         \/ /\ found = AeNone /\ LockedSnapshot = c.base
            /\ ~ObservedDuring(k, aeNow) \/ ~HasLiveInterval(auth, c.started, aeNow)
            /\ Answer(k, "malformed")
            /\ UNCHANGED <<aeStore, aePrepared, aeAltered>>
         \/ /\ found = AeNone /\ LockedSnapshot = c.base
            /\ ObservedDuring(k, aeNow) /\ HasLiveInterval(auth, c.started, aeNow)
            /\ aeStore' = [aeStore EXCEPT !.pending = intent]
            /\ aePrepared' = aePrepared \cup {intent}
            /\ Port(k, new, Alterations(new), LAMBDA r : HandlePhase(k, r))
      /\ UNCHANGED <<aeNow, aeIssued>>

\* resumePendingApplicationAppend reads the clock before it asks the signer.
AskSigner(k) ==
  /\ aeCall[k].phase = "ask"
  /\ Set(k, [aeCall[k] EXCEPT !.phase = "sign",
                              !.resolve = (aeNow >= aeCall[k].pending.expires)])
  /\ UNCHANGED <<aeNow, aeStore, aeIssued, aePrepared, aeAltered>>

FenceRecord(i, status, t) ==
  [status |-> status, binding |-> FenceBinding(i), at |-> t,
   sig |-> IF status = "signed" THEN Checkpoint(i.envelope) ELSE AeNone]

\* Whether a fence record is parsed as the answer to this intent's request.
ResolutionParses(res, i) ==
  /\ Bound(res, i)
  /\ IF res.status = "signed" THEN i.envelope.at <= res.at /\ res.at < i.expires
     ELSE res.at >= i.expires

\* What the signer, which remembers the records of one request, answers.
SignerRecord(k, i, resolve) ==
  LET own == {res \in aeIssued[k] : res.binding.checkpoint.pos = i.envelope.pos
                                    /\ res.binding.fence = i.fence}
  IN  IF own # {} THEN CHOOSE res \in own : TRUE
      ELSE IF resolve THEN FenceRecord(i, "cancelled", aeNow)
      ELSE IF aeNow < i.expires THEN FenceRecord(i, "signed", aeNow)
      ELSE AeNone

HandleResolution(k, res) ==
  LET c == aeCall[k] IN
  IF \/ ~ResolutionParses(res, c.pending)
     \/ ~c.resolve /\ (res.status # "signed" \/ ~ObservedDuring(k, res.at))
     \/ c.resolve /\ res.status = "cancelled" /\ res.at > aeNow
     \/ aeNow >= c.started + AeTimeout
  THEN Answer(k, "malformed")
  ELSE Set(k, [c EXCEPT !.phase = "fence", !.res = res])

CallSigner(k) ==
  LET c == aeCall[k]
      real == SignerRecord(k, c.pending, c.resolve)
      other == FenceRecord(c.pending, IF c.resolve THEN "signed" ELSE "cancelled",
                           IF c.resolve THEN c.pending.envelope.at ELSE c.pending.expires)
  IN  /\ c.phase = "sign"
      /\ IF real = AeNone
         THEN Answer(k, "malformed") /\ UNCHANGED <<aeIssued, aeAltered>>
         ELSE /\ aeIssued' = [aeIssued EXCEPT ![k] = @ \cup {real}]
              /\ Port(k, real,
                      {[real EXCEPT !.at = @ + 1], [real EXCEPT !.sig = AeNone],
                       [real EXCEPT !.binding.fence = @ + 1], other},
                      LAMBDA r : HandleResolution(k, r))
      /\ UNCHANGED <<aeNow, aeStore, aePrepared>>

Genuine(res) == res \in UNION {aeIssued[j] : j \in AeCalls}

\* The verifier vouches only for records the signer issued; the evidence must
\* name this record and the time the service asked for.
VerifyFenceEvidence(k) ==
  LET c == aeCall[k]
      real == FenceEvidence(c.res, aeNow)
      Handle(e) ==
        IF e # FenceEvidence(c.res, aeNow) \/ ~ObservedDuring(k, aeNow)
        THEN Answer(k, "malformed")
        ELSE Set(k, [c EXCEPT !.phase = IF c.res.status = "signed" THEN "signature"
                                        ELSE "retire", !.fenceEv = e])
  IN  /\ c.phase = "fence"
      /\ IF ~Genuine(c.res)
         THEN Answer(k, "malformed") /\ UNCHANGED aeAltered
         ELSE Port(k, real, {[real EXCEPT !.at = @ + 1], [real EXCEPT !.record.at = @ + 1]},
                   Handle)
      /\ UNCHANGED <<aeNow, aeStore, aeIssued, aePrepared>>

VerifySignature(k) ==
  LET c == aeCall[k]
      e == c.pending.envelope
      real == SignatureEvidence(e, c.res.sig, aeNow)
      Handle(v) ==
        IF v # SignatureEvidence(e, c.res.sig, aeNow) \/ ~ObservedDuring(k, aeNow)
        THEN Answer(k, "malformed")
        ELSE Set(k, [c EXCEPT !.phase = "finalize", !.sigEv = v])
  IN  /\ c.phase = "signature"
      /\ IF c.res.sig # Checkpoint(e)
         THEN Answer(k, "malformed") /\ UNCHANGED aeAltered
         ELSE Port(k, real, {[real EXCEPT !.at = @ + 1], [real EXCEPT !.checkpoint.pos = @ + 1]},
                   Handle)
      /\ UNCHANGED <<aeNow, aeStore, aeIssued, aePrepared>>

\* The acceptance row the finalizing transaction writes.
Acceptance(k, i) ==
  LET c == aeCall[k]
      signed == Signed(i.envelope, c.res.sig) IN
  [status |-> "accepted", to |-> c.cmd, replay |-> Replay(c.cmd, i),
   intent |-> AcceptedIntent(i, c.res), signed |-> signed,
   receipt |-> Receipt(signed), sigEv |-> c.sigEv, fenceEv |-> c.fenceEv,
   fanout |-> FanoutEvidence(i.plan, signed), finalized |-> aeNow, observed |-> aeNow]

HandleFinalized(k, r) ==
  LET c == aeCall[k] IN
  IF ~PhaseParses(r, c.cmd) THEN Answer(k, "malformed")
  ELSE CASE r.status = "retry" -> UNCHANGED aeCall
    [] r.status = "conflict" -> Answer(k, "conflict")
    [] r.status = "accepted" ->
         IF \/ r.intent.digest # c.pending.digest
            \/ r.sigEv # c.sigEv
            \/ r.fenceEv # c.fenceEv
            \/ ~ObservedDuring(k, r.observed)
         THEN Answer(k, "malformed")
         ELSE IF ~c.own THEN Restart(k)
         ELSE PublicAcceptance(k, r)
    [] OTHER -> Answer(k, "malformed")

FinalizeAtomically(k) ==
  LET c == aeCall[k]
      i == c.pending
      same == {a \in aeStore.accepted : a.intent.digest = i.digest}
      real == CASE StoredAnswers(c.cmd) # {} -> CHOOSE r \in StoredAnswers(c.cmd) : TRUE
                [] aeStore.pending = i -> Acceptance(k, i)
                [] same # {} ->
                     AcceptedAnswer(c.cmd, CHOOSE a \in same : TRUE, Replay(c.cmd, i))
                [] OTHER -> Retry
  IN  /\ c.phase = "finalize"
      /\ IF StoredAnswers(c.cmd) = {} /\ aeStore.pending = i
         THEN aeStore' = [aeStore EXCEPT !.log = i.projection.log,
                                         !.used = i.projection.used, !.pending = AeNone,
                                         !.accepted = @ \cup {Acceptance(k, i)}]
         ELSE UNCHANGED aeStore
      /\ Port(k, real, Alterations(real), LAMBDA r : HandleFinalized(k, r))
      /\ UNCHANGED <<aeNow, aeIssued, aePrepared>>

HandleRetired(k, r) ==
  LET c == aeCall[k] IN
  IF ~PhaseParses(r, c.cmd) THEN Answer(k, "malformed")
  ELSE CASE r.status = "retired" /\ r.intent = c.pending.digest /\ ObservedDuring(k, r.observed) ->
         Restart(k)
    [] r.status = "blocked" /\ r.intent.digest = c.pending.digest -> UNCHANGED aeCall
    [] OTHER -> Answer(k, "malformed")

RetireAtomically(k) ==
  LET c == aeCall[k]
      i == c.pending
      gone == i.digest \in aeStore.retired \/ aeStore.pending = i
      real == IF gone THEN [status |-> "retired", to |-> c.cmd, intent |-> i.digest,
                            retiredAt |-> i.expires, observed |-> aeNow]
              ELSE [PendingAnswer(c.cmd, aeStore.pending) EXCEPT !.status = "blocked"]
  IN  /\ c.phase = "retire"
      /\ IF ~gone /\ aeStore.pending = AeNone
         THEN Answer(k, "malformed") /\ UNCHANGED <<aeStore, aeAltered>>
         ELSE /\ Port(k, real, Alterations(real), LAMBDA r : HandleRetired(k, r))
              /\ aeStore' = IF aeStore.pending # i THEN aeStore
                            ELSE [aeStore EXCEPT !.pending = AeNone,
                                                 !.retired = @ \cup {i.digest}]
      /\ UNCHANGED <<aeNow, aeIssued, aePrepared>>

\* Evidence is compared without the time and the digest of its verification.
SameFenceIdentity(e, f) == e.record = f.record
SameSignatureIdentity(e, f) == e.checkpoint = f.checkpoint /\ e.sig = f.sig

\* verifyHistoricalAcceptance: fresh evidence of the same identity as stored.
VerifyHistoricalFence(k) ==
  LET c == aeCall[k]
      real == FenceEvidence(c.acc.intent.resolution, aeNow)
      Handle(e) ==
        IF SameFenceIdentity(e, c.acc.fenceEv) /\ e.at = aeNow /\ ObservedDuring(k, aeNow)
        THEN Set(k, [c EXCEPT !.phase = "historicalSignature"]) ELSE Answer(k, "malformed")
  IN  /\ c.phase = "historicalFence"
      /\ IF ~Genuine(c.acc.intent.resolution)
         THEN Answer(k, "malformed") /\ UNCHANGED aeAltered
         ELSE Port(k, real, {[real EXCEPT !.record.at = @ + 1]}, Handle)
      /\ UNCHANGED <<aeNow, aeStore, aeIssued, aePrepared>>

VerifyHistoricalSignature(k) ==
  LET c == aeCall[k]
      e == c.acc.intent.envelope
      real == SignatureEvidence(e, c.acc.signed.sig, aeNow)
      Handle(v) ==
        IF /\ SameSignatureIdentity(v, c.acc.sigEv)
           /\ v.at = aeNow /\ ObservedDuring(k, aeNow)
        THEN PublicAcceptance(k, c.acc) ELSE Answer(k, "malformed")
  IN  /\ c.phase = "historicalSignature"
      /\ IF c.acc.signed.sig # Checkpoint(e)
         THEN Answer(k, "malformed") /\ UNCHANGED aeAltered
         ELSE Port(k, real, {[real EXCEPT !.checkpoint.pos = @ + 1]}, Handle)
      /\ UNCHANGED <<aeNow, aeStore, aeIssued, aePrepared>>

\* The operation timer: callBounded answers at once, whatever the port does.
AbortCall(k) ==
  /\ aeCall[k].phase \notin {"idle", "done"}
  /\ Answer(k, "timeout")
  /\ UNCHANGED <<aeNow, aeStore, aeIssued, aePrepared, aeAltered>>

AeTick ==
  /\ aeNow < aeInst.now
  /\ aeNow' = aeNow + 1
  /\ UNCHANGED <<aeStore, aeIssued, aePrepared, aeAltered, aeCall>>

AeInit ==
  /\ aeInst \in AeBounds
  /\ aeNow = 1
  /\ aeStore = [log |-> <<>>, used |-> 0, pending |-> AeNone, accepted |-> {}, retired |-> {}]
  /\ aeIssued = [k \in AeCalls |-> {}]
  /\ aePrepared = {}
  /\ aeAltered = 0
  /\ aeCall = [k \in AeCalls |-> Idle]

AeStep(k) ==
  \/ ReadPreflight(k) \/ InspectAndVerify(k) \/ ReserveAtomically(k) \/ AskSigner(k)
  \/ CallSigner(k) \/ VerifyFenceEvidence(k) \/ VerifySignature(k)
  \/ FinalizeAtomically(k) \/ RetireAtomically(k) \/ VerifyHistoricalFence(k)
  \/ VerifyHistoricalSignature(k) \/ AbortCall(k)

AeNext ==
  /\ \/ \E k \in AeCalls : AeStep(k) \/ \E c \in aeInst.commands : BeginCall(k, c)
     \/ AeTick
  /\ UNCHANGED aeInst

-----------------------------------------------------------------------------
(* Properties.                                                             *)

\* Whatever one answer of the store, the signer or a verifier is altered to,
\* a caller told "accepted" holds the receipt of its own envelope: the one an
\* invocation prepared for that envelope, signed by the signer under that
\* preparation's fence, and at that position of the log.
AcceptedIsOwn ==
  \A k \in AeCalls :
    aeCall[k].result = "accepted" =>
      \E i \in aePrepared :
        /\ i.cmd.conv = aeCall[k].cmd.conv /\ i.cmd.env = aeCall[k].cmd.env
        /\ aeCall[k].receipt = Receipt(Signed(i.envelope, Checkpoint(i.envelope)))
        /\ \E j \in AeCalls : \E res \in aeIssued[j] : res.status = "signed" /\ Bound(res, i)
        /\ i.envelope.pos <= Len(aeStore.log) /\ aeStore.log[i.envelope.pos] = i.envelope.env

\* The service asks the signer only about intents a preparation really built:
\* the stored intent is recomputed field by field before it is resumed.
SignsPreparedOnly ==
  \A k \in AeCalls : aeCall[k].pending # AeNone => aeCall[k].pending \in aePrepared

\* With unaltered answers a call says "malformed-dependency-response" only for
\* a race its ports cannot help: the deadline or the intent's expiry passed,
\* the lane moved under its inspection, or another call settled the intent.
MalformedForCause ==
  \A k \in AeCalls :
    LET c == aeCall[k] IN
    (c.result = "malformed" /\ aeAltered = 0) =>
      \/ aeNow >= c.started + AeTimeout
      \/ c.base # AeNone /\ aeStore.log # c.base.log
      \/ c.base # AeNone /\ aeNow >= c.at + AePolicyTtl
      \/ c.pending # AeNone /\ aeStore.pending # c.pending
      \/ c.pending # AeNone /\ ~c.resolve /\ aeNow >= c.pending.expires

\* The service believes no answer it did not check and distrusts none without
\* cause: acceptances are of the caller's envelope, signatures of prepared intents,
\* and "malformed" is an altered answer or a race
\* (parsePersistedApplicationAppendAcceptance, requireReplayMatchesCurrentCommand).
AnswersChecked ==
  /\ AcceptedIsOwn
  /\ SignsPreparedOnly
  /\ MalformedForCause
=============================================================================
