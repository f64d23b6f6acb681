---------------------------- MODULE QuotaSharing ----------------------------
(***************************************************************************)
(* Append quotas that several conversations share.                         *)
(*                                                                         *)
(* A conversation is bound to one counter for each scope of a sender: the  *)
(* installation, the account, the project, the conversation and the        *)
(* tenant, all for one UTC day.  A counter belongs to its subject, not to  *)
(* the conversation: two conversations of one project, account or device   *)
(* that were planned on the same day charge the same row.  A conversation  *)
(* locks its own custody row, never the counters; these are guarded by     *)
(* their row version alone.                                                *)
(*                                                                         *)
(*   appendAuthority        quotaBindingsFor, ensureMemberQuotaBindings    *)
(*   conversationPlanStore  the bindings of a new conversation             *)
(*   postgresDeliveryStore  the snapshot's counters, the reservation, its  *)
(*                          consumption and its release, the fences        *)
(*   state                  the limits, the window, the conversion         *)
(*                                                                         *)
(* Reading a snapshot and updating the counters are two steps of one       *)
(* transaction, between which transactions of other conversations commit.  *)
(* `return retry()' ends the transaction normally, so what it updated      *)
(* before is committed.  Bytes are charged like operations and left out.   *)
(***************************************************************************)
EXTENDS Integers, Sequences, FiniteSets

CONSTANTS
  Lanes,           \* conversations, of one project
  Senders,         \* installations
  AccountOf(_),    \* the account of an installation
  OperationLimit,  \* operations a counter admits in its window
  MaxDay,          \* bound on the days
  MaxRevision,     \* bound on the changes of a conversation's own rows
  MaxVersion,      \* bound on the versions of a counter
  NoAppend         \* the idle transaction and the empty lane

ASSUME QuotaSharingBounds ==
  /\ OperationLimit \in Nat /\ MaxDay \in Nat /\ MaxRevision \in Nat
  /\ MaxVersion \in Nat

VARIABLES
  today,
  bindings,  \* conversation_quota_bindings of each conversation
  counters,  \* quota_counters
  live,      \* live application_append_quota_reservations: <<lane, counter>>
  revision,  \* the fenced rows of the conversation itself
  senders,   \* installations with an active send grant
  fences,    \* delivery_sender_fences
  reserving, \* the reserving transaction that holds the lane, after its reads
  reserved,  \* application_append_pendings
  appended   \* application envelopes, by sender

quotaVars == <<today, bindings, counters, live, revision, senders, fences, reserving,
               reserved, appended>>

-----------------------------------------------------------------------------
(* Bindings.                                                               *)

QuotaScopes == <<"installation", "account", "project", "conversation", "tenant">>
ScopeNames == {QuotaScopes[i] : i \in DOMAIN QuotaScopes}
OwnScopes == {"installation", "account"}

QuotaSubject(scope, c, s) == CASE scope = "installation" -> s
                               [] scope = "account"      -> AccountOf(s)
                               [] scope = "conversation" -> c
                               [] OTHER                  -> scope

\* The window starts with the day.
QuotaBindingsFor(c, s, day) ==
  {[scope |-> scope, subject |-> QuotaSubject(scope, c, s), day |-> day] : scope \in ScopeNames}

OwnBindings(c, s, day) == {b \in QuotaBindingsFor(c, s, day) : b.scope \in OwnScopes}

\* ON CONFLICT DO NOTHING: a counter that exists keeps its counts.
WithCounters(rows) ==
  [b \in DOMAIN counters \cup rows |->
     IF b \in DOMAIN counters THEN counters[b] ELSE [ops |-> 0, held |-> 0, version |-> 0]]

\* ensureMemberQuotaBindings keeps the binding a subject has, of any day.
MissingBindings(c, rows) ==
  {b \in rows : ~\E k \in bindings[c] : k.scope = b.scope /\ k.subject = b.subject}

-----------------------------------------------------------------------------
(* The snapshot and its fence.                                             *)

BindingOf(c, s, scope) ==
  CHOOSE b \in bindings[c] : b.scope = scope /\ b.subject = QuotaSubject(scope, c, s)

LiveOn(b) == Cardinality({r \in live : r[2] = b})

\* The counter without the live reservations, whichever lane holds them.
CounterBase(b) ==
  [row |-> b, counts |-> [counters[b] EXCEPT !.held = @ - LiveOn(b),
                                             !.version = @ - LiveOn(b)]]

LaneSnapshot(c, s) ==
  [own    |-> revision[c],
   quotas |-> [i \in DOMAIN QuotaScopes |-> CounterBase(BindingOf(c, s, QuotaScopes[i]))]]

\* A removed sender has no fence; the custody row holds another sender's digest.
SenderFenceHolds(c, s) == fences[c][s] = LaneSnapshot(c, s)

\* refreshCustodySnapshotDigest, for the conversation that was written.
RefreshFences(c) ==
  fences' = [fences EXCEPT ![c] =
               [s \in Senders |-> IF s \in senders'[c] THEN LaneSnapshot(c, s)' ELSE NoAppend]]

LaneFree(c) == bindings[c] # {} /\ reserving[c] = NoAppend

-----------------------------------------------------------------------------
(* Conversations and members.                                              *)

\* The plan, and with it the window, may be of an earlier day.
ActivateLane(c, creator, welcomed, planned) ==
  LET rows == QuotaBindingsFor(c, creator, planned)
                \cup UNION {OwnBindings(c, s, planned) : s \in welcomed}
  IN /\ bindings[c] = {} /\ creator \notin welcomed /\ planned <= today
     /\ bindings' = [bindings EXCEPT ![c] = rows]
     /\ counters' = WithCounters(rows)
     /\ senders' = [senders EXCEPT ![c] = {creator} \cup welcomed]
     /\ UNCHANGED <<today, live, revision, reserving, reserved, appended>>
     /\ RefreshFences(c)

\* consumeCommit of an addition.
AddSender(c, s) ==
  LET rows == OwnBindings(c, s, today)
  IN /\ LaneFree(c) /\ s \notin senders[c] /\ revision[c] < MaxRevision
     /\ counters' = WithCounters(rows)
     /\ bindings' = [bindings EXCEPT ![c] = @ \cup MissingBindings(c, rows)]
     /\ senders' = [senders EXCEPT ![c] = @ \cup {s}]
     /\ revision' = [revision EXCEPT ![c] = @ + 1]
     /\ UNCHANGED <<today, live, reserving, reserved, appended>>
     /\ RefreshFences(c)

\* consumeCommit of a removal; the last grant stays.
RemoveSender(c, s) ==
  /\ LaneFree(c) /\ s \in senders[c] /\ senders[c] # {s} /\ revision[c] < MaxRevision
  /\ senders' = [senders EXCEPT ![c] = @ \ {s}]
  /\ revision' = [revision EXCEPT ![c] = @ + 1]
  /\ UNCHANGED <<today, bindings, counters, live, reserving, reserved, appended>>
  /\ RefreshFences(c)

\* Any other writer of fenced rows: intents, proposals, renewal, witness.
WriteLane(c) ==
  /\ LaneFree(c) /\ revision[c] < MaxRevision
  /\ revision' = [revision EXCEPT ![c] = @ + 1]
  /\ UNCHANGED <<today, bindings, counters, live, senders, reserving, reserved, appended>>
  /\ RefreshFences(c)

NextDay ==
  /\ today < MaxDay
  /\ today' = today + 1
  /\ UNCHANGED <<bindings, counters, live, revision, senders, fences, reserving, reserved,
                 appended>>

-----------------------------------------------------------------------------
(* Reservation, consumption and release.                                   *)

\* The counter's window is today's and has room for one operation more.
Admits(q) == q.row.day = today /\ q.counts.ops + q.counts.held + 1 <= OperationLimit

BeginReserve(c, s) ==
  LET snapshot == LaneSnapshot(c, s)
  IN /\ LaneFree(c) /\ reserved[c] = NoAppend /\ s \in senders[c]
     /\ SenderFenceHolds(c, s)
     /\ \A i \in DOMAIN snapshot.quotas :
          Admits(snapshot.quotas[i]) /\ snapshot.quotas[i].counts.version < MaxVersion
     /\ reserving' = [reserving EXCEPT ![c] = [by |-> s, quotas |-> snapshot.quotas]]
     /\ UNCHANGED <<today, bindings, counters, live, revision, senders, fences, reserved,
                    appended>>

\* Fault: the row version is not compared.
UpdatedAll(quotas) == Len(quotas)

\* The counters are updated in turn until one has another version.
Updated(quotas) ==
  CHOOSE n \in 0..Len(quotas) :
    /\ \A i \in 1..n : counters[quotas[i].row].version = quotas[i].counts.version
    /\ n < Len(quotas)
         => counters[quotas[n + 1].row].version # quotas[n + 1].counts.version

\* One operation moves from where it is held to where it is counted.
Change(quotas, held, ops) ==
  LET rows == {quotas[i].row : i \in 1..Updated(quotas)}
  IN [b \in DOMAIN counters |->
        IF b \in rows THEN [ops |-> counters[b].ops + ops, held |-> counters[b].held + held,
                            version |-> counters[b].version + 1]
        ELSE counters[b]]

Rows(quotas) == {quotas[i].row : i \in DOMAIN quotas}

\* A mismatch answers "retry", with the earlier updates committed.
EndReserve(c) ==
  LET quotas == reserving[c].quotas
      after  == [i \in DOMAIN quotas |-> [quotas[i] EXCEPT !.counts.held = @ + 1,
                                                           !.counts.version = @ + 1]]
      held   == Updated(quotas) = Len(quotas)
  IN /\ reserving[c] # NoAppend
     /\ counters' = Change(quotas, 1, 0)
     /\ live' = IF held THEN live \cup ({c} \X Rows(quotas)) ELSE live
     /\ reserved' = IF held THEN [reserved EXCEPT ![c] =
                                    [by |-> reserving[c].by, quotas |-> after,
                                     expected |-> fences[c][reserving[c].by]]]
                    ELSE reserved
     /\ reserving' = [reserving EXCEPT ![c] = NoAppend]
     /\ UNCHANGED <<today, bindings, revision, senders, fences, appended>>

\* convertQuotaCapacity: `ops' is 1 for finalize, 0 for release.
Convert(c, ops) ==
  LET quotas == reserved[c].quotas
      done   == Updated(quotas) = Len(quotas)
  IN /\ counters' = Change(quotas, -1, ops)
     /\ live' = live \ ({c} \X {quotas[i].row : i \in 1..Updated(quotas)})
     /\ reserved' = IF done THEN [reserved EXCEPT ![c] = NoAppend] ELSE reserved

FinalizeLane(c) ==
  /\ LaneFree(c) /\ reserved[c] # NoAppend /\ revision[c] < MaxRevision
  /\ SenderFenceHolds(c, reserved[c].by)
  /\ fences[c][reserved[c].by] = reserved[c].expected
  /\ Convert(c, 1)
  /\ UNCHANGED <<today, bindings, senders, reserving>>
  /\ IF reserved'[c] # NoAppend THEN UNCHANGED <<appended, revision, fences>>
     ELSE /\ appended' = [appended EXCEPT ![c] = Append(@, reserved[c].by)]
          /\ revision' = [revision EXCEPT ![c] = @ + 1]
          /\ RefreshFences(c)

\* retireExpired, for a pending append whose signature was cancelled.
ReleaseLane(c) ==
  /\ LaneFree(c) /\ reserved[c] # NoAppend
  /\ SenderFenceHolds(c, reserved[c].by)
  /\ Convert(c, 0)
  /\ UNCHANGED <<today, bindings, revision, senders, reserving, appended>>
  /\ IF reserved'[c] # NoAppend THEN UNCHANGED fences ELSE RefreshFences(c)

-----------------------------------------------------------------------------
QuotaInit ==
  /\ today = 0
  /\ bindings = [c \in Lanes |-> {}] /\ counters = <<>> /\ live = {}
  /\ revision = [c \in Lanes |-> 0] /\ senders = [c \in Lanes |-> {}]
  /\ fences = [c \in Lanes |-> [s \in Senders |-> NoAppend]]
  /\ reserving = [c \in Lanes |-> NoAppend] /\ reserved = [c \in Lanes |-> NoAppend]
  /\ appended = [c \in Lanes |-> <<>>]

QuotaNext ==
  \/ NextDay
  \/ \E c \in Lanes :
       \/ \E s \in Senders, w \in SUBSET Senders, d \in 0..MaxDay : ActivateLane(c, s, w, d)
       \/ \E s \in Senders : AddSender(c, s) \/ RemoveSender(c, s) \/ BeginReserve(c, s)
       \/ WriteLane(c) \/ EndReserve(c) \/ FinalizeLane(c) \/ ReleaseLane(c)

QuotaSpec == QuotaInit /\ [][QuotaNext]_quotaVars

-----------------------------------------------------------------------------
(* Properties.                                                             *)

\* Whatever days its members were added on, a sender finds exactly one binding
\* for each scope, and the counter each of them names: without that the
\* reconstruction of its snapshot throws (postgresDeliveryStore, state).
BindingsComplete ==
  \A c \in Lanes : \A s \in senders[c] : \A scope \in ScopeNames :
    LET found == {b \in bindings[c] : b.scope = scope /\ b.subject = QuotaSubject(scope, c, s)}
    IN Cardinality(found) = 1 /\ found \subseteq DOMAIN counters

\* A pending append can always be charged or released: every counter it holds
\* stays at the version it left, however the other conversations that share the
\* counter interleave, so the loops of finalize and retire never stop half way.
PendingConvertible ==
  \A c \in Lanes : reserved[c] # NoAppend
    => /\ Updated(reserved[c].quotas) = Len(reserved[c].quotas)
       /\ ({c} \X Rows(reserved[c].quotas)) \subseteq live

ChargesOf(b) ==
  {<<c, i>> \in Lanes \X (1..MaxRevision) :
     i \in DOMAIN appended[c] /\ b = BindingOf(c, appended[c][i], b.scope)}

\* A shared counter has charged exactly the envelopes of all the conversations
\* bound to it, each once; what it holds beyond its live reservations is what
\* reservations given up half way have left behind, never less.
CountersBalance ==
  \A b \in DOMAIN counters :
    counters[b].ops = Cardinality(ChargesOf(b)) /\ counters[b].held >= LiveOn(b)

\* The limit of a shared counter holds for all its conversations together:
\* reservations decided on snapshots read at the same time do not add up past it.
WithinQuota == \A b \in DOMAIN counters : counters[b].ops + counters[b].held <= OperationLimit

\* "Every sender's fence moves when the graph moves" (postgresDeliveryStore): a
\* sender with a grant finds its snapshot as the fence has it, also after another
\* conversation has charged a counter they share.
FencesFollowGraph ==
  \A c \in Lanes : reserving[c] = NoAppend
    => \A s \in senders[c] : SenderFenceHolds(c, s)

\* Shared counters are found, never exceeded, charged once per envelope and always
\* convertible, though conversations that share them lock none of them
\* (reserveApplicationAppendAtomically and its counterparts).
QuotasSafe ==
  /\ BindingsComplete
  /\ PendingConvertible
  /\ CountersBalance
  /\ WithinQuota
=============================================================================
