--------------------------- MODULE AppendLaneRows ---------------------------
(***************************************************************************)
(* The inductive invariant of the append lane, for any installations,      *)
(* commands and concurrent invocations and for any bounds, and what the    *)
(* transactions do to the part of it that is about the database rows.      *)
(*                                                                         *)
(* The other part is about the locals of each invocation.  A step changes  *)
(* the locals of one invocation; RowsGrow is all the others need to know   *)
(* of what it did to the rows.                                             *)
(***************************************************************************)
EXTENDS AppendLane, FiniteSetTheorems, TLAPS

RowsType ==
  /\ clock \in Nat
  /\ log \in Seq(Entries)
  /\ graph \in GraphRows
  /\ members \subseteq Installations /\ grants \subseteq Installations
  /\ fence \in [Installations -> Snapshots \cup {None}] /\ custody \in Snapshots
  /\ lane \in Nat /\ pendings \subseteq Intents /\ live \subseteq Nat
  /\ quota \in QuotaRows
  /\ accepted \subseteq [intent: Nat, command: Commands, position: Nat]
  /\ http \subseteq [ scope: {Scope(c) : c \in Commands}, expires: Nat,
                      commitment: {Commitment(c) : c \in Commands},
                      envelope: {c.envelope : c \in Commands} ]
  /\ tombstones \subseteq Nat
  /\ mailbox \in [Installations -> Seq(Nat)]

Phases == ReadPhases \cup TransactionPhases \cup {"done"}

LocalsType ==
  /\ pc \in [Invocations -> Phases]
  /\ call \in [Invocations -> Commands \cup {None}]
  /\ seen \in [Invocations -> Snapshots \cup {None}]
  /\ target \in [Invocations -> Intents \cup {None}]
  /\ owns \in [Invocations -> BOOLEAN]
  /\ memory \in [Invocations ->
       SUBSET [id: Nat, position: Nat, status: {"signed", "cancelled"}]]
  /\ result \in [Invocations -> [status: Statuses, position: Nat]]
  /\ \A i \in Invocations :
       /\ pc[i] # "done" => call[i] \in Commands
       /\ pc[i] \in {"admit", "reserve"} => seen[i] \in Snapshots
       /\ pc[i] \in Resuming => target[i] \in Intents

\* The rows: what the promises need besides their types.
RowInv ==
  /\ RowsType /\ ExactlyOnce /\ IntentResolvedOnce /\ CapacityConserved
  /\ PendingFits /\ IntentsSpent /\ HttpKnown /\ FencesCurrent
  /\ grants # {} /\ IsFiniteSet(accepted)

\* The locals of one invocation.
Receipt(i) == result[i].status = "accepted" =>
  /\ result[i].position \in DOMAIN log
  /\ log[result[i].position].class = "application"
  /\ log[result[i].position].identity = Identity(call[i])

Target(i) == pc[i] \in Resuming =>
  /\ target[i].id <= lane
  /\ \A p \in pendings : p.id = target[i].id => p = target[i]
  /\ \A a \in accepted : a.intent = target[i].id => a.command = target[i].command
  /\ owns[i] => Identity(target[i].command) = Identity(call[i])

Seen(i) == pc[i] \in {"admit", "reserve"} =>
  /\ seen[i].sender = call[i].sender
  /\ Len(seen[i].log) <= Len(log)
  /\ pc[i] = "reserve" => Allowed(seen[i], call[i])

LocalInv == LocalsType /\ \A i \in Invocations : Receipt(i) /\ Target(i) /\ Seen(i)

\* What a step may do to the rows, as far as the invocations care.
RowsGrow ==
  /\ lane' \in Nat /\ lane <= lane' /\ log' \in Seq(Entries)
  /\ \A p \in pendings' : p \in pendings \/ p.id > lane
  /\ \A a \in accepted' : \/ a \in accepted
                          \/ /\ a.position = Len(log) + 1
                             /\ \E p \in pendings : a.intent = p.id /\ a.command = p.command
  /\ Len(log) <= Len(log')
  /\ \A n \in DOMAIN log : log'[n] = log[n]

\* The locals of an invocation that is not the one stepping.
Untouched(j) ==
  /\ pc'[j] = pc[j] /\ call'[j] = call[j] /\ seen'[j] = seen[j]
  /\ target'[j] = target[j] /\ owns'[j] = owns[j] /\ result'[j] = result[j]

Inv == RowInv /\ LocalInv

-----------------------------------------------------------------------------
(* The operators.                                                          *)

\* What appending does to a sequence.
LEMMA AppendFacts ==
  ASSUME NEW S, NEW l \in Seq(S), NEW e \in S
  PROVE  /\ Append(l, e) \in Seq(S) /\ Len(Append(l, e)) = Len(l) + 1
         /\ Len(l) <= Len(Append(l, e)) /\ Len(l) + 1 \notin DOMAIN l
         /\ DOMAIN Append(l, e) = DOMAIN l \cup {Len(l) + 1}
         /\ \A n \in DOMAIN l : n \in DOMAIN Append(l, e) /\ Append(l, e)[n] = l[n]
         /\ Append(l, e)[Len(l) + 1] = e
OBVIOUS

\* There is no pending intent or exactly one, so the set of live reservations
\* is finite and as large.
LEMMA OnePending ==
  ASSUME RowInv
  PROVE  /\ IsFiniteSet(live) /\ Cardinality(live) \in Nat
         /\ pendings = {} => live = {} /\ Cardinality(live) = 0 /\ quota.reserved = 0
         /\ \A p \in pendings : /\ pendings = {p} /\ live = {p.id}
                                /\ Cardinality(live) = 1 /\ quota.reserved = 1
<1>1. CASE pendings = {}
  <2>1. live = {} BY <1>1, Zenon DEF RowInv, CapacityConserved
  <2> QED BY <1>1, <2>1, FS_EmptySet DEF RowInv, CapacityConserved
<1>2. ASSUME NEW p \in pendings
      PROVE  /\ pendings = {p} /\ live = {p.id} /\ IsFiniteSet(live)
             /\ Cardinality(live) = 1 /\ quota.reserved = 1
  <2>1. pendings = {p} BY Zenon DEF RowInv, IntentResolvedOnce
  <2>2. live = {p.id} BY <2>1, Zenon DEF RowInv, CapacityConserved
  <2>3. Cardinality(pendings) = 1 BY <2>1, FS_Singleton, Zenon
  <2>4. IsFiniteSet(live) /\ Cardinality(live) = 1 BY <2>2, FS_Singleton, Zenon
  <2> QED BY <2>1, <2>2, <2>3, <2>4, Zenon DEF RowInv, CapacityConserved
<1> QED BY <1>1, <1>2

\* A snapshot is a snapshot.
LEMMA SnapshotType ==
  ASSUME RowsType, Cardinality(live) \in Nat, NEW s \in Installations
  PROVE  Snapshot(s) \in Snapshots
BY SMTT(30) DEF RowsType, Snapshot, Snapshots, GraphRows, QuotaRows
-----------------------------------------------------------------------------
(* The rows.                                                               *)

\* Nothing about the rows depends on the clock.
LEMMA RowsKept ==
  ASSUME RowInv, UNCHANGED db, clock' \in Nat
  PROVE  RowInv'
<1> USE DEF db, authority, laneRows, outcomes
<1>1. RowsType' BY Zenon DEF RowInv, RowsType
<1>2. ExactlyOnce' BY Zenon DEF RowInv, ExactlyOnce, Identity
<1>3. IntentResolvedOnce' /\ CapacityConserved' /\ IntentsSpent'
  BY Zenon DEF RowInv, IntentResolvedOnce, CapacityConserved, IntentsSpent
<1>4. PendingFits' BY Zenon DEF RowInv, PendingFits, Identity, Allowed
<1>5. HttpKnown' BY Zenon DEF RowInv, HttpKnown, Identity
<1>6. FencesCurrent' BY DEF RowInv, FencesCurrent, FenceHolds, Snapshot
<1> QED BY <1>1, <1>2, <1>3, <1>4, <1>5, <1>6, Zenon DEF RowInv

\* The refresh brings every member's fence up to the rows it is computed from.
LEMMA Refreshed ==
  ASSUME log' \in Seq(Entries), graph' \in GraphRows, quota' \in QuotaRows,
         Cardinality(live') \in Nat, members' \subseteq Installations,
         grants' \subseteq Installations, grants' # {},
         RefreshCustody
  PROVE  /\ fence' \in [Installations -> Snapshots \cup {None}] /\ custody' \in Snapshots
         /\ FencesCurrent'
<1>1. ASSUME NEW s \in Installations PROVE Snapshot(s)' \in Snapshots
  BY DEF Snapshot, Snapshots, GraphRows, QuotaRows
<1>2. fence' \in [Installations -> Snapshots \cup {None}]
  BY <1>1, Zenon DEF RefreshCustody
<1>3. custody' \in Snapshots
  <2>1. (CHOOSE s \in grants' : TRUE) \in Installations BY Zenon
  <2>2. custody' = Snapshot(CHOOSE s \in grants : TRUE)' BY Zenon DEF RefreshCustody, LegacyDigest
  <2> QED BY <2>1, <2>2 DEF Snapshot, Snapshots, GraphRows, QuotaRows
<1>4. ASSUME NEW s \in grants' PROVE FenceHolds(s)'
  <2>1. fence'[s] = Snapshot(s)' /\ Snapshot(s)' # None
    BY <1>1, NoneAssumption, Zenon DEF RefreshCustody
  <2> QED BY <2>1, Zenon DEF FenceHolds
<1> QED BY <1>2, <1>3, <1>4, Zenon DEF FencesCurrent

\* The other writers: the log may grow by an entry that is no application
\* envelope, and the members may change.
LEMMA WriterRows ==
  ASSUME Inv, OtherWriter, graph' \in GraphRows, mailbox' \in [Installations -> Seq(Nat)],
         members' \subseteq Installations, grants' \subseteq Installations, grants' # {},
         \/ log' = log
         \/ \E class \in {"proposal", "commit"} : log' = Append(log, ServiceEntry(class))
  PROVE  RowInv' /\ RowsGrow
<1> USE DEF OtherWriter, laneRows
<1>0. RowInv /\ RowsType /\ Cardinality(live') \in Nat
  BY OnePending, Zenon DEF Inv, RowInv
<1>1. /\ log' \in Seq(Entries) /\ Len(log) <= Len(log')
      /\ \A n \in DOMAIN log : n \in DOMAIN log' /\ log'[n] = log[n]
      /\ \A n \in DOMAIN log' : n \in DOMAIN log \/ log'[n].class # "application"
  <2>1. CASE log' = log BY <1>0, <2>1 DEF RowsType
  <2>2. CASE log' # log
    <3>1. PICK class \in {"proposal", "commit"} : log' = Append(log, ServiceEntry(class))
      BY <2>2, Zenon
    <3>2. ServiceEntry(class) \in Entries /\ ServiceEntry(class).class # "application"
      BY <1>0, Zenon DEF ServiceEntry, Entries, RowsType
    <3>3. log \in Seq(Entries) BY <1>0, Zenon DEF RowsType
    <3> QED BY <3>1, <3>2, <3>3, AppendFacts
  <2> QED BY <2>1, <2>2, Zenon
<1>2. quota' \in QuotaRows BY <1>0, Zenon DEF RowsType
<1>3. /\ fence' \in [Installations -> Snapshots \cup {None}] /\ custody' \in Snapshots
      /\ FencesCurrent'
  BY <1>0, <1>1, <1>2, Refreshed, Zenon
<1>4. RowsType' BY <1>0, <1>1, <1>3, Zenon DEF RowsType
<1>5. ExactlyOnce' BY <1>0, <1>1, ZenonT(30) DEF RowInv, ExactlyOnce, Identity
<1>6. IntentResolvedOnce' /\ CapacityConserved' /\ IntentsSpent'
  BY <1>0, Zenon DEF RowInv, IntentResolvedOnce, CapacityConserved, IntentsSpent
<1>7. PendingFits' BY <1>0, Zenon DEF RowInv, PendingFits, Identity, Allowed
<1>8. HttpKnown' BY <1>0, Zenon DEF RowInv, HttpKnown, Identity
<1>9. RowsGrow BY <1>0, <1>1 DEF RowsGrow, RowsType
<1> QED BY <1>0, <1>3, <1>4, <1>5, <1>6, <1>7, <1>8, <1>9, Zenon DEF RowInv

\* The next generation is above every identifier in use.
LEMMA SpentFacts ==
  ASSUME RowInv
  PROVE  /\ \A a \in accepted : a.intent <= lane + 1 /\ a.intent # lane + 1
         /\ \A n \in tombstones : n <= lane + 1 /\ n # lane + 1
         /\ \A p \in pendings : p.id <= lane + 1
<1>1. /\ lane \in Nat /\ \A n \in tombstones : n \in Nat
      /\ \A a \in accepted : a.intent \in Nat
      /\ \A p \in pendings : p.id \in Nat
  BY Zenon DEF RowInv, RowsType, Intents
<1> QED BY <1>1 DEF RowInv, IntentsSpent, PendingFits

\* A spent lane generation, all a rejected or retried reservation leaves behind.
LEMMA SpentRows ==
  ASSUME Inv, clock' = clock, lane' = lane + 1,
         UNCHANGED <<authority, pendings, live, quota, outcomes>>
  PROVE  RowInv' /\ RowsGrow
<1> USE DEF authority, outcomes
<1>0. RowInv /\ RowsType BY Zenon DEF Inv, RowInv
<1>1. RowsType' BY <1>0 DEF RowsType
<1>2. ExactlyOnce' BY <1>0, Zenon DEF RowInv, ExactlyOnce, Identity
<1>3. IntentResolvedOnce' /\ CapacityConserved'
  BY <1>0, Zenon DEF RowInv, IntentResolvedOnce, CapacityConserved
<1>4. PendingFits'
  BY <1>0, SpentFacts, Zenon DEF RowInv, PendingFits, Identity, Allowed
<1>5. IntentsSpent' BY <1>0, SpentFacts, Zenon DEF IntentsSpent
<1>6. HttpKnown' BY <1>0, Zenon DEF RowInv, HttpKnown, Identity
<1>7. FencesCurrent' BY <1>0 DEF RowInv, FencesCurrent, FenceHolds, Snapshot
<1>8. RowsGrow BY <1>0 DEF RowsGrow, RowsType
<1> QED BY <1>0, <1>1, <1>2, <1>3, <1>4, <1>5, <1>6, <1>7, <1>8, Zenon DEF RowInv

\* A new intent in an empty lane.  The fences do not move, because a snapshot
\* discounts the live reservation.
LEMMA ReserveRows ==
  ASSUME Inv, NEW p \in Intents, pendings = {}, clock' = clock,
         p.id = lane + 1, lane' = lane + 1, pendings' = {p}, live' = {p.id},
         quota' = QuotaReserved(quota), UNCHANGED <<authority, outcomes>>,
         p.entry.class = "application", p.entry.identity = Identity(p.command),
         \A a \in accepted : a.command.envelope # p.command.envelope,
         p.expected.sender = p.command.sender, Allowed(p.expected, p.command)
  PROVE  RowInv' /\ RowsGrow
<1> USE DEF authority, outcomes
<1>0. /\ RowInv /\ RowsType /\ Cardinality(live) = 0 /\ quota.reserved = 0
      /\ Cardinality(live') = 1 /\ Cardinality(pendings') = 1
  BY OnePending, FS_Singleton, Zenon DEF Inv, RowInv
<1>1. quota' \in QuotaRows /\ quota'.reserved = 1 /\ quota'.operations = quota.operations
      /\ quota'.rowVersion = quota.rowVersion + 1
  <2>1. quota \in QuotaRows BY <1>0, Zenon DEF RowsType
  <2>2. quota' = [ operations |-> quota.operations, reserved |-> quota.reserved + 1,
                   rowVersion |-> quota.rowVersion + 1 ]
    BY Zenon DEF QuotaReserved, QuotaReleased
  <2> QED BY <1>0, <2>1, <2>2 DEF QuotaRows
<1>2. RowsType' BY <1>0, <1>1 DEF RowsType
<1>3. ExactlyOnce' BY <1>0, Zenon DEF RowInv, ExactlyOnce, Identity
<1>4. IntentResolvedOnce'
  <2>1. \A q \in pendings' : q = p BY Zenon
  <2>2. p.id \notin tombstones' /\ \A a \in accepted' : a.intent # p.id
    BY <1>0, SpentFacts, Zenon
  <2>3. \A a \in accepted' : a.intent \notin tombstones'
    BY <1>0, Zenon DEF RowInv, IntentResolvedOnce
  <2> QED BY <2>1, <2>2, <2>3, Zenon DEF IntentResolvedOnce
<1>5. CapacityConserved'
  BY <1>0, <1>1, Zenon DEF RowInv, CapacityConserved
<1>6. PendingFits' BY <1>0 DEF PendingFits, Identity, Allowed, RowsType
<1>7. IntentsSpent' BY <1>0, SpentFacts, Zenon DEF IntentsSpent
<1>8. HttpKnown' BY <1>0, Zenon DEF RowInv, HttpKnown, Identity
<1>9. FencesCurrent'
  <2>1. ASSUME NEW s \in Installations PROVE Snapshot(s)' = Snapshot(s)
    <3>1. /\ quota'.reserved - Cardinality(live') = quota.reserved - Cardinality(live)
          /\ quota'.rowVersion - Cardinality(live') = quota.rowVersion - Cardinality(live)
      BY <1>0, <1>1 DEF RowsType, QuotaRows
    <3> QED BY <1>1, <3>1, Zenon DEF Snapshot
  <2> QED BY <1>0, <2>1, Zenon DEF RowInv, RowsType, FencesCurrent, FenceHolds
<1>10. RowsGrow BY <1>0 DEF RowsGrow, RowsType
<1> QED BY <1>0, <1>2, <1>3, <1>4, <1>5, <1>6, <1>7, <1>8, <1>9, <1>10, Zenon DEF RowInv

\* The end of an expired intent: the lane is free, the capacity given back.
LEMMA RetireRows ==
  ASSUME Inv, NEW p \in pendings, clock' = clock, quota' = QuotaReleased(quota),
         live' = live \ {p.id}, LaneCleared, tombstones' = tombstones \cup {p.id},
         UNCHANGED <<log, graph, members, grants, lane, accepted, http, mailbox>>, RefreshCustody
  PROVE  RowInv' /\ RowsGrow
<1> USE DEF LaneCleared
<1>0. /\ RowInv /\ RowsType /\ pendings = {p} /\ live = {p.id} /\ quota.reserved = 1
      /\ p \in Intents /\ p.id \in Nat
  BY OnePending, Zenon DEF Inv, RowInv, RowsType, Intents
<1>1. live' = {} /\ Cardinality(live') = 0 /\ Cardinality(pendings') = 0
  BY <1>0, FS_EmptySet, Zenon
<1>2. quota' \in QuotaRows /\ quota'.reserved = 0 /\ quota'.operations = quota.operations
  <2>1. quota \in QuotaRows BY <1>0, Zenon DEF RowsType
  <2>2. quota' = [ operations |-> quota.operations, reserved |-> quota.reserved - 1,
                   rowVersion |-> quota.rowVersion + 1 ]
    BY Zenon DEF QuotaReserved, QuotaReleased
  <2> QED BY <1>0, <2>1, <2>2 DEF QuotaRows
<1>3. /\ fence' \in [Installations -> Snapshots \cup {None}] /\ custody' \in Snapshots
      /\ FencesCurrent'
  BY <1>0, <1>1, <1>2, Refreshed DEF RowInv, RowsType
<1>4. RowsType' BY <1>0, <1>1, <1>2, <1>3, Zenon DEF RowsType
<1>5. ExactlyOnce' BY <1>0, Zenon DEF RowInv, ExactlyOnce, Identity
<1>6. IntentResolvedOnce'
  BY <1>0, Zenon DEF RowInv, IntentResolvedOnce
<1>7. CapacityConserved' BY <1>0, <1>1, <1>2, Zenon DEF RowInv, CapacityConserved
<1>8. PendingFits' BY Zenon DEF PendingFits
<1>9. IntentsSpent' BY <1>0, Zenon DEF RowInv, IntentsSpent, PendingFits
<1>10. HttpKnown' BY <1>0, Zenon DEF RowInv, HttpKnown, Identity
<1>11. RowsGrow BY <1>0 DEF RowsGrow, RowsType
<1> QED BY <1>0, <1>3, <1>4, <1>5, <1>6, <1>7, <1>8, <1>9, <1>10, <1>11, Zenon DEF RowInv

\* Publication.  The snapshot comparison makes the log the intent was signed
\* over the present one, so the entry is appended and nothing is overwritten.
LEMMA FinalizeRows ==
  ASSUME Inv, NEW p \in pendings, NEW c \in Commands, clock' = clock,
         Snapshot(p.command.sender) = p.expected,
         quota' = QuotaConverted(quota), live' = live \ {p.id},
         log' = Append(p.expected.log, p.entry),
         accepted' = accepted \cup
           {[intent |-> p.id, command |-> p.command, position |-> Position(p)]},
         Deliver(p.recipients, Position(p)), UNCHANGED <<graph, members, grants>>, RefreshCustody,
         http' = http \cup HttpRows(p, c), LaneCleared, UNCHANGED <<lane, tombstones>>
  PROVE  /\ RowInv' /\ RowsGrow /\ Position(p) = Len(log) + 1 /\ log' = Append(log, p.entry)
         /\ p.entry \in Entries
<1> USE DEF LaneCleared
<1> DEFINE new == [intent |-> p.id, command |-> p.command, position |-> Len(log) + 1]
<1>0. /\ RowInv /\ RowsType /\ pendings = {p} /\ live = {p.id} /\ quota.reserved = 1
      /\ p \in Intents /\ p.id \in Nat /\ p.command \in Commands /\ p.entry \in Entries
      /\ log \in Seq(Entries) /\ Len(log) \in Nat
      /\ p.recipients \subseteq Installations
  <2>1. RowInv /\ RowsType /\ p \in Intents BY Zenon DEF Inv, RowInv, RowsType
  <2>2. log \in Seq(Entries) BY ONLY <2>1, Zenon DEF RowsType
  <2>3. Len(log) \in Nat BY ONLY <2>2
  <2>4. p.id \in Nat /\ p.command \in Commands /\ p.entry \in Entries
        /\ p.recipients \subseteq Installations
    BY ONLY <2>1, Zenon DEF Intents
  <2> QED BY <2>1, <2>2, <2>3, <2>4, OnePending, Zenon
<1>1. p.expected.log = log BY DEF Snapshot
<1>2. Position(p) = Len(log) + 1 /\ log' = Append(log, p.entry)
      /\ accepted' = accepted \cup {new}
  BY <1>1, Zenon DEF Position
<1> HIDE DEF new
<1>3. new \in [intent: Nat, command: Commands, position: Nat]
      /\ new.intent = p.id /\ new.command = p.command /\ new.position = Len(log) + 1
  BY <1>0 DEF new
<1>4. /\ log' \in Seq(Entries) /\ Len(log') = Len(log) + 1 /\ Len(log) + 1 \notin DOMAIN log
      /\ DOMAIN log' = DOMAIN log \cup {Len(log) + 1}
      /\ \A n \in DOMAIN log : log'[n] = log[n]
      /\ log'[Len(log) + 1] = p.entry
  BY <1>0, <1>2, AppendFacts
<1>5. live' = {} /\ Cardinality(live') = 0 /\ Cardinality(pendings') = 0
  BY <1>0, FS_EmptySet, Zenon
<1>6. quota' \in QuotaRows /\ quota'.reserved = 0 /\ quota'.operations = quota.operations + 1
  <2>1. quota \in QuotaRows BY <1>0, Zenon DEF RowsType
  <2>2. quota' = [ operations |-> quota.operations + 1, reserved |-> quota.reserved - 1,
                   rowVersion |-> quota.rowVersion + 1 ]
    BY Zenon DEF QuotaConverted
  <2> QED BY <1>0, <2>1, <2>2 DEF QuotaRows
<1>7. /\ fence' \in [Installations -> Snapshots \cup {None}] /\ custody' \in Snapshots
      /\ FencesCurrent'
  BY <1>0, <1>4, <1>5, <1>6, Refreshed DEF RowInv, RowsType
<1>8. p.entry.class = "application" /\ p.entry.identity = Identity(p.command)
      /\ \A a \in accepted : a.command.envelope # p.command.envelope
  BY <1>0, Zenon DEF RowInv, PendingFits
<1>9. new \notin accepted BY <1>3, <1>8, Zenon
<1>10. IsFiniteSet(accepted') /\ quota'.operations = Cardinality(accepted')
  <2>1. IsFiniteSet(accepted) /\ quota.operations = Cardinality(accepted)
    BY <1>0, Zenon DEF RowInv, CapacityConserved
  <2>2. /\ IsFiniteSet(accepted \cup {new})
        /\ Cardinality(accepted \cup {new}) = Cardinality(accepted) + 1
    BY ONLY <1>9, <2>1, FS_AddElement, Zenon
  <2> QED BY <1>2, <1>6, <2>1, <2>2, Zenon
<1>11. RowsType'
  <2>1. accepted' \subseteq [intent: Nat, command: Commands, position: Nat]
    BY <1>0, <1>2, <1>3, Zenon DEF RowsType
  <2>2. mailbox' \in [Installations -> Seq(Nat)]
    BY <1>0, <1>2 DEF Deliver, RowsType
  <2>3. HttpRows(p, c) \subseteq [ scope: {Scope(x) : x \in Commands}, expires: Nat,
                                   commitment: {Commitment(x) : x \in Commands},
                                   envelope: {x.envelope : x \in Commands} ]
    BY <1>0, BoundsAssumption, SMTT(30) DEF HttpRows, RowsType
  <2> QED BY <1>0, <1>4, <1>5, <1>6, <1>7, <2>1, <2>2, <2>3, Zenon DEF RowsType
<1>12. ExactlyOnce'
  <2>1. \A a \in accepted' : /\ a.position \in DOMAIN log'
                             /\ log'[a.position].class = "application"
                             /\ log'[a.position].identity = Identity(a.command)
    BY <1>0, <1>2, <1>3, <1>4, <1>8 DEF RowInv, ExactlyOnce
  <2>2. \A n \in DOMAIN log' :
          log'[n].class = "application" => \E a \in accepted' : a.position = n
    BY <1>0, <1>2, <1>3, <1>4, Zenon DEF RowInv, ExactlyOnce
  <2>3. \A a, b \in accepted' :
          a.command.envelope = b.command.envelope \/ a.position = b.position => a = b
    <3>1. \A a \in accepted : a.position # new.position
      BY <1>0, <1>3, <1>4 DEF RowInv, ExactlyOnce
    <3> QED BY <1>0, <1>2, <1>3, <1>8, <3>1 DEF RowInv, ExactlyOnce
  <2> QED BY <2>1, <2>2, <2>3, Zenon DEF ExactlyOnce, Identity
<1>13. IntentResolvedOnce'
  BY <1>0, <1>2, <1>3, Zenon DEF RowInv, IntentResolvedOnce
<1>14. CapacityConserved' BY <1>5, <1>6, <1>10, Zenon DEF CapacityConserved
<1>15. PendingFits' BY Zenon DEF PendingFits
<1>16. IntentsSpent' BY <1>0, <1>2, <1>3, Zenon DEF RowInv, IntentsSpent, PendingFits
<1>17. HttpKnown'
  <2>1. ASSUME NEW h \in http
        PROVE  /\ \E a \in accepted' : a.command.envelope = h.envelope
               /\ \A a \in accepted' : a.command.envelope = h.envelope =>
                    Identity(a.command) = [ sender |-> h.scope[1],
                      envelope |-> h.commitment[1], etag |-> h.commitment[2] ]
    BY <1>0, <1>2, <1>3, <1>8 DEF RowInv, HttpKnown
  <2>2. ASSUME NEW h \in HttpRows(p, c)
        PROVE  /\ \E a \in accepted' : a.command.envelope = h.envelope
               /\ \A a \in accepted' : a.command.envelope = h.envelope =>
                    Identity(a.command) = [ sender |-> h.scope[1],
                      envelope |-> h.commitment[1], etag |-> h.commitment[2] ]
    <3>1. PICK x \in {p.command, c} :
            /\ Identity(x) = Identity(p.command)
            /\ h.scope = Scope(x) /\ h.commitment = Commitment(x)
            /\ h.envelope = p.command.envelope
      BY DEF HttpRows
    <3>2. Identity(p.command) = [ sender |-> h.scope[1], envelope |-> h.commitment[1],
                                  etag |-> h.commitment[2] ]
      BY <3>1 DEF Scope, Commitment, Identity
    <3> QED BY <1>2, <1>3, <1>8, <3>1, <3>2, Zenon
  <2> QED BY <2>1, <2>2, Zenon DEF HttpKnown, Identity
<1>18. RowsGrow BY <1>0, <1>2, <1>3, <1>4 DEF RowsGrow, RowsType
<1>19. RowInv'
  BY <1>0, <1>7, <1>10, <1>11, <1>12, <1>13, <1>14, <1>15, <1>16, <1>17, Zenon DEF RowInv
<1> QED BY <1>0, <1>2, <1>18, <1>19, Zenon
=============================================================================
