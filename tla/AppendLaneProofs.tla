-------------------------- MODULE AppendLaneProofs --------------------------
(***************************************************************************)
(* Every step of the append lane keeps the inductive invariant: what an    *)
(* answer and a move to the next phase do to the locals, then one lemma for*)
(* each action.  The theorems follow: the promises of the lane hold, and the*)
(* lane implements the log it is specified by.                             *)
(***************************************************************************)
EXTENDS AppendLaneRows

(* The locals of one invocation.                                           *)


\* An answer leaves well-typed locals; it gives a receipt or takes none away.
LEMMA AnswerLocals ==
  ASSUME LocalsType, NEW i \in Invocations, NEW status \in Statuses, NEW n \in Nat,
         Answer(i, status, n)
  PROVE  /\ LocalsType'
         /\ pc'[i] = "done"
         /\ result'[i].status = "accepted" =>
              /\ call'[i] = call[i]
              /\ \/ result'[i] = result[i]
                 \/ status = "accepted" /\ result'[i].position = n
         /\ \A j \in Invocations \ {i} : Untouched(j)
<1> USE DEF LocalsType, Answer, Phases
<1>1. /\ pc' \in [Invocations -> Phases] /\ seen' \in [Invocations -> Snapshots \cup {None}]
      /\ target' \in [Invocations -> Intents \cup {None}] /\ owns' \in [Invocations -> BOOLEAN]
      /\ memory' \in [Invocations ->
           SUBSET [id: Nat, position: Nat, status: {"signed", "cancelled"}]]
      /\ call' \in [Invocations -> Commands \cup {None}]
  BY Zenon
<1>2. result' \in [Invocations -> [status: Statuses, position: Nat]]
  BY Zenon
<1>3. \A j \in Invocations \ {i} : Untouched(j)
  BY Zenon DEF Untouched
<1>4. pc'[i] = "done"
  BY Zenon
<1>5. result'[i].status = "accepted" =>
        /\ call'[i] = call[i]
        /\ \/ result'[i] = result[i]
           \/ status = "accepted" /\ result'[i].position = n
  BY Zenon
<1>6. \A j \in Invocations :
        /\ pc'[j] # "done" => call'[j] \in Commands
        /\ pc'[j] \in {"admit", "reserve"} => seen'[j] \in Snapshots
        /\ pc'[j] \in Resuming => target'[j] \in Intents
  BY <1>3, <1>4, Zenon DEF Resuming, Untouched
<1> QED BY <1>1, <1>2, <1>3, <1>4, <1>5, <1>6, Zenon

\* Going on to another phase with the locals it needs, or being told that nobody
\* waits, which is no receipt.
LEMMA ContinueLocals ==
  ASSUME LocalsType, NEW i \in Invocations, pc[i] # "done",
         NEW phase \in Phases \ {"done"}, NEW snap \in Snapshots \cup {None},
         NEW p \in Intents \cup {None}, NEW own \in BOOLEAN,
         phase \in {"admit", "reserve"} => snap \in Snapshots,
         phase \in Resuming => p \in Intents,
         Continue(i, phase, snap, p, own)
  PROVE  /\ LocalsType'
         /\ \/ pc'[i] = "done"
            \/ /\ pc'[i] = phase /\ seen'[i] = snap /\ target'[i] = p /\ owns'[i] = own
               /\ call'[i] = call[i]
         /\ result'[i].status = "accepted" => call'[i] = call[i] /\ result'[i] = result[i]
         /\ \A j \in Invocations \ {i} : Untouched(j)
<1>1. CASE result[i] # NoResult
  <2>1. Answer(i, "unavailable", 0) BY <1>1, Zenon DEF Continue
  <2>2. "unavailable" \in Statuses BY Zenon DEF Statuses
  <2> QED BY <2>1, <2>2, AnswerLocals, Zenon
<1>2. CASE result[i] = NoResult
  <2> USE <1>2 DEF Continue, LocalsType, Phases
  <2>1. /\ pc' \in [Invocations -> Phases] /\ seen' \in [Invocations -> Snapshots \cup {None}]
        /\ target' \in [Invocations -> Intents \cup {None}]
        /\ owns' \in [Invocations -> BOOLEAN]
    <3>1. pc' \in [Invocations -> Phases] BY Zenon
    <3>2. seen' \in [Invocations -> Snapshots \cup {None}] BY Zenon
    <3>3. target' \in [Invocations -> Intents \cup {None}] BY Zenon
    <3>4. owns' \in [Invocations -> BOOLEAN] BY Zenon
    <3> QED BY ONLY <3>1, <3>2, <3>3, <3>4
  <2>2. \A j \in Invocations \ {i} : Untouched(j)
    BY DEF Untouched
  <2>3. /\ pc'[i] = phase /\ seen'[i] = snap /\ target'[i] = p /\ owns'[i] = own
        /\ call'[i] = call[i] /\ result'[i] = result[i]
    BY Zenon
  <2>4. \A j \in Invocations :
          /\ pc'[j] # "done" => call'[j] \in Commands
          /\ pc'[j] \in {"admit", "reserve"} => seen'[j] \in Snapshots
          /\ pc'[j] \in Resuming => target'[j] \in Intents
    BY <2>2, <2>3, Zenon DEF Untouched
  <2> QED BY <2>1, <2>2, <2>3, <2>4, Zenon
<1> QED BY <1>1, <1>2, Zenon

\* A step that leaves the rows alone is a special case.
LEMMA SameRows ==
  ASSUME RowInv, UNCHANGED db
  PROVE  RowsGrow
BY DEF RowInv, RowsType, RowsGrow, db, authority, laneRows, outcomes

\* The locals of another invocation stay right when the rows grow: new intents
\* have new identifiers, a new acceptance is of the pending intent and beyond
\* every snapshot taken so far.
LEMMA UntouchedLocals ==
  ASSUME Inv, RowsGrow, NEW j \in Invocations, Untouched(j)
  PROVE  Receipt(j)' /\ Target(j)' /\ Seen(j)'
<1> USE DEF Untouched
<1>0. /\ pc[j] \in Phases /\ log \in Seq(Entries) /\ log' \in Seq(Entries)
      /\ lane \in Nat /\ lane' \in Nat /\ Len(log) <= Len(log')
      /\ \A n \in DOMAIN log : n \in DOMAIN log' /\ log'[n] = log[n]
  BY DEF Inv, RowInv, RowsType, LocalInv, LocalsType, RowsGrow
<1>1. Receipt(j)'
  BY <1>0, Zenon DEF Inv, LocalInv, Receipt
<1>2. Target(j)'
  <2> SUFFICES ASSUME pc[j] \in Resuming
               PROVE  /\ target[j].id <= lane'
                      /\ \A p \in pendings' : p.id = target[j].id => p = target[j]
                      /\ \A a \in accepted' :
                           a.intent = target[j].id => a.command = target[j].command
                      /\ owns[j] => Identity(target[j].command) = Identity(call[j])
    BY Zenon DEF Target, Resuming, Identity
  <2>1. target[j].id \in Nat /\ Target(j)
    BY Zenon DEF Inv, LocalInv, LocalsType, Intents
  <2>2. target[j].id <= lane /\ target[j].id <= lane'
    BY <1>0, <2>1 DEF Target, RowsGrow
  <2>3. \A p \in pendings' : p.id = target[j].id => p = target[j]
    BY <1>0, <2>1, <2>2 DEF Target, RowsGrow
  <2>4. \A a \in accepted' : a.intent = target[j].id => a.command = target[j].command
    BY <2>1, Zenon DEF Target, RowsGrow
  <2> QED BY <2>1, <2>2, <2>3, <2>4, Zenon DEF Target
<1>3. Seen(j)'
  <2> SUFFICES ASSUME pc[j] \in {"admit", "reserve"}
               PROVE  /\ seen[j].sender = call[j].sender
                      /\ Len(seen[j].log) <= Len(log')
                      /\ pc[j] = "reserve" => Allowed(seen[j], call[j])
    BY Zenon DEF Seen, Allowed
  <2>1. Seen(j) /\ seen[j].log \in Seq(Entries)
    BY Zenon DEF Inv, LocalInv, LocalsType, Snapshots
  <2>2. Len(seen[j].log) \in Nat /\ Len(log) \in Nat /\ Len(log') \in Nat
    BY <1>0, <2>1
  <2> QED BY <1>0, <2>1, <2>2 DEF Seen, RowsGrow
<1> QED BY <1>1, <1>2, <1>3, Zenon

\* An answer keeps the locals right if a receipt it gives is true afterwards.
LEMMA AnswerStep ==
  ASSUME Inv, RowsGrow, NEW i \in Invocations, NEW status \in Statuses, NEW n \in Nat,
         Answer(i, status, n),
         status = "accepted" => /\ n \in DOMAIN log' /\ log'[n].class = "application"
                                /\ log'[n].identity = Identity(call[i])
  PROVE  LocalInv'
<1>1. LocalsType BY Zenon DEF Inv, LocalInv
<1>2. LocalsType' BY <1>1, AnswerLocals, Zenon
<1>3. ASSUME NEW j \in Invocations \ {i} PROVE Receipt(j)' /\ Target(j)' /\ Seen(j)'
  <2>1. Untouched(j) BY <1>1, AnswerLocals, Zenon
  <2> QED BY <2>1, UntouchedLocals, Zenon
<1>4. Target(i)' /\ Seen(i)'
  <2>1. pc'[i] = "done" BY <1>1, AnswerLocals, Zenon
  <2> QED BY <2>1, Zenon DEF Target, Seen, Resuming
<1>5. Receipt(i)'
  <2> SUFFICES ASSUME result'[i].status = "accepted"
               PROVE  /\ result'[i].position \in DOMAIN log'
                      /\ log'[result'[i].position].class = "application"
                      /\ log'[result'[i].position].identity = Identity(call'[i])
    BY Zenon DEF Receipt, Identity
  <2>1. call'[i] = call[i] BY <1>1, AnswerLocals, Zenon
  <2>2. CASE result'[i] = result[i]
    BY <2>1, <2>2 DEF Inv, RowInv, RowsType, LocalInv, Receipt, RowsGrow
  <2>3. CASE status = "accepted" /\ result'[i].position = n
    BY <2>1, <2>3, Zenon
  <2> QED BY <2>2, <2>3, <1>1, AnswerLocals, Zenon
<1> QED BY <1>2, <1>3, <1>4, <1>5, Zenon DEF LocalInv

\* Going on keeps them right if the intent or the snapshot taken along fits the
\* rows afterwards.
LEMMA ContinueStep ==
  ASSUME Inv, RowsGrow, NEW i \in Invocations, pc[i] # "done",
         NEW phase \in Phases \ {"done"}, NEW snap \in Snapshots \cup {None},
         NEW p \in Intents \cup {None}, NEW own \in BOOLEAN,
         Continue(i, phase, snap, p, own),
         phase \in {"admit", "reserve"} =>
           /\ snap \in Snapshots /\ snap.sender = call[i].sender
           /\ Len(snap.log) <= Len(log')
           /\ phase = "reserve" => Allowed(snap, call[i]),
         phase \in Resuming =>
           /\ p \in Intents /\ p.id <= lane'
           /\ \A q \in pendings' : q.id = p.id => q = p
           /\ \A a \in accepted' : a.intent = p.id => a.command = p.command
           /\ own => Identity(p.command) = Identity(call[i])
  PROVE  LocalInv'
<1>1. LocalsType BY Zenon DEF Inv, LocalInv
<1>2. /\ LocalsType'
      /\ \/ pc'[i] = "done"
         \/ /\ pc'[i] = phase /\ seen'[i] = snap /\ target'[i] = p /\ owns'[i] = own
            /\ call'[i] = call[i]
      /\ result'[i].status = "accepted" => call'[i] = call[i] /\ result'[i] = result[i]
      /\ \A j \in Invocations \ {i} : Untouched(j)
  <2>1. phase \in {"admit", "reserve"} => snap \in Snapshots BY Zenon
  <2>2. phase \in Resuming => p \in Intents BY Zenon
  <2> HIDE DEF Phases, Resuming
  <2> QED BY ONLY <1>1, <2>1, <2>2, i \in Invocations, pc[i] # "done",
             phase \in Phases \ {"done"}, snap \in Snapshots \cup {None},
             p \in Intents \cup {None}, own \in BOOLEAN,
             Continue(i, phase, snap, p, own), ContinueLocals
<1>3. ASSUME NEW j \in Invocations \ {i} PROVE Receipt(j)' /\ Target(j)' /\ Seen(j)'
  BY <1>2, UntouchedLocals, Zenon
<1>4. Target(i)'
  BY <1>2, Zenon DEF Target, Resuming, Identity
<1>5. Seen(i)'
  BY <1>2, Zenon DEF Seen, Allowed
<1>6. Receipt(i)'
  <2> SUFFICES ASSUME result'[i].status = "accepted"
               PROVE  /\ result'[i].position \in DOMAIN log'
                      /\ log'[result'[i].position].class = "application"
                      /\ log'[result'[i].position].identity = Identity(call'[i])
    BY Zenon DEF Receipt, Identity
  <2>1. result'[i] = result[i] /\ call'[i] = call[i] BY <1>2, Zenon
  <2> QED BY <2>1 DEF Inv, RowInv, RowsType, LocalInv, Receipt, RowsGrow
<1> QED BY <1>2, <1>3, <1>4, <1>5, <1>6, Zenon DEF LocalInv

-----------------------------------------------------------------------------
(* The answers and moves that leave the rows alone.                        *)

\* What the replay lookup finds was admitted for the caller's own envelope,
\* whether by its key or by its identifier.
LEMMA ReplayIdentity ==
  ASSUME RowInv, NEW c \in Commands, NEW a \in accepted, AcceptedReplay(c, a)
  PROVE  Identity(a.command) = Identity(c)
<1>1. CASE EnvelopeReplay(c, a) BY <1>1, Zenon DEF EnvelopeReplay
<1>2. CASE HttpReplay(c, a)
  <2>1. PICK h \in http : /\ h.scope = Scope(c) /\ h.commitment = Commitment(c)
                          /\ h.envelope = a.command.envelope
    BY <1>2, Zenon DEF HttpReplay, LiveHttp
  <2> QED BY <2>1 DEF RowInv, HttpKnown, Identity, Scope, Commitment
<1> QED BY <1>1, <1>2, Zenon DEF AcceptedReplay

\* A pending intent that is the caller's own and does not conflict is for the
\* caller's envelope.
LEMMA OwnIdentity ==
  ASSUME NEW c, NEW p, ~PendingConflict(c, p), PendingIsOwn(c, p)
  PROVE  Identity(p.command) = Identity(c)
BY Zenon DEF PendingConflict, PendingIsOwn, Identity, Scope, Commitment

\* The rows an invariant step keeps, in both forms the steps need.
LEMMA Quiet ==
  ASSUME Inv, UNCHANGED <<clock, db>>
  PROVE  RowInv' /\ RowsGrow
<1>1. RowInv /\ clock' \in Nat BY Zenon DEF Inv, RowInv, RowsType
<1> QED BY <1>1, RowsKept, SameRows, Zenon

\* An answer without receipt.
LEMMA QuietAnswer ==
  ASSUME Inv, UNCHANGED <<clock, db>>, NEW i \in Invocations,
         NEW status \in Statuses \ {"accepted"}, Answer(i, status, 0)
  PROVE  Inv'
<1>1. RowInv' /\ RowsGrow BY Quiet, Zenon
<1>2. LocalInv' BY <1>1, AnswerStep, Zenon
<1> QED BY <1>1, <1>2, Zenon DEF Inv

\* An answer with the receipt of an acceptance of the same envelope.
LEMMA QuietReceipt ==
  ASSUME Inv, UNCHANGED <<clock, db>>, NEW i \in Invocations, NEW a \in accepted,
         Identity(a.command) = Identity(call[i]), Answer(i, "accepted", a.position)
  PROVE  Inv'
<1>1. RowInv' /\ RowsGrow BY Quiet, Zenon
<1>2. /\ a.position \in Nat /\ a.position \in DOMAIN log'
      /\ log'[a.position].class = "application"
      /\ log'[a.position].identity = Identity(call[i])
  BY Zenon DEF Inv, RowInv, RowsType, ExactlyOnce, db, authority
<1>3. "accepted" \in Statuses BY Zenon DEF Statuses
<1>4. LocalInv' BY <1>1, <1>2, <1>3, AnswerStep, Zenon
<1> QED BY <1>1, <1>4, Zenon DEF Inv

\* Going round the loop again, whatever happened to the rows.
LEMMA AgainStep ==
  ASSUME Inv, RowsGrow, NEW i \in Invocations, pc[i] # "done", Again(i)
  PROVE  LocalInv'
<1>1. Continue(i, "preflight", None, None, FALSE) BY Zenon DEF Again
<1>2. "preflight" \in Phases \ {"done"} BY Zenon DEF Phases, ReadPhases
<1>3. "preflight" \notin {"admit", "reserve"} /\ "preflight" \notin Resuming BY Zenon DEF Resuming
<1> QED BY <1>1, <1>2, <1>3, ContinueStep, Zenon

\* The same transaction once more.
LEMMA RetryStep ==
  ASSUME Inv, UNCHANGED <<clock, db>>, NEW i \in Invocations, pc[i] = "finalize", Retry(i)
  PROVE  Inv'
<1>1. RowInv' /\ RowsGrow BY Quiet, Zenon
<1>2. /\ Continue(i, "finalize", seen[i], target[i], owns[i]) BY Zenon DEF Retry
<1>3. /\ "finalize" \in Phases \ {"done"} /\ "finalize" \in Resuming
      /\ "finalize" \notin {"admit", "reserve"}
  BY Zenon DEF Phases, TransactionPhases, Resuming
<1>4. /\ seen[i] \in Snapshots \cup {None} /\ target[i] \in Intents
      /\ owns[i] \in BOOLEAN /\ Target(i)
  BY <1>3, Zenon DEF Inv, LocalInv, LocalsType
<1>5. /\ target[i].id <= lane'
      /\ \A q \in pendings' : q.id = target[i].id => q = target[i]
      /\ \A a \in accepted' : a.intent = target[i].id => a.command = target[i].command
      /\ owns[i] => Identity(target[i].command) = Identity(call[i])
  BY <1>3, <1>4, Zenon DEF Target, db, laneRows, outcomes
<1>6. LocalInv' BY <1>1, <1>2, <1>3, <1>4, <1>5, ContinueStep
<1> QED BY <1>1, <1>6, Zenon DEF Inv

\* The replay answers preflight and reservation share.
LEMMA ReplayStep ==
  ASSUME Inv, UNCHANGED <<clock, db>>, NEW i \in Invocations, pc[i] # "done",
         ReplayAccepted(i) \/ ReplayPending(i)
  PROVE  Inv'
<1>0. call[i] \in Commands BY Zenon DEF Inv, LocalInv, LocalsType
<1>1. CASE Answer(i, "conflict", 0)
  <2>1. "conflict" \in Statuses \ {"accepted"} BY Zenon DEF Statuses
  <2> QED BY <1>1, <2>1, QuietAnswer, Zenon
<1>2. CASE Answer(i, "malformed", 0)
  <2>1. "malformed" \in Statuses \ {"accepted"} BY Zenon DEF Statuses
  <2> QED BY <1>2, <2>1, QuietAnswer, Zenon
<1>3. ASSUME NEW a \in accepted, AcceptedReplay(call[i], a), Answer(i, "accepted", a.position)
      PROVE  Inv'
  <2>1. RowInv BY Zenon DEF Inv
  <2>2. Identity(a.command) = Identity(call[i]) BY <1>0, <1>3, <2>1, ReplayIdentity, Zenon
  <2> QED BY <1>3, <2>2, QuietReceipt, Zenon
<1>4. ASSUME NEW p \in pendings, ~PendingConflict(call[i], p), Resume(i, p)
      PROVE  Inv'
  <2>1. RowInv' /\ RowsGrow BY Quiet, Zenon
  <2>2. Continue(i, "signer", None, p, PendingIsOwn(call[i], p)) BY <1>4, Zenon DEF Resume
  <2>3. /\ "signer" \in Phases \ {"done"} /\ "signer" \in Resuming
        /\ "signer" \notin {"admit", "reserve"}
    BY Zenon DEF Phases, ReadPhases, Resuming
  <2>4. p \in Intents /\ PendingIsOwn(call[i], p) \in BOOLEAN
    BY Zenon DEF Inv, RowInv, RowsType, PendingIsOwn
  <2>5. /\ p.id <= lane' /\ \A q \in pendings' : q.id = p.id => q = p
        /\ \A a \in accepted' : a.intent = p.id => a.command = p.command
    BY Zenon DEF Inv, RowInv, PendingFits, IntentResolvedOnce, db, laneRows, outcomes
  <2>6. PendingIsOwn(call[i], p) => Identity(p.command) = Identity(call[i])
    BY <1>4, OwnIdentity, Zenon
  <2> HIDE DEF PendingIsOwn
  <2>7. LocalInv' BY <2>1, <2>2, <2>3, <2>4, <2>5, <2>6, ContinueStep, Zenon
  <2> QED BY <2>1, <2>7, Zenon DEF Inv
<1> QED BY <1>1, <1>2, <1>3, <1>4, Zenon DEF ReplayAccepted, ReplayPending

-----------------------------------------------------------------------------
(* One lemma per action.                                                   *)

\* A new request keeps the invariant.
LEMMA StartInv ==
  ASSUME Inv, NEW i \in Invocations, NEW c \in Commands, Start(i, c)
  PROVE  Inv'
<1> USE DEF Start
<1>1. RowInv' /\ RowsGrow BY Quiet, Zenon
<1>2. LocalsType'
  BY Zenon DEF Inv, LocalInv, LocalsType, Phases, ReadPhases, NoResult, Statuses, Resuming
<1>3. ASSUME NEW j \in Invocations \ {i} PROVE Receipt(j)' /\ Target(j)' /\ Seen(j)'
  <2>1. Untouched(j) BY Zenon DEF Inv, LocalInv, LocalsType, Untouched
  <2> QED BY <1>1, <2>1, UntouchedLocals, Zenon
<1>4. pc'[i] = "preflight" /\ result'[i].status = "none"
  BY Zenon DEF Inv, LocalInv, LocalsType, NoResult
<1>5. Receipt(i)' /\ Target(i)' /\ Seen(i)'
  BY <1>4, Zenon DEF Receipt, Target, Seen, Resuming
<1> QED BY <1>1, <1>2, <1>3, <1>5, Zenon DEF Inv, LocalInv

\* Going on to the next read of the preflight.
LEMMA NextRead ==
  ASSUME Inv, UNCHANGED <<clock, db>>, NEW i \in Invocations, pc[i] # "done",
         NEW phase \in {"lookup", "load"}, Continue(i, phase, None, None, FALSE)
  PROVE  Inv'
<1>1. RowInv' /\ RowsGrow BY Quiet, Zenon
<1>2. phase \in Phases \ {"done"} /\ phase \notin {"admit", "reserve"} /\ phase \notin Resuming
  BY Zenon DEF Phases, ReadPhases, Resuming
<1>3. LocalInv' BY <1>1, <1>2, ContinueStep, Zenon
<1> QED BY <1>1, <1>3, Zenon DEF Inv

\* The lookup of the acceptances keeps the invariant.
LEMMA PreflightInv ==
  ASSUME Inv, NEW i \in Invocations, Preflight(i)
  PROVE  Inv'
<1>1. UNCHANGED <<clock, db>> /\ pc[i] # "done" BY Zenon DEF Preflight
<1>2. CASE ReplayAccepted(i) BY <1>1, <1>2, ReplayStep, Zenon
<1>3. CASE Continue(i, "lookup", None, None, FALSE) BY <1>1, <1>3, NextRead, Zenon
<1> QED BY <1>2, <1>3, Zenon DEF Preflight

\* The lookup of the pending intent keeps the invariant.
LEMMA LookupPendingInv ==
  ASSUME Inv, NEW i \in Invocations, LookupPending(i)
  PROVE  Inv'
<1>1. UNCHANGED <<clock, db>> /\ pc[i] # "done" BY Zenon DEF LookupPending
<1>2. CASE ReplayPending(i) BY <1>1, <1>2, ReplayStep, Zenon
<1>3. CASE Continue(i, "load", None, None, FALSE) BY <1>1, <1>3, NextRead, Zenon
<1> QED BY <1>2, <1>3, Zenon DEF LookupPending

\* Loading the authority keeps the invariant: the snapshot is the sender's, and
\* of the log as it is.
LEMMA LoadAuthorityInv ==
  ASSUME Inv, NEW i \in Invocations, LoadAuthority(i)
  PROVE  Inv'
<1> USE DEF LoadAuthority
<1>1. CASE Answer(i, "malformed", 0)
  <2>1. "malformed" \in Statuses \ {"accepted"} BY Zenon DEF Statuses
  <2> QED BY <1>1, <2>1, QuietAnswer, Zenon
<1>2. CASE Continue(i, "admit", Snapshot(call[i].sender), None, FALSE)
  <2>1. RowInv' /\ RowsGrow BY Quiet, Zenon
  <2>2. /\ "admit" \in Phases \ {"done"} /\ "admit" \notin Resuming /\ "admit" # "reserve"
    BY Zenon DEF Phases, ReadPhases, Resuming
  <2>3. /\ call[i] \in Commands /\ call[i].sender \in Installations
    BY CommandsAssumption, Zenon DEF Inv, LocalInv, LocalsType
  <2> DEFINE snap == Snapshot(call[i].sender)
  <2>4. snap \in Snapshots
    BY <2>3, OnePending, SnapshotType, Zenon DEF Inv, RowInv
  <2>5. snap.sender = call[i].sender /\ snap.log = log' BY Zenon DEF Snapshot, db, authority
  <2>6. Len(snap.log) <= Len(log') BY <2>5 DEF Inv, RowInv, RowsType, db, authority
  <2>7. LocalInv'
    <3>1. Continue(i, "admit", snap, None, FALSE) /\ pc[i] # "done" BY <1>2, Zenon
    <3> HIDE DEF snap, LoadAuthority
    <3> QED BY <2>1, <2>2, <2>4, <2>5, <2>6, <3>1, ContinueStep, Zenon
  <2> QED BY <2>1, <2>7, Zenon DEF Inv
<1> QED BY <1>1, <1>2, Zenon DEF TornRead

\* Admission keeps it: what goes on to the reservation is allowed.
LEMMA AdmitInv ==
  ASSUME Inv, NEW i \in Invocations, Admit(i)
  PROVE  Inv'
<1> USE DEF Admit, TornRead
<1>1. CASE Answer(i, "malformed", 0) \/ Answer(i, "rejected", 0)
  <2>1. "malformed" \in Statuses \ {"accepted"} /\ "rejected" \in Statuses \ {"accepted"}
    BY Zenon DEF Statuses
  <2> QED BY <1>1, <2>1, QuietAnswer, Zenon
<1>2. CASE Allowed(seen[i], call[i]) /\ Continue(i, "reserve", seen[i], None, FALSE)
  <2>1. RowInv' /\ RowsGrow BY Quiet, Zenon
  <2>2. "reserve" \in Phases \ {"done"} /\ "reserve" \notin Resuming
    BY Zenon DEF Phases, TransactionPhases, Resuming
  <2>3. seen[i] \in Snapshots /\ Seen(i) BY Zenon DEF Inv, LocalInv, LocalsType
  <2>4. seen[i].sender = call[i].sender /\ Len(seen[i].log) <= Len(log')
    BY <2>3, Zenon DEF Seen, db, authority
  <2>5. LocalInv' BY <1>2, <2>1, <2>2, <2>3, <2>4, ContinueStep, Zenon
  <2> QED BY <2>1, <2>5, Zenon DEF Inv
<1> QED BY <1>1, <1>2, Zenon

\* The signer keeps it: only the locals of the invocation change.
LEMMA SignerInv ==
  ASSUME Inv, NEW i \in Invocations, Signer(i)
  PROVE  Inv'
<1> USE DEF Signer
<1>1. CASE Answer(i, "malformed", 0)
  <2>1. "malformed" \in Statuses \ {"accepted"} BY Zenon DEF Statuses
  <2> QED BY <1>1, <2>1, QuietAnswer, Zenon
<1>2. CASE ~SignerRefuses(i, target[i])
  <2> DEFINE p == target[i]
             record == [ id |-> p.id, position |-> Position(p),
                         status |-> SignerStatus(i, p) ]
  <2>1. RowInv' /\ RowsGrow BY Quiet, Zenon
  <2>2. /\ memory' = [memory EXCEPT ![i] = @ \cup {record}]
        /\ pc' = [pc EXCEPT ![i] = IF SignerStatus(i, p) = "signed" THEN "finalize"
                                                                    ELSE "retire"]
        /\ UNCHANGED <<call, seen, target, owns, result>> /\ pc[i] = "signer"
    BY <1>2, Zenon
  <2>3. LocalsType /\ p \in Intents /\ clock \in Nat
    BY Zenon DEF Inv, RowInv, RowsType, LocalInv, LocalsType, Resuming
  <2>4. p.id \in Nat /\ p.expires \in Nat /\ Position(p) \in Nat
    BY <2>3 DEF Position, Intents, Snapshots
  <2>5. SignerStatus(i, p) \in {"signed", "cancelled"}
    <3>1. memory[i] \subseteq [id: Nat, position: Nat, status: {"signed", "cancelled"}]
      BY <2>3, Zenon DEF LocalsType
    <3>2. clock < p.expires \/ clock >= p.expires BY <2>3, <2>4
    <3> QED BY <3>1, <3>2, Zenon DEF SignerStatus, FenceRecords
  <2>6. record \in [id: Nat, position: Nat, status: {"signed", "cancelled"}]
    BY <2>4, <2>5, Zenon
  <2> HIDE DEF record, p, Signer
  <2>7. memory' \in [Invocations ->
          SUBSET [id: Nat, position: Nat, status: {"signed", "cancelled"}]]
    BY <2>2, <2>3, <2>6, Zenon DEF LocalsType
  <2>8. LocalsType'
    <3>1. pc' \in [Invocations -> Phases]
      BY <2>2, <2>3, Zenon DEF LocalsType, Phases, TransactionPhases
    <3>2. ASSUME NEW j \in Invocations
          PROVE  /\ pc'[j] # "done" => call'[j] \in Commands
                 /\ pc'[j] \in {"admit", "reserve"} => seen'[j] \in Snapshots
                 /\ pc'[j] \in Resuming => target'[j] \in Intents
      BY <2>2, <2>3, Zenon DEF LocalsType, p
    <3> QED BY <2>2, <2>3, <2>7, <3>1, <3>2, Zenon DEF LocalsType
  <2>9. ASSUME NEW j \in Invocations \ {i} PROVE Receipt(j)' /\ Target(j)' /\ Seen(j)'
    <3>1. Untouched(j) BY <2>2, <2>3, Zenon DEF LocalsType, Untouched
    <3> QED BY <2>1, <3>1, UntouchedLocals, Zenon
  <2>10. pc[i] \in Resuming /\ pc'[i] \in {"finalize", "retire"}
    BY <2>2, <2>3, Zenon DEF LocalsType, Resuming
  <2>11. Receipt(i) /\ Target(i) BY Zenon DEF Inv, LocalInv
  <2>12. Receipt(i)' /\ Seen(i)'
    BY <2>2, <2>10, <2>11, Zenon DEF Receipt, Seen, Identity, db, authority, Signer
  <2>13. Target(i)'
    BY <2>2, <2>10, <2>11, Zenon DEF Target, Identity, db, laneRows, outcomes, Signer
  <2> QED BY <2>1, <2>8, <2>9, <2>12, <2>13, Zenon DEF Inv, LocalInv
<1> QED BY <1>1, <1>2, Zenon

\* The reservation that writes: all checks have passed on the present snapshot.
LEMMA ReserveIntentInv ==
  ASSUME Inv, NEW i \in Invocations, pc[i] = "reserve", clock' = clock,
         AcceptedMiss(call[i]), pendings = {}, seen[i] = Snapshot(call[i].sender),
         NEW ttl \in 1..PendingTtl, ReserveIntent(i, clock + ttl)
  PROVE  Inv'
<1> DEFINE p == Intent(i, clock + ttl)
<1>0. /\ clock \in Nat /\ clock + ttl \in Nat /\ lane \in Nat /\ call[i] \in Commands
      /\ seen[i] \in Snapshots /\ Seen(i) /\ members \subseteq Installations
  BY BoundsAssumption DEF Inv, RowInv, RowsType, LocalInv, LocalsType
<1>1. Application(call[i], clock) \in Entries
  BY <1>0, Zenon DEF Application, Entries
<1>2. /\ p \in Intents /\ p.id = lane + 1 /\ p.command = call[i] /\ p.expected = seen[i]
      /\ p.entry.class = "application" /\ p.entry.identity = Identity(p.command)
  BY <1>0, <1>1 DEF Intent, Intents, Application, Recipients
<1>3. CASE quota.rowVersion # seen[i].rowVersion
  <2>1. RowInv' /\ RowsGrow BY <1>3, SpentRows, Zenon DEF ReserveIntent
  <2>2. LocalInv' BY <1>3, <2>1, AgainStep, Zenon DEF ReserveIntent
  <2> QED BY <2>1, <2>2, Zenon DEF Inv
<1>4. CASE quota.rowVersion = seen[i].rowVersion
  <2>1. /\ lane' = lane + 1 /\ quota' = QuotaReserved(quota) /\ pendings' = {p}
        /\ live' = live \cup {p.id} /\ Continue(i, "signer", None, p, TRUE)
        /\ UNCHANGED <<authority, outcomes>>
    BY <1>4, Zenon DEF ReserveIntent
  <2>2. live' = {p.id} BY <2>1, OnePending, Zenon DEF Inv
  <2>3. /\ \A a \in accepted : a.command.envelope # p.command.envelope
        /\ p.expected.sender = p.command.sender /\ Allowed(p.expected, p.command)
    BY <1>0, <1>2, Zenon DEF AcceptedMiss, Seen
  <2> HIDE DEF p
  <2>4. RowInv' /\ RowsGrow BY <1>2, <2>1, <2>2, <2>3, ReserveRows, Zenon
  <2>5. /\ "signer" \in Phases \ {"done"} /\ "signer" \in Resuming
        /\ "signer" \notin {"admit", "reserve"}
    BY Zenon DEF Phases, ReadPhases, Resuming
  <2>6. /\ p.id <= lane' /\ \A q \in pendings' : q.id = p.id => q = p
        /\ \A a \in accepted' : a.intent = p.id => a.command = p.command
    BY <1>0, <1>2, <2>1, SpentFacts DEF Inv, outcomes
  <2>7. LocalInv' BY <1>2, <2>1, <2>4, <2>5, <2>6, ContinueStep, Zenon
  <2> QED BY <2>4, <2>7, Zenon DEF Inv
<1> QED BY <1>3, <1>4, Zenon

\* The reservation transaction keeps it.
LEMMA ReserveInv ==
  ASSUME Inv, NEW i \in Invocations, Reserve(i)
  PROVE  Inv'
<1>0. pc[i] = "reserve" /\ clock' = clock BY Zenon DEF Reserve
<1>1. CASE UNCHANGED db /\ Answer(i, "malformed", 0)
  <2>1. "malformed" \in Statuses \ {"accepted"} BY Zenon DEF Statuses
  <2> QED BY <1>0, <1>1, <2>1, QuietAnswer, Zenon
<1>2. CASE UNCHANGED db /\ (ReplayAccepted(i) \/ ReplayPending(i))
  BY <1>0, <1>2, ReplayStep, Zenon
<1>3. CASE UNCHANGED db /\ Again(i)
  <2>1. RowInv' /\ RowsGrow BY <1>0, <1>3, Quiet, Zenon
  <2> QED BY <1>0, <1>3, <2>1, AgainStep, Zenon DEF Inv
<1>4. CASE ReserveRejected(i)
  <2>1. RowInv' /\ RowsGrow BY <1>0, <1>4, SpentRows, Zenon DEF ReserveRejected
  <2>2. "rejected" \in Statuses BY Zenon DEF Statuses
  <2>3. LocalInv' BY <1>4, <2>1, <2>2, AnswerStep, Zenon DEF ReserveRejected
  <2> QED BY <2>1, <2>3, Zenon DEF Inv
<1>5. CASE /\ AcceptedMiss(call[i]) /\ pendings = {} /\ seen[i] = Snapshot(call[i].sender)
           /\ \E ttl \in 1..PendingTtl : ReserveIntent(i, clock + ttl)
  BY <1>0, <1>5, ReserveIntentInv, Zenon
<1> QED BY <1>1, <1>2, <1>3, <1>4, <1>5, Zenon DEF Reserve

\* An intent found published gives a receipt only to its own caller.
LEMMA FinalizedElsewhereInv ==
  ASSUME Inv, UNCHANGED <<clock, db>>, NEW i \in Invocations, pc[i] = "finalize",
         NEW a \in accepted, FinalizedElsewhere(i, a)
  PROVE  Inv'
<1>1. CASE Answer(i, "malformed", 0)
  <2>1. "malformed" \in Statuses \ {"accepted"} BY Zenon DEF Statuses
  <2> QED BY <1>1, <2>1, QuietAnswer, Zenon
<1>2. CASE a.intent = target[i].id /\ owns[i] /\ Answer(i, "accepted", a.position)
  <2>1. Target(i) BY Zenon DEF Inv, LocalInv
  <2>2. Identity(a.command) = Identity(call[i]) BY <1>2, <2>1, Zenon DEF Target, Resuming
  <2> QED BY <1>2, <2>2, QuietReceipt, Zenon
<1>3. CASE Again(i)
  <2>1. RowInv' /\ RowsGrow BY Quiet, Zenon
  <2> QED BY <1>3, <2>1, AgainStep, Zenon DEF Inv
<1> QED BY <1>1, <1>2, <1>3, Zenon DEF FinalizedElsewhere

\* The finalization that writes.
LEMMA FinalizeIntentInv ==
  ASSUME Inv, NEW i \in Invocations, pc[i] = "finalize", clock' = clock,
         target[i] \in pendings, Snapshot(target[i].command.sender) = target[i].expected,
         FinalizeIntent(i)
  PROVE  Inv'
<1> DEFINE p == target[i]
<1>1. CASE Retry(i) /\ UNCHANGED db
  BY <1>1, RetryStep, Zenon
<1>2. CASE quota.rowVersion = p.expected.rowVersion + 1
  <2>1. call[i] \in Commands /\ Target(i) BY Zenon DEF Inv, LocalInv, LocalsType
  <2>2. /\ RowInv' /\ RowsGrow /\ Position(p) = Len(log) + 1
        /\ log' = Append(log, p.entry) /\ p.entry \in Entries
    BY <1>2, <2>1, FinalizeRows, Zenon DEF FinalizeIntent
  <2>3. log \in Seq(Entries) /\ PendingFits BY Zenon DEF Inv, RowInv, RowsType
  <2>4. /\ Position(p) \in Nat /\ Position(p) \in DOMAIN log'
        /\ log'[Position(p)].class = "application"
        /\ log'[Position(p)].identity = Identity(p.command)
    BY <2>2, <2>3, AppendFacts DEF PendingFits
  <2>5. CASE owns[i] /\ Answer(i, "accepted", Position(p))
    <3>1. Identity(p.command) = Identity(call[i]) BY <2>1, <2>5, Zenon DEF Target, Resuming
    <3>2. "accepted" \in Statuses BY Zenon DEF Statuses
    <3> HIDE DEF p
    <3>3. LocalInv' BY <2>2, <2>4, <2>5, <3>1, <3>2, AnswerStep, Zenon
    <3> QED BY <2>2, <3>3, Zenon DEF Inv
  <2>6. CASE Again(i)
    BY <2>2, <2>6, AgainStep, Zenon DEF Inv
  <2> QED BY <1>2, <2>5, <2>6, Zenon DEF FinalizeIntent
<1> QED BY <1>1, <1>2, Zenon DEF FinalizeIntent

\* The finalization transaction keeps it.
LEMMA FinalizeInv ==
  ASSUME Inv, NEW i \in Invocations, Finalize(i)
  PROVE  Inv'
<1>0. pc[i] = "finalize" /\ clock' = clock BY Zenon DEF Finalize
<1>1. CASE UNCHANGED db /\ (Answer(i, "malformed", 0) \/ Answer(i, "conflict", 0))
  <2>1. "malformed" \in Statuses \ {"accepted"} /\ "conflict" \in Statuses \ {"accepted"}
    BY Zenon DEF Statuses
  <2> QED BY <1>0, <1>1, <2>1, QuietAnswer, Zenon
<1>2. CASE UNCHANGED db /\ \E a \in accepted : FinalizedElsewhere(i, a)
  BY <1>0, <1>2, FinalizedElsewhereInv, Zenon
<1>3. CASE UNCHANGED db /\ Retry(i)
  BY <1>0, <1>3, RetryStep, Zenon
<1>4. CASE /\ target[i] \in pendings
           /\ Snapshot(target[i].command.sender) = target[i].expected /\ FinalizeIntent(i)
  BY <1>0, <1>4, FinalizeIntentInv, Zenon
<1> QED BY <1>1, <1>2, <1>3, <1>4, Zenon DEF Finalize, StillExpected

\* The retirement transaction keeps it.
LEMMA RetireInv ==
  ASSUME Inv, NEW i \in Invocations, Retire(i)
  PROVE  Inv'
<1>0. pc[i] = "retire" /\ clock' = clock BY Zenon DEF Retire
<1>1. CASE UNCHANGED db /\ Answer(i, "malformed", 0)
  <2>1. "malformed" \in Statuses \ {"accepted"} BY Zenon DEF Statuses
  <2> QED BY <1>0, <1>1, <2>1, QuietAnswer, Zenon
<1>2. CASE UNCHANGED db /\ Again(i)
  <2>1. RowInv' /\ RowsGrow BY <1>0, <1>2, Quiet, Zenon
  <2> QED BY <1>0, <1>2, <2>1, AgainStep, Zenon DEF Inv
<1>3. CASE target[i] \in pendings /\ RetireIntent(i) /\ ~UNCHANGED db
  <2>1. RowInv' /\ RowsGrow BY <1>0, <1>3, RetireRows, Zenon DEF RetireIntent
  <2>2. Again(i) BY <1>3, Zenon DEF RetireIntent
  <2> QED BY <1>0, <2>1, <2>2, AgainStep, Zenon DEF Inv
<1> QED BY <1>1, <1>2, <1>3, Zenon DEF Retire, RetireIntent

\* Giving up on a request: its transaction may go on, its client has no receipt.
LEMMA TimeoutInv ==
  ASSUME Inv, NEW i \in Invocations, Timeout(i) \/ Lost(i)
  PROVE  Inv'
<1>0. UNCHANGED <<clock, db>> BY Zenon DEF Timeout, Lost
<1>1. CASE Answer(i, "unavailable", 0)
  <2>1. "unavailable" \in Statuses \ {"accepted"} BY Zenon DEF Statuses
  <2> QED BY <1>0, <1>1, <2>1, QuietAnswer, Zenon
<1>2. CASE /\ result' = [result EXCEPT ![i] = [status |-> "unavailable", position |-> 0]]
           /\ UNCHANGED <<pc, call, seen, target, owns, memory>>
  <2>1. RowInv' /\ RowsGrow BY <1>0, Quiet, Zenon
  <2>2. LocalsType' BY <1>2, Zenon DEF Inv, LocalInv, LocalsType, Statuses
  <2>3. ASSUME NEW j \in Invocations \ {i} PROVE Receipt(j)' /\ Target(j)' /\ Seen(j)'
    <3>1. Untouched(j) BY <1>2, Zenon DEF Inv, LocalInv, LocalsType, Untouched
    <3> QED BY <2>1, <3>1, UntouchedLocals, Zenon
  <2>4. Receipt(i)' BY <1>2, Zenon DEF Inv, LocalInv, LocalsType, Receipt
  <2>5. Target(i) /\ Seen(i) BY Zenon DEF Inv, LocalInv
  <2>6. Target(i)'
    BY <1>0, <1>2, <2>5, Zenon DEF Target, Identity, db, laneRows, outcomes
  <2>7. Seen(i)'
    BY <1>0, <1>2, <2>5, Zenon DEF Seen, Allowed, db, authority, outcomes
  <2> QED BY <2>1, <2>2, <2>3, <2>4, <2>6, <2>7, Zenon DEF Inv, LocalInv
<1> QED BY <1>1, <1>2, Zenon DEF Timeout, Lost

\* A step that touches no invocation.
LEMMA BystanderLocals ==
  ASSUME Inv, RowsGrow, UNCHANGED invocation
  PROVE  LocalInv'
<1>1. LocalsType' BY Zenon DEF Inv, LocalInv, LocalsType, invocation
<1>2. ASSUME NEW j \in Invocations PROVE Receipt(j)' /\ Target(j)' /\ Seen(j)'
  <2>1. Untouched(j) BY Zenon DEF Untouched, invocation
  <2> QED BY <2>1, UntouchedLocals, Zenon
<1> QED BY <1>1, <1>2, Zenon DEF LocalInv

\* The passing of time keeps it.
LEMMA TickInv ==
  ASSUME Inv, Tick
  PROVE  Inv'
<1>1. RowInv /\ clock' \in Nat BY DEF Tick, Inv, RowInv, RowsType
<1>2. RowInv' /\ RowsGrow BY <1>1, RowsKept, SameRows, Zenon DEF Tick
<1>3. LocalInv' BY <1>2, BystanderLocals, Zenon DEF Tick
<1> QED BY <1>2, <1>3, Zenon DEF Inv

\* The other writers of the fenced rows keep it.
LEMMA WriterInv ==
  ASSUME Inv, Writer
  PROVE  Inv'
<1>0. /\ graph \in GraphRows /\ members \subseteq Installations
      /\ grants \subseteq Installations /\ grants # {}
      /\ mailbox \in [Installations -> Seq(Nat)] /\ log \in Seq(Entries)
  BY Zenon DEF Inv, RowInv, RowsType
<1> SUFFICES /\ OtherWriter /\ graph' \in GraphRows
             /\ mailbox' \in [Installations -> Seq(Nat)]
             /\ members' \subseteq Installations
             /\ grants' \subseteq Installations /\ grants' # {}
             /\ \/ log' = log
                \/ \E class \in {"proposal", "commit"} :
                     log' = Append(log, ServiceEntry(class))
  <2>1. RowInv' /\ RowsGrow BY WriterRows, Zenon
  <2>2. LocalInv' BY <2>1, BystanderLocals, Zenon DEF OtherWriter
  <2> QED BY <2>1, <2>2, Zenon DEF Inv
<1>1. ASSUME NEW t \in Targets, CreateIntent(t) PROVE graph' \in GraphRows
  BY <1>0, <1>1, BoundsAssumption, Zenon DEF CreateIntent, GraphRows
<1>2. CASE EndIntent
  <2>1. graph' \in GraphRows BY <1>0, <1>2, Zenon DEF EndIntent, GraphRows
  <2> QED BY <1>0, <1>2, <2>1, Zenon DEF EndIntent
<1>3. CASE RecordProposal
  <2>1. graph' \in GraphRows BY <1>0, <1>3, Zenon DEF RecordProposal, GraphRows
  <2> QED BY <1>0, <1>3, <2>1, Zenon DEF RecordProposal
<1>4. CASE ConsumeCommit
  <2>1. graph' \in GraphRows BY <1>0, <1>4 DEF ConsumeCommit, GraphRows
  <2>2. Len(log) + 1 \in Nat BY <1>0
  <2>3. mailbox' \in [Installations -> Seq(Nat)]
    BY <1>0, <1>4, <2>2 DEF ConsumeCommit, Deliver
  <2> QED BY <1>0, <1>4, <2>1, <2>3, Zenon DEF ConsumeCommit
<1>5. CASE RenewHead
  <2>1. graph.version + 1 \in Nat BY <1>0 DEF GraphRows
  <2>2. graph' = [[graph EXCEPT !.version = graph.version + 1] EXCEPT !.witnessed = FALSE]
    BY <1>5, Zenon DEF RenewHead
  <2>3. graph' \in GraphRows BY <1>0, <2>1, <2>2, Zenon DEF GraphRows
  <2> QED BY <1>0, <1>5, <2>3, Zenon DEF RenewHead
<1>6. CASE WitnessHead
  <2>1. graph' \in GraphRows BY <1>0, <1>6, Zenon DEF WitnessHead, GraphRows
  <2> QED BY <1>0, <1>6, <2>1, Zenon DEF WitnessHead
<1>7. CASE \E t \in Targets : CreateIntent(t)
  BY <1>0, <1>1, <1>7, Zenon DEF CreateIntent
<1> QED BY <1>2, <1>3, <1>4, <1>5, <1>6, <1>7, Zenon DEF Writer

\* It holds initially.
LEMMA InitInv == Init => Inv
<1> SUFFICES ASSUME Init PROVE Inv BY Zenon
<1> USE DEF Init
<1>0. /\ Cardinality(live) = 0 /\ Cardinality(pendings) = 0 /\ Cardinality(accepted) = 0
      /\ IsFiniteSet(accepted)
  BY FS_EmptySet, Zenon
<1>1. graph \in GraphRows /\ quota \in QuotaRows /\ log \in Seq(Entries)
  BY DEF GraphRows, QuotaRows
<1>2. ASSUME NEW s \in Installations PROVE Snapshot(s) \in Snapshots
  BY <1>0, <1>1 DEF Snapshot, Snapshots, GraphRows, QuotaRows
<1>3. fence \in [Installations -> Snapshots \cup {None}] BY <1>2, Zenon
<1>4. custody \in Snapshots
  <2>1. (CHOOSE s \in grants : TRUE) \in Installations BY CommandsAssumption, Zenon
  <2> QED BY <1>2, <2>1, Zenon DEF LegacyDigest
<1>5. RowsType BY <1>1, <1>3, <1>4 DEF RowsType
<1>6. FencesCurrent
  <2>1. \A s \in Installations : fence[s] = Snapshot(s) /\ fence[s] # None
    BY <1>2, NoneAssumption, Zenon
  <2> QED BY <2>1, Zenon DEF FencesCurrent, FenceHolds
<1>7. /\ ExactlyOnce /\ IntentResolvedOnce /\ PendingFits /\ IntentsSpent /\ HttpKnown
  BY DEF ExactlyOnce, IntentResolvedOnce, PendingFits, IntentsSpent, HttpKnown
<1>8. CapacityConserved BY <1>0, Zenon DEF CapacityConserved
<1>9. RowInv BY <1>0, <1>5, <1>6, <1>7, <1>8, CommandsAssumption, Zenon DEF RowInv
<1>10. LocalsType
  BY Zenon DEF LocalsType, Phases, NoResult, Statuses, Resuming
<1>11. \A i \in Invocations : Receipt(i) /\ Target(i) /\ Seen(i)
  BY Zenon DEF Receipt, Target, Seen, Resuming, NoResult
<1> QED BY <1>9, <1>10, <1>11, Zenon DEF Inv, LocalInv

\* Every step keeps it.
LEMMA NextInv == Inv /\ [Next]_vars => Inv'
<1> SUFFICES ASSUME Inv, [Next]_vars PROVE Inv' BY Zenon
<1>1. ASSUME NEW i \in Invocations, NEW c \in Commands, Start(i, c) PROVE Inv'
  BY <1>1, StartInv, Zenon
<1>2. ASSUME NEW i \in Invocations, Step(i) PROVE Inv'
  BY <1>2, PreflightInv, LookupPendingInv, LoadAuthorityInv, AdmitInv, ReserveInv, SignerInv,
     FinalizeInv, RetireInv, TimeoutInv, Zenon
  DEF Step
<1>3. CASE Writer BY <1>3, WriterInv, Zenon
<1>4. CASE Tick BY <1>4, TickInv, Zenon
<1>5. CASE UNCHANGED vars
  <2>1. UNCHANGED <<clock, db>> /\ UNCHANGED invocation BY <1>5, Zenon DEF vars
  <2>2. RowInv' /\ RowsGrow BY <2>1, Quiet, Zenon
  <2> QED BY <2>1, <2>2, BystanderLocals, Zenon DEF Inv
<1> QED BY <1>1, <1>2, <1>3, <1>4, <1>5, Zenon DEF Next

\* The inductive invariant holds in every reachable state.
THEOREM Invariance == Spec => []Inv
BY InitInv, NextInv, PTL DEF Spec

-----------------------------------------------------------------------------
(* The promises.                                                           *)

\* The properties of the lane follow from it.
LEMMA Consequences ==
  ASSUME Inv
  PROVE  /\ TypeOK /\ ExactlyOnce /\ ReceiptsHold /\ IntentResolvedOnce
         /\ CapacityConserved /\ FencesCurrent
         /\ PendingFits /\ IntentsSpent /\ TargetKnown /\ HttpKnown /\ SeenFits
<1>1. RowsType /\ LocalsType BY Zenon DEF Inv, RowInv, LocalInv
<1>2. TypeOK BY <1>1, Zenon DEF TypeOK, RowsType, LocalsType, Phases, Resuming
<1>3. ReceiptsHold BY Zenon DEF Inv, LocalInv, Receipt, ReceiptsHold
<1>4. TargetKnown BY Zenon DEF Inv, LocalInv, Target, TargetKnown
<1>5. SeenFits BY Zenon DEF Inv, LocalInv, Seen, SeenFits
<1> QED BY <1>2, <1>3, <1>4, <1>5, Zenon DEF Inv, RowInv

\* Every row and local variable of the lane keeps its type.
THEOREM TypeCorrect == Spec => []TypeOK
BY Invariance, Consequences, PTL

\* Acceptances and application envelopes correspond one to one.
THEOREM AppendedExactlyOnce == Spec => []ExactlyOnce
BY Invariance, Consequences, PTL

\* A receipt given to a client stays true.
THEOREM ReceiptsAlwaysHold == Spec => []ReceiptsHold
BY Invariance, Consequences, PTL

\* An intent is never both published and retired.
THEOREM ResolvedOnce == Spec => []IntentResolvedOnce
BY Invariance, Consequences, PTL

\* Reserved quota is converted or given back exactly once.
THEOREM QuotaConserved == Spec => []CapacityConserved
BY Invariance, Consequences, PTL

\* No writer of the conversation locks a member out of it.
THEOREM NoStaleFence == Spec => []FencesCurrent
BY Invariance, Consequences, PTL

\* The invariant the runs check is the one the proof uses.
THEOREM LaneInvariant == Spec => []LaneInv
<1>1. Inv => LaneInv BY Consequences, Zenon DEF LaneInv
<1> QED BY <1>1, Invariance, PTL

\* The log is changed by the other writers and by finalization alone.
LEMMA LogWriters ==
  ASSUME Inv, [Next]_vars, log' # log
  PROVE  \/ /\ OtherWriter
            /\ \E class \in {"proposal", "commit"} : log' = Append(log, ServiceEntry(class))
         \/ \E p \in pendings :
              /\ p.expected = Snapshot(p.command.sender) /\ p.entry \in Entries
              /\ log' = Append(log, p.entry)
<1>1. CASE Writer
  BY <1>1, Zenon DEF Writer, CreateIntent, EndIntent, RecordProposal, ConsumeCommit, RenewHead,
     WitnessHead
<1>2. CASE UNCHANGED db BY <1>2, Zenon DEF db, authority
<1>3. ASSUME NEW i \in Invocations, Reserve(i) PROVE FALSE
  BY <1>3, Zenon DEF Reserve, ReserveIntent, ReserveRejected, db, authority
<1>4. ASSUME NEW i \in Invocations, Retire(i) PROVE FALSE
  BY <1>4, Zenon DEF Retire, RetireIntent, db, authority
<1>5. ASSUME NEW i \in Invocations, Finalize(i)
      PROVE  \E p \in pendings :
               /\ p.expected = Snapshot(p.command.sender) /\ p.entry \in Entries
               /\ log' = Append(log, p.entry)
  <2>1. /\ target[i] \in pendings /\ log' = Append(target[i].expected.log, target[i].entry)
        /\ Snapshot(target[i].command.sender) = target[i].expected
    BY <1>5, Zenon DEF Finalize, StillExpected, FinalizeIntent, db, authority
  <2>2. target[i].expected.log = log BY <2>1 DEF Snapshot
  <2>3. target[i].entry \in Entries BY <2>1, Zenon DEF Inv, RowInv, RowsType, Intents
  <2> QED BY <2>1, <2>2, <2>3, Zenon
<1>6. ASSUME NEW i \in Invocations,
             \/ \E c \in Commands : Start(i, c)
             \/ Preflight(i) \/ LookupPending(i) \/ LoadAuthority(i) \/ Admit(i)
             \/ Signer(i) \/ Timeout(i) \/ Lost(i)
      PROVE  UNCHANGED db
  BY <1>6, Zenon DEF Start, Preflight, LookupPending, LoadAuthority, Admit, Signer, Timeout, Lost
<1>7. CASE Tick \/ UNCHANGED vars BY <1>7, <1>2, Zenon DEF Tick, vars
<1> QED BY <1>1, <1>2, <1>3, <1>4, <1>5, <1>6, <1>7, Zenon DEF Next, Step

\* What is published is allowed at that very step, although it was checked when
\* the intent was reserved.
THEOREM AuthorityAtPublication == Spec => PublishedUnderAuthority
<1>1. ASSUME Inv, [Next]_vars
      PROVE  [ \A n \in Published :
                 /\ graph.phase = "active" /\ graph.witnessed
                 /\ graph.version = log'[n].identity.etag
                 /\ log'[n].identity.sender \in members \cap grants ]_vars
  <2> SUFFICES ASSUME NEW n \in Published
               PROVE  /\ graph.phase = "active" /\ graph.witnessed
                      /\ graph.version = log'[n].identity.etag
                      /\ log'[n].identity.sender \in members \cap grants
    BY Zenon
  <2>1. log \in Seq(Entries) /\ clock \in Nat BY <1>1, Zenon DEF Inv, RowInv, RowsType
  <2>2. n \in DOMAIN log' /\ n \notin DOMAIN log /\ log'[n].class = "application"
    BY Zenon DEF Published
  <2>3. CASE \E class \in {"proposal", "commit"} : log' = Append(log, ServiceEntry(class))
    <3>1. PICK class \in {"proposal", "commit"} : log' = Append(log, ServiceEntry(class))
      BY <2>3, Zenon
    <3>2. ServiceEntry(class) \in Entries /\ ServiceEntry(class).class # "application"
      BY <2>1, Zenon DEF ServiceEntry, Entries
    <3>3. log'[n] = ServiceEntry(class) BY <2>1, <2>2, <3>1, <3>2, AppendFacts
    <3> QED BY <2>2, <3>2, <3>3, Zenon
  <2>4. ASSUME NEW p \in pendings, p.expected = Snapshot(p.command.sender),
               p.entry \in Entries, log' = Append(log, p.entry)
        PROVE  /\ graph.phase = "active" /\ graph.witnessed
               /\ graph.version = log'[n].identity.etag
               /\ log'[n].identity.sender \in members \cap grants
    <3>1. log'[n] = p.entry BY <2>1, <2>2, <2>4, AppendFacts
    <3>2. p.entry.identity = Identity(p.command) /\ Allowed(p.expected, p.command)
      BY <1>1, Zenon DEF Inv, RowInv, PendingFits
    <3>3. /\ graph.phase = "active" /\ graph.witnessed /\ graph.version = p.command.etag
          /\ p.command.sender \in members \cap grants
      <4> DEFINE snap == Snapshot(p.command.sender)
      <4>1. /\ snap.active = (graph.phase = "active") /\ snap.witnessed = graph.witnessed
            /\ snap.version = graph.version
            /\ snap.member = (p.command.sender \in members)
            /\ snap.granted = (p.command.sender \in grants)
        BY Zenon DEF Snapshot
      <4>2. snap.active /\ snap.witnessed /\ snap.version = p.command.etag
            /\ snap.member /\ snap.granted
        BY <2>4, <3>2, Zenon DEF Allowed
      <4> HIDE DEF snap
      <4> QED BY <4>1, <4>2, Zenon
    <3> QED BY <3>1, <3>2, <3>3 DEF Identity
  <2> QED BY <1>1, <2>2, <2>3, <2>4, LogWriters, Zenon
<1> QED BY <1>1, Invariance, PTL DEF Spec, PublishedUnderAuthority

\* A step tells at most the stepping invocation something, keeping its command
\* with a receipt.
LEMMA ToldStep ==
  ASSUME Inv, [Next]_vars, NEW i \in Invocations, result'[i].status = "accepted"
  PROVE  call'[i] = call[i]
<1>0. LocalsType BY Zenon DEF Inv, LocalInv
<1>1. ASSUME NEW j \in Invocations, NEW status, NEW n, Answer(j, status, n)
      PROVE  call'[i] = call[i]
  BY <1>0, <1>1, Zenon DEF Answer, LocalsType
<1>2. ASSUME NEW j \in Invocations, NEW phase, NEW snap, NEW p, NEW own,
             Continue(j, phase, snap, p, own)
      PROVE  call'[i] = call[i]
  BY <1>1, <1>2, Zenon DEF Continue
<1>3. CASE UNCHANGED call BY <1>3, Zenon
<1>4. ASSUME NEW j \in Invocations, ReplayAccepted(j) \/ ReplayPending(j)
      PROVE  call'[i] = call[i]
  BY <1>1, <1>2, <1>4, Zenon DEF ReplayAccepted, ReplayPending, Resume
<1>5. ASSUME NEW j \in Invocations, Preflight(j) \/ LookupPending(j) \/ LoadAuthority(j)
                                   \/ Admit(j) \/ Signer(j)
      PROVE  call'[i] = call[i]
  BY <1>1, <1>2, <1>3, <1>4, <1>5, Zenon 
  DEF Preflight, LookupPending, LoadAuthority, TornRead, Admit, Signer
<1>6. ASSUME NEW j \in Invocations, Reserve(j) PROVE call'[i] = call[i]
  BY <1>1, <1>2, <1>3, <1>4, <1>6, Zenon DEF Reserve, ReserveRejected, ReserveIntent, Again
<1>7. ASSUME NEW j \in Invocations, Finalize(j) PROVE call'[i] = call[i]
  BY <1>1, <1>2, <1>7, Zenon DEF Finalize, FinalizedElsewhere, FinalizeIntent, Again, Retry
<1>8. ASSUME NEW j \in Invocations, Retire(j) PROVE call'[i] = call[i]
  BY <1>1, <1>2, <1>8, Zenon DEF Retire, RetireIntent, Again
<1>9. ASSUME NEW j \in Invocations, Timeout(j) \/ Lost(j) PROVE call'[i] = call[i]
  BY <1>1, <1>3, <1>9, Zenon DEF Timeout, Lost
<1>10. ASSUME NEW j \in Invocations, NEW c \in Commands, Start(j, c)
       PROVE  call'[i] = call[i]
  <2>1. CASE i = j
    <3>1. result'[i] = NoResult BY <1>0, <1>10, <2>1, Zenon DEF Start, LocalsType
    <3> QED BY <3>1 DEF NoResult
  <2>2. CASE i # j BY <1>0, <1>10, <2>2, Zenon DEF Start, LocalsType
  <2> QED BY <2>1, <2>2, Zenon
<1>11. CASE Writer \/ Tick \/ UNCHANGED vars
  BY <1>11, Zenon DEF Writer, CreateIntent, EndIntent, RecordProposal, ConsumeCommit, RenewHead,
     WitnessHead, OtherWriter, Tick, vars, invocation
<1> QED BY <1>5, <1>6, <1>7, <1>8, <1>9, <1>10, <1>11, Zenon DEF Next, Step

\* The lane implements the abstract log.
THEOREM Refinement == Spec => ImplementsLog
<1>1. Init => Abstract!Init
  BY DEF Init, Abstract!Init, NoResult
<1>2. ASSUME Inv, [Next]_vars, Inv'
      PROVE  [Abstract!Next]_(Abstract!vars)
  <2>0. log \in Seq(Entries) /\ clock \in Nat BY <1>2, Zenon DEF Inv, RowInv, RowsType
  <2>1. ASSUME NEW e \in Entries, log' = Append(log, e),
               Abstract!IsApplication(e) => Abstract!Fresh(e)
        PROVE  Abstract!Publish
    <3>1. /\ Len(log') = Len(log) + 1 /\ log'[Len(log')] = e
      BY <2>0, <2>1, AppendFacts
    <3> QED BY <2>1, <3>1, Zenon DEF Abstract!Publish, Abstract!Newest
  <2>2. Abstract!Publish
    <3>1. CASE log' = log BY <3>1, Zenon DEF Abstract!Publish
    <3>2. CASE \E class \in {"proposal", "commit"} : log' = Append(log, ServiceEntry(class))
      <4>1. PICK class \in {"proposal", "commit"} : log' = Append(log, ServiceEntry(class))
        BY <3>2, Zenon
      <4>2. ServiceEntry(class) \in Entries /\ ~Abstract!IsApplication(ServiceEntry(class))
        BY <2>0, Zenon DEF ServiceEntry, Entries, Abstract!IsApplication
      <4> QED BY <2>1, <4>1, <4>2, Zenon
    <3>3. ASSUME NEW p \in pendings, p.entry \in Entries, log' = Append(log, p.entry)
          PROVE  Abstract!Publish
      <4>1. /\ p.entry.identity = Identity(p.command)
            /\ \A a \in accepted : a.command.envelope # p.command.envelope
        BY <1>2, Zenon DEF Inv, RowInv, PendingFits
      <4>2. ASSUME NEW n \in DOMAIN log, log[n].class = "application"
            PROVE  log[n].identity.envelope # p.entry.identity.envelope
        <5>1. PICK a \in accepted : a.position = n
          BY <1>2, <4>2, Zenon DEF Inv, RowInv, ExactlyOnce
        <5>2. log[n].identity = Identity(a.command)
          BY <1>2, <5>1, Zenon DEF Inv, RowInv, ExactlyOnce
        <5> QED BY <4>1, <5>1, <5>2 DEF Identity
      <4>3. Abstract!Fresh(p.entry)
        BY <4>2, Zenon DEF Abstract!Fresh, Abstract!IsApplication
      <4> QED BY <2>1, <3>3, <4>3, Zenon
    <3> QED BY <1>2, <3>1, <3>2, <3>3, LogWriters, Zenon
  <2>3. ASSUME NEW i \in Invocations PROVE Abstract!Tell(i)
    <3> SUFFICES ASSUME result'[i].status = "accepted"
                 PROVE  call'[i] = call[i] /\ Abstract!Receipt(result'[i], call[i])
      BY Zenon DEF Abstract!Tell
    <3>1. call'[i] = call[i] BY <1>2, ToldStep, Zenon
    <3>2. Receipt(i)' BY <1>2, Zenon DEF Inv, LocalInv
    <3> QED BY <3>1, <3>2, Zenon
        DEF Receipt, Identity, Abstract!Receipt, Abstract!IsApplication
  <2> QED BY <2>2, <2>3, Zenon DEF Abstract!Next
<1> QED BY <1>1, <1>2, Invariance, PTL DEF Spec, ImplementsLog, Abstract!Spec
=============================================================================
