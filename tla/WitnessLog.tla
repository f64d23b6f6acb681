----------------------------- MODULE WitnessLog -----------------------------
(***************************************************************************)
(* The delivery namespace of the transparency witness (witnessCore.ts over *)
(* merkleLog.ts) and the keeper's passes that bring it the signed heads    *)
(* and store its receipts (submitter.ts).                                  *)
(*                                                                         *)
(* A head commits to all the entries before it, so it is the sequence of   *)
(* them; an entry is <<branch, known>>: which of two bodies it has, and    *)
(* whether the witness knew its signer's key when it was received.  Hashes *)
(* are injective: a tree node is the tuple of its children.  Answers of    *)
(* the witness may be lost, passes may overlap, and the delivery database  *)
(* may be restored without its last entry, after which another one takes   *)
(* its position.                                                           *)
(***************************************************************************)
EXTENDS Integers, Sequences, FiniteSets, SequencesExt

CONSTANTS Logs,         \* conversations
          Submitters,   \* keeper passes that may overlap
          MaxPosition,  \* bound on a conversation's entries
          MaxBatch,     \* rows a pass considers
          Incidents     \* which of rotate, restore and loss may happen, each once

VARIABLES head,        \* conversation -> its entries, that is its head
          signingKey,  \* the key that signs new heads
          registered,  \* the keys registered with the witness
          leaves,      \* the witness's tree: [of, head]
          receipts,    \* log_witness_receipts: [of, position, head]
          submission,  \* pass -> [at, rows, blocked]
          issued,      \* every receipt that was ever stored: what clients may have seen
          gossip,      \* the witness's verdict on the last gossip report
          trouble      \* lost, restored, equivocation

witnessLogVars == <<head, signingKey, registered, leaves, receipts, submission, issued, gossip, trouble>>

NoSubmission == [at |-> "idle", rows |-> <<>>, blocked |-> {}]
LogHeadAt(log, p) == SubSeq(log, 1, p)

WitnessLogInit ==
    /\ head = [c \in Logs |-> <<>>]
    /\ signingKey = 1 /\ registered = {1}
    /\ leaves = <<>> /\ receipts = {} /\ issued = {} /\ gossip = "none"
    /\ submission = [t \in Submitters |-> NoSubmission]
    /\ trouble = {}

-----------------------------------------------------------------------------
(* merkleLog.ts: the tree of RFC 6962 and its proofs. *)
RECURSIVE MerkleRoot(_), InclusionProof(_, _), SubProof(_, _, _), Halve(_, _, _)

LeafHash(leaf) == <<"leaf", leaf>>
NodeHash(l, r) == <<"node", l, r>>

(* Largest power of two strictly less than n. *)
SplitPoint(n) == CHOOSE k \in {2 ^ i : i \in 0..n} : k < n /\ 2 * k >= n

MerkleRoot(hashes) ==
    IF hashes = <<>> THEN <<"empty">>
    ELSE IF Len(hashes) = 1 THEN hashes[1]
    ELSE LET k == SplitPoint(Len(hashes))
         IN NodeHash(MerkleRoot(SubSeq(hashes, 1, k)), MerkleRoot(SubSeq(hashes, k + 1, Len(hashes))))

InclusionProof(hashes, index) ==
    IF Len(hashes) = 1 THEN <<>>
    ELSE LET k == SplitPoint(Len(hashes))
             left == SubSeq(hashes, 1, k)
             right == SubSeq(hashes, k + 1, Len(hashes))
         IN IF index < k THEN Append(InclusionProof(left, index), MerkleRoot(right))
                         ELSE Append(InclusionProof(right, index - k), MerkleRoot(left))

SubProof(hashes, m, complete) ==
    IF m = Len(hashes) THEN IF complete THEN <<>> ELSE <<MerkleRoot(hashes)>>
    ELSE LET k == SplitPoint(Len(hashes))
             left == SubSeq(hashes, 1, k)
             right == SubSeq(hashes, k + 1, Len(hashes))
         IN IF m <= k THEN Append(SubProof(left, m, complete), MerkleRoot(right))
                      ELSE Append(SubProof(right, m - k, FALSE), MerkleRoot(left))

ConsistencyProof(hashes, oldSize) == IF oldSize = Len(hashes) THEN <<>> ELSE SubProof(hashes, oldSize, TRUE)

(* Shifts both numbers while the first one has the given parity (and is not zero). *)
Halve(node, last, parity) ==
    IF node % 2 = parity /\ node # 0 THEN Halve(node \div 2, last \div 2, parity)
                                     ELSE [node |-> node, last |-> last]

(* One round of a verification loop: the walk goes up a level and takes a sibling on one side. *)
OnLeft(walk) == walk.node % 2 = 1 \/ walk.node = walk.last

Climb(walk, sibling) ==
    LET up == IF OnLeft(walk) /\ walk.node % 2 = 0 THEN Halve(walk.node, walk.last, 0) ELSE walk
    IN [ok |-> walk.ok /\ walk.last # 0,
        node |-> up.node \div 2, last |-> up.last \div 2,
        old |-> IF OnLeft(walk) THEN NodeHash(sibling, walk.old) ELSE walk.old,
        new |-> IF OnLeft(walk) THEN NodeHash(sibling, walk.new) ELSE NodeHash(walk.new, sibling)]

VerifyInclusion(leaf, index, treeSize, proof, root) ==
    LET end == FoldLeft(Climb, [ok |-> TRUE, node |-> index, last |-> treeSize - 1, old |-> leaf, new |-> leaf],
                        proof)
    IN index < treeSize /\ end.ok /\ end.last = 0 /\ end.new = root

VerifyConsistency(oldSize, oldRoot, newSize, newRoot, proof) ==
    LET start == Halve(oldSize - 1, newSize - 1, 1)
        seed == IF start.node > 0 THEN proof[1] ELSE oldRoot
        end == FoldLeft(Climb, [ok |-> TRUE, node |-> start.node, last |-> start.last, old |-> seed, new |-> seed],
                        IF start.node > 0 THEN Tail(proof) ELSE proof)
    IN IF oldSize = newSize THEN proof = <<>> /\ oldRoot = newRoot
       ELSE /\ start.node > 0 => proof # <<>>
            /\ end.ok /\ end.last = 0 /\ end.old = oldRoot /\ end.new = newRoot

Hashes(size) == [i \in 1..size |-> LeafHash(leaves[i])]
ProveConsistency(from, to) == ConsistencyProof(Hashes(to), from)
ProveInclusion(index, size) == InclusionProof(Hashes(size), index)

-----------------------------------------------------------------------------
(* The Delivery service, external: it appends entries, rotates its key, or comes back from a backup. *)
AppendEntry(c) ==
    /\ Len(head[c]) < MaxPosition
    /\ head' = [head EXCEPT ![c] = Append(@, <<IF "restored" \in trouble THEN 2 ELSE 1, signingKey \in registered>>)]
    /\ UNCHANGED <<signingKey, registered, leaves, receipts, submission, issued, gossip, trouble>>

RotateKey ==
    /\ "rotate" \in Incidents /\ signingKey = 1 /\ signingKey' = 2
    /\ UNCHANGED <<head, registered, leaves, receipts, submission, issued, gossip, trouble>>

RestoreLog(c) ==
    /\ "restore" \in Incidents /\ "restored" \notin trouble /\ head[c] # <<>>
    /\ head' = [head EXCEPT ![c] = LogHeadAt(@, Len(@) - 1)]
    /\ receipts' = {r \in receipts : r.of = c => r.position < Len(head[c])}
    /\ submission' = [t \in Submitters |-> NoSubmission]
    /\ trouble' = trouble \cup {"restored"}
    /\ UNCHANGED <<signingKey, registered, leaves, issued, gossip>>

(* register-submitter-key.mjs: a key is valid for the heads received from now on. *)
RegisterKey ==
    /\ signingKey \notin registered
    /\ registered' = registered \cup {signingKey}
    /\ UNCHANGED <<head, signingKey, leaves, receipts, submission, issued, gossip, trouble>>

-----------------------------------------------------------------------------
(* The rows of a pass: entries without a receipt, by conversation and position. *)
Unreceipted(c) == {p \in 1..Len(head[c]) : \A r \in receipts : ~(r.of = c /\ r.position = p)}
RowsOf(c) == LET row(p) == [of |-> c, position |-> p, head |-> LogHeadAt(head[c], p)]
             IN [i \in 1..Cardinality(Unreceipted(c)) |-> row(SetToSortSeq(Unreceipted(c), <)[i])]
AllRows == FoldLeft(LAMBDA rows, c : rows \o RowsOf(c), <<>>, SetToSeq(Logs))

SelectRows(t) ==
    /\ submission[t].at = "idle" /\ AllRows # <<>>
    /\ submission' = [submission EXCEPT ![t] =
                        [at |-> "row", rows |-> LogHeadAt(AllRows, IF Len(AllRows) < MaxBatch THEN Len(AllRows)
                                                                ELSE MaxBatch), blocked |-> {}]]
    /\ UNCHANGED <<head, signingKey, registered, leaves, receipts, issued, gossip, trouble>>

Row(t) == Head(submission[t].rows)
AtRow(t) == submission[t].at = "row" /\ submission[t].rows # <<>>
NextRow(t) == [submission EXCEPT ![t].rows = Tail(@), ![t].at = "row"]

(* extendDelivery: the signer's key, the head already witnessed at the position, and the one before it. *)
WitnessedAt(c, p) == {i \in DOMAIN leaves : leaves[i].of = c /\ Len(leaves[i].head) = p}
WitnessedHead(c, p) == LET at == WitnessedAt(c, p) IN IF at = {} THEN <<>> ELSE leaves[Max(at)].head
ContinuesAt(row) ==
    row.position = 1 \/ WitnessedHead(row.of, row.position - 1) = LogHeadAt(row.head, row.position - 1)

LastHeadWins(row) ==   \* mutant: a position may be witnessed again
    IF ~row.head[row.position][2] THEN "submitter-key-unknown"
    ELSE IF WitnessedHead(row.of, row.position) = row.head THEN "already-witnessed"
    ELSE IF ContinuesAt(row) THEN "witnessed" ELSE "not-an-extension"

Extension(row) ==
    IF ~row.head[row.position][2] THEN "submitter-key-unknown"
    ELSE IF WitnessedAt(row.of, row.position) # {}
         THEN IF WitnessedHead(row.of, row.position) = row.head
              THEN "already-witnessed" ELSE "equivocation"
    ELSE IF ContinuesAt(row) THEN "witnessed" ELSE "not-an-extension"

(* A row of a blocked conversation is passed over. *)
SkipRow(t) ==
    /\ AtRow(t) /\ Row(t).of \in submission[t].blocked
    /\ submission' = NextRow(t)
    /\ UNCHANGED <<head, signingKey, registered, leaves, receipts, issued, gossip, trouble>>

(* A row is submitted: witnessed, its receipt is to be stored; refused, it blocks its conversation; and an
   answer that is lost ends the pass. *)
Blocks(t, result) == IF result = "witnessed" THEN {} ELSE {Row(t).of}

SubmitRow(t) ==
    LET result == Extension(Row(t))
    IN /\ AtRow(t) /\ Row(t).of \notin submission[t].blocked
       /\ leaves' = IF result = "witnessed" THEN Append(leaves, [of |-> Row(t).of, head |-> Row(t).head])
                    ELSE leaves
       /\ \/ /\ submission' = IF result = "witnessed" THEN [submission EXCEPT ![t].at = "store"]
                              ELSE [NextRow(t) EXCEPT ![t].blocked = @ \cup Blocks(t, result)]
             /\ trouble' = trouble \cup (IF result = "equivocation" THEN {result} ELSE {})
          \/ /\ "loss" \in Incidents /\ "lost" \notin trouble
             /\ submission' = [submission EXCEPT ![t] = NoSubmission]
             /\ trouble' = trouble \cup {"lost"}
       /\ UNCHANGED <<head, signingKey, registered, receipts, issued, gossip>>

StoreRow(t) ==
    /\ submission[t].at = "store"
    /\ receipts' = receipts \cup {Row(t)}
    /\ issued' = issued \cup {Row(t)}
    /\ submission' = NextRow(t)
    /\ UNCHANGED <<head, signingKey, registered, leaves, gossip, trouble>>

EndRows(t) ==
    /\ submission[t].at = "row" /\ submission[t].rows = <<>>
    /\ submission' = [submission EXCEPT ![t] = NoSubmission]
    /\ UNCHANGED <<head, signingKey, registered, leaves, receipts, issued, gossip, trouble>>

(* reportGossip: a head a client holds a receipt for, against the witness's own. *)
ReportGossip(r) ==
    /\ gossip' = IF WitnessedHead(r.of, r.position) = r.head THEN "consistent" ELSE "split"
    /\ UNCHANGED <<head, signingKey, registered, leaves, receipts, submission, issued, trouble>>

WitnessLogNext ==
    \/ \E c \in Logs : AppendEntry(c) \/ RestoreLog(c)
    \/ RotateKey \/ RegisterKey
    \/ \E t \in Submitters : SelectRows(t) \/ SkipRow(t) \/ SubmitRow(t) \/ StoreRow(t) \/ EndRows(t)
    \/ \E r \in issued : ReportGossip(r)

WitnessLogSpec == WitnessLogInit /\ [][WitnessLogNext]_witnessLogVars

(* The keeper's loop starts a pass after every pass, a pass runs to its end, and a rotated key is registered. *)
FairWitnessLogSpec ==
    /\ WitnessLogSpec
    /\ WF_witnessLogVars(RegisterKey)
    /\ \A t \in Submitters :
         WF_witnessLogVars(SelectRows(t) \/ SkipRow(t) \/ SubmitRow(t) \/ StoreRow(t) \/ EndRows(t))

-----------------------------------------------------------------------------
(* A receipt a client was once shown is never contradicted by the witness, whatever the delivery database went
   through since: two distinct heads are never witnessed at one position (extendDelivery, reportGossip). *)
ReceiptsStand ==
    /\ gossip # "split"
    /\ \A r \in issued : WitnessedHead(r.of, r.position) = r.head

(* The equivocation alarm is raised only when the delivery log really came to hold another head at a witnessed
   position: lost answers, repeated submissions and overlapping passes never raise it (extendDelivery). *)
AlarmForCause == "equivocation" \in trouble => "restored" \in trouble

(* The receipts of a conversation have no gap: a position without one holds back every later one, in passes
   that overlap and after an answer is lost (runDeliverySubmissionPass's blocked conversations). *)
ReceiptsWithoutGap ==
    \A r \in receipts : \A p \in 1..r.position - 1 : \E q \in receipts : q.of = r.of /\ q.position = p

(* A head the witness holds and the delivery side has no receipt for is being stored by a pass, unless an answer
   was lost or the database restored (the receipt's INSERT follows every witnessed answer). *)
ReceiptFollows ==
    trouble \cap {"lost", "restored"} = {} =>
      \A i \in DOMAIN leaves : LET c == leaves[i].of IN LET p == Len(leaves[i].head) IN
        p \in Unreceipted(c) => \E t \in Submitters : submission[t].at = "store" /\ Row(t).of = c
                                                       /\ Row(t).position = p

(* Every checkpoint of the witness is provably a prefix of every later one, and every leaf provably in it, by
   the proofs it serves and the algorithms that verify them (consistencyProof, inclusionProof). *)
ProofsVerify ==
    LET n == Len(leaves) IN
    /\ \A m \in 1..n : VerifyConsistency(m, MerkleRoot(Hashes(m)), n, MerkleRoot(Hashes(n)), ProveConsistency(m, n))
    /\ \A i \in 1..n : VerifyInclusion(Hashes(n)[i], i - 1, n, ProveInclusion(i - 1, n), MerkleRoot(Hashes(n)))

(* No served proof connects the tree to a history that differs from it in a leaf (verifyConsistency). *)
ForksRefused ==
    LET n == Len(leaves) IN
    \A m \in 1..n : \A i \in 1..m :
      ~VerifyConsistency(m, MerkleRoot([Hashes(m) EXCEPT ![i] = LeafHash([@[2] EXCEPT !.head = <<>>])]), n, MerkleRoot(Hashes(n)),
                         ProveConsistency(m, n))

(* Every signed head is witnessed in the end, and its receipt stored ("The service therefore submits every
   signed head to the independent append-log witness", service-api.md). *)
EveryHeadReceipted ==
    \A c \in Logs : \A p \in 1..MaxPosition :
      (Len(head[c]) >= p) ~> (\E r \in receipts : r.of = c /\ r.position = p)

(* The witness stands by its receipts, raises no false alarm, and proves exactly the prefixes of its tree,
   through lost answers, overlapping passes, key rotation and a restored database (witnessCore, merkleLog,
   submitter). *)
WitnessSafe ==
    /\ ReceiptsStand
    /\ AlarmForCause
    /\ ReceiptsWithoutGap
    /\ ReceiptFollows
    /\ ProofsVerify
    /\ ForksRefused
=============================================================================
