------------------------ MODULE PolicyWitnessProofs ------------------------
(***************************************************************************)
(* The policy log, the anchors and the witness agree for every number of   *)
(* conversations, overlapping passes, heads and losses, every batch size   *)
(* and every freshness period.                                             *)
(*                                                                         *)
(* PolicyLogSafe is not inductive.  What it rests on:                      *)
(*   IssuingFits   a transaction that has counted the leaves holds a size  *)
(*                 not beyond the next one, so the primary key leaves it   *)
(*                 exactly the next one or an error                        *)
(*   TodoClosed    below a checkpoint a pass has still to submit, each is  *)
(*                 also to be submitted by it, or already marked           *)
(*   HoldsLast     the receipt on its way is the one of the chain's end,   *)
(*                 and one pass has it                                     *)
(*   RenewalHeld   while a pass's renewal holds the conversation's row the *)
(*                 head it replaces stays verified                         *)
(***************************************************************************)
EXTENDS PolicyWitness, FiniteSetTheorems, TLAPS

IssuingFits ==
  \A c \in Conversations :
    issuing[c] # NoTransaction => issuing[c].size \in 1..(Len(checkpoints) + 1)

AnchorsKnown == \A c \in Conversations : anchors[c].head <= Len(checkpoints)

TodoClosed ==
  \A p \in Passes : \A k \in passes[p].todo :
    /\ k <= Len(checkpoints)
    /\ \A j \in 1..k : j \in passes[p].todo \/ j \in marked

HoldsLast ==
  \A p \in Passes : passes[p].at = "store" =>
    /\ chain # <<>> /\ passes[p].holds = Len(chain)
    /\ marked = 1..(Len(chain) - 1)
    /\ \A q \in Passes : passes[q].at = "store" => q = p

RenewalHeld ==
  \A c \in Conversations :
    issuing[c].by \in Passes => anchors[c].witnessed /\ c \notin pending

PassRecords == [at : {"idle", "renew", "submit", "store"}, due : SUBSET Conversations,
                todo : SUBSET Heads, holds : 0..MaxHeads]

LogInv ==
  /\ TypeOK /\ PolicyLogSafe
  /\ IssuingFits /\ AnchorsKnown /\ TodoClosed /\ HoldsLast /\ RenewalHeld

USE PolicyWitnessAssumption

\* A pass that is not running, or has yet to select or submit anything, is well formed.
LEMMA IdleRecord ==
  /\ IdlePass \in PassRecords
  /\ \A S \in SUBSET Conversations : [IdlePass EXCEPT !.at = "renew", !.due = S] \in PassRecords
  /\ \A T \in SUBSET Heads : [IdlePass EXCEPT !.at = "submit", !.todo = T] \in PassRecords
<1>1. IdlePass \in PassRecords BY DEF IdlePass, PassRecords
<1>2. \A S \in SUBSET Conversations : [IdlePass EXCEPT !.at = "renew", !.due = S] \in PassRecords
  BY <1>1, Zenon DEF PassRecords
<1>3. \A T \in SUBSET Heads : [IdlePass EXCEPT !.at = "submit", !.todo = T] \in PassRecords
  BY <1>1, Zenon DEF PassRecords
<1> QED BY <1>1, <1>2, <1>3, Zenon

-----------------------------------------------------------------------------
\* The log's newest checkpoint is its last (readLatestCheckpoint of appendAuthority).
LEMMA NewestIsLast ==
  ASSUME TypeOK, LogLinear
  PROVE  Newest = Len(checkpoints)
<1>1. CASE checkpoints = <<>> BY <1>1, Zenon DEF Newest
<1>2. CASE checkpoints # <<>>
  <2> DEFINE Top(k) == \A l \in DOMAIN checkpoints : checkpoints[l].size <= checkpoints[k].size
  <2>1. Len(checkpoints) \in DOMAIN checkpoints /\ DOMAIN checkpoints = 1..Len(checkpoints)
    BY <1>2 DEF TypeOK
  <2>2. Top(Len(checkpoints)) BY <2>1 DEF LogLinear
  <2>3. \A k \in DOMAIN checkpoints : Top(k) => k = Len(checkpoints)
    BY <2>1, <2>2 DEF LogLinear
  <2> HIDE DEF Top
  <2>4. (CHOOSE k \in DOMAIN checkpoints : Top(k)) = Len(checkpoints)
    BY <2>1, <2>2, <2>3, Zenon
  <2> QED BY <1>2, <2>4, Zenon DEF Newest, Top
<1> QED BY <1>1, <1>2, Zenon

\* The selection of runPolicyWitnessSync leaves no gap: what is below a selected
\* checkpoint is selected too or carries its receipt.
LEMMA BatchClosed ==
  ASSUME TypeOK, LogLinear, NEW k \in Batch, NEW j \in 1..k
  PROVE  k \in DOMAIN checkpoints /\ (j \in Batch \/ j \in marked)
<1>1. k \in DOMAIN checkpoints /\ DOMAIN checkpoints = 1..Len(checkpoints)
  BY DEF Batch, Unmarked, TypeOK
<1>2. SUFFICES ASSUME j \notin marked PROVE j \in Batch
  BY <1>1, Zenon
<1> DEFINE Below(n) == {l \in Unmarked : checkpoints[l].size < checkpoints[n].size}
<1>3. j \in Unmarked BY <1>1, <1>2 DEF Unmarked
<1>4. Below(j) \subseteq Below(k) BY <1>1, <1>3 DEF Unmarked, LogLinear
<1>5. IsFiniteSet(Below(k))
  <2>1. IsFiniteSet(1..Len(checkpoints)) BY FS_Interval DEF TypeOK
  <2> QED BY <1>1, <2>1, FS_Subset, Zenon DEF Unmarked
<1>6. Cardinality(Below(j)) <= Cardinality(Below(k))
  BY <1>4, <1>5, FS_Subset, Zenon
<1>7. Cardinality(Below(k)) < BatchSize BY Zenon DEF Batch
<1>8. Cardinality(Below(j)) \in Nat /\ Cardinality(Below(k)) \in Nat
  BY <1>4, <1>5, FS_Subset, FS_CardinalityType, Zenon
<1> QED BY <1>3, <1>6, <1>7, <1>8 DEF Batch

-----------------------------------------------------------------------------
\* The empty tables satisfy the invariant.
LEMMA InitInv == Init => LogInv
<1> SUFFICES ASSUME Init PROVE LogInv BY Zenon
<1> USE DEF Init
<1>1. TypeOK
  BY DEF TypeOK, NoHead, NoTransaction, IdlePass, Heads, Checkpoints
<1>2. PolicyLogSafe
  BY DEF PolicyLogSafe, LogLinear, WitnessAgrees, VerifiedIsCosigned, NoHead
<1>3. IssuingFits /\ AnchorsKnown /\ RenewalHeld
  BY DEF IssuingFits, AnchorsKnown, RenewalHeld, NoTransaction, NoHead
<1>4. TodoClosed /\ HoldsLast
  BY Zenon DEF TodoClosed, HoldsLast, IdlePass
<1> QED BY <1>1, <1>2, <1>3, <1>4, Zenon DEF LogInv

-----------------------------------------------------------------------------
\* A step that touches none of the rows the log's agreement is about.
LEMMA SameLog ==
  ASSUME LogInv, UNCHANGED <<checkpoints, marked, anchors, chain>>
  PROVE  PolicyLogSafe' /\ AnchorsKnown'
BY Zenon DEF LogInv, PolicyLogSafe, LogLinear, WitnessAgrees, VerifiedIsCosigned, AnchorsKnown

\* Whoever begins an issue has counted the leaves there are.
LEMMA CountFits ==
  ASSUME LogInv, NEW c \in Conversations, NEW by \in Passes \cup {Member},
         CountLeaves(c, by), UNCHANGED checkpoints
  PROVE  /\ IssuingFits'
         /\ issuing' \in [Conversations -> [size : 0..MaxHeads, by : Passes \cup {Member, None}]]
<1>1. Len(checkpoints) \in Nat /\ Len(checkpoints) < MaxHeads
  BY DEF LogInv, TypeOK, CountLeaves
<1>2. issuing \in [Conversations -> [size : 0..MaxHeads, by : Passes \cup {Member, None}]]
  BY Zenon DEF LogInv, TypeOK
<1>3. issuing' = [issuing EXCEPT ![c] = [size |-> Len(checkpoints) + 1, by |-> by]]
  BY Zenon DEF CountLeaves
<1>4. [size |-> Len(checkpoints) + 1, by |-> by] \in [size : 0..MaxHeads, by : Passes \cup {Member, None}]
  BY <1>1
<1>5. IssuingFits'
  <2> SUFFICES ASSUME NEW d \in Conversations, issuing'[d] # NoTransaction
               PROVE  issuing'[d].size \in 1..(Len(checkpoints) + 1)
    BY Zenon DEF IssuingFits
  <2>1. CASE d = c BY <2>1, <1>1, <1>2, <1>3
  <2>2. CASE d # c BY <2>2, <1>2, <1>3, Zenon DEF LogInv, IssuingFits
  <2> QED BY <2>1, <2>2, Zenon
<1> QED BY <1>2, <1>3, <1>4, <1>5, Zenon

-----------------------------------------------------------------------------
\* Intents and lost provisions: the conversation's row is not being
\* issued on when an intent closes it (createIntent takes the same lock).
LEMMA IntentStep ==
  ASSUME LogInv, NEW c \in Conversations,
         CreateIntent(c) \/ CancelIntent(c) \/ LoseProvision(c)
  PROVE  LogInv'
<1> USE DEF LogInv, CreateIntent, CancelIntent, LoseProvision
<1>1. UNCHANGED <<checkpoints, marked, anchors, issuing, chain, passes, alarm, losses>>
  BY Zenon
<1>2. TypeOK' BY <1>1, Zenon DEF TypeOK
<1>3. PolicyLogSafe' /\ AnchorsKnown' BY <1>1, SameLog, Zenon
<1>4. IssuingFits' /\ TodoClosed' /\ HoldsLast'
  BY <1>1, Zenon DEF IssuingFits, TodoClosed, HoldsLast
<1>5. RenewalHeld' BY <1>1 DEF RenewalHeld, NoTransaction
<1> QED BY <1>2, <1>3, <1>4, <1>5, Zenon

\* BeginIssue counts the leaves for a member's transaction.
LEMMA BeginIssueStep ==
  ASSUME LogInv, NEW c \in Conversations, BeginIssue(c)
  PROVE  LogInv'
<1>1. UNCHANGED <<clock, pending, broken, checkpoints, marked, anchors, chain, passes, alarm, losses>>
  BY Zenon DEF BeginIssue
<1>2. CountLeaves(c, Member) BY Zenon DEF BeginIssue
<1>3. IssuingFits' /\ issuing' \in [Conversations -> [size : 0..MaxHeads, by : Passes \cup {Member, None}]]
  BY <1>1, <1>2, CountFits, Zenon
<1>4. TypeOK' BY <1>1, <1>3, Zenon DEF LogInv, TypeOK
<1>5. PolicyLogSafe' /\ AnchorsKnown' BY <1>1, SameLog, Zenon
<1>6. TodoClosed' /\ HoldsLast' BY <1>1, Zenon DEF LogInv, TodoClosed, HoldsLast
<1>7. RenewalHeld'
  BY <1>1, <1>2, Zenon DEF LogInv, TypeOK, RenewalHeld, CountLeaves, Member
<1> QED BY <1>3, <1>4, <1>5, <1>6, <1>7, Zenon DEF LogInv

\* The commit extends the log by the next leaf: an index counted before another
\* leaf was inserted is taken.
LEMMA CommitIssueStep ==
  ASSUME LogInv, NEW c \in Conversations, CommitIssue(c)
  PROVE  LogInv'
<1> DEFINE n == Len(checkpoints)
<1> DEFINE leaf == [size |-> issuing[c].size, conversation |-> c, previous |-> Newest]
<1>1. UNCHANGED <<clock, broken, marked, chain, passes, alarm, losses>> BY Zenon DEF CommitIssue
<1>2. checkpoints \in Seq(Checkpoints) /\ n \in Nat /\ n < MaxHeads /\ DOMAIN checkpoints = 1..n
  BY DEF LogInv, TypeOK, CommitIssue
<1>3. issuing[c].size = n + 1
  <2>1. issuing[c].size \in 1..(n + 1) BY Zenon DEF LogInv, IssuingFits, CommitIssue
  <2>2. \A k \in 1..n : issuing[c].size # k
    BY <1>2, Zenon DEF CommitIssue, LeafFree, LogInv, PolicyLogSafe, LogLinear
  <2> QED BY <1>2, <2>1, <2>2
<1>4. Newest = n BY NewestIsLast, Zenon DEF LogInv, PolicyLogSafe
<1>5. leaf \in Checkpoints BY <1>2, <1>3, <1>4 DEF Checkpoints, Heads
<1>6. checkpoints' = Append(checkpoints, leaf) BY Zenon DEF CommitIssue
<1>7. /\ checkpoints' \in Seq(Checkpoints) /\ Len(checkpoints') = n + 1
      /\ \A k \in 1..n : checkpoints'[k] = checkpoints[k]
      /\ checkpoints'[n + 1] = leaf
  BY <1>2, <1>5, <1>6
<1> HIDE DEF leaf
<1>8. anchors' = [anchors EXCEPT ![c] = [head |-> n + 1, witnessed |-> FALSE,
                                         expires |-> clock + HeadTtl]]
  BY Zenon DEF CommitIssue
<1>9. issuing' = [issuing EXCEPT ![c] = NoTransaction] /\ pending' \subseteq pending
  BY Zenon DEF CommitIssue
<1> HIDE DEF n
<1>10. TypeOK'
  <2>1. [head |-> n + 1, witnessed |-> FALSE, expires |-> clock + HeadTtl]
          \in [head : 0..MaxHeads, witnessed : BOOLEAN, expires : Nat]
    BY <1>2 DEF LogInv, TypeOK
  <2>2. anchors' \in [Conversations -> [head : 0..MaxHeads, witnessed : BOOLEAN, expires : Nat]]
    BY <1>8, <2>1, Zenon DEF LogInv, TypeOK
  <2>3. issuing' \in [Conversations -> [size : 0..MaxHeads, by : Passes \cup {Member, None}]]
    BY <1>9 DEF LogInv, TypeOK, NoTransaction
  <2>4. Len(checkpoints') <= MaxHeads BY <1>2, <1>7
  <2> QED BY <1>1, <1>7, <1>9, <2>2, <2>3, <2>4, Zenon DEF LogInv, TypeOK
<1>11. LogLinear'
  BY <1>2, <1>3, <1>4, <1>7 DEF LogInv, PolicyLogSafe, LogLinear, leaf, n
<1>12. WitnessAgrees' BY <1>1, <1>2, <1>7 DEF LogInv, PolicyLogSafe, WitnessAgrees, TypeOK, n
<1>13. VerifiedIsCosigned'
  BY <1>1, <1>8, Zenon DEF LogInv, PolicyLogSafe, VerifiedIsCosigned, TypeOK
<1>14. IssuingFits'
  BY <1>2, <1>7, <1>9 DEF LogInv, IssuingFits, TypeOK, n
<1>15. AnchorsKnown' BY <1>2, <1>7, <1>8 DEF LogInv, AnchorsKnown, TypeOK, n
<1>16. TodoClosed'
  <2> SUFFICES ASSUME NEW p \in Passes, NEW k \in passes[p].todo
               PROVE  k <= Len(checkpoints') /\ \A j \in 1..k : j \in passes[p].todo \/ j \in marked
    BY <1>1, Zenon DEF TodoClosed
  <2>1. k \in Heads BY Zenon DEF LogInv, TypeOK
  <2>2. k <= n /\ \A j \in 1..k : j \in passes[p].todo \/ j \in marked
    BY Zenon DEF LogInv, TodoClosed, n
  <2> QED BY <1>2, <1>7, <2>1, <2>2 DEF Heads
<1>17. HoldsLast' BY <1>1, Zenon DEF LogInv, HoldsLast
<1>18. RenewalHeld'
  BY <1>8, <1>9, Zenon DEF LogInv, RenewalHeld, TypeOK, NoTransaction
<1> QED BY <1>10, <1>11, <1>12, <1>13, <1>14, <1>15, <1>16, <1>17, <1>18, Zenon
           DEF LogInv, PolicyLogSafe

\* A rolled-back issue, or a pass that dies with one open, leaves no trace.
LEMMA RollbackStep ==
  ASSUME LogInv,
         UNCHANGED <<clock, pending, broken, checkpoints, marked, anchors, chain, alarm>>,
         losses' \in 0..MaxLosses,
         passes' = [q \in Passes |-> passes'[q]],
         \A q \in Passes : passes'[q] \in {passes[q], IdlePass},
         issuing' = [c \in Conversations |-> issuing'[c]],
         \A c \in Conversations : issuing'[c] \in {issuing[c], NoTransaction}
  PROVE  LogInv'
<1>1. passes' \in [Passes -> PassRecords]
  <2>1. \A q \in Passes : passes[q] \in PassRecords BY Zenon DEF LogInv, TypeOK, PassRecords
  <2>2. \A q \in Passes : passes'[q] \in PassRecords BY <2>1, IdleRecord, Zenon
  <2> QED BY <2>2, Zenon
<1>2. issuing' \in [Conversations -> [size : 0..MaxHeads, by : Passes \cup {Member, None}]]
  BY DEF LogInv, TypeOK, NoTransaction
<1>3. TypeOK' BY <1>1, <1>2, Zenon DEF LogInv, TypeOK, PassRecords
<1>4. PolicyLogSafe' /\ AnchorsKnown' BY SameLog, Zenon
<1>5. IssuingFits' /\ RenewalHeld'
  BY DEF LogInv, IssuingFits, RenewalHeld, NoTransaction
<1>6. TodoClosed' BY DEF LogInv, TodoClosed, IdlePass
<1>7. HoldsLast' BY DEF LogInv, HoldsLast, IdlePass
<1> QED BY <1>3, <1>4, <1>5, <1>6, <1>7, Zenon DEF LogInv

-----------------------------------------------------------------------------
\* A pass that moves on without submitting: what it has to submit is closed when it
\* selects, and stays so.
LEMMA PassMoves ==
  ASSUME LogInv,
         UNCHANGED <<clock, pending, broken, checkpoints, marked, anchors, chain, losses>>,
         alarm' \in 0..MaxHeads,
         NEW p \in Passes, NEW r \in PassRecords, passes' = [passes EXCEPT ![p] = r],
         r.at # "store",
         \A k \in r.todo : k <= Len(checkpoints) /\ \A j \in 1..k : j \in r.todo \/ j \in marked,
         issuing' \in [Conversations -> [size : 0..MaxHeads, by : Passes \cup {Member, None}]],
         IssuingFits', RenewalHeld'
  PROVE  LogInv'
<1>1. passes \in [Passes -> PassRecords] BY Zenon DEF LogInv, TypeOK, PassRecords
<1>2. TypeOK'
  <2>1. passes' \in [Passes -> PassRecords] BY <1>1, Zenon
  <2> QED BY <2>1, Zenon DEF LogInv, TypeOK, PassRecords
<1>3. PolicyLogSafe' /\ AnchorsKnown' BY SameLog, Zenon
<1>4. \A q \in Passes : passes'[q] = IF q = p THEN r ELSE passes[q] BY <1>1, Zenon
<1>5. TodoClosed' BY <1>4, Zenon DEF LogInv, TodoClosed
<1>6. HoldsLast' BY <1>4 DEF LogInv, HoldsLast
<1> QED BY <1>2, <1>3, <1>5, <1>6, Zenon DEF LogInv

\* The pass's renewals: they hold only heads that are verified and open.
LEMMA RenewStep ==
  ASSUME LogInv, NEW p \in Passes, NEW c \in Conversations, RenewHead(p, c) \/ SkipHead(p, c)
  PROVE  LogInv'
<1> DEFINE r == [passes[p] EXCEPT !.due = passes[p].due \ {c}]
<1>1. r \in PassRecords /\ r.todo = passes[p].todo /\ r.at = passes[p].at /\ r.at # "store"
  <2>1. passes[p] \in PassRecords /\ passes[p].at = "renew"
    BY Zenon DEF LogInv, TypeOK, PassRecords, RenewHead, SkipHead, Renewing
  <2> QED BY <2>1, Zenon DEF PassRecords
<1>2. /\ UNCHANGED <<clock, pending, broken, checkpoints, marked, anchors, chain, alarm, losses>>
      /\ passes' = [passes EXCEPT ![p] = r]
  BY Zenon DEF RenewHead, SkipHead, Skipped, serviceVars
<1>3. \A k \in r.todo : k <= Len(checkpoints) /\ \A j \in 1..k : j \in r.todo \/ j \in marked
  BY <1>1, Zenon DEF LogInv, TodoClosed
<1>4. alarm' \in 0..MaxHeads BY <1>2, Zenon DEF LogInv, TypeOK
<1> HIDE DEF r
<1>5. CASE RenewHead(p, c)
  <2>1. CountLeaves(c, p) /\ Due(c) BY <1>5, Zenon DEF RenewHead, Renewable
  <2>2. /\ IssuingFits'
        /\ issuing' \in [Conversations -> [size : 0..MaxHeads, by : Passes \cup {Member, None}]]
    BY <1>2, <2>1, CountFits, Zenon
  <2>3. RenewalHeld'
    BY <1>2, <2>1, Zenon DEF LogInv, TypeOK, RenewalHeld, CountLeaves, Due
  <2> QED BY <1>1, <1>2, <1>3, <1>4, <2>2, <2>3, PassMoves, Zenon
<1>6. CASE SkipHead(p, c)
  <2>1. issuing' = issuing BY <1>6, Zenon DEF SkipHead, serviceVars
  <2>2. /\ IssuingFits' /\ RenewalHeld'
        /\ issuing' \in [Conversations -> [size : 0..MaxHeads, by : Passes \cup {Member, None}]]
    BY <1>2, <2>1, Zenon DEF LogInv, TypeOK, IssuingFits, RenewalHeld
  <2> QED BY <1>1, <1>2, <1>3, <1>4, <2>2, PassMoves, Zenon
<1> QED BY <1>5, <1>6, Zenon

\* Starting, selecting, ending and being refused leave the issues alone.
LEMMA PassStepsQuiet ==
  ASSUME LogInv, NEW p \in Passes, NEW k,
         \/ StartPass(p) \/ SelectCheckpoints(p) \/ EndPass(p)
         \/ k \in Heads /\ SubmitRefused(p, k)
  PROVE  LogInv'
<1>1. UNCHANGED <<clock, pending, broken, checkpoints, marked, anchors, issuing, chain, losses>>
  BY Zenon DEF StartPass, SelectCheckpoints, EndPass, SubmitRefused, serviceVars
<1>2. alarm' \in 0..MaxHeads
  <2>1. alarm' = alarm \/ (k \in Heads /\ alarm' = k)
    BY Zenon DEF StartPass, SelectCheckpoints, EndPass, SubmitRefused
  <2>2. alarm \in 0..MaxHeads BY Zenon DEF LogInv, TypeOK
  <2> QED BY <2>1, <2>2 DEF Heads
<1>3. /\ IssuingFits' /\ RenewalHeld'
      /\ issuing' \in [Conversations -> [size : 0..MaxHeads, by : Passes \cup {Member, None}]]
  BY <1>1, Zenon DEF LogInv, TypeOK, IssuingFits, RenewalHeld
<1>4. CASE StartPass(p)
  <2>1. PICK S \in SUBSET Conversations :
          passes' = [passes EXCEPT ![p] = [IdlePass EXCEPT !.at = "renew", !.due = S]]
    BY <1>4, Zenon DEF StartPass
  <2> DEFINE r == [IdlePass EXCEPT !.at = "renew", !.due = S]
  <2>2. r \in PassRecords /\ r.at # "store" /\ r.todo = {} BY IdleRecord, Zenon DEF IdlePass
  <2> HIDE DEF r
  <2> QED BY <1>1, <1>2, <1>3, <2>1, <2>2, PassMoves, Zenon DEF r
<1>5. CASE SelectCheckpoints(p)
  <2> DEFINE r == [IdlePass EXCEPT !.at = "submit", !.todo = Batch]
  <2>1. Batch \subseteq Heads BY DEF Batch, Unmarked, Heads, LogInv, TypeOK
  <2>2. r \in PassRecords /\ r.at # "store" /\ r.todo = Batch
    BY <2>1, IdleRecord, Zenon DEF IdlePass
  <2>3. \A l \in Batch : l <= Len(checkpoints) /\ \A j \in 1..l : j \in Batch \/ j \in marked
    <3> SUFFICES ASSUME NEW l \in Batch
                 PROVE  l <= Len(checkpoints) /\ \A j \in 1..l : j \in Batch \/ j \in marked
      BY Zenon
    <3>1. l \in 1..Len(checkpoints) BY DEF Batch, Unmarked, LogInv, TypeOK
    <3> QED BY <3>1, BatchClosed DEF LogInv, PolicyLogSafe
  <2>4. passes' = [passes EXCEPT ![p] = r] BY <1>5, Zenon DEF SelectCheckpoints
  <2> HIDE DEF r
  <2> QED BY <1>1, <1>2, <1>3, <2>2, <2>3, <2>4, PassMoves, Zenon
<1>6. CASE EndPass(p) \/ SubmitRefused(p, k)
  <2>1. passes' = [passes EXCEPT ![p] = IdlePass] BY <1>6, Zenon DEF EndPass, SubmitRefused
  <2>2. IdlePass \in PassRecords /\ IdlePass.at # "store" /\ IdlePass.todo = {}
    BY IdleRecord, Zenon DEF IdlePass
  <2> QED BY <1>1, <1>2, <1>3, <2>1, <2>2, PassMoves, Zenon
<1> QED BY <1>4, <1>5, <1>6, Zenon

\* The witness cosigns: the smallest checkpoint a pass has to submit extends the chain
\* only when everything below it is marked.
LEMMA CosignStep ==
  ASSUME LogInv, NEW p \in Passes, NEW k \in Heads, NextToSubmit(p, k), Extends(k)
  PROVE  /\ k = Len(chain) + 1 /\ k <= Len(checkpoints)
         /\ marked = 1..Len(chain)
         /\ \A q \in Passes : passes[q].at # "store"
<1> USE DEF LogInv
<1>1. Len(chain) \in Nat /\ Len(checkpoints) \in Nat /\ DOMAIN checkpoints = 1..Len(checkpoints)
      /\ DOMAIN chain = 1..Len(chain)
  BY DEF TypeOK
<1>2. k \in 1..Len(checkpoints) /\ \A j \in 1..k : j \in passes[p].todo \/ j \in marked
  BY <1>1 DEF NextToSubmit, TodoClosed, Heads
<1>3. \A l \in passes[p].todo : l \in Heads /\ l <= Len(checkpoints)
  BY Zenon DEF TypeOK, TodoClosed
<1>4. \A l \in passes[p].todo : k <= l
  <2> SUFFICES ASSUME NEW l \in passes[p].todo PROVE k <= l BY Zenon
  <2>1. l \in 1..Len(checkpoints) BY <1>1, <1>3 DEF Heads
  <2>2. checkpoints[k].size = k /\ checkpoints[l].size = l
    BY <1>1, <1>2, <2>1, Zenon DEF PolicyLogSafe, LogLinear
  <2>3. checkpoints[k].size <= checkpoints[l].size BY Zenon DEF NextToSubmit
  <2> QED BY <2>2, <2>3, Zenon
<1>5. LastUpstream = Len(chain)
  BY <1>1 DEF LastUpstream, PolicyLogSafe, WitnessAgrees, TypeOK
<1>6. k = Len(chain) + 1
  <2>1. checkpoints[k].previous = k - 1 BY <1>1, <1>2, Zenon DEF PolicyLogSafe, LogLinear
  <2>2. LastUpstream = k - 1 BY <2>1, Zenon DEF Extends
  <2> QED BY <1>1, <1>2, <1>5, <2>2
<1>7. \A j \in 1..Len(chain) : j \in marked BY <1>1, <1>2, <1>4, <1>6
<1>8. marked = 1..Len(chain)
  <2>1. marked = 1..Len(chain) \/ (Len(chain) >= 1 /\ marked = 1..(Len(chain) - 1))
    BY <1>1 DEF PolicyLogSafe, WitnessAgrees, TypeOK
  <2> QED BY <1>1, <1>7, <2>1
<1>9. \A q \in Passes : passes[q].at # "store"
  <2> SUFFICES ASSUME NEW q \in Passes, passes[q].at = "store" PROVE FALSE BY Zenon
  <2>1. chain # <<>> /\ marked = 1..(Len(chain) - 1) BY Zenon DEF HoldsLast
  <2>2. Len(chain) >= 1 BY <1>1, <2>1 DEF TypeOK
  <2> QED BY <1>1, <1>8, <2>1, <2>2
<1> QED BY <1>2, <1>6, <1>8, <1>9

\* A submission: the chain grows by the next checkpoint, and the one pass that may
\* store the receipt has it, or it is lost.
LEMMA SubmitStep ==
  ASSUME LogInv, NEW p \in Passes, NEW k \in Heads,
         SubmitWitnessed(p, k) \/ SubmitLost(p, k)
  PROVE  LogInv'
<1>1. /\ k = Len(chain) + 1 /\ k <= Len(checkpoints)
      /\ marked = 1..Len(chain)
      /\ \A q \in Passes : passes[q].at # "store"
  BY CosignStep, Zenon DEF SubmitWitnessed, SubmitLost
<1>2. /\ chain' = Append(chain, k)
      /\ UNCHANGED <<clock, pending, broken, checkpoints, marked, anchors, issuing, alarm>>
  BY Zenon DEF SubmitWitnessed, SubmitLost, serviceVars
<1>3. chain \in Seq(Heads) /\ Len(chain) \in Nat /\ Len(checkpoints) \in Nat
  BY DEF LogInv, TypeOK
<1>4. /\ chain' \in Seq(Heads) /\ Len(chain') = k /\ chain' # <<>>
      /\ \A i \in 1..Len(chain) : chain'[i] = chain[i]
      /\ chain'[k] = k
  BY <1>1, <1>2, <1>3
<1> DEFINE r == [passes[p] EXCEPT !.at = "store", !.holds = k]
<1>5. passes[p] \in PassRecords /\ passes \in [Passes -> PassRecords]
  BY Zenon DEF LogInv, TypeOK, PassRecords
<1>6. k \in 0..MaxHeads BY DEF Heads
<1>7. r \in PassRecords BY <1>5, <1>6, Zenon DEF PassRecords
<1>8. r.at = "store" /\ r.holds = k /\ r.todo = passes[p].todo BY <1>5, Zenon DEF PassRecords
<1>9. passes' = [passes EXCEPT ![p] = r] \/ passes' = [passes EXCEPT ![p] = IdlePass]
  BY Zenon DEF SubmitWitnessed, SubmitLost
<1> HIDE DEF r
<1>10. losses' \in 0..MaxLosses BY DEF SubmitWitnessed, SubmitLost, LogInv, TypeOK
<1>11. TypeOK'
  <2>1. passes' \in [Passes -> PassRecords] BY <1>5, <1>7, <1>9, IdleRecord, Zenon
  <2> QED BY <1>2, <1>4, <1>10, <2>1, Zenon DEF LogInv, TypeOK, PassRecords
<1>12. LogLinear' BY <1>2, Zenon DEF LogInv, PolicyLogSafe, LogLinear
<1>13. WitnessAgrees'
  BY <1>1, <1>2, <1>3, <1>4 DEF LogInv, PolicyLogSafe, WitnessAgrees
<1>14. VerifiedIsCosigned'
  BY <1>1, <1>2, <1>3, <1>4 DEF LogInv, PolicyLogSafe, VerifiedIsCosigned
<1>15. IssuingFits' /\ AnchorsKnown' /\ RenewalHeld'
  BY <1>2, Zenon DEF LogInv, IssuingFits, AnchorsKnown, RenewalHeld
<1>16. TodoClosed'
  <2>1. \A q \in Passes : passes'[q].todo \in {passes[q].todo, {}}
    BY <1>5, <1>8, <1>9 DEF IdlePass
  <2> QED BY <1>2, <2>1, Zenon DEF LogInv, TodoClosed
<1>17. HoldsLast'
  <2>1. \A q \in Passes : passes'[q].at = "store" => q = p /\ passes'[q].holds = k
    BY <1>1, <1>5, <1>8, <1>9 DEF IdlePass
  <2>2. marked' = 1..(Len(chain') - 1) BY <1>1, <1>2, <1>3, <1>4
  <2> QED BY <1>4, <2>1, <2>2, Zenon DEF HoldsLast
<1> QED BY <1>11, <1>12, <1>13, <1>14, <1>15, <1>16, <1>17, Zenon DEF LogInv, PolicyLogSafe

\* The receipt marks the chain's end and opens the heads up to it.
LEMMA StoreStep ==
  ASSUME LogInv, NEW p \in Passes, StoreReceipt(p)
  PROVE  LogInv'
<1> DEFINE k == passes[p].holds
<1>1. /\ chain # <<>> /\ k = Len(chain)
      /\ marked = 1..(Len(chain) - 1)
      /\ \A q \in Passes : passes[q].at = "store" => q = p
  BY Zenon DEF LogInv, HoldsLast, StoreReceipt
<1>2. /\ marked' = marked \cup {k}
      /\ anchors' = [c \in Conversations |->
           IF Covers(k, c) THEN [anchors[c] EXCEPT !.witnessed = TRUE] ELSE anchors[c]]
      /\ passes' = [passes EXCEPT ![p] = [IdlePass EXCEPT !.at = "submit", !.todo = passes[p].todo \ {k}]]
      /\ UNCHANGED <<clock, pending, broken, checkpoints, issuing, chain, alarm, losses>>
  BY Zenon DEF StoreReceipt
<1> HIDE DEF k
<1>3. chain \in Seq(Heads) /\ Len(chain) \in Nat \ {0} /\ Len(checkpoints) \in Nat
      /\ Len(chain) <= Len(checkpoints) /\ Len(checkpoints) <= MaxHeads
  BY <1>1 DEF LogInv, TypeOK, PolicyLogSafe, WitnessAgrees
<1>4. marked' = 1..Len(chain) BY <1>1, <1>2, <1>3
<1>5. passes \in [Passes -> PassRecords] BY Zenon DEF LogInv, TypeOK, PassRecords
<1> DEFINE r == [IdlePass EXCEPT !.at = "submit", !.todo = passes[p].todo \ {k}]
<1>6. r \in PassRecords
  <2>1. passes[p].todo \ {k} \in SUBSET Heads BY <1>5, Zenon DEF PassRecords
  <2> QED BY <2>1, IdleRecord, Zenon
<1>7. r.at = "submit" /\ r.todo = passes[p].todo \ {k} BY Zenon DEF IdlePass
<1>8. passes' = [passes EXCEPT ![p] = r] BY <1>2, Zenon
<1> HIDE DEF r
<1>9. \A c \in Conversations :
        /\ anchors'[c] \in [head : 0..MaxHeads, witnessed : BOOLEAN, expires : Nat]
        /\ anchors'[c].head = anchors[c].head
        /\ anchors[c].witnessed => anchors'[c].witnessed
        /\ anchors'[c].witnessed => anchors[c].witnessed \/ Covers(k, c)
  <2> SUFFICES ASSUME NEW c \in Conversations
               PROVE  /\ anchors'[c] \in [head : 0..MaxHeads, witnessed : BOOLEAN, expires : Nat]
                      /\ anchors'[c].head = anchors[c].head
                      /\ anchors[c].witnessed => anchors'[c].witnessed
                      /\ anchors'[c].witnessed => anchors[c].witnessed \/ Covers(k, c)
    BY Zenon
  <2>1. anchors[c] \in [head : 0..MaxHeads, witnessed : BOOLEAN, expires : Nat]
    BY Zenon DEF LogInv, TypeOK
  <2>2. anchors'[c] = IF Covers(k, c) THEN [anchors[c] EXCEPT !.witnessed = TRUE] ELSE anchors[c]
    BY <1>2, Zenon
  <2> QED BY <2>1, <2>2, Zenon
<1>10. TypeOK'
  <2>1. anchors' \in [Conversations -> [head : 0..MaxHeads, witnessed : BOOLEAN, expires : Nat]]
    BY <1>2, <1>9, Zenon
  <2>2. passes' \in [Passes -> PassRecords] BY <1>5, <1>6, <1>8, Zenon
  <2>3. marked' \subseteq Heads BY <1>3, <1>4 DEF Heads
  <2> QED BY <1>2, <2>1, <2>2, <2>3, Zenon DEF LogInv, TypeOK, PassRecords
<1>11. LogLinear' /\ IssuingFits'
  BY <1>2, Zenon DEF LogInv, PolicyLogSafe, LogLinear, IssuingFits
<1>12. WitnessAgrees' BY <1>2, <1>4, Zenon DEF LogInv, PolicyLogSafe, WitnessAgrees
<1>13. VerifiedIsCosigned'
  <2> SUFFICES ASSUME NEW c \in Conversations, anchors'[c].witnessed
               PROVE  anchors'[c].head \in 1..Len(chain)
    BY <1>2, Zenon DEF VerifiedIsCosigned
  <2>1. CASE anchors[c].witnessed
    BY <2>1, <1>9, Zenon DEF LogInv, PolicyLogSafe, VerifiedIsCosigned
  <2>2. CASE Covers(k, c)
    <3>1. anchors[c].head \in 1..Len(checkpoints)
      BY <1>3, <2>2 DEF Covers, LogInv, TypeOK, AnchorsKnown
    <3>2. checkpoints[anchors[c].head].size = anchors[c].head /\ checkpoints[k].size = k
      BY <1>1, <1>3, <3>1 DEF LogInv, PolicyLogSafe, LogLinear, TypeOK
    <3> QED BY <1>1, <1>3, <1>9, <2>2, <3>1, <3>2 DEF Covers
  <2> QED BY <1>9, <2>1, <2>2, Zenon
<1>14. AnchorsKnown' /\ RenewalHeld'
  BY <1>2, <1>9, Zenon DEF LogInv, AnchorsKnown, RenewalHeld
<1>15. TodoClosed'
  <2> SUFFICES ASSUME NEW q \in Passes, NEW l \in passes'[q].todo
               PROVE  l <= Len(checkpoints) /\ \A j \in 1..l : j \in passes'[q].todo \/ j \in marked'
    BY <1>2, Zenon DEF TodoClosed
  <2>1. passes'[q].todo \in {passes[q].todo, passes[q].todo \ {k}} BY <1>5, <1>7, <1>8, Zenon
  <2> QED BY <1>2, <2>1, Zenon DEF LogInv, TodoClosed
<1>16. HoldsLast' BY <1>1, <1>5, <1>7, <1>8, Zenon DEF HoldsLast
<1> QED BY <1>10, <1>11, <1>12, <1>13, <1>14, <1>15, <1>16, Zenon DEF LogInv, PolicyLogSafe

-----------------------------------------------------------------------------
\* Every step preserves the invariant.
LEMMA NextInv == LogInv /\ [Next]_vars => LogInv'
<1> SUFFICES ASSUME LogInv, [Next]_vars PROVE LogInv' BY Zenon
<1>1. ASSUME NEW c \in Conversations, CreateIntent(c) \/ CancelIntent(c) \/ LoseProvision(c)
      PROVE  LogInv'
  BY <1>1, IntentStep, Zenon
<1>2. CASE Tick
  <2>1. UNCHANGED <<pending, checkpoints, marked, anchors, issuing, chain, passes>>
    BY <1>2, Zenon DEF Tick, serviceVars
  <2>2. TypeOK' BY <1>2, <2>1 DEF Tick, serviceVars, LogInv, TypeOK
  <2>3. PolicyLogSafe' /\ AnchorsKnown' BY <2>1, SameLog, Zenon
  <2>4. IssuingFits' /\ TodoClosed' /\ HoldsLast' /\ RenewalHeld'
    BY <2>1, Zenon DEF LogInv, IssuingFits, TodoClosed, HoldsLast, RenewalHeld
  <2> QED BY <2>2, <2>3, <2>4, Zenon DEF LogInv
<1>3. ASSUME NEW c \in Conversations, BeginIssue(c) PROVE LogInv' BY <1>3, BeginIssueStep, Zenon
<1>4. ASSUME NEW c \in Conversations, CommitIssue(c) PROVE LogInv' BY <1>4, CommitIssueStep
<1>5. ASSUME NEW c \in Conversations, AbortIssue(c) \/ LoseIssue(c) PROVE LogInv'
  <2>1. /\ UNCHANGED <<clock, pending, broken, checkpoints, marked, anchors, chain, passes, alarm>>
        /\ issuing' = [issuing EXCEPT ![c] = NoTransaction]
    BY <1>5, Zenon DEF AbortIssue, LoseIssue
  <2>2. losses' \in 0..MaxLosses BY <1>5 DEF AbortIssue, LoseIssue, LogInv, TypeOK
  <2>3. /\ issuing' = [d \in Conversations |-> issuing'[d]]
        /\ \A d \in Conversations : issuing'[d] \in {issuing[d], NoTransaction}
        /\ passes' = [q \in Passes |-> passes'[q]]
    BY <2>1, Zenon DEF LogInv, TypeOK
  <2> QED BY <2>1, <2>2, <2>3, RollbackStep, Zenon
<1>6. ASSUME NEW p \in Passes, LosePass(p) PROVE LogInv'
  <2>1. /\ UNCHANGED <<clock, pending, broken, checkpoints, marked, anchors, chain, alarm>>
        /\ passes' = [passes EXCEPT ![p] = IdlePass]
        /\ issuing' = [c \in Conversations |-> IF issuing[c].by = p THEN NoTransaction ELSE issuing[c]]
    BY <1>6, Zenon DEF LosePass
  <2>2. losses' \in 0..MaxLosses BY <1>6 DEF LosePass, LogInv, TypeOK
  <2>3. /\ passes' = [q \in Passes |-> passes'[q]]
        /\ \A q \in Passes : passes'[q] \in {passes[q], IdlePass}
    BY <2>1, Zenon DEF LogInv, TypeOK
  <2>4. /\ issuing' = [c \in Conversations |-> issuing'[c]]
        /\ \A c \in Conversations : issuing'[c] \in {issuing[c], NoTransaction}
    BY <2>1, Zenon
  <2> QED BY <2>1, <2>2, <2>3, <2>4, RollbackStep, Zenon
<1>7. ASSUME NEW p \in Passes, PassStep(p) PROVE LogInv'
  <2>1. CASE StartPass(p) \/ SelectCheckpoints(p) \/ EndPass(p) BY <2>1, PassStepsQuiet, Zenon
  <2>2. ASSUME NEW k \in Heads, SubmitRefused(p, k) PROVE LogInv' BY <2>2, PassStepsQuiet, Zenon
  <2>3. ASSUME NEW c \in Conversations, RenewHead(p, c) \/ SkipHead(p, c) PROVE LogInv'
    BY <2>3, RenewStep, Zenon
  <2>4. ASSUME NEW k \in Heads, SubmitWitnessed(p, k) PROVE LogInv' BY <2>4, SubmitStep, Zenon
  <2>5. CASE StoreReceipt(p) BY <2>5, StoreStep, Zenon
  <2> QED BY <1>7, <2>1, <2>2, <2>3, <2>4, <2>5, Zenon DEF PassStep
<1>8. ASSUME NEW p \in Passes, NEW k \in Heads, SubmitLost(p, k) PROVE LogInv'
  BY <1>8, SubmitStep, Zenon
<1>9. CASE UNCHANGED vars
  <2>1. UNCHANGED <<clock, pending, broken, checkpoints, marked, anchors, issuing, chain, passes,
                    alarm, losses>>
    BY <1>9, Zenon DEF vars, serviceVars
  <2>2. TypeOK' BY <2>1, Zenon DEF LogInv, TypeOK
  <2>3. PolicyLogSafe' /\ AnchorsKnown' BY <2>1, SameLog, Zenon
  <2>4. IssuingFits' /\ TodoClosed' /\ HoldsLast' /\ RenewalHeld'
    BY <2>1, Zenon DEF LogInv, IssuingFits, TodoClosed, HoldsLast, RenewalHeld
  <2> QED BY <2>2, <2>3, <2>4 DEF LogInv
<1> QED BY <1>1, <1>2, <1>3, <1>4, <1>5, <1>6, <1>7, <1>8, <1>9, Zenon DEF Next

\* The invariant holds in every state the passes and the issuing transactions reach.
THEOREM Invariance == Spec => []LogInv
BY InitInv, NextInv, PTL DEF Spec

\* The rows, the passes and the witness's chain keep their types (PolicyWitness.TypeOK).
THEOREM TypeCorrect == Spec => []TypeOK
BY Invariance, PTL DEF LogInv

\* Service, log and witness tell one history for any number of conversations and
\* overlapping passes: the log is linear although leaves are counted without a lock, the
\* witness's chain is a prefix of it, and only cosigned heads are open
\* (appendAuthority, runPolicyWitnessSync, extendChain).
THEOREM LogAndWitnessAgree == Spec => []PolicyLogSafe
BY Invariance, PTL DEF LogInv

\* A renewal replaces verified heads of open conversations only, although the list it
\* works from was read before any lock was taken (renewExpiringPolicyHeads).
THEOREM OnlyVerifiedRenewed == Spec => RenewsVerifiedOnly
<1> DEFINE Replaces == \A c \in Conversations :
             (issuing[c].by \in Passes /\ anchors'[c].head # anchors[c].head)
               => anchors[c].witnessed /\ c \notin pending
<1>1. LogInv /\ [Next]_vars => [Replaces]_vars
  BY Zenon DEF LogInv, RenewalHeld
<1> QED BY <1>1, Invariance, PTL DEF Spec, RenewsVerifiedOnly
=============================================================================
