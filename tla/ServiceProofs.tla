---------------------------- MODULE ServiceProofs ----------------------------
(***************************************************************************)
(* What a conversation's policy heads, a project's external-sender         *)
(* credentials and an account's notifications promise, for every set of    *)
(* seats, plans, passes, channels, scopes and servers: IssuanceSafe,       *)
(* RotationSafe, NotificationsSafe and TargetFixed.                        *)
(*                                                                         *)
(* IssuanceSafe becomes inductive with                                     *)
(*   Rows          the types of the rows; the conversation's hash is that  *)
(*                 of its chain of heads                                   *)
(*   LastHead      the anchor repeats the position and epoch of the newest *)
(*                 head                                                    *)
(*   Marks         the heads ever marked are not beyond the anchor, and    *)
(*                 the anchor's own is among them exactly when the anchor  *)
(*                 is verified                                             *)
(*   BeforeFirst   nothing is granted or marked before activation          *)
(* RotationSafe with                                                       *)
(*   SignersLast   how long the current and the staged generation still    *)
(*                 have, before and after the day's pass                   *)
(*   SelectionsFresh  a pass works from the provision as it stands, unless *)
(*                 another pass has ended that day                         *)
(* NotificationsSafe with                                                  *)
(*   GuessesCounted    the row counts the guesses at its code              *)
(*   DispatchesSpaced  every dispatch within the cooldown has its mark,    *)
(*                 whether it was sent or still awaits the channels        *)
(***************************************************************************)
EXTENDS PolicyIssuance, SenderRotation, Notifications, TLAPS

-----------------------------------------------------------------------------
(* Policy heads.                                                           *)

SeatRecords == [state : {"none", "active", "revoked"}, head : Nat]
AnchorRecords == [sequence : Nat, position : Nat, epoch : Nat,
                  state : {"none", "missing", "verified"}, fresh : BOOLEAN, prior : Nat]
RowsWith(hash) == [position : Nat, epoch : Nat, sequence : Nat, hash : {hash}]

Rows ==
  /\ heads \in Seq({heads[n] : n \in DOMAIN heads})
  /\ \A n \in DOMAIN heads : heads[n].position \in Nat /\ heads[n].epoch \in Nat
  /\ conv \in RowsWith(HeadHash(heads))
  /\ anchor \in AnchorRecords
  /\ sendGrants \in [Seats -> SeatRecords]
  /\ covered \in Nat

LastHead ==
  Activated => /\ heads[Len(heads)].position = anchor.position
               /\ heads[Len(heads)].epoch = anchor.epoch

Marks ==
  /\ \A n \in witnessed : n \in Nat \ {0} /\ n <= anchor.sequence
  /\ anchor.sequence \in witnessed <=> anchor.state = "verified"

BeforeFirst ==
  ~Activated => /\ anchor.sequence = 0 /\ anchor.prior = 0 /\ covered = 0
                /\ \A i \in Seats : sendGrants[i].state = "none"

IssuanceInv == Rows /\ LastHead /\ Marks /\ BeforeFirst /\ IssuanceSafe

USE PolicyIssuanceBounds

-----------------------------------------------------------------------------
\* A chain extended by a head keeps its prefixes.
LEMMA ExtendedChain ==
  ASSUME NEW S, NEW s \in Seq(S), NEW h
  PROVE  LET chain == Append(s, h)
         IN /\ chain \in Seq({chain[n] : n \in DOMAIN chain})
            /\ Len(chain) = Len(s) + 1 /\ DOMAIN chain = 1..(Len(s) + 1) /\ chain # <<>>
            /\ \A n \in 1..Len(s) : chain[n] = s[n]
            /\ chain[Len(s) + 1] = h
            /\ \A n \in 1..(Len(s) + 1) : SubSeq(chain, 1, n - 1) = SubSeq(s, 1, n - 1)
            /\ SubSeq(s, 1, Len(s)) = s
<1> DEFINE chain == Append(s, h)
<1> DEFINE R == {chain[n] : n \in DOMAIN chain}
<1>1. s \in Seq(S \cup {h}) /\ h \in S \cup {h} /\ Len(s) \in Nat OBVIOUS
<1>2. /\ chain \in Seq(S \cup {h}) /\ Len(chain) = Len(s) + 1 /\ DOMAIN chain = 1..(Len(s) + 1)
      /\ \A n \in 1..Len(s) : chain[n] = s[n]
      /\ chain[Len(s) + 1] = h
  BY <1>1
<1>3. chain # <<>> BY <1>1, <1>2
<1> HIDE DEF chain
<1>4. \A n \in 1..Len(chain) : chain[n] \in R BY <1>2, Zenon
<1> HIDE DEF R
<1>5. chain \in Seq(R) BY <1>1, <1>2, <1>4
<1>6. ASSUME NEW n \in 1..(Len(s) + 1)
      PROVE  SubSeq(chain, 1, n - 1) = SubSeq(s, 1, n - 1)
  <2>1. n - 1 \in 0..Len(s) /\ n - 1 <= Len(chain) BY <1>1, <1>2
  <2>2. \A i \in 1..(n - 1) : chain[i] = s[i] BY <1>1, <1>2
  <2>3. /\ SubSeq(chain, 1, n - 1) \in Seq(S \cup {h}) /\ Len(SubSeq(chain, 1, n - 1)) = n - 1
        /\ \A i \in 1..(n - 1) : SubSeq(chain, 1, n - 1)[i] = chain[i]
    BY <1>2, <2>1
  <2>4. /\ SubSeq(s, 1, n - 1) \in Seq(S \cup {h}) /\ Len(SubSeq(s, 1, n - 1)) = n - 1
        /\ \A i \in 1..(n - 1) : SubSeq(s, 1, n - 1)[i] = s[i]
    BY <1>1, <2>1
  <2> QED BY <2>2, <2>3, <2>4
<1>7. SubSeq(s, 1, Len(s)) = s BY <1>1
<1> QED BY <1>2, <1>3, <1>5, <1>6, <1>7, Zenon DEF chain, R

\* The evidence a new head carries is that of the newest head ever marked.
LEMMA PriorCarried ==
  ASSUME Rows, Marks, PriorIsLastWitnessed
  PROVE  LET before == {n \in witnessed : n < anchor.sequence + 1}
         IN  /\ Prior \in Nat
             /\ Prior = IF before = {} THEN 0 ELSE CHOOSE n \in before : \A m \in before : m <= n
<1> DEFINE before == {n \in witnessed : n < anchor.sequence + 1}
<1> DEFINE older == {n \in witnessed : n < anchor.sequence}
<1>1. anchor.sequence \in Nat /\ anchor.prior \in Nat BY Zenon DEF Rows, AnchorRecords
<1>2. CASE anchor.state = "verified"
  <2>1. anchor.sequence \in before BY <1>1, <1>2 DEF Marks
  <2>2. \A m \in before : m \in Nat /\ m <= anchor.sequence BY Zenon DEF Marks
  <2>3. \A n \in before : (\A m \in before : m <= n) => n = anchor.sequence
    BY <1>1, <2>1, <2>2
  <2> DEFINE Top(n) == \A m \in before : m <= n
  <2>4. Top(anchor.sequence) BY <2>2, Zenon
  <2> HIDE DEF before, Top
  <2>5. \A n \in before : Top(n) => n = anchor.sequence BY <2>3, Zenon DEF Top
  <2>6. (CHOOSE n \in before : Top(n)) = anchor.sequence BY <2>1, <2>4, <2>5, Zenon
  <2> QED BY <1>1, <1>2, <2>1, <2>6, Zenon DEF Prior, Top, before
<1>3. CASE anchor.state # "verified"
  <2>1. before = older BY <1>1, <1>3 DEF Marks
  <2> QED BY <1>1, <1>3, <2>1, Zenon DEF Prior, PriorIsLastWitnessed
<1> QED BY <1>2, <1>3, Zenon

\* Re-issuing under the conversation's lock: a Commit's or a renewal's new head
\* extends the chain, and grants, anchor and conversation all move to it.
LEMMA IssueStep ==
  ASSUME IssuanceInv, Activated,
         NEW row \in RowsWith(conv.hash), row.sequence = conv.sequence,
         row.position >= conv.position, row.epoch >= conv.epoch,
         NEW grants \in [Seats -> SeatRecords], NEW grantSet \in SUBSET Seats,
         \A i \in Seats \ grantSet : grants[i].state # "active",
         IssueHead(row, grants, grantSet), UNCHANGED <<covered, witnessed>>
  PROVE  IssuanceInv'
<1> DEFINE n == Len(heads)
<1> DEFINE head == SignedHead(row, grantSet)
<1> DEFINE chain == Append(heads, head)
<1>1. heads \in Seq({heads[i] : i \in DOMAIN heads}) /\ n \in Nat /\ DOMAIN heads = 1..n
  BY DEF IssuanceInv, Rows
<1>2. n # 0 BY <1>1 DEF Activated
<1>3. /\ conv.sequence = n /\ conv.hash = heads /\ anchor.sequence = n
      /\ anchor.epoch = conv.epoch /\ anchor.position <= conv.position
  BY Zenon DEF IssuanceInv, IssuanceSafe, HeadsChained, HeadHash
<1>4. conv.position \in Nat /\ conv.epoch \in Nat /\ anchor.position \in Nat
  BY Zenon DEF IssuanceInv, Rows, RowsWith, AnchorRecords
<1>5. row.position \in Nat /\ row.epoch \in Nat /\ row.sequence = n /\ row.hash = heads
  BY <1>3, Zenon DEF RowsWith
<1>6. /\ head.sequence = n + 1 /\ head.previous = heads /\ head.position = row.position
      /\ head.epoch = row.epoch /\ head.grants = grantSet
  BY <1>5, Zenon DEF SignedHead
<1>7. /\ heads' = chain /\ conv' = Advanced(row, chain)
      /\ anchor' = [sequence |-> n + 1, position |-> row.position, epoch |-> row.epoch,
                    state |-> "missing", fresh |-> TRUE, prior |-> Prior]
      /\ sendGrants' = GrantRows(grants, grantSet, n + 1)
  BY <1>6, Zenon DEF IssueHead
<1> HIDE DEF head
<1>8. /\ chain \in Seq({chain[i] : i \in DOMAIN chain})
      /\ Len(chain) = n + 1 /\ DOMAIN chain = 1..(n + 1) /\ chain # <<>>
      /\ \A i \in 1..n : chain[i] = heads[i]
      /\ chain[n + 1] = head
      /\ \A i \in 1..(n + 1) : SubSeq(chain, 1, i - 1) = SubSeq(heads, 1, i - 1)
      /\ SubSeq(heads, 1, n) = heads
  BY <1>1, ExtendedChain, Zenon
<1> HIDE DEF chain, n
<1>9. /\ conv' \in RowsWith(chain) /\ conv'.sequence = n + 1 /\ conv'.hash = chain
      /\ conv'.position = row.position /\ conv'.epoch = row.epoch
  <2>1. conv' = [[row EXCEPT !.sequence = @ + 1] EXCEPT !.hash = chain]
    BY <1>7, Zenon DEF Advanced, HeadHash
  <2>2. DOMAIN row = {"position", "epoch", "sequence", "hash"} BY Zenon DEF RowsWith
  <2>3. conv' = [position |-> row.position, epoch |-> row.epoch, sequence |-> n + 1, hash |-> chain]
    BY <1>5, <2>1, Zenon DEF RowsWith
  <2> QED BY <1>1, <1>5, <2>3 DEF RowsWith
<1>10. Prior \in Nat BY PriorCarried, Zenon DEF IssuanceInv, IssuanceSafe
<1>11. /\ anchor' \in AnchorRecords /\ anchor'.sequence = n + 1 /\ anchor'.state = "missing"
       /\ anchor'.position = row.position /\ anchor'.epoch = row.epoch /\ anchor'.prior = Prior
  BY <1>1, <1>5, <1>7, <1>10 DEF AnchorRecords
<1>12. /\ sendGrants' \in [Seats -> SeatRecords]
       /\ \A i \in Seats : (sendGrants'[i].state = "active") <=> i \in grantSet
       /\ \A i \in grantSet : sendGrants'[i].head = n + 1
  <2>1. sendGrants' = [i \in Seats |-> IF i \in grantSet THEN [state |-> "active", head |-> n + 1]
                                       ELSE grants[i]]
    BY <1>7, Zenon DEF GrantRows
  <2>2. [state |-> "active", head |-> n + 1] \in SeatRecords BY <1>1 DEF SeatRecords
  <2> QED BY <2>1, <2>2, Zenon
<1>13. Rows'
  <2>1. ASSUME NEW k \in 1..(n + 1) PROVE chain[k].position \in Nat /\ chain[k].epoch \in Nat
    <3>1. CASE k = n + 1 BY <1>5, <1>6, <1>8, <3>1, Zenon
    <3>2. CASE k # n + 1
      <4>1. k \in 1..n BY <1>1, <2>1, <3>2
      <4> QED BY <1>1, <1>8, <4>1, Zenon DEF IssuanceInv, Rows
    <3> QED BY <3>1, <3>2, Zenon
  <2>2. conv' \in RowsWith(HeadHash(heads')) BY <1>7, <1>9, Zenon DEF HeadHash
  <2>3. covered' \in Nat BY Zenon DEF IssuanceInv, Rows
  <2>4. heads' \in Seq({heads'[k] : k \in DOMAIN heads'}) BY <1>7, <1>8, Zenon
  <2>5. \A k \in DOMAIN heads' : heads'[k].position \in Nat /\ heads'[k].epoch \in Nat
    BY <1>7, <1>8, <2>1, Zenon
  <2> QED BY <1>11, <1>12, <2>2, <2>3, <2>4, <2>5, Zenon DEF Rows
<1>14. LastHead' BY <1>6, <1>7, <1>8, <1>11, Zenon DEF LastHead
<1>15. Marks' /\ BeforeFirst'
  BY <1>1, <1>3, <1>7, <1>8, <1>11 DEF IssuanceInv, Marks, BeforeFirst, Activated
<1>16. VerifiedIsCovered' BY <1>11, Zenon DEF VerifiedIsCovered
<1>17. PriorIsLastWitnessed'
  BY <1>3, <1>11, PriorCarried DEF IssuanceInv, IssuanceSafe, PriorIsLastWitnessed
<1>18. GrantsOfNewestHead'
  BY <1>6, <1>7, <1>8, <1>12, Zenon DEF GrantsOfNewestHead
<1>19. HeadsChained'
  <2>1. ASSUME NEW i \in 1..(n + 1)
        PROVE  /\ chain[i].sequence = i /\ chain[i].previous = SubSeq(chain, 1, i - 1)
               /\ i > 1 => /\ chain[i - 1].position <= chain[i].position
                           /\ chain[i - 1].epoch <= chain[i].epoch
    <3>1. CASE i = n + 1
      <4>1. heads[n].position = anchor.position /\ heads[n].epoch = anchor.epoch
        BY Zenon DEF IssuanceInv, LastHead, n
      <4>2. chain[n] = heads[n] BY <1>1, <1>2, <1>8, SMTT(30) DEF n
      <4>3. chain[i - 1].position <= chain[i].position /\ chain[i - 1].epoch <= chain[i].epoch
        <5>1. chain[i - 1] = heads[n] /\ chain[i] = head BY <1>1, <1>8, <3>1, <4>2
        <5>2. anchor.position <= row.position /\ anchor.epoch <= row.epoch
          BY <1>3, <1>4, <1>5
        <5> QED BY <1>6, <4>1, <5>1, <5>2, Zenon
      <4>4. SubSeq(chain, 1, i - 1) = heads BY <1>1, <1>8, <3>1
      <4> QED BY <1>6, <1>8, <3>1, <4>3, <4>4, Zenon
    <3>2. CASE i \in 1..n
      <4>1. /\ heads[i].sequence = i /\ heads[i].previous = SubSeq(heads, 1, i - 1)
            /\ i > 1 => heads[i - 1].position <= heads[i].position
                        /\ heads[i - 1].epoch <= heads[i].epoch
        BY <1>1, <3>2, Zenon DEF IssuanceInv, IssuanceSafe, HeadsChained, HeadHash
      <4>2. i > 1 => chain[i - 1] = heads[i - 1] BY <1>1, <1>8, <3>2
      <4> QED BY <1>8, <3>2, <4>1, <4>2, Zenon
    <3> QED BY <1>1, <3>1, <3>2
  <2>2. /\ conv'.sequence = Len(heads') /\ conv'.hash = heads'
        /\ anchor'.sequence = Len(heads') /\ anchor'.epoch = conv'.epoch
        /\ anchor'.position <= conv'.position
    BY <1>5, <1>7, <1>8, <1>9, <1>11
  <2>3. \A i \in DOMAIN heads' :
          /\ heads'[i].sequence = i /\ heads'[i].previous = SubSeq(heads', 1, i - 1)
          /\ i > 1 => /\ heads'[i - 1].position <= heads'[i].position
                      /\ heads'[i - 1].epoch <= heads'[i].epoch
    BY <1>7, <1>8, <2>1, Zenon
  <2> QED BY <2>2, <2>3, Zenon DEF HeadsChained, HeadHash
<1> QED BY <1>13, <1>14, <1>15, <1>16, <1>17, <1>18, <1>19, Zenon DEF IssuanceInv, IssuanceSafe

-----------------------------------------------------------------------------
\* Before activation there is neither head nor grant.
LEMMA InitInv == IssuanceInit => IssuanceInv
<1> SUFFICES ASSUME IssuanceInit PROVE IssuanceInv BY Zenon
<1> USE DEF IssuanceInit
<1>1. heads = <<>> /\ ~Activated /\ witnessed = {} BY Zenon DEF Activated
<1>2. /\ conv \in RowsWith(<<>>) /\ anchor \in AnchorRecords
      /\ anchor.sequence = 0 /\ anchor.prior = 0 /\ anchor.state = "none"
  BY Zenon DEF RowsWith, AnchorRecords
<1>3. NoGrant \in SeatRecords /\ NoGrant.state = "none" BY Zenon DEF NoGrant, SeatRecords
<1>4. Rows BY <1>1, <1>2, <1>3 DEF Rows, HeadHash
<1>5. LastHead /\ Marks /\ BeforeFirst BY <1>1, <1>2, <1>3, Zenon DEF LastHead, Marks, BeforeFirst
<1>6. IssuanceSafe
  BY <1>1, <1>2, Zenon
     DEF IssuanceSafe, VerifiedIsCovered, PriorIsLastWitnessed, GrantsOfNewestHead,
                    HeadsChained
<1> QED BY <1>4, <1>5, <1>6, Zenon DEF IssuanceInv

\* The first head is issued over the founders.
LEMMA ActivateStep ==
  ASSUME IssuanceInv, NEW founders \in SUBSET Seats, ActivateTalk(founders)
  PROVE  IssuanceInv'
<1> DEFINE row == [position |-> 0, epoch |-> 1, sequence |-> 0, hash |-> <<>>]
<1> DEFINE head == SignedHead(row, founders)
<1> DEFINE chain == <<head>>
<1>1. /\ ~Activated /\ heads' = chain /\ UNCHANGED <<covered, witnessed>>
      /\ conv' = [Advanced(row, chain) EXCEPT !.position = 1]
      /\ anchor' = [sequence |-> 1, position |-> 0, epoch |-> 1, state |-> "missing",
                    fresh |-> TRUE, prior |-> 0]
      /\ sendGrants' = GrantRows(sendGrants, founders, 1)
  BY Zenon DEF ActivateTalk
<1>2. /\ head.sequence = 1 /\ head.previous = <<>> /\ head.position = 0 /\ head.epoch = 1
      /\ head.grants = founders
  BY DEF SignedHead
<1>3. /\ conv' \in RowsWith(chain) /\ conv'.sequence = 1 /\ conv'.hash = chain
      /\ conv'.position = 1 /\ conv'.epoch = 1
  <2> HIDE DEF chain
  <2>1. row \in RowsWith(<<>>) /\ row.sequence = 0 BY Zenon DEF RowsWith
  <2>2. conv' = [[[row EXCEPT !.sequence = @ + 1] EXCEPT !.hash = chain] EXCEPT !.position = 1]
    BY <1>1, Zenon DEF Advanced, HeadHash
  <2>3. [row EXCEPT !.sequence = @ + 1] = [position |-> 0, epoch |-> 1, sequence |-> 1, hash |-> <<>>]
    OBVIOUS
  <2>4. conv' = [position |-> 1, epoch |-> 1, sequence |-> 1, hash |-> chain]
    BY <2>2, <2>3, Zenon
  <2> QED BY <2>4, Zenon DEF RowsWith
<1> HIDE DEF head
<1>4. /\ chain \in Seq({chain[i] : i \in DOMAIN chain}) /\ Len(chain) = 1 /\ DOMAIN chain = {1}
      /\ chain[1] = head /\ chain # <<>> /\ SubSeq(chain, 1, 0) = <<>>
  OBVIOUS
<1> HIDE DEF chain
<1>5. witnessed = {} /\ \A i \in Seats : sendGrants[i].state = "none"
  BY <1>1 DEF IssuanceInv, Marks, BeforeFirst
<1>6. /\ anchor' \in AnchorRecords /\ anchor'.sequence = 1 /\ anchor'.prior = 0
      /\ anchor'.position = 0 /\ anchor'.epoch = 1 /\ anchor'.state = "missing"
  BY <1>1, Zenon DEF AnchorRecords
<1>7. /\ sendGrants' \in [Seats -> SeatRecords]
      /\ \A i \in Seats : (sendGrants'[i].state = "active") <=> i \in founders
      /\ \A i \in founders : sendGrants'[i].head = 1
  <2>1. sendGrants' = [i \in Seats |-> IF i \in founders THEN [state |-> "active", head |-> 1]
                                       ELSE sendGrants[i]]
    BY <1>1, Zenon DEF GrantRows
  <2>2. [state |-> "active", head |-> 1] \in SeatRecords /\ sendGrants \in [Seats -> SeatRecords]
    BY Zenon DEF SeatRecords, IssuanceInv, Rows
  <2> QED BY <1>5, <2>1, <2>2, Zenon
<1>8. Rows'
  BY <1>1, <1>2, <1>3, <1>4, <1>6, <1>7 DEF IssuanceInv, Rows, HeadHash
<1>9. LastHead' /\ Marks' /\ BeforeFirst'
  BY <1>1, <1>2, <1>4, <1>5, <1>6, Zenon DEF LastHead, Marks, BeforeFirst, Activated
<1>10. VerifiedIsCovered' /\ PriorIsLastWitnessed'
  BY <1>1, <1>5, <1>6, Zenon DEF VerifiedIsCovered, PriorIsLastWitnessed
<1>11. GrantsOfNewestHead' BY <1>1, <1>2, <1>4, <1>7, Zenon DEF GrantsOfNewestHead
<1>12. HeadsChained'
  <2>1. ASSUME NEW n \in DOMAIN heads'
        PROVE  /\ heads'[n].sequence = n /\ heads'[n].previous = SubSeq(heads', 1, n - 1)
               /\ n > 1 => /\ heads'[n - 1].position <= heads'[n].position
                           /\ heads'[n - 1].epoch <= heads'[n].epoch
    <3>1. n = 1 /\ n - 1 = 0 BY <1>1, <1>4
    <3>2. SubSeq(heads', 1, n - 1) = <<>> BY <1>1, <1>4, <3>1, Zenon
    <3>3. heads'[n] = head /\ ~(n > 1) BY <1>1, <1>4, <3>1
    <3> QED BY <1>2, <3>1, <3>2, <3>3, Zenon
  <2>2. /\ conv'.sequence = Len(heads') /\ conv'.hash = heads'
        /\ anchor'.sequence = Len(heads') /\ anchor'.epoch = conv'.epoch
        /\ anchor'.position <= conv'.position
    BY <1>1, <1>3, <1>4, <1>6
  <2> QED BY <2>1, <2>2, Zenon DEF HeadsChained, HeadHash
<1> QED BY <1>8, <1>9, <1>10, <1>11, <1>12, Zenon DEF IssuanceInv, IssuanceSafe

\* A Commit's row: one position and one epoch further, the same chain.
LEMMA CommittedRow ==
  ASSUME IssuanceInv
  PROVE  /\ AfterCommit \in RowsWith(conv.hash) /\ AfterCommit.sequence = conv.sequence
         /\ AfterCommit.position >= conv.position /\ AfterCommit.epoch >= conv.epoch
         /\ conv \in RowsWith(conv.hash)
<1>1. conv \in RowsWith(conv.hash) BY Zenon DEF IssuanceInv, Rows, RowsWith
<1>2. conv.position + 1 \in Nat /\ conv.epoch + 1 \in Nat BY <1>1 DEF RowsWith
<1>3. AfterCommit \in RowsWith(conv.hash) BY <1>1, <1>2, Zenon DEF RowsWith, AfterCommit
<1>4. /\ AfterCommit.sequence = conv.sequence /\ AfterCommit.position = conv.position + 1
      /\ AfterCommit.epoch = conv.epoch + 1 /\ conv.position \in Nat /\ conv.epoch \in Nat
  BY <1>1, Zenon DEF AfterCommit, RowsWith
<1> QED BY <1>1, <1>3, <1>4

\* The callers of issuePolicyHead leave no active grant outside the set they sign.
LEMMA CallerStep ==
  ASSUME IssuanceInv,
         (\E i \in Seats : CommitAdd(i) \/ CommitRemove(i)) \/ Renew
  PROVE  IssuanceInv'
<1>1. sendGrants \in [Seats -> SeatRecords] BY Zenon DEF IssuanceInv, Rows
<1>2. ASSUME NEW i \in Seats, CommitAdd(i) PROVE IssuanceInv'
  <2> DEFINE grantSet == {j \in Seats : sendGrants[j] # NoGrant} \cup {i}
  <2>1. \A j \in Seats \ grantSet : sendGrants[j].state # "active" BY DEF NoGrant
  <2>2. /\ Activated /\ IssueHead(AfterCommit, sendGrants, grantSet)
        /\ UNCHANGED <<covered, witnessed>>
    BY <1>2, Zenon DEF CommitAdd
  <2>3. grantSet \in SUBSET Seats BY Zenon
  <2> HIDE DEF grantSet
  <2> QED BY <1>1, <2>1, <2>2, <2>3, CommittedRow, IssueStep, Zenon
<1>3. ASSUME NEW i \in Seats, CommitRemove(i) PROVE IssuanceInv'
  <2> DEFINE grants == [sendGrants EXCEPT ![i].state = "revoked"]
  <2> DEFINE grantSet == Active \ {i}
  <2>1. sendGrants[i].state = "active" BY <1>3, Zenon DEF CommitRemove
  <2>2. Activated BY <2>1, Zenon DEF IssuanceInv, BeforeFirst
  <2>3. grants \in [Seats -> SeatRecords] BY <1>1, Zenon DEF SeatRecords
  <2>4. \A j \in Seats \ grantSet : grants[j].state # "active"
    BY <1>1, Zenon DEF Active, SeatRecords
  <2>5. IssueHead(AfterCommit, grants, grantSet) /\ UNCHANGED <<covered, witnessed>>
    BY <1>3, Zenon DEF CommitRemove
  <2>6. grantSet \in SUBSET Seats BY Zenon DEF Active
  <2> HIDE DEF grants, grantSet
  <2> QED BY <2>2, <2>3, <2>4, <2>5, <2>6, CommittedRow, IssueStep, Zenon
<1>4. ASSUME Renew PROVE IssuanceInv'
  <2>1. Activated /\ IssueHead(conv, sendGrants, Active) /\ UNCHANGED <<covered, witnessed>>
    BY <1>4, Zenon DEF Renew
  <2>2. \A j \in Seats \ Active : sendGrants[j].state # "active" BY Zenon DEF Active
  <2>3. conv.position >= conv.position /\ conv.epoch >= conv.epoch
    BY DEF IssuanceInv, Rows, RowsWith
  <2>4. Active \in SUBSET Seats BY Zenon DEF Active
  <2> QED BY <1>1, <2>1, <2>2, <2>3, <2>4, CommittedRow, IssueStep, Zenon
<1> QED BY <1>2, <1>3, <1>4, Zenon

\* An envelope moves the conversation past its newest head, not the chain.
LEMMA AppendStep ==
  ASSUME IssuanceInv, AppendEnvelope
  PROVE  IssuanceInv'
<1>1. /\ conv' = [conv EXCEPT !.position = @ + 1]
      /\ UNCHANGED <<heads, anchor, sendGrants, covered, witnessed>>
  BY Zenon DEF AppendEnvelope
<1>2. /\ conv \in RowsWith(heads) /\ anchor \in AnchorRecords
  BY Zenon DEF IssuanceInv, Rows, HeadHash
<1>3. /\ conv' \in RowsWith(heads) /\ conv'.sequence = conv.sequence /\ conv'.hash = conv.hash
      /\ conv'.epoch = conv.epoch /\ conv'.position = conv.position + 1 /\ conv.position \in Nat
      /\ anchor.position \in Nat
  BY <1>1, <1>2 DEF RowsWith, AnchorRecords
<1>4. Rows' BY <1>1, <1>3, Zenon DEF IssuanceInv, Rows, HeadHash
<1>5. LastHead' /\ Marks' /\ BeforeFirst'
  BY <1>1, Zenon DEF IssuanceInv, LastHead, Marks, BeforeFirst, Activated
<1>6. VerifiedIsCovered' /\ PriorIsLastWitnessed' /\ GrantsOfNewestHead'
  BY <1>1, Zenon DEF IssuanceInv, IssuanceSafe, VerifiedIsCovered, PriorIsLastWitnessed,
              GrantsOfNewestHead, Activated
<1>7. HeadsChained'
  <2>1. Activated => anchor.position <= conv.position
    BY Zenon DEF IssuanceInv, IssuanceSafe, HeadsChained
  <2>2. Activated => anchor.position <= conv.position + 1 BY <1>3, <2>1
  <2> QED BY <1>1, <1>3, <2>2, Zenon
             DEF IssuanceInv, IssuanceSafe, HeadsChained, Activated, HeadHash
<1> QED BY <1>4, <1>5, <1>6, <1>7, Zenon DEF IssuanceInv, IssuanceSafe

\* The witness pass and the passage of time touch the anchor's marks only: an update
\* that names a head the anchor has left changes nothing.
LEMMA AnchorStep ==
  ASSUME IssuanceInv, Age \/ SelectCovered \/ MarkCovered
  PROVE  IssuanceInv'
<1>1. UNCHANGED <<conv, heads, sendGrants>> BY Zenon DEF Age, SelectCovered, MarkCovered
<1>2. anchor \in AnchorRecords BY Zenon DEF IssuanceInv, Rows
<1>3. /\ anchor' \in AnchorRecords /\ anchor'.sequence = anchor.sequence
      /\ anchor'.position = anchor.position /\ anchor'.epoch = anchor.epoch
      /\ anchor'.prior = anchor.prior
      /\ \/ anchor'.state = anchor.state /\ witnessed' = witnessed
         \/ anchor'.state = "verified" /\ witnessed' = witnessed \cup {anchor.sequence}
      /\ covered' \in {covered, 0, anchor.sequence}
      /\ (~Activated => covered' = covered /\ witnessed' = witnessed)
  <2>1. CASE Age BY <1>2, <2>1, Zenon DEF Age, AnchorRecords
  <2>2. CASE SelectCovered BY <1>2, <2>2, Zenon DEF SelectCovered, AnchorRecords
  <2>3. CASE MarkCovered
    <3>1. Activated BY <2>3, Zenon DEF MarkCovered, IssuanceInv, BeforeFirst
    <3>2. CASE anchor.sequence = covered
      BY <1>2, <2>3, <3>1, <3>2, Zenon DEF MarkCovered, AnchorRecords
    <3>3. CASE anchor.sequence # covered
      BY <1>2, <2>3, <3>1, <3>3, Zenon DEF MarkCovered
    <3> QED BY <3>2, <3>3, Zenon
  <2> QED BY <2>1, <2>2, <2>3, Zenon
<1>4. anchor.sequence \in Nat /\ covered \in Nat BY <1>2, Zenon DEF AnchorRecords, IssuanceInv, Rows
<1>5. Activated => anchor.sequence = Len(heads) /\ Len(heads) \in Nat \ {0}
  BY DEF IssuanceInv, IssuanceSafe, HeadsChained, Rows, Activated
<1>6. Rows' BY <1>1, <1>3, <1>4 DEF IssuanceInv, Rows
<1>7. LastHead' /\ BeforeFirst'
  BY <1>1, <1>3, Zenon DEF IssuanceInv, LastHead, BeforeFirst, Activated
<1>8. Marks' BY <1>3, <1>4, <1>5 DEF IssuanceInv, Marks
<1>9. VerifiedIsCovered' BY <1>3, Zenon DEF IssuanceInv, IssuanceSafe, VerifiedIsCovered
<1>10. PriorIsLastWitnessed'
  <2>1. {n \in witnessed' : n < anchor'.sequence} = {n \in witnessed : n < anchor.sequence}
    BY <1>3, <1>4
  <2> QED BY <1>3, <2>1, Zenon DEF IssuanceInv, IssuanceSafe, PriorIsLastWitnessed
<1>11. GrantsOfNewestHead'
  BY <1>1, Zenon DEF IssuanceInv, IssuanceSafe, GrantsOfNewestHead, Activated
<1>12. HeadsChained'
  BY <1>1, <1>3, Zenon DEF IssuanceInv, IssuanceSafe, HeadsChained, Activated, HeadHash
<1> QED BY <1>6, <1>7, <1>8, <1>9, <1>10, <1>11, <1>12, Zenon DEF IssuanceInv, IssuanceSafe

-----------------------------------------------------------------------------
\* Every step preserves the invariant.
LEMMA NextInv == IssuanceInv /\ [IssuanceNext]_issuanceVars => IssuanceInv'
<1> SUFFICES ASSUME IssuanceInv, [IssuanceNext]_issuanceVars PROVE IssuanceInv' BY Zenon
<1>1. ASSUME NEW founders \in SUBSET Seats, ActivateTalk(founders) PROVE IssuanceInv'
  BY <1>1, ActivateStep, Zenon
<1>2. CASE (\E i \in Seats : CommitAdd(i) \/ CommitRemove(i)) \/ Renew BY <1>2, CallerStep, Zenon
<1>3. CASE AppendEnvelope BY <1>3, AppendStep, Zenon
<1>4. CASE Age \/ SelectCovered \/ MarkCovered BY <1>4, AnchorStep, Zenon
<1>5. CASE UNCHANGED issuanceVars
  BY <1>5 DEF issuanceVars, IssuanceInv, Rows, LastHead, Marks, BeforeFirst, IssuanceSafe,
              VerifiedIsCovered, PriorIsLastWitnessed, GrantsOfNewestHead, HeadsChained,
              Activated, HeadHash
<1> QED BY <1>1, <1>2, <1>3, <1>4, <1>5, Zenon DEF IssuanceNext

\* However Commits, renewals and witness passes interleave, for any seats and any number
\* of heads: the heads are one chain, the grants and the anchor belong to the newest, and
\* the witness evidence it carries is that of the latest cosigned head (issuePolicyHead,
\* appendAuthority, policyWitnessSync).
THEOREM HeadsGrantsAndMarksAgree == IssuanceSpec => []IssuanceSafe
<1>1. IssuanceInv => IssuanceSafe BY Zenon DEF IssuanceInv
<1> QED BY InitInv, NextInv, <1>1, PTL DEF IssuanceSpec

-----------------------------------------------------------------------------
(* External-sender credentials.                                            *)

Provisions == [current : Nat, staged : Nat]

RotationTypes ==
  /\ date \in Nat /\ lastPass \in Nat /\ ledger \in Nat
  /\ provision \in Provisions \cup {Unprovisioned}
  /\ rotation \in [Rotations -> Provisions \cup {Unprovisioned}]

\* Whoever is current today is current for the rest of its overlap but the days until
\* the next pass, and the staged one outlives it.
SignersLast ==
  provision # Unprovisioned =>
    LET c == credential[provision.current]
        s == credential[provision.staged]
    IN /\ provision.current > 0 /\ c.until \in Nat /\ s.until \in Nat
       /\ c.state = "published" /\ s.state = "published"
       /\ c.until <= s.until /\ s.until <= date + Lifetime
       /\ date + Overlap <= c.until + 1 /\ date + Overlap <= s.until
       /\ lastPass = date => date + Overlap <= c.until /\ date + Overlap < s.until

\* What a pass has selected is the provision as it stands, unless another pass has
\* ended the same day.
SelectionsFresh ==
  \A r \in Rotations :
    rotation[r] # Unprovisioned =>
      /\ provision # Unprovisioned
      /\ rotation[r] = provision \/ lastPass = date

RotationInv ==
  /\ RotationTypes /\ GenerationsInStep /\ SignersLast /\ SelectionsFresh
  /\ provision = Unprovisioned => ledger = 0

\* Before the first plan there is nothing to sign with, and no pass finds anything.
LEMMA RotationStart == RotationInit => RotationInv
BY DEF RotationInit, RotationInv, RotationTypes, GenerationsInStep, SignersLast, SelectionsFresh

\* The plan that provisions a project publishes both generations for a lifetime.
LEMMA ProvisionStep ==
  ASSUME RotationInv, NEW p \in Planners, ProvisionSenders(p) PROVE RotationInv'
<1>1. RotationTypes /\ GenerationsInStep /\ SignersLast /\ SelectionsFresh BY Zenon DEF RotationInv
<1>2. CASE provision # Unprovisioned
  <2>1. UNCHANGED <<date, provision, credential, ledger, rotation, lastPass>>
    BY <1>2, Zenon DEF ProvisionSenders
  <2> QED
    BY <1>1, <2>1, Zenon
       DEF RotationInv, RotationTypes, GenerationsInStep, SignersLast, SelectionsFresh
<1>3. CASE provision = Unprovisioned
  <2>1. /\ credential' = [g \in {1, 2} |-> Published(date)]
        /\ provision' = [current |-> 1, staged |-> 2]
        /\ UNCHANGED <<date, ledger, rotation, lastPass>>
    BY <1>3, Zenon DEF ProvisionSenders
  <2>2. /\ provision' \in Provisions /\ provision'.current = 1 /\ provision'.staged = 2
        /\ provision' # Unprovisioned
    BY <2>1, RotationPeriods DEF Provisions
  <2>3. /\ DOMAIN credential' = 1..2 /\ credential'[1] = Published(date)
        /\ credential'[2] = Published(date)
    BY <2>1
  <2>4. \A r \in Rotations : rotation[r] = Unprovisioned BY <1>1, <1>3, Zenon DEF SelectionsFresh
  <2>5. RotationTypes' BY <1>1, <2>1, <2>2, Zenon DEF RotationTypes
  <2>6. SelectionsFresh' BY <2>1, <2>4, Zenon DEF SelectionsFresh
  <2>7. SignersLast'
    BY <1>1, <2>1, <2>2, <2>3, RotationPeriods DEF SignersLast, RotationTypes, Published
  <2>8. ledger = 0
    BY <1>1, <1>3, Zenon DEF RotationInv
  <2> QED BY <2>2, <2>3, <2>5, <2>6, <2>7, <2>8, <2>1 DEF RotationInv, GenerationsInStep
<1> QED BY <1>2, <1>3, Zenon

\* Retiring what has expired leaves every row that has not.
LEMMA LiveRowsKept ==
  ASSUME NEW rows, NEW g \in DOMAIN rows, ~(rows[g].until <= date)
  PROVE  DOMAIN Expired(rows) = DOMAIN rows /\ Expired(rows)[g] = rows[g]
BY Zenon DEF Expired

\* A pass that finds the provision changed or not due promotes nothing: then another
\* has passed today, or the current generation is not in its overlap yet.
LEMMA IdlePassStep ==
  ASSUME RotationInv, NEW r \in Rotations, EndRotation(r), ~StillDue(r) PROVE RotationInv'
<1>1. RotationTypes /\ GenerationsInStep /\ SignersLast /\ SelectionsFresh BY Zenon DEF RotationInv
<1>2. /\ rotation[r] # Unprovisioned /\ credential' = Expired(credential)
      /\ rotation' = [rotation EXCEPT ![r] = Unprovisioned] /\ lastPass' = date
      /\ UNCHANGED <<date, provision, ledger>>
  BY Zenon DEF EndRotation
<1>3. /\ provision # Unprovisioned /\ provision \in Provisions
      /\ rotation[r] = provision \/ lastPass = date
  BY <1>1, <1>2, Zenon DEF SelectionsFresh, RotationTypes
<1> DEFINE c == credential[provision.current]
           s == credential[provision.staged]
<1>4. /\ provision.current \in DOMAIN credential /\ provision.staged \in DOMAIN credential
      /\ DOMAIN credential = 1..provision.staged
  BY <1>1, <1>3 DEF GenerationsInStep, SignersLast, Provisions
<1>5. /\ date < c.until /\ date < s.until /\ c.until \in Nat /\ s.until \in Nat
  BY <1>1, <1>3, RotationPeriods DEF SignersLast, RotationTypes
<1>6. date + Overlap <= c.until /\ date + Overlap < s.until
  <2>1. CASE lastPass = date BY <1>1, <1>3, <2>1, Zenon DEF SignersLast
  <2>2. CASE rotation[r] = provision
    <3>1. ~RotationDue(provision) BY <2>2, Zenon DEF StillDue
    <3>2. s.state = "published" /\ c.until <= s.until BY <1>1, <1>3, Zenon DEF SignersLast
    <3>3. date < c.until - Overlap
      BY <1>1, <1>5, <3>1, <3>2, RotationPeriods DEF RotationDue, RotationTypes
    <3> QED BY <1>1, <1>5, <3>2, <3>3, RotationPeriods DEF RotationTypes
  <2> QED BY <1>3, <2>1, <2>2, Zenon
<1>7. /\ DOMAIN credential' = DOMAIN credential
      /\ credential'[provision.current] = c /\ credential'[provision.staged] = s
  BY <1>1, <1>2, <1>4, <1>5, LiveRowsKept DEF RotationTypes
<1>8. RotationTypes' BY <1>1, <1>2, Zenon DEF RotationTypes
<1>9. GenerationsInStep' BY <1>1, <1>2, <1>3, <1>7, Zenon DEF GenerationsInStep
<1>10. SignersLast' BY <1>1, <1>2, <1>3, <1>6, <1>7, Zenon DEF SignersLast
<1>11. SelectionsFresh' BY <1>1, <1>2, <1>3, Zenon DEF SelectionsFresh, RotationTypes
<1> QED BY <1>2, <1>3, <1>8, <1>9, <1>10, <1>11, Zenon DEF RotationInv

\* A pass that finds the provision due makes the staged generation current, which has
\* the whole overlap before it, and stages one with a lifetime before it.
LEMMA PromotionStep ==
  ASSUME RotationInv, NEW r \in Rotations, EndRotation(r), StillDue(r) PROVE RotationInv'
<1> DEFINE next == provision.staged + 1
           s == credential[provision.staged]
           rows == [g \in DOMAIN credential \cup {next} |->
                      IF g \in DOMAIN credential THEN credential[g] ELSE Published(date)]
<1>1. RotationTypes /\ GenerationsInStep /\ SignersLast /\ SelectionsFresh BY Zenon DEF RotationInv
<1>2. /\ rotation[r] # Unprovisioned /\ rotation[r] = provision
      /\ provision' = [current |-> provision.staged, staged |-> next]
      /\ credential' = Expired(rows)
      /\ ledger' = IF next > ledger THEN next ELSE ledger
      /\ rotation' = [rotation EXCEPT ![r] = Unprovisioned] /\ lastPass' = date /\ date' = date
  BY Zenon DEF EndRotation, StillDue
<1>3. /\ provision # Unprovisioned /\ provision \in Provisions /\ provision.staged \in Nat
      /\ provision.staged > 1 /\ DOMAIN credential = 1..provision.staged
      /\ ledger \in {0, provision.staged}
  BY <1>1, <1>2 DEF GenerationsInStep, SignersLast, Provisions, RotationTypes
<1>4. /\ s.until \in Nat /\ s.state = "published" /\ date + Overlap <= s.until
      /\ s.until <= date + Lifetime
  BY <1>1, <1>3, Zenon DEF SignersLast
<1>5. /\ DOMAIN rows = 1..next /\ rows[provision.staged] = s /\ rows[next] = Published(date)
  BY <1>3
<1> HIDE DEF rows, s
<1>6. ~(s.until <= date) /\ ~(Published(date).until <= date)
  BY <1>1, <1>4, RotationPeriods DEF RotationTypes, Published
<1>7. /\ DOMAIN credential' = 1..next /\ credential'[provision.staged] = s
      /\ credential'[next] = Published(date)
  <2>1. provision.staged \in DOMAIN rows /\ next \in DOMAIN rows BY <1>3, <1>5
  <2>2. DOMAIN Expired(rows) = DOMAIN rows /\ Expired(rows)[provision.staged] = s
    BY <1>5, <1>6, <2>1, LiveRowsKept, Zenon
  <2>3. Expired(rows)[next] = Published(date) BY <1>5, <1>6, <2>1, LiveRowsKept, Zenon
  <2> QED BY <1>2, <1>5, <2>2, <2>3, Zenon
<1>8. /\ provision' \in Provisions /\ provision'.current = provision.staged
      /\ provision'.staged = next /\ provision' # Unprovisioned /\ ledger' = next
  BY <1>2, <1>3, RotationPeriods DEF Provisions
<1>9. RotationTypes' BY <1>1, <1>2, <1>3, <1>8 DEF RotationTypes
<1>10. GenerationsInStep' BY <1>3, <1>7, <1>8 DEF GenerationsInStep
<1>11. SignersLast'
  <2>1. /\ credential'[next].until = date + Lifetime /\ credential'[next].state = "published"
        /\ credential'[provision.staged].until = s.until
        /\ credential'[provision.staged].state = "published"
    BY <1>4, <1>7 DEF Published
  <2>2. date \in Nat /\ date' = date BY <1>1, <1>2, Zenon DEF RotationTypes
  <2> HIDE DEF next
  <2> QED BY <1>3, <1>4, <1>8, <2>1, <2>2, RotationPeriods DEF SignersLast
<1>12. SelectionsFresh' BY <1>1, <1>2, <1>8, Zenon DEF SelectionsFresh, RotationTypes
<1> QED BY <1>8, <1>9, <1>10, <1>11, <1>12, Zenon DEF RotationInv

\* Every step keeps the invariant.
LEMMA RotationStep == ASSUME RotationInv, [RotationNext]_rotationVars PROVE RotationInv'
<1> USE DEF RotationInv
<1>1. CASE UNCHANGED rotationVars
  BY <1>1, Zenon DEF rotationVars, RotationTypes, GenerationsInStep, SignersLast, SelectionsFresh
<1>2. ASSUME NEW p \in Planners, FindUnprovisioned(p) PROVE RotationInv'
  BY <1>2, Zenon
     DEF FindUnprovisioned, RotationTypes, GenerationsInStep, SignersLast, SelectionsFresh
<1>3. ASSUME NEW p \in Planners, ProvisionSenders(p) PROVE RotationInv'
  BY <1>3, ProvisionStep, Zenon
<1>4. ASSUME NEW r \in Rotations, BeginRotation(r) PROVE RotationInv'
  BY <1>4, Zenon DEF BeginRotation, RotationTypes, GenerationsInStep, SignersLast, SelectionsFresh
<1>5. ASSUME NEW r \in Rotations, EndRotation(r) PROVE RotationInv'
  BY <1>5, IdlePassStep, PromotionStep, Zenon
<1>6. CASE NextDate
  BY <1>6, RotationPeriods
     DEF NextDate, RotationTypes, GenerationsInStep, SignersLast, SelectionsFresh
<1> QED BY <1>1, <1>2, <1>3, <1>4, <1>5, <1>6, Zenon DEF RotationNext

\* RotationSafe, for any number of plans and passes and any periods with OVERLAP
\* longer than the day between two passes: the generations advance in step and the
\* current one can sign (rotateExternalSenderCredentials, provisionProject).
THEOREM SignerAlwaysLive == RotationSpec => []RotationSafe
<1>1. RotationInv => RotationSafe
  BY RotationPeriods DEF RotationInv, RotationSafe, SignerIsLive, SignersLast, RotationTypes
<1> QED BY <1>1, RotationStart, RotationStep, PTL DEF RotationSpec

-----------------------------------------------------------------------------
(* Notification channels and wakeups.                                      *)

ChannelRows == [kind : {"none", "email", "telegram", "whatsapp"},
                target : Addresses \cup Chats \cup {NoTarget},
                state : {"none", "pending", "active", "disabled"},
                secret : BOOLEAN, expires : Nat, attempts : Nat]
CooldownMarks == [scope : Scopes, at : Nat]
Dispatches == [server : Servers, scope : Scopes, at : Nat]
Wakeups == [server : Servers, scope : Scopes, channel : Channels, at : Nat]

NotifyTypes ==
    /\ notifyNow \in Nat /\ channel \in [Channels -> ChannelRows] /\ guesses \in [Channels -> Nat]
    /\ lastSentAt \in [Servers -> SUBSET CooldownMarks]
    /\ dispatching \in SUBSET Dispatches /\ woken \in SUBSET Wakeups

\* The guesses at a pending code are the attempts its row counts.
GuessesCounted ==
    \A x \in Channels :
        /\ guesses[x] <= MaxVerifyAttempts
        /\ channel[x].state = "none" => guesses[x] = 0
        /\ channel[x].state = "pending" /\ channel[x].kind = "email" => guesses[x] = channel[x].attempts

\* What a server has begun to send within the cooldown is in its map, and two such
\* are a cooldown apart unless they are one dispatch.
StillMarked(e) ==
    /\ e.at <= notifyNow
    /\ notifyNow - e.at < Cooldown =>
         \E m \in lastSentAt[e.server] : m.scope = e.scope /\ m.at = e.at
Spaced(e, f) ==
    e.server = f.server /\ e.scope = f.scope /\ e.at < f.at => f.at - e.at >= Cooldown
DispatchesSpaced ==
    \A e \in dispatching \cup woken : StillMarked(e) /\ \A f \in dispatching \cup woken : Spaced(e, f)

NotifyInv == NotifyTypes /\ GuessesCounted /\ OneActivePerTarget /\ DispatchesSpaced

LEMMA NotifyStart == NotifyInit => NotifyInv
<1> SUFFICES ASSUME NotifyInit PROVE NotifyInv BY Zenon
<1>1. NoChannel \in ChannelRows BY Zenon DEF NoChannel, ChannelRows
<1>2. NoChannel.state = "none" BY Zenon DEF NoChannel
<1>3. NotifyTypes BY <1>1, Zenon DEF NotifyInit, NotifyTypes
<1>4. GuessesCounted BY <1>2, NotifyConstants DEF NotifyInit, GuessesCounted
<1>5. OneActivePerTarget BY <1>2, Zenon DEF NotifyInit, OneActivePerTarget
<1>6. DispatchesSpaced BY Zenon DEF NotifyInit, DispatchesSpaced
<1> QED BY <1>3, <1>4, <1>5, <1>6, Zenon DEF NotifyInv

\* What a step may do to one channel: its row stays a row; its guesses are counted;
\* it becomes active only for a target that no other channel is active for.
ChannelStep(x, row) ==
    /\ channel' = [channel EXCEPT ![x] = row] /\ row \in ChannelRows
    /\ row.state = "active" => ~TakenBy(x, row.kind, row.target)
    /\ guesses' \in [Channels -> Nat] /\ \A y \in Channels \ {x} : guesses'[y] = guesses[y]
    /\ guesses'[x] <= MaxVerifyAttempts
    /\ row.state # "none"
    /\ row.state = "pending" /\ row.kind = "email" => guesses'[x] = row.attempts
    /\ UNCHANGED <<notifyNow, lastSentAt, dispatching, woken>>

LEMMA ChannelStepKeeps ==
    ASSUME NotifyInv, NEW x \in Channels, NEW row, ChannelStep(x, row) PROVE NotifyInv'
<1>1. NotifyTypes /\ GuessesCounted /\ OneActivePerTarget /\ DispatchesSpaced BY Zenon DEF NotifyInv
<1>2. /\ channel' \in [Channels -> ChannelRows] /\ channel'[x] = row
      /\ \A y \in Channels \ {x} : channel'[y] = channel[y]
  BY <1>1, Zenon DEF ChannelStep, NotifyTypes
<1>3. NotifyTypes' BY <1>1, <1>2, Zenon DEF ChannelStep, NotifyTypes
<1>4. GuessesCounted' BY <1>1, <1>2 DEF ChannelStep, GuessesCounted
<1>5. OneActivePerTarget' BY <1>1, <1>2 DEF ChannelStep, OneActivePerTarget, TakenBy
<1>6. DispatchesSpaced' BY <1>1, Zenon DEF ChannelStep, DispatchesSpaced, StillMarked, Spaced
<1> QED BY <1>3, <1>4, <1>5, <1>6, Zenon DEF NotifyInv

\* createChannel: nothing was compared with a channel that is not there yet.
LEMMA CreateStep ==
    ASSUME NotifyInv, NEW x \in Channels, NEW kind \in {"email", "telegram", "whatsapp"},
           NEW target \in Addresses \cup {NoTarget}, CreateChannel(x, kind, target)
    PROVE  NotifyInv'
<1> DEFINE row == [kind |-> kind, target |-> target, state |-> "pending", secret |-> kind # "whatsapp",
                   expires |-> notifyNow + (IF kind = "telegram" THEN TokenTtl ELSE CodeTtl),
                   attempts |-> 0]
<1>1. NotifyTypes /\ GuessesCounted BY Zenon DEF NotifyInv
<1>2. guesses[x] = 0 BY <1>1 DEF CreateChannel, NoChannel, GuessesCounted
<1>3. notifyNow + (IF kind = "telegram" THEN TokenTtl ELSE CodeTtl) \in Nat
  BY <1>1, NotifyConstants DEF NotifyTypes
<1>4. row \in ChannelRows
  <2>1. (kind # "whatsapp") \in BOOLEAN /\ 0 \in Nat BY Zenon
  <2> QED BY <1>3, <2>1, Zenon DEF ChannelRows
<1>5. row.state = "pending" /\ row.attempts = 0 BY Zenon
<1>6. /\ channel' = [channel EXCEPT ![x] = row]
      /\ UNCHANGED <<notifyNow, guesses, lastSentAt, dispatching, woken>>
  BY Zenon DEF CreateChannel
<1> HIDE DEF row
<1>7. ChannelStep(x, row)
  BY <1>1, <1>2, <1>4, <1>5, <1>6, NotifyConstants, SMTT(30), Z3 DEF ChannelStep, NotifyTypes
<1> QED BY <1>7, ChannelStepKeeps, Zenon

\* verifyEmailCode: each comparison is counted by the row, or is the last.
LEMMA VerifyStep ==
    ASSUME NotifyInv, NEW x \in Channels, NEW right \in BOOLEAN, VerifyEmailCode(x, right)
    PROVE  NotifyInv'
<1>1. NotifyTypes /\ GuessesCounted BY Zenon DEF NotifyInv
<1>2. /\ channel[x].kind = "email" /\ channel[x].state = "pending"
      /\ channel[x].attempts < MaxVerifyAttempts
      /\ guesses' = [guesses EXCEPT ![x] = @ + 1]
      /\ UNCHANGED <<notifyNow, lastSentAt, dispatching, woken>>
  BY Zenon DEF VerifyEmailCode, MayGuess, AttemptsLeft
<1>3. channel[x] \in ChannelRows /\ channel[x].attempts \in Nat
  BY <1>1, Zenon DEF NotifyTypes, ChannelRows
<1>4. /\ guesses' \in [Channels -> Nat] /\ guesses'[x] = channel[x].attempts + 1
      /\ \A y \in Channels \ {x} : guesses'[y] = guesses[y]
  BY <1>1, <1>2, <1>3, SMTT(30) DEF NotifyTypes, GuessesCounted
<1>5. guesses'[x] <= MaxVerifyAttempts BY <1>2, <1>3, <1>4, NotifyConstants
<1>6. CASE right
  <2> DEFINE row == [channel[x] EXCEPT !.state = "active", !.secret = FALSE, !.expires = 0]
  <2>1. channel' = [channel EXCEPT ![x] = row] BY <1>1, <1>6, Zenon DEF VerifyEmailCode, NotifyTypes
  <2>2. row \in ChannelRows BY <1>3, Zenon DEF ChannelRows
  <2>3. row.state = "active" /\ row.kind = "email" /\ row.target = channel[x].target
    BY <1>2, <1>3, Zenon DEF ChannelRows
  <2>4. ~TakenBy(x, row.kind, row.target) BY <1>6, <2>3, Zenon DEF VerifyEmailCode, ActiveElsewhere
  <2> HIDE DEF row
  <2>5. ChannelStep(x, row) BY <1>2, <1>4, <1>5, <2>1, <2>2, <2>3, <2>4, Zenon DEF ChannelStep
  <2> QED BY <2>5, ChannelStepKeeps, Zenon
<1>7. CASE ~right
  <2> DEFINE row == [channel[x] EXCEPT !.attempts = @ + 1]
  <2>1. channel' = [channel EXCEPT ![x] = row] BY <1>1, <1>7, Zenon DEF VerifyEmailCode, NotifyTypes
  <2>2. row \in ChannelRows BY <1>3 DEF ChannelRows
  <2>3. row.state = "pending" /\ row.attempts = channel[x].attempts + 1
    BY <1>2, <1>3, Zenon DEF ChannelRows
  <2> HIDE DEF row
  <2>4. ChannelStep(x, row) BY <1>2, <1>4, <1>5, <2>1, <2>2, <2>3, Zenon DEF ChannelStep
  <2> QED BY <2>4, ChannelStepKeeps
<1> QED BY <1>6, <1>7, Zenon

\* redeemTelegramToken and the removal of a channel.
LEMMA RedeemStep ==
    ASSUME NotifyInv, NEW x \in Channels, NEW chat \in Chats, RedeemTelegramToken(x, chat)
    PROVE  NotifyInv'
<1> DEFINE row == [channel[x] EXCEPT !.state = "active", !.target = chat, !.secret = FALSE,
                                     !.expires = 0]
<1>1. NotifyTypes /\ GuessesCounted BY Zenon DEF NotifyInv
<1>2. channel[x] \in ChannelRows /\ channel[x].kind = "telegram"
  BY <1>1, Zenon DEF NotifyTypes, RedeemTelegramToken, Redeemable
<1>3. channel' = [channel EXCEPT ![x] = row] BY <1>1, Zenon DEF RedeemTelegramToken, NotifyTypes
<1>4. row \in ChannelRows BY <1>2, Zenon DEF ChannelRows
<1>5. row.state = "active" /\ row.kind = "telegram" /\ row.target = chat
  BY <1>2, Zenon DEF ChannelRows
<1> HIDE DEF row
<1>6. ChannelStep(x, row)
  BY <1>1, <1>3, <1>4, <1>5, Zenon
     DEF RedeemTelegramToken, ActiveElsewhere, ChannelStep, NotifyTypes, GuessesCounted
<1> QED BY <1>6, ChannelStepKeeps, Zenon

LEMMA DisableStep == ASSUME NotifyInv, NEW x \in Channels, Disable(x) PROVE NotifyInv'
<1> DEFINE row == [channel[x] EXCEPT !.state = "disabled"]
<1>1. NotifyTypes /\ GuessesCounted BY Zenon DEF NotifyInv
<1>2. channel[x] \in ChannelRows BY <1>1, Zenon DEF NotifyTypes
<1>3. channel' = [channel EXCEPT ![x] = row] BY <1>1, Zenon DEF Disable, NotifyTypes
<1>4. row \in ChannelRows /\ row.state = "disabled" BY <1>2, Zenon DEF ChannelRows
<1> HIDE DEF row
<1>5. ChannelStep(x, row)
  BY <1>1, <1>3, <1>4, Zenon DEF Disable, ChannelStep, NotifyTypes, GuessesCounted
<1> QED BY <1>5, ChannelStepKeeps, Zenon

\* dispatch marks the scope before it awaits: what the server began earlier about the
\* scope is a cooldown old, and what it forgets has cooled.
LEMMA DispatchBeginStep ==
    ASSUME NotifyInv, NEW i \in Servers, NEW s \in Scopes, DispatchBegin(i, s) PROVE NotifyInv'
<1> DEFINE new == [server |-> i, scope |-> s, at |-> notifyNow]
           marked == {m \in lastSentAt[i] : m.scope # s} \cup {[scope |-> s, at |-> notifyNow]}
<1>1. NotifyTypes /\ GuessesCounted /\ OneActivePerTarget /\ DispatchesSpaced BY Zenon DEF NotifyInv
<1>2. /\ dispatching' = dispatching \cup {new} /\ ~Cooling(i, s)
      /\ UNCHANGED <<notifyNow, channel, guesses, woken>>
      /\ lastSentAt' = [lastSentAt EXCEPT ![i] =
           IF Cardinality(marked) > MaxCooldowns THEN marked \ Elapsed(marked) ELSE marked]
  BY Zenon DEF DispatchBegin
<1>3. /\ new \in Dispatches /\ new.server = i /\ new.scope = s /\ new.at = notifyNow
      /\ marked \in SUBSET CooldownMarks
  BY <1>1 DEF NotifyTypes, Dispatches, CooldownMarks
<1>4. /\ lastSentAt' \in [Servers -> SUBSET CooldownMarks]
      /\ \A j \in Servers \ {i} : lastSentAt'[j] = lastSentAt[j]
      /\ \A m \in marked : notifyNow - m.at < Cooldown => m \in lastSentAt'[i]
  <2>1. ASSUME NEW m \in marked, notifyNow - m.at < Cooldown PROVE m \notin Elapsed(marked)
    BY <1>1, <1>3, <2>1, NotifyConstants, SMTT(30) DEF Elapsed, NotifyTypes, CooldownMarks
  <2> HIDE DEF marked
  <2> QED BY <1>1, <1>2, <1>3, <2>1, Zenon DEF NotifyTypes
<1>5. [scope |-> s, at |-> notifyNow] \in marked
      /\ \A m \in lastSentAt[i] : m.scope # s => m \in marked
  BY Zenon
<1> HIDE DEF new, marked
<1>6. ASSUME NEW e \in dispatching \cup woken
      PROVE  /\ e.server \in Servers /\ e.at \in Nat /\ e.at <= notifyNow /\ StillMarked(e)
             /\ e.server = i /\ e.scope = s => notifyNow - e.at >= Cooldown
  <2>1. e.server \in Servers /\ e.at \in Nat /\ StillMarked(e)
    BY <1>1, Zenon DEF NotifyTypes, Dispatches, Wakeups, DispatchesSpaced
  <2> QED BY <1>1, <1>2, <2>1, NotifyConstants, SMTT(30), Z3 DEF StillMarked, Cooling, NotifyTypes
<1>7. ASSUME NEW e \in dispatching \cup woken PROVE StillMarked(e)'
  <2>1. /\ e.server \in Servers /\ e.at \in Nat /\ e.at <= notifyNow
        /\ e.server = i /\ e.scope = s => notifyNow - e.at >= Cooldown
    BY <1>6, Zenon
  <2>2. SUFFICES ASSUME notifyNow - e.at < Cooldown
                 PROVE  \E m \in lastSentAt'[e.server] : m.scope = e.scope /\ m.at = e.at
    BY <1>2, <2>1, Zenon DEF StillMarked
  <2>3. PICK m \in lastSentAt[e.server] : m.scope = e.scope /\ m.at = e.at
    BY <1>6, <2>2, Zenon DEF StillMarked
  <2>4. CASE e.server # i BY <1>4, <2>1, <2>3, <2>4, Zenon
  <2>5. CASE e.server = i
    <3>1. e.scope # s BY <1>1, <2>1, <2>2, <2>5, NotifyConstants DEF NotifyTypes
    <3>2. m \in marked BY <1>5, <2>3, <2>5, <3>1, Zenon
    <3> QED BY <1>4, <2>2, <2>3, <2>5, <3>2, Zenon
  <2> QED BY <2>4, <2>5, Zenon
<1>8. ASSUME NEW e, e = new PROVE StillMarked(e)'
  <2>1. e.server = i /\ e.scope = s /\ e.at = notifyNow BY <1>3, <1>8, Zenon
  <2> QED BY <1>1, <1>2, <1>4, <1>5, <2>1, SMTT(30), Z3 DEF StillMarked, NotifyTypes
<1>9. DispatchesSpaced'
  <2>1. ASSUME NEW e \in dispatching \cup woken, NEW f \in dispatching \cup woken PROVE Spaced(e, f)
    BY <1>1, Zenon DEF DispatchesSpaced
  <2>2. ASSUME NEW e \in dispatching \cup woken PROVE Spaced(e, new) /\ Spaced(new, e)
    BY <1>1, <1>3, <1>6 DEF Spaced, NotifyTypes
  <2>3. Spaced(new, new) BY <1>1, <1>3 DEF Spaced, NotifyTypes
  <2>4. ASSUME NEW e \in dispatching' \cup woken', NEW f \in dispatching' \cup woken'
        PROVE  StillMarked(e)' /\ Spaced(e, f)
    BY <1>2, <1>7, <1>8, <2>1, <2>2, <2>3, Zenon
  <2> QED BY <2>4, Zenon DEF DispatchesSpaced, Spaced
<1>10. NotifyTypes' BY <1>1, <1>2, <1>3, <1>4, Zenon DEF NotifyTypes
<1>11. GuessesCounted' /\ OneActivePerTarget'
  BY <1>1, <1>2, Zenon DEF GuessesCounted, OneActivePerTarget
<1> QED BY <1>9, <1>10, <1>11, Zenon DEF NotifyInv

\* A wakeup that is sent has the time of its dispatch.
LEMMA DispatchSendStep ==
    ASSUME NotifyInv, NEW d \in dispatching, NEW reached \in SUBSET Channels, DispatchSend(d, reached)
    PROVE  NotifyInv'
<1> DEFINE sent == {[server |-> d.server, scope |-> d.scope, channel |-> x, at |-> d.at] : x \in reached}
<1>1. NotifyTypes /\ GuessesCounted /\ OneActivePerTarget /\ DispatchesSpaced BY Zenon DEF NotifyInv
<1>2. /\ dispatching' = dispatching \ {d} /\ woken' = woken \cup sent
      /\ UNCHANGED <<notifyNow, channel, guesses, lastSentAt>>
  BY Zenon DEF DispatchSend
<1>3. /\ sent \subseteq Wakeups
      /\ \A e \in sent : e.server = d.server /\ e.scope = d.scope /\ e.at = d.at
  BY <1>1 DEF NotifyTypes, Dispatches, Wakeups
<1> HIDE DEF sent
<1>4. ASSUME NEW e \in dispatching' \cup woken'
      PROVE  \E old \in dispatching \cup woken :
               e.server = old.server /\ e.scope = old.scope /\ e.at = old.at
  BY <1>2, <1>3, Zenon
<1>5. ASSUME NEW e \in dispatching' \cup woken', NEW f \in dispatching' \cup woken'
      PROVE  StillMarked(e) /\ Spaced(e, f)
  <2>1. PICK u \in dispatching \cup woken : e.server = u.server /\ e.scope = u.scope /\ e.at = u.at
    BY <1>4, Zenon
  <2>2. PICK v \in dispatching \cup woken : f.server = v.server /\ f.scope = v.scope /\ f.at = v.at
    BY <1>4, Zenon
  <2>3. StillMarked(u) /\ Spaced(u, v) BY <1>1, Zenon DEF DispatchesSpaced
  <2> QED BY <2>1, <2>2, <2>3, Zenon DEF StillMarked, Spaced
<1>6. DispatchesSpaced' BY <1>2, <1>5, Zenon DEF DispatchesSpaced, StillMarked, Spaced
<1>7. NotifyTypes' BY <1>1, <1>2, <1>3, Zenon DEF NotifyTypes
<1>8. GuessesCounted' /\ OneActivePerTarget'
  BY <1>1, <1>2, Zenon DEF GuessesCounted, OneActivePerTarget
<1> QED BY <1>6, <1>7, <1>8, Zenon DEF NotifyInv

\* Time passes, or nothing happens.
LEMMA NotifyClockStep ==
    ASSUME NotifyInv, notifyNow' \in {notifyNow, notifyNow + 1},
           UNCHANGED <<channel, guesses, lastSentAt, dispatching, woken>>
    PROVE  NotifyInv'
<1>1. NotifyTypes /\ GuessesCounted /\ OneActivePerTarget /\ DispatchesSpaced BY Zenon DEF NotifyInv
<1>2. NotifyTypes' BY <1>1 DEF NotifyTypes
<1>3. GuessesCounted' /\ OneActivePerTarget' BY <1>1, Zenon DEF GuessesCounted, OneActivePerTarget
<1>4. ASSUME NEW e \in dispatching \cup woken PROVE StillMarked(e)'
  <2>1. e.at \in Nat /\ StillMarked(e)
    BY <1>1, Zenon DEF NotifyTypes, Dispatches, Wakeups, DispatchesSpaced
  <2> QED BY <1>1, <2>1, NotifyConstants, SMTT(30) DEF StillMarked, NotifyTypes
<1>5. DispatchesSpaced' BY <1>1, <1>4, Zenon DEF DispatchesSpaced, Spaced
<1> QED BY <1>2, <1>3, <1>5, Zenon DEF NotifyInv

\* Every step keeps the invariant.
LEMMA NotifyStep == ASSUME NotifyInv, [NotifyNext]_notifyVars PROVE NotifyInv'
<1>1. CASE UNCHANGED notifyVars BY <1>1, NotifyClockStep, Zenon DEF notifyVars
<1>2. CASE NotifyTick BY <1>2, NotifyClockStep, Zenon DEF NotifyTick
<1>3. ASSUME NEW x \in Channels, NEW target \in Addresses,
             CreateChannel(x, "email", target) \/ CreateChannel(x, "whatsapp", target)
      PROVE  NotifyInv'
  BY <1>3, CreateStep, Zenon
<1>4. ASSUME NEW x \in Channels, CreateChannel(x, "telegram", NoTarget) PROVE NotifyInv'
  BY <1>4, CreateStep, Zenon
<1>5. ASSUME NEW x \in Channels, NEW right \in BOOLEAN, VerifyEmailCode(x, right) PROVE NotifyInv'
  BY <1>5, VerifyStep, Zenon
<1>6. ASSUME NEW x \in Channels, NEW chat \in Chats, RedeemTelegramToken(x, chat) PROVE NotifyInv'
  BY <1>6, RedeemStep, Zenon
<1>7. ASSUME NEW x \in Channels, Disable(x) PROVE NotifyInv' BY <1>7, DisableStep, Zenon
<1>8. ASSUME NEW i \in Servers, NEW s \in Scopes, DispatchBegin(i, s) PROVE NotifyInv'
  BY <1>8, DispatchBeginStep
<1>9. ASSUME NEW d \in dispatching, NEW reached \in SUBSET Channels, DispatchSend(d, reached)
      PROVE  NotifyInv'
  BY <1>9, DispatchSendStep, Zenon
<1> QED BY <1>1, <1>2, <1>3, <1>4, <1>5, <1>6, <1>7, <1>8, <1>9, Zenon DEF NotifyNext

LEMMA NotifyInvariance == NotifySpec => []NotifyInv
BY NotifyStart, NotifyStep, PTL DEF NotifySpec

\* NotificationsSafe, for any number of channels, addresses, scopes and server
\* instances and any limits: guesses at a code are bounded, a target has one active
\* channel, and a server's wakeups about a scope are a cooldown apart
\* (notificationChannelStore, notificationDispatch).
THEOREM NotificationsAlwaysSafe == NotifySpec => []NotificationsSafe
<1>1. ASSUME NotifyInv PROVE NotificationsSafe
  <2>1. NotifyTypes /\ GuessesCounted /\ OneActivePerTarget /\ DispatchesSpaced
    BY <1>1, Zenon DEF NotifyInv
  <2>2. GuessesBounded BY <2>1, Zenon DEF GuessesCounted, GuessesBounded
  <2>3. ASSUME NEW v \in woken, NEW w \in woken, v.server = w.server, v.scope = w.scope,
               v.channel = w.channel, v.at <= w.at, v # w
        PROVE  w.at - v.at >= Cooldown
    <3>1. v \in Wakeups /\ w \in Wakeups BY <2>1, Zenon DEF NotifyTypes
    <3>2. v.at # w.at BY <2>3, <3>1 DEF Wakeups
    <3>3. v.at < w.at BY <2>3, <3>1, <3>2 DEF Wakeups
    <3> QED BY <2>1, <2>3, <3>3, Zenon DEF DispatchesSpaced, Spaced
  <2>4. WakeupsSpaced BY <2>3, Zenon DEF WakeupsSpaced
  <2> QED BY <2>1, <2>2, <2>4, Zenon DEF NotificationsSafe
<1> QED BY <1>1, NotifyInvariance, PTL

\* TargetFixed, for the same: no later code, token or request moves a verified channel
\* to another target or revives one that was disabled.
THEOREM VerifiedForGood == NotifySpec => TargetFixed
<1> DEFINE SameTarget(x) ==
      /\ channel[x].state = "active" => channel'[x].target = channel[x].target
      /\ channel[x].state = "disabled" => channel'[x].state = "disabled"
<1>1. ASSUME NotifyInv, [NotifyNext]_notifyVars, NEW x \in Channels PROVE SameTarget(x)
  <2>1. channel \in [Channels -> ChannelRows] BY <1>1, Zenon DEF NotifyInv, NotifyTypes
  <2>2. CASE channel' = channel BY <2>2, Zenon
  <2>3. CASE \E y \in Channels : \E kind, target : CreateChannel(y, kind, target)
    BY <2>1, <2>3, SMTT(30) DEF CreateChannel, NoChannel
  <2>4. CASE \E y \in Channels, right \in BOOLEAN : VerifyEmailCode(y, right)
    BY <2>1, <2>4 DEF VerifyEmailCode
  <2>5. CASE \E y \in Channels, chat \in Chats : RedeemTelegramToken(y, chat)
    BY <2>1, <2>5 DEF RedeemTelegramToken, Redeemable
  <2>6. CASE \E y \in Channels : Disable(y) BY <2>1, <2>6 DEF Disable, ChannelRows
  <2> QED
    BY <1>1, <2>2, <2>3, <2>4, <2>5, <2>6, Zenon
       DEF NotifyNext, notifyVars, NotifyTick, DispatchBegin, DispatchSend
<1>2. NotifyInv /\ [NotifyNext]_notifyVars => [\A x \in Channels : SameTarget(x)]_notifyVars
  BY <1>1, Zenon
<1> QED BY <1>2, NotifyInvariance, PTL DEF NotifySpec, TargetFixed

=============================================================================
