--------------------------- MODULE PolicyIssuance ---------------------------
(***************************************************************************)
(* A conversation's policy heads, the anchor and the send grants.          *)
(*                                                                         *)
(*   policyHeadIssuanceStore  the signed head: one more than the last,     *)
(*                            bound to the rows of the locked conversation *)
(*   appendAuthority          the grants of the head, the anchor, and the  *)
(*                            witness evidence carried from head to head   *)
(*   membershipCommitStore,   re-issue the head for a Commit or before it  *)
(*   policyHeadRenewal        expires                                      *)
(*   policyWitnessSync        marks the anchors a receipt covers           *)
(*                                                                         *)
(* Issuing holds the conversation's row.  The sync pass selects the        *)
(* anchors it covers and updates them one by one, without that lock, so a  *)
(* head may be re-issued in between.  A head is its place in the chain;    *)
(* its hash stands for the prefix up to it.  The log of all heads and the  *)
(* witness itself are in PolicyWitness.                                    *)
(***************************************************************************)
EXTENDS Integers, Sequences

CONSTANTS
  Seats,        \* installations that are members at some time
  MaxIssued,    \* bound on the heads of the conversation
  LogBound     \* bound on its log

ASSUME PolicyIssuanceBounds == MaxIssued \in Nat \ {0} /\ LogBound \in Nat \ {0}

VARIABLES
  conv,       \* conversations: log position, epoch, head sequence and hash
  heads,      \* policy_heads
  anchor,     \* delivery_policy_head_anchors
  sendGrants, \* conversation_send_grants
  covered,    \* the heads a sync pass has selected
  witnessed   \* heads whose anchor was ever marked verified

issuanceVars == <<conv, heads, anchor, sendGrants, covered, witnessed>>

NoGrant == [state |-> "none", head |-> 0]

-----------------------------------------------------------------------------
(* issuePolicyHead and issueConversationPolicyHead.                        *)

HeadHash(chain) == chain

\* The body is taken from the conversation's row, after the caller's changes.
SignedHead(row, grantSet) ==
  [sequence |-> row.sequence + 1, previous |-> row.hash, position |-> row.position,
   epoch |-> row.epoch, grants |-> grantSet]

Advanced(row, chain) == [row EXCEPT !.sequence = @ + 1, !.hash = HeadHash(chain)]

\* Fault: the fields of the predecessor, which a new head has not earned.
PriorOfPredecessor == anchor.sequence

\* The predecessor's evidence when it was cosigned, else what it carried.
Prior == IF anchor.state = "verified" THEN anchor.sequence ELSE anchor.prior

\* Every grant of the set is rewritten, active and anchored at the new head.
GrantRows(grants, grantSet, sequence) ==
  [i \in Seats |-> IF i \in grantSet THEN [state |-> "active", head |-> sequence]
                   ELSE grants[i]]

\* The anchor must be at the previous sequence, else the transaction aborts.
IssueHead(row, grants, grantSet) ==
  LET head  == SignedHead(row, grantSet)
      chain == Append(heads, head)
  IN /\ head.sequence <= MaxIssued
     /\ anchor.sequence = head.sequence - 1
     /\ heads' = chain
     /\ conv' = Advanced(row, chain)
     /\ anchor' = [sequence |-> head.sequence, position |-> row.position,
                   epoch |-> row.epoch, state |-> "missing", fresh |-> TRUE,
                   prior |-> Prior]
     /\ sendGrants' = GrantRows(grants, grantSet, head.sequence)

-----------------------------------------------------------------------------
(* The callers.                                                            *)

Activated == heads # <<>>
Active == {i \in Seats : sendGrants[i].state = "active"}

\* The first head is issued before the first envelope, which follows in the
\* same transaction.
ActivateTalk(founders) ==
  /\ ~Activated /\ founders # {}
  /\ LET row   == [position |-> 0, epoch |-> 1, sequence |-> 0, hash |-> <<>>]
         chain == <<SignedHead(row, founders)>>
     IN /\ heads' = chain
        /\ conv' = [Advanced(row, chain) EXCEPT !.position = 1]
  /\ anchor' = [sequence |-> 1, position |-> 0, epoch |-> 1, state |-> "missing",
                fresh |-> TRUE, prior |-> 0]
  /\ sendGrants' = GrantRows(sendGrants, founders, 1)
  /\ UNCHANGED <<covered, witnessed>>

\* The Commit's own envelope and epoch come before the head.
AfterCommit == [conv EXCEPT !.position = @ + 1, !.epoch = @ + 1]

\* An Add re-issues over every grant row and the target's.
CommitAdd(i) ==
  /\ Activated /\ sendGrants[i].state # "active" /\ conv.position < LogBound
  /\ IssueHead(AfterCommit, sendGrants,
               {j \in Seats : sendGrants[j] # NoGrant} \cup {i})
  /\ UNCHANGED <<covered, witnessed>>

\* A Remove revokes the target's grant and re-issues over the active ones.
CommitRemove(i) ==
  /\ sendGrants[i].state = "active" /\ Active # {i} /\ conv.position < LogBound
  /\ IssueHead(AfterCommit, [sendGrants EXCEPT ![i].state = "revoked"], Active \ {i})
  /\ UNCHANGED <<covered, witnessed>>

\* A renewal re-checks under the lock that the head is verified and about to expire.
Renew ==
  /\ Activated /\ anchor.state = "verified" /\ ~anchor.fresh
  /\ IssueHead(conv, sendGrants, Active)
  /\ UNCHANGED <<covered, witnessed>>

\* The head enters the renewal margin.
Age ==
  /\ Activated /\ anchor.fresh
  /\ anchor' = [anchor EXCEPT !.fresh = FALSE]
  /\ UNCHANGED <<conv, heads, sendGrants, covered, witnessed>>

\* An application envelope, while the anchor is verified.
AppendEnvelope ==
  /\ Activated /\ anchor.state = "verified" /\ conv.position < LogBound
  /\ conv' = [conv EXCEPT !.position = @ + 1]
  /\ UNCHANGED <<heads, anchor, sendGrants, covered, witnessed>>

-----------------------------------------------------------------------------
(* The sync pass.                                                          *)

\* A receipt covers the logged heads; those of unverified anchors are selected.
SelectCovered ==
  /\ Activated /\ covered = 0 /\ anchor.state = "missing"
  /\ covered' = anchor.sequence
  /\ UNCHANGED <<conv, heads, anchor, sendGrants, witnessed>>

\* The update names the head: an anchor that has moved on is not touched.
MarkCovered ==
  /\ covered # 0
  /\ IF anchor.sequence = covered
       THEN /\ anchor' = [anchor EXCEPT !.state = "verified"]
            /\ witnessed' = witnessed \cup {covered}
       ELSE UNCHANGED <<anchor, witnessed>>
  /\ covered' = 0
  /\ UNCHANGED <<conv, heads, sendGrants>>

-----------------------------------------------------------------------------
IssuanceInit ==
  /\ conv = [position |-> 0, epoch |-> 0, sequence |-> 0, hash |-> <<>>]
  /\ heads = <<>>
  /\ anchor = [sequence |-> 0, position |-> 0, epoch |-> 0, state |-> "none",
               fresh |-> TRUE, prior |-> 0]
  /\ sendGrants = [i \in Seats |-> NoGrant]
  /\ covered = 0 /\ witnessed = {}

IssuanceNext ==
  \/ \E founders \in SUBSET Seats : ActivateTalk(founders)
  \/ \E i \in Seats : CommitAdd(i) \/ CommitRemove(i)
  \/ Renew \/ Age \/ AppendEnvelope \/ SelectCovered \/ MarkCovered

IssuanceSpec == IssuanceInit /\ [][IssuanceNext]_issuanceVars

-----------------------------------------------------------------------------
(* Properties.                                                             *)

\* A mark never opens a head the witness has not covered: an anchor is verified
\* only for the head the pass selected, also when a Commit or a renewal re-issued
\* the head between the pass's selection and its update (policyWitnessSync).
VerifiedIsCovered == anchor.state = "verified" => anchor.sequence \in witnessed

\* The evidence of the last verified head survives every re-issue: the anchor's
\* prior witness is the newest head before it that was verified, however many
\* unwitnessed heads lie in between (appendAuthority).
PriorIsLastWitnessed ==
  LET before == {n \in witnessed : n < anchor.sequence}
  IN anchor.prior = IF before = {} THEN 0 ELSE CHOOSE n \in before : \A m \in before : m <= n

\* The active grants are exactly those the newest head was signed over, and each
\* is anchored at it: a grant left at an older head would keep its holder from
\* appending, and one outside the set would not prove its inclusion.
GrantsOfNewestHead ==
  Activated => \A i \in Seats :
    (sendGrants[i].state = "active")
      <=> (i \in heads[Len(heads)].grants /\ sendGrants[i].head = Len(heads))

\* The heads of a conversation are one chain: each names its predecessor's hash
\* and a log position and epoch not before it, and both the conversation and the
\* anchor stand at its end.
HeadsChained ==
  Activated =>
    /\ conv.sequence = Len(heads) /\ conv.hash = HeadHash(heads)
    /\ anchor.sequence = Len(heads) /\ anchor.epoch = conv.epoch
    /\ anchor.position <= conv.position
    /\ \A n \in DOMAIN heads :
         /\ heads[n].sequence = n
         /\ heads[n].previous = HeadHash(SubSeq(heads, 1, n - 1))
         /\ n > 1 => heads[n - 1].position <= heads[n].position
                     /\ heads[n - 1].epoch <= heads[n].epoch

\* However Commits, renewals and witness passes interleave, a conversation's heads
\* are one chain, its grants and its anchor belong to the newest head, and the
\* witness evidence it shows is genuine and the latest (issuePolicyHead).
IssuanceSafe ==
  /\ VerifiedIsCovered
  /\ PriorIsLastWitnessed
  /\ GrantsOfNewestHead
  /\ HeadsChained
=============================================================================
