--------------------------- MODULE PolicyWitness ---------------------------
(***************************************************************************)
(* The policy log and its witness.                                         *)
(*                                                                         *)
(*   appendAuthority     a transaction issues a policy head: it counts the *)
(*                       leaves, inserts the next one and a checkpoint     *)
(*   policyHeadRenewal   a pass re-issues the heads that are about to      *)
(*                       expire                                            *)
(*   policyWitnessSync   the pass submits every unwitnessed checkpoint and *)
(*                       opens the conversations a receipt covers          *)
(*   witnessCore         the witness extends its policy chain, in its own  *)
(*                       database                                          *)
(*                                                                         *)
(* The keeper starts a pass every 15 seconds and stops waiting for it      *)
(* after 30, so passes overlap.  A submission is two steps: the witness    *)
(* commits, then the pass commits the receipt; the process or the answer   *)
(* may be lost in between.                                                 *)
(*                                                                         *)
(* A checkpoint is its index in `checkpoints'; a head is the checkpoint it *)
(* was logged with.  Roots, signatures and receipts are left out: the root *)
(* is a function of the log's prefix.                                      *)
(***************************************************************************)
EXTENDS Integers, Sequences, FiniteSets, FiniteSetsExt

CONSTANTS
  Conversations,
  Passes,     \* sync passes that may be in progress at a time
  HeadTtl,    \* freshness of a head, in clock ticks
  Margin,     \* POLICY_HEAD_RENEWAL_MARGIN_MILLISECONDS
  BatchSize,  \* LIMIT of each selection of a pass
  MaxHeads,   \* bound on the log
  MaxTime,    \* bound on the clock
  MaxLosses,  \* bound on answers and passes lost
  None

ASSUME PolicyWitnessAssumption ==
  /\ HeadTtl \in Nat /\ Margin \in Nat /\ BatchSize \in Nat \ {0}
  /\ MaxHeads \in Nat /\ MaxTime \in Nat /\ MaxLosses \in Nat
  /\ None \notin Passes \cup Conversations /\ "member" \notin Passes

VARIABLES
  clock,
  pending,      \* conversations in state membership_pending
  broken,       \* conversations whose provision is missing or does not match
  checkpoints,  \* policy_log_leaves and policy_log_checkpoints, as inserted
  marked,       \* checkpoints whose row carries the witness's receipt
  anchors,      \* delivery_policy_head_anchors
  issuing,      \* the issuing transaction that holds a conversation's lock
  chain,        \* the witness's policy namespace: checkpoints accepted
  passes,       \* sync passes
  alarm,        \* the checkpoint last answered with an equivocation
  losses

serviceVars == <<pending, broken, checkpoints, marked, anchors, issuing>>
vars == <<clock, serviceVars, chain, passes, alarm, losses>>

Heads == 1..MaxHeads
Checkpoints == [size : Heads, conversation : Conversations, previous : 0..MaxHeads]
Member == "member"
NoTransaction == [size |-> 0, by |-> None]
NoHead == [head |-> 0, witnessed |-> FALSE, expires |-> 0]
IdlePass == [at |-> "idle", due |-> {}, todo |-> {}, holds |-> 0]

TypeOK ==
  /\ clock \in 0..MaxTime
  /\ pending \subseteq Conversations /\ broken \subseteq Conversations
  /\ checkpoints \in Seq(Checkpoints) /\ Len(checkpoints) <= MaxHeads
  /\ marked \subseteq Heads
  /\ anchors \in [Conversations -> [head : 0..MaxHeads, witnessed : BOOLEAN,
                                    expires : Nat]]
  /\ issuing \in [Conversations -> [size : 0..MaxHeads, by : Passes \cup {Member, None}]]
  /\ chain \in Seq(Heads)
  /\ passes \in [Passes -> [at : {"idle", "renew", "submit", "store"},
                            due : SUBSET Conversations, todo : SUBSET Heads,
                            holds : 0..MaxHeads]]
  /\ alarm \in 0..MaxHeads
  /\ losses \in 0..MaxLosses

Init ==
  /\ clock = 0
  /\ pending = {} /\ broken = {} /\ checkpoints = <<>> /\ marked = {}
  /\ anchors = [c \in Conversations |-> NoHead]
  /\ issuing = [c \in Conversations |-> NoTransaction]
  /\ chain = <<>>
  /\ passes = [p \in Passes |-> IdlePass]
  /\ alarm = 0 /\ losses = 0

-----------------------------------------------------------------------------
(* Issuing a head.                                                         *)

(* The transaction holds the conversation's row and has counted the        *)
(* leaves; the count is not locked.                                        *)
CountLeaves(c, by) ==
  /\ issuing[c] = NoTransaction /\ c \notin broken
  /\ Len(checkpoints) < MaxHeads
  /\ issuing' = [issuing EXCEPT ![c] = [size |-> Len(checkpoints) + 1, by |-> by]]

(* createIntent closes an active conversation ... *)
CreateIntent(c) ==
  /\ issuing[c] = NoTransaction
  /\ anchors[c].head # 0 /\ c \notin pending
  /\ pending' = pending \cup {c}
  /\ UNCHANGED <<clock, broken, checkpoints, marked, anchors, issuing, chain, passes,
                 alarm, losses>>

(* ... cancelIntent opens it again ... *)
CancelIntent(c) ==
  /\ issuing[c] = NoTransaction
  /\ c \in pending
  /\ pending' = pending \ {c}
  /\ UNCHANGED <<clock, broken, checkpoints, marked, anchors, issuing, chain, passes,
                 alarm, losses>>

(* ... and activateConversation or consumeCommit opens one with a new head. *)
BeginIssue(c) ==
  /\ anchors[c].head = 0 \/ c \in pending
  /\ CountLeaves(c, Member)
  /\ UNCHANGED <<clock, pending, broken, checkpoints, marked, anchors, chain, passes,
                 alarm, losses>>

LeafFreeUnchecked(c) == TRUE

(* policy_log_leaves has leaf_index as its primary key. *)
LeafFree(c) == \A k \in DOMAIN checkpoints : checkpoints[k].size # issuing[c].size

(* The checkpoint with the largest tree size. *)
Newest == IF checkpoints = <<>> THEN 0
          ELSE CHOOSE k \in DOMAIN checkpoints :
                 \A l \in DOMAIN checkpoints : checkpoints[l].size <= checkpoints[k].size

(* The leaf, its checkpoint and the anchor commit together ...             *)
CommitIssue(c) ==
  /\ issuing[c] # NoTransaction
  /\ LeafFree(c)
  /\ Len(checkpoints) < MaxHeads
  /\ checkpoints' = Append(checkpoints, [size |-> issuing[c].size, conversation |-> c,
                                         previous |-> Newest])
  /\ anchors' = [anchors EXCEPT ![c] = [head |-> Len(checkpoints) + 1, witnessed |-> FALSE,
                                        expires |-> clock + HeadTtl]]
  /\ pending' = IF issuing[c].by = Member THEN pending \ {c} ELSE pending
  /\ issuing' = [issuing EXCEPT ![c] = NoTransaction]
  /\ UNCHANGED <<clock, broken, marked, chain, passes, alarm, losses>>

(* ... or, when the leaf index was taken meanwhile, not at all.            *)
AbortIssue(c) ==
  /\ issuing[c] # NoTransaction
  /\ ~LeafFree(c) \/ Len(checkpoints) = MaxHeads
  /\ issuing' = [issuing EXCEPT ![c] = NoTransaction]
  /\ UNCHANGED <<clock, pending, broken, checkpoints, marked, anchors, chain, passes,
                 alarm, losses>>

LoseIssue(c) ==
  /\ issuing[c] # NoTransaction
  /\ losses < MaxLosses
  /\ losses' = losses + 1
  /\ issuing' = [issuing EXCEPT ![c] = NoTransaction]
  /\ UNCHANGED <<clock, pending, broken, checkpoints, marked, anchors, chain, passes,
                 alarm>>

(* The project's provision is withdrawn or its keys are derived from       *)
(* another seed: every later issue finds "signer mismatch".                *)
LoseProvision(c) ==
  /\ anchors[c].head # 0 /\ issuing[c] = NoTransaction
  /\ broken' = broken \cup {c}
  /\ UNCHANGED <<clock, pending, checkpoints, marked, anchors, issuing, chain, passes,
                 alarm, losses>>

-----------------------------------------------------------------------------
(* One pass: renew, select, submit one by one.                             *)

Due(c) ==
  /\ anchors[c].witnessed
  /\ c \notin pending
  /\ anchors[c].expires <= clock + Margin

(* S is a first BatchSize of the due conversations, oldest expiry first. *)
DueBatch(S) ==
  LET due == {c \in Conversations : Due(c)}
  IN  /\ S \subseteq due
      /\ Cardinality(S) = Min({BatchSize, Cardinality(due)})
      /\ \A c \in S, d \in due \ S : anchors[c].expires <= anchors[d].expires

StartPass(p) ==
  /\ passes[p].at = "idle"
  /\ \E S \in SUBSET Conversations :
       /\ DueBatch(S)
       /\ passes' = [passes EXCEPT ![p] = [IdlePass EXCEPT !.at = "renew", !.due = S]]
  /\ UNCHANGED <<clock, serviceVars, chain, alarm, losses>>

(* What the renewal checks again once it holds the row locks. *)
Renewable(c) == Due(c)

FailureEndsPass(p, c) == IdlePass

(* A conversation that cannot renew is skipped. *)
Skipped(p, c) == [passes[p] EXCEPT !.due = passes[p].due \ {c}]

(* The pass waits for one renewal transaction before the next. *)
Renewing(p, c) ==
  /\ passes[p].at = "renew" /\ c \in passes[p].due
  /\ \A d \in Conversations : issuing[d].by # p

RenewHead(p, c) ==
  /\ Renewing(p, c)
  /\ Renewable(c) /\ CountLeaves(c, p)
  /\ passes' = [passes EXCEPT ![p] = [passes[p] EXCEPT !.due = passes[p].due \ {c}]]
  /\ UNCHANGED <<clock, pending, broken, checkpoints, marked, anchors, chain, alarm, losses>>

SkipHead(p, c) ==
  /\ Renewing(p, c)
  /\ issuing[c] = NoTransaction
  /\ ~Renewable(c) \/ c \in broken \/ Len(checkpoints) = MaxHeads
  /\ passes' = [passes EXCEPT ![p] = Skipped(p, c)]
  /\ UNCHANGED <<clock, serviceVars, chain, alarm, losses>>

Unmarked == DOMAIN checkpoints \ marked

(* The first BatchSize unwitnessed checkpoints, by tree size. *)
Batch ==
  {k \in Unmarked :
     Cardinality({l \in Unmarked : checkpoints[l].size < checkpoints[k].size}) < BatchSize}

SelectCheckpoints(p) ==
  /\ passes[p].at = "renew"
  /\ passes[p].due = {} /\ \A d \in Conversations : issuing[d].by # p
  /\ passes' = [passes EXCEPT ![p] = [IdlePass EXCEPT !.at = "submit", !.todo = Batch]]
  /\ UNCHANGED <<clock, serviceVars, chain, alarm, losses>>

EndPass(p) ==
  /\ passes[p].at = "submit" /\ passes[p].todo = {}
  /\ passes' = [passes EXCEPT ![p] = IdlePass]
  /\ UNCHANGED <<clock, serviceVars, chain, alarm, losses>>

NextByText(p, k) ==
  /\ passes[p].at = "submit" /\ k \in passes[p].todo
  /\ \A l \in passes[p].todo : checkpoints[l].size <= checkpoints[k].size

NextToSubmit(p, k) ==
  /\ passes[p].at = "submit" /\ k \in passes[p].todo
  /\ \A l \in passes[p].todo : checkpoints[k].size <= checkpoints[l].size

LastUpstream == IF chain = <<>> THEN 0 ELSE chain[Len(chain)]

(* extendChain under the namespace's row lock. *)
Extends(k) == LastUpstream = checkpoints[k].previous

(* The witness cosigns and the pass holds the receipt. *)
SubmitWitnessed(p, k) ==
  /\ NextToSubmit(p, k) /\ Extends(k)
  /\ chain' = Append(chain, k)
  /\ passes' = [passes EXCEPT ![p] = [passes[p] EXCEPT !.at = "store", !.holds = k]]
  /\ UNCHANGED <<clock, serviceVars, alarm, losses>>

(* The witness cosigns and nobody learns of it. *)
SubmitLost(p, k) ==
  /\ NextToSubmit(p, k) /\ Extends(k)
  /\ losses < MaxLosses
  /\ chain' = Append(chain, k)
  /\ passes' = [passes EXCEPT ![p] = IdlePass]
  /\ losses' = losses + 1
  /\ UNCHANGED <<clock, serviceVars, alarm>>

(* The witness holds another predecessor: the pass stops. *)
SubmitRefused(p, k) ==
  /\ NextToSubmit(p, k) /\ ~Extends(k)
  /\ alarm' = k
  /\ passes' = [passes EXCEPT ![p] = IdlePass]
  /\ UNCHANGED <<clock, serviceVars, chain, losses>>

(* The current head of the conversation is one of the leaves the           *)
(* checkpoint covers.                                                      *)
Covers(k, c) == anchors[c].head # 0 /\ checkpoints[anchors[c].head].size <= checkpoints[k].size

(* The receipt and everything it opens, in one transaction. *)
StoreReceipt(p) ==
  /\ passes[p].at = "store"
  /\ LET k == passes[p].holds
     IN  /\ marked' = marked \cup {k}
         /\ anchors' = [c \in Conversations |->
              IF Covers(k, c) THEN [anchors[c] EXCEPT !.witnessed = TRUE] ELSE anchors[c]]
         /\ passes' = [passes EXCEPT ![p] = [IdlePass EXCEPT !.at = "submit",
                                                         !.todo = passes[p].todo \ {k}]]
  /\ UNCHANGED <<clock, pending, broken, checkpoints, issuing, chain, alarm, losses>>

(* The process dies; a transaction it had open is rolled back. *)
LosePass(p) ==
  /\ passes[p].at # "idle"
  /\ losses < MaxLosses
  /\ losses' = losses + 1
  /\ passes' = [passes EXCEPT ![p] = IdlePass]
  /\ issuing' = [c \in Conversations |-> IF issuing[c].by = p THEN NoTransaction
                                                              ELSE issuing[c]]
  /\ UNCHANGED <<clock, pending, broken, checkpoints, marked, anchors, chain, alarm>>

Tick ==
  /\ clock < MaxTime
  /\ clock' = clock + 1
  /\ UNCHANGED <<serviceVars, chain, passes, alarm, losses>>

PassStep(p) ==
  \/ StartPass(p)
  \/ \E c \in Conversations : RenewHead(p, c)
  \/ \E c \in Conversations : SkipHead(p, c)
  \/ SelectCheckpoints(p)
  \/ EndPass(p)
  \/ \E k \in Heads : SubmitWitnessed(p, k)
  \/ \E k \in Heads : SubmitRefused(p, k)
  \/ StoreReceipt(p)

Next ==
  \/ \E c \in Conversations : CreateIntent(c)
  \/ \E c \in Conversations : CancelIntent(c)
  \/ \E c \in Conversations : BeginIssue(c)
  \/ \E c \in Conversations : CommitIssue(c)
  \/ \E c \in Conversations : AbortIssue(c)
  \/ \E c \in Conversations : LoseIssue(c)
  \/ \E c \in Conversations : LoseProvision(c)
  \/ \E p \in Passes : PassStep(p)
  \/ \E p \in Passes, k \in Heads : SubmitLost(p, k)
  \/ \E p \in Passes : LosePass(p)
  \/ Tick

Spec == Init /\ [][Next]_vars

(* The keeper keeps starting passes, a pass runs on, and a transaction     *)
(* ends one way or the other.                                              *)
Fairness ==
  /\ \A p \in Passes : WF_vars(PassStep(p))
  /\ \A c \in Conversations : WF_vars(CommitIssue(c) \/ AbortIssue(c))

FairSpec == Spec /\ Fairness

-----------------------------------------------------------------------------
(* Properties.                                                             *)

(* Concurrent issuing transactions count the same leaves without a lock,   *)
(* yet the log never forks: checkpoint k commits k leaves and names        *)
(* checkpoint k - 1 as its predecessor (appendAuthority, the leaf insert). *)
LogLinear ==
  \A k \in DOMAIN checkpoints : checkpoints[k].size = k /\ checkpoints[k].previous = k - 1

(* The witness's policy chain is a prefix of the service's log, whatever   *)
(* passes overlap or die; the service's own record of it lags by at most   *)
(* the one receipt on its way (extendChain, runPolicyWitnessSync).         *)
WitnessAgrees ==
  /\ Len(chain) <= Len(checkpoints)
  /\ \A i \in DOMAIN chain : chain[i] = i
  /\ marked = 1..Len(chain) \/ (chain # <<>> /\ marked = 1..(Len(chain) - 1))

(* A conversation is open for appends only under a head the witness has    *)
(* cosigned: a receipt opens exactly the heads its checkpoint covers, also *)
(* when the head was replaced while the receipt was on its way             *)
(* (runPolicyWitnessSync, coveredHeads).                                   *)
VerifiedIsCosigned ==
  \A c \in Conversations : anchors[c].witnessed => anchors[c].head \in 1..Len(chain)

(* A pass renews on a list it read before it took any lock, while other    *)
(* passes renew and members commit; it never replaces a head that is not   *)
(* verified, so an unwitnessed head is never buried under renewals.        *)
RenewsVerifiedOnly ==
  [][\A c \in Conversations :
       (issuing[c].by \in Passes /\ anchors'[c].head # anchors[c].head)
         => anchors[c].witnessed /\ c \notin pending]_vars

(* A checkpoint the witness cosigned and no pass knows of. *)
Orphaned ==
  \E i \in DOMAIN chain : /\ chain[i] \notin marked
                          /\ \A p \in Passes : passes[p].holds # chain[i]

(* Unless a receipt is lost, every head issued is in time witnessed, also  *)
(* when passes die and when heads are replaced meanwhile.                  *)
HeadsWitnessed ==
  [](~Orphaned) => \A k \in Heads : (k \in DOMAIN checkpoints) ~> (k \in marked)

(* A conversation whose head is about to expire is renewed, whatever       *)
(* becomes of the other conversations of the batch                         *)
(* (renewExpiringPolicyHeads).                                             *)
RenewalReaches ==
  \A c \in Conversations :
    (Due(c) /\ c \notin broken)
      ~> (~Due(c) \/ c \in broken \/ Len(checkpoints) = MaxHeads)

(* What witnessCore and the ADR say of an equivocation answer: it carries  *)
(* two conflicting facts.  A checkpoint refused so is not one the witness  *)
(* itself cosigned.                                                        *)
EquivocationIsReal == alarm # 0 => \A i \in DOMAIN chain : chain[i] # alarm

(* What policyHeadRenewal says of a renewed head: it is witnessed again by *)
(* the following pass.                                                     *)
ClosedForOnePass == \A k \in Heads : (k \in DOMAIN checkpoints) ~> (k \in marked)

(* Service, log and witness tell one history: the log is linear, the       *)
(* witness's chain is a prefix of it, and a conversation is open only      *)
(* under a cosigned head (appendAuthority, runPolicyWitnessSync).          *)
PolicyLogSafe ==
  /\ LogLinear
  /\ WitnessAgrees
  /\ VerifiedIsCosigned
=============================================================================
