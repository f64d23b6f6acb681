----------------------------- MODULE Membership -----------------------------
(***************************************************************************)
(* Membership of one conversation: intents, external proposals and MLS     *)
(* commits, as the three stores implement them over one set of rows.       *)
(*                                                                         *)
(*   membershipIntentStore    CreateAdd, CreateRemove, CancelIntent,       *)
(*                            ExpireIntents                                *)
(*   externalProposalStore    RecordProposal                               *)
(*   membershipCommitStore    BeginCommit, RefuseCommit, ApplyCommit,      *)
(*                            AbortCommit                                  *)
(*   recheck keeper           RecheckGrants                                *)
(*   witness sync             WitnessHead                                  *)
(*   append lane              Append (AppendLane in one step)              *)
(*                                                                         *)
(* Each store operation is one transaction that locks the conversation or  *)
(* the intent row, so it is one action, except consumeCommit: it reads the *)
(* eligibility grant without a lock, so the check and the update are two   *)
(* steps between which the keeper may revoke the grant.  `tx' is the       *)
(* commit that holds the row locks; everything that needs them waits.      *)
(*                                                                         *)
(* Abstractions.  Roster version, recipient-set version and transcript     *)
(* checkpoint advance with the epoch in the same UPDATE and are compared   *)
(* together with it, so the epoch stands for all four.  A roster hash is   *)
(* the roster.  The heads this code issues carry an empty                  *)
(* mandatory-proposal set, and in a purchase_support conversation every    *)
(* role may commit.  The state `authorized' is tested but never written.   *)
(* An external proposal lives and expires with its intent.                 *)
(***************************************************************************)
EXTENDS Integers, FiniteSets

CONSTANTS
  Installations,  \* devices that are, were or may become members
  Founders,       \* the members at activation
  Grants,         \* eligibility grants (leases)
  Holder,         \* the installation a grant was issued to
  KeyPackages,    \* published MLS key packages
  Owner,          \* the installation that published a package
  MaxIntents,     \* bound: intents ever created
  IntentTtl,      \* INTENT_TTL_MILLISECONDS, in clock ticks
  MaxTime,        \* bound on the clock
  MaxPosition,    \* bound on the log
  MaxRequests,    \* bound: commit requests clients hold at a time
  None

ASSUME MembershipAssumption ==
  /\ Founders \subseteq Installations /\ Founders # {}
  /\ Holder \in [Grants -> Installations]
  /\ Owner \in [KeyPackages -> Installations]
  /\ MaxIntents \in Nat /\ IntentTtl \in Nat
  /\ MaxTime \in Nat /\ MaxPosition \in Nat \ {0} /\ MaxRequests \in Nat
  /\ None \notin Grants \cup KeyPackages \cup Installations

VARIABLES
  clock,        \* delivery_db_now()
  conv,         \* conversations: state, epoch, last position
  memberships,  \* memberships: window of each installation
  roster,       \* conversation_roster_projections
  recipients,   \* conversation_recipient_projections
  sendGrants,   \* conversation_send_grants
  head,         \* delivery_policy_head_anchors: epoch anchored, witnessed
  leases,       \* eligibility grants that are active and unexpired
  packages,     \* key_packages
  intents,      \* membership_intents, with their external_proposals row
  log,          \* envelopes
  inbox,        \* mailbox_entries: positions delivered to each installation
  welcomes,     \* mls_welcomes: commit position of the stored Welcome, or 0
  requests,     \* commit requests clients hold and may send, again and again
  refused,      \* the requests consumeCommit has answered cas-failed
  tx            \* the commit transaction that holds the locks, or None

conversationVars == <<conv, memberships, roster, recipients, sendGrants, head,
                      packages, intents, log, inbox, welcomes>>
clientVars == <<requests, refused>>
vars == <<clock, conversationVars, leases, clientVars, tx>>

IntentIds == 1..MaxIntents
Positions == 1..MaxPosition
Live == {"requested", "proposed"}

Operations == {"add", "remove"}
Intents == [op : Operations \cup {None}, target : Installations \cup {None},
            grant : Grants \cup {None}, package : KeyPackages \cup {None},
            base : Nat, roster : SUBSET Installations,
            state : Live \cup {"none", "committed", "cancelled", "expired"},
            expires : Nat, proposal : Nat, commit : Nat,
            committer : Installations \cup {None}]
NoIntent == [op |-> None, target |-> None, grant |-> None, package |-> None,
             base |-> 0, roster |-> {}, state |-> "none", expires |-> 0,
             proposal |-> 0, commit |-> 0, committer |-> None]
Requests == [intent : IntentIds, committer : Installations, epoch : Nat,
             roster : SUBSET Installations]
Entries == [position : Positions, class : {"proposal", "commit", "application"},
            intent : IntentIds \cup {0}, epoch : Nat]

LiveMembers == {i \in Installations : memberships[i].status = "live"}
ActiveGrants == {i \in Installations : sendGrants[i] = "active"}
LiveIntents == {n \in IntentIds : intents[n].state \in Live}

TypeOK ==
  /\ clock \in 0..MaxTime
  /\ conv \in [state : {"active", "membership_pending"}, epoch : Nat \ {0},
               position : Positions]
  /\ memberships \in [Installations -> [status : {"none", "live", "removed"},
                                        joined : Nat, removed : Nat]]
  /\ roster \subseteq Installations /\ recipients \subseteq Installations
  /\ sendGrants \in [Installations -> {"none", "active", "revoked"}]
  /\ head \in [epoch : Nat, witnessed : BOOLEAN]
  /\ leases \subseteq Grants
  /\ packages \in [KeyPackages -> [state : {"available", "taken", "used"},
                                   intent : IntentIds \cup {0}]]
  /\ intents \in [IntentIds -> Intents]
  /\ log \subseteq Entries
  /\ inbox \in [Installations -> SUBSET Positions]
  /\ welcomes \in [Installations -> Nat]
  /\ requests \subseteq Requests
  /\ refused \subseteq requests
  /\ tx \in requests \cup {None}

-----------------------------------------------------------------------------
(* An activated conversation: the plan's initial Commit is at position 1,  *)
(* every founder is a member from there on and holds a send grant, and the *)
(* first head waits for the witness.                                       *)
Init ==
  /\ clock = 0
  /\ conv = [state |-> "active", epoch |-> 1, position |-> 1]
  /\ memberships = [i \in Installations |->
       IF i \in Founders THEN [status |-> "live", joined |-> 1, removed |-> 0]
                         ELSE [status |-> "none", joined |-> 0, removed |-> 0]]
  /\ roster = Founders /\ recipients = Founders
  /\ sendGrants = [i \in Installations |->
                     IF i \in Founders THEN "active" ELSE "none"]
  /\ head = [epoch |-> 1, witnessed |-> FALSE]
  /\ leases = Grants
  /\ packages = [k \in KeyPackages |-> [state |-> "available", intent |-> 0]]
  /\ intents = [n \in IntentIds |-> NoIntent]
  /\ log = {} /\ inbox = [i \in Installations |-> {}]
  /\ welcomes = [i \in Installations |-> 0]
  /\ requests = {} /\ refused = {}
  /\ tx = None

-----------------------------------------------------------------------------
(* Intents.                                                                *)

(* The next intent id; ids are fresh uuids. *)
Fresh(n) ==
  /\ intents[n].state = "none"
  /\ \A m \in 1..(n - 1) : intents[m].state # "none"

MayCreateWhilePending(target) ==
  tx = None /\ \A n \in LiveIntents : intents[n].target # target

(* createIntent's common guard: the conversation row lock, no live intent  *)
(* for the target, and state 'active'.                                     *)
MayCreate(target) ==
  /\ tx = None
  /\ \A n \in LiveIntents : intents[n].target # target
  /\ conv.state = "active"

NewIntent(op, target, g, k, proposed) ==
  [op |-> op, target |-> target, grant |-> g, package |-> k,
   base |-> conv.epoch, roster |-> proposed, state |-> "requested",
   expires |-> clock + IntentTtl, proposal |-> 0, commit |-> 0,
   committer |-> None]

(* The target's key package nobody has taken. *)
Available(k, target) == packages[k].state = "available" /\ Owner[k] = target

(* An eligible target is proposed for addition: the grant row must be      *)
(* live and the target's own, and one available key package is taken for   *)
(* good.  Nothing here asks whether the target is already a member.        *)
CreateAdd(n, target, g, k) ==
  /\ Fresh(n) /\ MayCreate(target)
  /\ g \in leases /\ Holder[g] = target
  /\ Available(k, target)
  /\ intents' = [intents EXCEPT
       ![n] = NewIntent("add", target, g, k, roster \cup {target})]
  /\ packages' = [packages EXCEPT ![k] = [state |-> "taken", intent |-> n]]
  /\ conv' = [conv EXCEPT !.state = "membership_pending"]
  /\ UNCHANGED <<clock, memberships, roster, recipients, sendGrants, head,
                 leases, log, inbox, welcomes, clientVars, tx>>

CreateRemove(n, target) ==
  /\ Fresh(n) /\ MayCreate(target)
  /\ memberships[target].status = "live"
  /\ intents' = [intents EXCEPT
       ![n] = NewIntent("remove", target, None, None, roster \ {target})]
  /\ conv' = [conv EXCEPT !.state = "membership_pending"]
  /\ UNCHANGED <<clock, memberships, roster, recipients, sendGrants, head,
                 leases, packages, log, inbox, welcomes, clientVars, tx>>

(* returnConversationToActiveIfClear once the intents in `ended' are over. *)
ActiveIfClear(ended) ==
  IF LiveIntents \subseteq ended THEN [conv EXCEPT !.state = "active"] ELSE conv

EndIntents(ended, state) ==
  /\ intents' = [n \in IntentIds |->
       IF n \in ended THEN [intents[n] EXCEPT !.state = state] ELSE intents[n]]
  /\ conv' = IF \E n \in ended : intents[n].op # "remove"
             THEN ActiveIfClear(ended) ELSE conv
  /\ UNCHANGED <<clock, memberships, roster, recipients, sendGrants, head,
                 leases, packages, log, inbox, welcomes, clientVars, tx>>

(* Any live member may withdraw a live intent, expired or not. *)
CancelIntent(n, by) ==
  /\ tx = None
  /\ n \in LiveIntents
  /\ memberships[by].status = "live"
  /\ EndIntents({n}, "cancelled")

ExpireIntents ==
  /\ tx = None
  /\ LET due == {n \in LiveIntents : intents[n].expires <= clock}
     IN  due # {} /\ EndIntents(due, "expired")

-----------------------------------------------------------------------------
(* The service's external proposal: one envelope in the log, no fan-out.   *)

NextPosition == conv.position + 1

ProposableAgain(n) ==
  intents[n].state \in {"requested", "committed"} /\ intents[n].expires > clock

Proposable(n) == intents[n].state = "requested" /\ intents[n].expires > clock

RecordProposal(n) ==
  /\ tx = None
  /\ Proposable(n)
  /\ NextPosition \in Positions
  /\ intents' = [intents EXCEPT ![n] = [intents[n] EXCEPT
                    !.state = "proposed", !.proposal = NextPosition]]
  /\ log' = log \cup {[position |-> NextPosition, class |-> "proposal",
                       intent |-> n, epoch |-> conv.epoch]}
  /\ conv' = [conv EXCEPT !.position = NextPosition]
  /\ UNCHANGED <<clock, memberships, roster, recipients, sendGrants, head,
                 leases, packages, inbox, welcomes, clientVars, tx>>

-----------------------------------------------------------------------------
(* Commits.                                                                *)

(* A member's device builds a Commit for a live intent, on the intent's    *)
(* base epoch.  It holds the request and may send it at any later time.    *)
PrepareCommit(n, committer) ==
  /\ n \in LiveIntents
  /\ memberships[committer].status = "live"
  /\ LET r == [intent |-> n, committer |-> committer,
               epoch |-> intents[n].base, roster |-> intents[n].roster]
     IN  r \notin requests /\ requests' = requests \cup {r}
  /\ Cardinality(requests) < MaxRequests
  /\ UNCHANGED <<clock, conversationVars, leases, refused, tx>>

(* A device that has its answer, or has seen another commit win, drops the *)
(* request.                                                                *)
DiscardCommit(r) ==
  /\ tx # r
  /\ requests' = requests \ {r} /\ refused' = refused \ {r}
  /\ UNCHANGED <<clock, conversationVars, leases, tx>>

(* The compare-and-swap on the conversation row. *)
CountersCurrent(r) ==
  /\ conv.state = "membership_pending"
  /\ conv.epoch = r.epoch

IntentProposedAnyState(r) ==
  /\ intents[r.intent].expires > clock
  /\ intents[r.intent].roster = r.roster

(* The intent's own part of the compare-and-swap. *)
IntentProposed(r) ==
  /\ intents[r.intent].state = "proposed"
  /\ intents[r.intent].expires > clock
  /\ intents[r.intent].roster = r.roster

LeaseLive(n) == intents[n].op = "add" => intents[n].grant \in leases

(* A live member, and never the one to be removed. *)
CommitterAuthorized(r) ==
  /\ memberships[r.committer].status = "live"
  /\ intents[r.intent].op = "remove" => r.committer # intents[r.intent].target

(* An Add consumes the package its intent took; a Remove needs a live      *)
(* target and must leave a send grant standing.                            *)
TargetReady(n) ==
  IF intents[n].op = "add"
  THEN packages[intents[n].package] = [state |-> "taken", intent |-> n]
  ELSE /\ memberships[intents[n].target].status = "live"
       /\ ActiveGrants \ {intents[n].target} # {}

CommitChecks(r) ==
  /\ CountersCurrent(r)
  /\ IntentProposed(r)
  /\ LeaseLive(r.intent)
  /\ CommitterAuthorized(r)
  /\ TargetReady(r.intent)

(* consumeCommit takes the locks and passes every check. *)
BeginCommit(r) ==
  /\ tx = None
  /\ CommitChecks(r)
  /\ tx' = r
  /\ UNCHANGED <<clock, conversationVars, leases, clientVars>>

(* ... or fails one, rolls back and answers 412. *)
RefuseCommit(r) ==
  /\ tx = None
  /\ ~CommitChecks(r)
  /\ refused' = refused \cup {r}
  /\ UNCHANGED <<clock, conversationVars, leases, requests, tx>>

(* The crash, lost connection or deadlock victim: nothing was written. *)
AbortCommit ==
  /\ tx # None
  /\ tx' = None
  /\ UNCHANGED <<clock, conversationVars, leases, clientVars>>

(* The roster and recipient projections after the commit of intent n. *)
Changed(set, n) ==
  IF intents[n].op = "add" THEN set \cup {intents[n].target}
                           ELSE set \ {intents[n].target}

WindowKept(n, position) ==
  LET old == memberships[intents[n].target]
  IN  IF intents[n].op = "add"
      THEN [status |-> "live", removed |-> 0,
            joined |-> IF old.status = "removed" THEN old.joined ELSE position]
      ELSE [old EXCEPT !.status = "removed", !.removed = position]

(* The membership window: it opens, or reopens, and closes at the commit's *)
(* position.  Inserting a window that is already open violates the primary *)
(* key, which aborts the transaction.                                      *)
Window(n, position) ==
  IF intents[n].op = "add"
  THEN [status |-> "live", joined |-> position, removed |-> 0]
  ELSE [memberships[intents[n].target] EXCEPT !.status = "removed",
                                              !.removed = position]

ReissuedWithoutTarget(n) ==
  [i \in Installations |->
     IF intents[n].op = "add" /\ sendGrants[i] # "none" THEN "active"
     ELSE IF i = intents[n].target /\ intents[n].op = "remove" THEN "revoked"
     ELSE sendGrants[i]]

(* Send grants after the re-issued policy head.  An Add re-issues over     *)
(* every existing row and the target's; a Remove revokes the target's and  *)
(* re-issues over those still active.                                      *)
Reissued(n) ==
  [i \in Installations |->
     IF i = intents[n].target
     THEN IF intents[n].op = "add" THEN "active" ELSE "revoked"
     ELSE IF intents[n].op = "add" /\ sendGrants[i] # "none" THEN "active"
     ELSE sendGrants[i]]

(* The re-issued head is anchored at the epoch the commit opens, and the   *)
(* lane is closed until a witness has cosigned it.                         *)
ReissuedHead == [epoch |-> conv.epoch + 1, witnessed |-> FALSE]

(* One mailbox item per member of `to'. *)
FanOut(to, position) ==
  [i \in Installations |-> IF i \in to THEN inbox[i] \cup {position}
                                       ELSE inbox[i]]

ApplyCommit ==
  /\ tx # None
  /\ NextPosition \in Positions
  /\ LET n == tx.intent
         target == intents[n].target
         position == NextPosition
     IN  /\ intents[n].op = "add" => memberships[target].status # "live"
         /\ Changed(roster, n) = tx.roster
         /\ log' = log \cup {[position |-> position, class |-> "commit",
                              intent |-> n, epoch |-> conv.epoch]}
         /\ intents' = [intents EXCEPT ![n] = [intents[n] EXCEPT
                           !.state = "committed", !.commit = position,
                           !.committer = tx.committer]]
         /\ packages' = [k \in KeyPackages |->
              IF packages[k].intent = n THEN [packages[k] EXCEPT !.state = "used"]
                                        ELSE packages[k]]
         /\ memberships' = [memberships EXCEPT ![target] = Window(n, position)]
         /\ welcomes' = IF intents[n].op = "add"
                        THEN [welcomes EXCEPT ![target] = position]
                        ELSE welcomes
         /\ roster' = Changed(roster, n)
         /\ recipients' = Changed(recipients, n)
         /\ conv' = [state |-> "active", epoch |-> conv.epoch + 1,
                     position |-> position]
         /\ sendGrants' = Reissued(n)
         /\ head' = ReissuedHead
         /\ inbox' = FanOut(Changed(LiveMembers, n), position)
  /\ tx' = None
  /\ UNCHANGED <<clock, leases, clientVars>>

-----------------------------------------------------------------------------
(* The environment of the stores.                                          *)

(* The keeper suspends, revokes or expires a grant; it locks no            *)
(* conversation row.                                                       *)
RecheckGrants(g) ==
  /\ g \in leases
  /\ leases' = leases \ {g}
  /\ UNCHANGED <<clock, conversationVars, clientVars, tx>>

(* The witness cosigns the checkpoint that covers the current head. *)
WitnessHead ==
  /\ tx = None
  /\ ~head.witnessed
  /\ head' = [head EXCEPT !.witnessed = TRUE]
  /\ UNCHANGED <<clock, conv, memberships, roster, recipients, sendGrants,
                 leases, packages, intents, log, inbox, welcomes, clientVars, tx>>

(* One application envelope through the append lane. *)
Append(sender) ==
  /\ tx = None
  /\ conv.state = "active"
  /\ sender \in roster /\ sendGrants[sender] = "active"
  /\ head.witnessed /\ head.epoch = conv.epoch
  /\ NextPosition \in Positions
  /\ log' = log \cup {[position |-> NextPosition, class |-> "application",
                       intent |-> 0, epoch |-> conv.epoch]}
  /\ inbox' = FanOut(recipients, NextPosition)
  /\ conv' = [conv EXCEPT !.position = NextPosition]
  /\ UNCHANGED <<clock, memberships, roster, recipients, sendGrants, head,
                 leases, packages, intents, welcomes, clientVars, tx>>

Tick ==
  /\ clock < MaxTime
  /\ clock' = clock + 1
  /\ UNCHANGED <<conversationVars, leases, clientVars, tx>>

Next ==
  \/ \E n \in IntentIds, i \in Installations, g \in Grants, k \in KeyPackages :
       CreateAdd(n, i, g, k)
  \/ \E n \in IntentIds, i \in Installations : CreateRemove(n, i)
  \/ \E n \in IntentIds, i \in Installations : CancelIntent(n, i)
  \/ ExpireIntents
  \/ \E n \in IntentIds : RecordProposal(n)
  \/ \E n \in IntentIds, i \in Installations : PrepareCommit(n, i)
  \/ \E r \in requests : DiscardCommit(r)
  \/ \E r \in requests : BeginCommit(r)
  \/ \E r \in requests : RefuseCommit(r)
  \/ AbortCommit
  \/ ApplyCommit
  \/ \E g \in Grants : RecheckGrants(g)
  \/ WitnessHead
  \/ \E i \in Installations : Append(i)
  \/ Tick

Spec == Init /\ [][Next]_vars

(* The service's own processes: the clock, the witness sync, and a commit  *)
(* transaction that ends one way or the other.  Devices owe nothing, and   *)
(* no process of the repository calls expireIntents.                       *)
ServiceFairness ==
  /\ WF_vars(Tick)
  /\ WF_vars(WitnessHead)
  /\ WF_vars(AbortCommit \/ ApplyCommit)

FairSpec == Spec /\ ServiceFairness

-----------------------------------------------------------------------------
(* Properties.                                                             *)

(* The roster, the recipient set and the open membership windows are three *)
(* tables rewritten by separate statements of consumeCommit; they name the *)
(* same installations, and each of these can send: its grant is active.    *)
ProjectionsAgree ==
  /\ roster = LiveMembers
  /\ recipients = LiveMembers
  /\ LiveMembers \subseteq ActiveGrants
  /\ head.epoch = conv.epoch

(* createIntent, cancelIntent, expireIntents and consumeCommit move the    *)
(* conversation's state and an intent's in different orders; still at most *)
(* one intent is live, only while the conversation is membership_pending,  *)
(* and then its base epoch and proposed roster are still those of the      *)
(* conversation: no interleaving makes a live intent stale.                *)
LiveIntentCurrent ==
  \A n \in LiveIntents :
    /\ LiveIntents = {n}
    /\ conv.state = "membership_pending"
    /\ intents[n].base = conv.epoch
    /\ intents[n].roster = Changed(roster, n)

Committed == {n \in IntentIds : intents[n].state = "committed"}

(* However often and by however many devices commits are sent, each        *)
(* committed intent has exactly one mls_commit envelope, the one its row   *)
(* is bound to, each epoch was left by exactly one commit, and the epoch   *)
(* counts them.                                                            *)
CommitsOnce ==
  LET commits == {e \in log : e.class = "commit"}
  IN  /\ \A n \in Committed :
           {e \in commits : e.intent = n} =
             {[position |-> intents[n].commit, class |-> "commit",
               intent |-> n, epoch |-> intents[n].base]}
      /\ \A e \in commits : e.intent \in Committed
      /\ \A m, n \in Committed : intents[m].base = intents[n].base => m = n
      /\ {intents[n].base : n \in Committed} = 1..(conv.epoch - 1)

(* A key package is taken by one intent and never comes back: it is used   *)
(* exactly when that intent committed, and a cancelled or expired intent   *)
(* keeps it taken.                                                         *)
PackageTakenOnce ==
  /\ \A k \in KeyPackages :
       packages[k].state # "available" =>
         /\ packages[k].intent \in IntentIds
         /\ intents[packages[k].intent].state # "none"
         /\ intents[packages[k].intent].package = k
         /\ packages[k].state = "used" <=> packages[k].intent \in Committed
  /\ \A n \in IntentIds :
       (intents[n].state # "none" /\ intents[n].op = "add") =>
         packages[intents[n].package].intent = n

(* A live member has in its mailbox every commit and application envelope  *)
(* since the Commit that admitted it, that Commit included, and the        *)
(* Welcome of exactly that Commit; a removed one has nothing from its      *)
(* removal on, across any number of removals and re-additions.             *)
MailboxWindows ==
  \A i \in Installations :
    /\ \A e \in log : e.class # "proposal" =>
         /\ (i \in LiveMembers /\ memberships[i].joined <= e.position)
              => e.position \in inbox[i]
         /\ (memberships[i].status = "removed"
               /\ memberships[i].removed <= e.position)
              => e.position \notin inbox[i]
    /\ (i \in LiveMembers /\ memberships[i].joined > 1)
         => welcomes[i] = memberships[i].joined

(* Membership changes only through consumeCommit: one installation at a    *)
(* time, leaving the epoch the change was proposed in, by a commit of a    *)
(* member other than a removed target.                                     *)
ChangedByCommit ==
  [][LiveMembers' # LiveMembers =>
       /\ tx # None
       /\ tx.committer \in LiveMembers
       /\ tx.committer \in LiveMembers'
       /\ conv'.epoch = conv.epoch + 1
       /\ LiveMembers' = Changed(LiveMembers, tx.intent)]_vars

(* The change the conversation is waiting for. *)
NoChange == [op |-> None, target |-> None]
PendingChange ==
  IF LiveIntents = {} THEN NoChange
  ELSE LET n == CHOOSE m \in LiveIntents : TRUE
       IN  [op |-> intents[n].op, target |-> intents[n].target]

(* The three stores together implement a group whose membership is a       *)
(* serial history of single changes, each proposed in the epoch its commit *)
(* leaves, none applied twice or after it was withdrawn.                   *)
GroupHistory == INSTANCE Group WITH epoch <- conv.epoch, members <- LiveMembers,
                                    change <- PendingChange
ImplementsGroup == GroupHistory!Spec

(* What the comment on step 4c of consumeCommit says of a removed member:  *)
(* that it holds no send grant.  A later Add re-issues the head over every *)
(* grant row, the revoked ones included.                                   *)
NoGrantWithoutMembership == ActiveGrants \subseteq LiveMembers

(* What architecture.md says of membership_pending: there is an intent it  *)
(* waits for.  A cancelled or expired removal leaves the state pending.    *)
PendingHasIntent == conv.state = "membership_pending" => LiveIntents # {}

(* What service-api.md says of an expired intent that is not a removal:    *)
(* the conversation returns to active.                                     *)
ExpiredAddReturns ==
  \A n \in IntentIds :
    (n \in LiveIntents /\ intents[n].op = "add" /\ intents[n].expires <= clock)
      ~> conv.state = "active"

(* What service-api.md says of commits: replay is handled first, so the    *)
(* retry of an accepted request is not answered cas-failed.                *)
RetryReplaysCommit ==
  \A r \in refused :
    ~ /\ r.intent \in Committed
      /\ intents[r.intent].committer = r.committer
      /\ intents[r.intent].base = r.epoch

(* What the comment in consumeCommit says of the lease: an Add commits     *)
(* only while the grant is live.                                           *)
LeaseLiveAtCommit ==
  [][(tx # None /\ conv'.epoch # conv.epoch) => LeaseLive(tx.intent)]_vars

=============================================================================
