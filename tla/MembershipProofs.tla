-------------------------- MODULE MembershipProofs --------------------------
(***************************************************************************)
(* The membership stores keep their promises for every set of              *)
(* installations, grants and key packages and every bound.                 *)
(*                                                                         *)
(* The inductive invariant is the conjunction of the properties            *)
(* ProjectionsAgree, LiveIntentCurrent, CommitsOnce, PackageTakenOnce and  *)
(* MailboxWindows with what they need to be inductive: the shape of an     *)
(* intent row (IntentShape), that nothing in the log, a window or a        *)
(* mailbox lies beyond the conversation's position (Bounded), and what the *)
(* row locks of a commit in progress preserve (HeldCommit).                *)
(***************************************************************************)
EXTENDS Membership, TLAPS

RowsType ==
  /\ conv \in [state : {"active", "membership_pending"}, epoch : Nat \ {0},
               position : Positions]
  /\ memberships \in [Installations -> [status : {"none", "live", "removed"},
                                        joined : Nat, removed : Nat]]
  /\ roster \subseteq Installations /\ recipients \subseteq Installations
  /\ sendGrants \in [Installations -> {"none", "active", "revoked"}]
  /\ head \in [epoch : Nat, witnessed : BOOLEAN]
  /\ packages \in [KeyPackages -> [state : {"available", "taken", "used"},
                                   intent : IntentIds \cup {0}]]
  /\ intents \in [IntentIds -> Intents]
  /\ log \subseteq Entries
  /\ inbox \in [Installations -> SUBSET Positions]
  /\ welcomes \in [Installations -> Nat]

ClientType ==
  /\ clock \in 0..MaxTime
  /\ leases \subseteq Grants
  /\ requests \subseteq Requests
  /\ refused \subseteq requests
  /\ tx \in requests \cup {None}

IntentShape ==
  \A n \in IntentIds : intents[n].state # "none" =>
    /\ intents[n].op \in Operations /\ intents[n].target \in Installations
    /\ intents[n].op = "add" => intents[n].package \in KeyPackages

PackageShape ==
  \A k \in KeyPackages : packages[k].state = "available" => packages[k].intent = 0

Bounded ==
  /\ \A e \in log : e.position <= conv.position
  /\ \A i \in Installations :
       /\ memberships[i].joined <= conv.position
       /\ \A p \in inbox[i] : p <= conv.position

RowInv ==
  /\ RowsType /\ IntentShape /\ PackageShape /\ Bounded
  /\ ProjectionsAgree /\ LiveIntentCurrent /\ CommitsOnce
  /\ PackageTakenOnce /\ MailboxWindows

(* While a commit holds the row locks, what it checked stays true. *)
HeldCommit ==
  tx # None =>
    /\ conv.state = "membership_pending" /\ conv.epoch = tx.epoch
    /\ intents[tx.intent].state = "proposed"
    /\ intents[tx.intent].roster = tx.roster
    /\ tx.committer \in LiveMembers
    /\ intents[tx.intent].op = "remove" =>
         /\ tx.committer # intents[tx.intent].target
         /\ intents[tx.intent].target \in LiveMembers

Inv == RowInv /\ ClientType /\ HeldCommit

USE MembershipAssumption

-----------------------------------------------------------------------------
\* The initial rows of an activated conversation satisfy the invariant.
LEMMA InitInv == Init => Inv
<1> SUFFICES ASSUME Init PROVE Inv BY Zenon
<1> USE DEF Init
<1>1. NoIntent \in Intents BY Zenon DEF NoIntent, Intents, Live, Operations
<1>2. intents \in [IntentIds -> Intents] /\ \A n \in IntentIds : intents[n].state = "none"
  BY <1>1, Zenon DEF NoIntent
<1>3. /\ conv \in [state : {"active", "membership_pending"}, epoch : Nat \ {0},
                   position : Positions]
      /\ conv.state = "active" /\ conv.epoch = 1 /\ conv.position = 1
  BY DEF Positions
<1>4. memberships \in [Installations -> [status : {"none", "live", "removed"},
                                         joined : Nat, removed : Nat]]
  BY Zenon
<1>5. \A i \in Installations :
        /\ memberships[i].status = "live" <=> i \in Founders
        /\ memberships[i].joined <= 1
        /\ memberships[i].status # "removed"
  OBVIOUS
<1>6. LiveMembers = Founders BY <1>5, Zenon DEF LiveMembers
<1>7. packages \in [KeyPackages -> [state : {"available", "taken", "used"},
                                    intent : IntentIds \cup {0}]]
      /\ \A k \in KeyPackages : packages[k].state = "available" /\ packages[k].intent = 0
  BY Zenon
<1>8. RowsType
  BY <1>2, <1>3, <1>4, <1>7, Zenon DEF RowsType
<1>9. LiveIntents = {} /\ Committed = {}
  BY <1>2, Zenon DEF LiveIntents, Committed, Live
<1>10. IntentShape /\ PackageShape /\ LiveIntentCurrent
  BY <1>2, <1>7, <1>9, Zenon DEF IntentShape, PackageShape, LiveIntentCurrent
<1>11. Bounded /\ MailboxWindows
  BY <1>3, <1>5 DEF Bounded, MailboxWindows
<1>12. ProjectionsAgree
  BY <1>3, <1>6, Zenon DEF ProjectionsAgree, ActiveGrants
<1>13. PackageTakenOnce
  BY <1>2, <1>7, Zenon DEF PackageTakenOnce
<1>14. CommitsOnce
  BY <1>3, <1>9 DEF CommitsOnce
<1>15. ClientType /\ HeldCommit
  BY DEF ClientType, HeldCommit
<1> QED BY <1>8, <1>10, <1>11, <1>12, <1>13, <1>14, <1>15, Zenon DEF Inv, RowInv

-----------------------------------------------------------------------------
\* A step that leaves the conversation's rows alone leaves their invariant.
LEMMA SameRows ==
  ASSUME RowInv, UNCHANGED conversationVars
  PROVE  RowInv'
<1>1. /\ conv' = conv /\ memberships' = memberships /\ roster' = roster
      /\ recipients' = recipients /\ sendGrants' = sendGrants /\ head' = head
      /\ packages' = packages /\ intents' = intents /\ log' = log
      /\ inbox' = inbox /\ welcomes' = welcomes
  BY Zenon DEF conversationVars
<1> USE <1>1
<1>2. /\ LiveMembers' = LiveMembers /\ ActiveGrants' = ActiveGrants
      /\ LiveIntents' = LiveIntents /\ Committed' = Committed
  BY Zenon DEF LiveMembers, ActiveGrants, LiveIntents, Committed
<1>3. RowsType' BY Zenon DEF RowInv, RowsType
<1>4. IntentShape' BY Zenon DEF RowInv, IntentShape
<1>5. PackageShape' BY Zenon DEF RowInv, PackageShape
<1>6. Bounded' BY Zenon DEF RowInv, Bounded
<1>7. ProjectionsAgree' BY <1>2, Zenon DEF RowInv, ProjectionsAgree
<1>8. LiveIntentCurrent' BY <1>2, Zenon DEF RowInv, LiveIntentCurrent, Changed
<1>9. CommitsOnce' BY <1>2 DEF RowInv, CommitsOnce
<1>10. PackageTakenOnce' BY <1>2, Zenon DEF RowInv, PackageTakenOnce
<1>11. MailboxWindows' BY <1>2, Zenon DEF RowInv, MailboxWindows
<1> QED BY <1>3, <1>4, <1>5, <1>6, <1>7, <1>8, <1>9, <1>10, <1>11, Zenon DEF RowInv

\* Building, dropping and sending requests, the keeper and the clock write no row
\* of the conversation.
LEMMA OtherSteps ==
  ASSUME Inv,
         \/ \E n \in IntentIds, i \in Installations : PrepareCommit(n, i)
         \/ \E r \in requests : DiscardCommit(r) \/ BeginCommit(r) \/ RefuseCommit(r)
         \/ AbortCommit \/ Tick \/ \E g \in Grants : RecheckGrants(g)
         \/ UNCHANGED vars
  PROVE  Inv'
<1>1. UNCHANGED conversationVars
  BY Zenon DEF PrepareCommit, DiscardCommit, BeginCommit, RefuseCommit, AbortCommit,
     Tick, RecheckGrants, vars
<1>2. RowInv' BY <1>1, SameRows, Zenon DEF Inv
<1>3. /\ conv' = conv /\ memberships' = memberships /\ intents' = intents
      /\ LiveMembers' = LiveMembers
  BY <1>1, Zenon DEF conversationVars, LiveMembers
<1>4. ASSUME UNCHANGED <<clock, leases>>, requests' \subseteq Requests,
             refused' \subseteq requests', tx' = tx, tx' \in requests' \cup {None}
      PROVE  ClientType' /\ HeldCommit'
  BY <1>3, <1>4, Zenon DEF Inv, ClientType, HeldCommit
<1>5. CASE \E n \in IntentIds, i \in Installations : PrepareCommit(n, i)
  <2> PICK n \in IntentIds, i \in Installations : PrepareCommit(n, i) BY <1>5, Zenon
  <2> DEFINE r == [intent |-> n, committer |-> i, epoch |-> intents[n].base,
                   roster |-> intents[n].roster]
  <2>1. intents[n] \in Intents BY Zenon DEF Inv, RowInv, RowsType
  <2>2. r \in Requests BY <2>1, Zenon DEF Requests, Intents
  <2>3. /\ requests' = requests \cup {r} /\ UNCHANGED <<clock, leases, refused, tx>>
    BY Zenon DEF PrepareCommit
  <2> HIDE DEF r
  <2> QED BY <1>2, <1>4, <2>2, <2>3, Zenon DEF Inv, ClientType
<1>6. ASSUME NEW r \in requests, DiscardCommit(r) PROVE ClientType' /\ HeldCommit'
  BY <1>4, <1>6, Zenon DEF DiscardCommit, Inv, ClientType
<1>7. ASSUME NEW r \in requests, RefuseCommit(r) PROVE ClientType' /\ HeldCommit'
  BY <1>4, <1>7, Zenon DEF RefuseCommit, Inv, ClientType
<1>8. ASSUME NEW r \in requests, BeginCommit(r) PROVE ClientType' /\ HeldCommit'
  <2>1. r \in Requests /\ r.intent \in IntentIds /\ r.committer \in Installations
    BY Zenon DEF Inv, ClientType, Requests
  <2>2. /\ tx' = r /\ UNCHANGED <<clock, leases, requests, refused>>
        /\ conv.state = "membership_pending" /\ conv.epoch = r.epoch
        /\ intents[r.intent].state = "proposed" /\ intents[r.intent].roster = r.roster
        /\ memberships[r.committer].status = "live"
        /\ intents[r.intent].op = "remove" => r.committer # intents[r.intent].target
        /\ intents[r.intent].op # "add" => memberships[intents[r.intent].target].status = "live"
    BY <1>8, Zenon DEF BeginCommit, CommitChecks, CountersCurrent, IntentProposed,
       CommitterAuthorized, TargetReady, clientVars
  <2>3. intents[r.intent].target \in Installations
    BY <2>1, <2>2, Zenon DEF Inv, RowInv, IntentShape
  <2>4. ClientType' BY <2>2, Zenon DEF Inv, ClientType
  <2>5. HeldCommit' BY <1>3, <2>1, <2>2, <2>3, Zenon DEF HeldCommit, LiveMembers
  <2> QED BY <2>4, <2>5, Zenon
<1>9. CASE AbortCommit
  <2>1. tx' = None /\ UNCHANGED <<clock, leases, requests, refused>>
    BY <1>9, Zenon DEF AbortCommit, clientVars
  <2> QED BY <1>2, <2>1, Zenon DEF Inv, ClientType, HeldCommit
<1>10. CASE Tick
  <2>1. clock' \in 0..MaxTime /\ UNCHANGED <<leases, requests, refused, tx>>
    BY <1>10 DEF Tick, clientVars, Inv, ClientType
  <2> QED BY <1>2, <1>3, <2>1, Zenon DEF Inv, ClientType, HeldCommit
<1>11. ASSUME NEW g \in Grants, RecheckGrants(g) PROVE ClientType' /\ HeldCommit'
  <2>1. leases' \subseteq Grants /\ UNCHANGED <<clock, requests, refused, tx>>
    BY <1>11, Zenon DEF RecheckGrants, clientVars, Inv, ClientType
  <2> QED BY <1>3, <2>1, Zenon DEF Inv, ClientType, HeldCommit
<1>12. CASE UNCHANGED vars
  <2>1. UNCHANGED <<clock, leases, requests, refused, tx>>
    BY <1>12, Zenon DEF vars, clientVars
  <2> QED BY <1>2, <1>3, <2>1, Zenon DEF Inv, ClientType, HeldCommit
<1> QED BY <1>2, <1>5, <1>6, <1>7, <1>8, <1>9, <1>10, <1>11, <1>12, Zenon DEF Inv

-----------------------------------------------------------------------------
\* No intent is live while the conversation is active.
LEMMA NoneLiveWhenActive ==
  ASSUME LiveIntentCurrent, conv.state = "active"
  PROVE  LiveIntents = {}
BY Zenon DEF LiveIntentCurrent

\* A new intent, with the key package it takes if it is an addition.
LEMMA CreateStep ==
  ASSUME RowInv, NEW n \in IntentIds, intents[n].state = "none", conv.state = "active",
         NEW row \in Intents, row.state = "requested", row.op \in Operations,
         row.target \in Installations, row.base = conv.epoch,
         row.roster = IF row.op = "add" THEN roster \cup {row.target}
                                        ELSE roster \ {row.target},
         intents' = [intents EXCEPT ![n] = row],
         conv' = [conv EXCEPT !.state = "membership_pending"],
         \/ row.op = "remove" /\ row.package = None /\ packages' = packages
         \/ /\ row.op = "add" /\ row.package \in KeyPackages
            /\ packages[row.package].state = "available"
            /\ packages' = [packages EXCEPT ![row.package] =
                              [state |-> "taken", intent |-> n]],
         UNCHANGED <<memberships, roster, recipients, sendGrants, head, log, inbox, welcomes>>
  PROVE  RowInv'
<1>1. RowsType /\ IntentShape /\ PackageShape /\ Bounded /\ ProjectionsAgree
      /\ LiveIntentCurrent /\ CommitsOnce /\ PackageTakenOnce /\ MailboxWindows
  BY Zenon DEF RowInv
<1>2. /\ intents \in [IntentIds -> Intents] /\ intents' \in [IntentIds -> Intents]
      /\ intents'[n] = row
      /\ \A m \in IntentIds \ {n} : intents'[m] = intents[m]
  BY <1>1, Zenon DEF RowsType
<1>3. /\ conv'.state = "membership_pending" /\ conv'.epoch = conv.epoch
      /\ conv'.position = conv.position
      /\ conv' \in [state : {"active", "membership_pending"}, epoch : Nat \ {0},
                    position : Positions]
  BY <1>1, Zenon DEF RowsType
<1>4. /\ packages' \in [KeyPackages -> [state : {"available", "taken", "used"},
                                        intent : IntentIds \cup {0}]]
      /\ \A k \in KeyPackages :
           \/ packages'[k] = packages[k] /\ (row.op = "add" => k # row.package)
           \/ /\ row.op = "add" /\ k = row.package /\ packages[k].state = "available"
              /\ packages'[k].state = "taken" /\ packages'[k].intent = n
  <2>1. CASE row.op = "remove" /\ packages' = packages
    BY <1>1, <2>1, "add" # "remove", Zenon DEF RowsType
  <2>2. CASE /\ row.op = "add" /\ row.package \in KeyPackages
             /\ packages[row.package].state = "available"
             /\ packages' = [packages EXCEPT ![row.package] =
                               [state |-> "taken", intent |-> n]]
    <3>1. packages \in [KeyPackages -> [state : {"available", "taken", "used"},
                                        intent : IntentIds \cup {0}]]
      BY <1>1, Zenon DEF RowsType
    <3> QED BY <2>2, <3>1, Zenon
  <2> QED BY <2>1, <2>2, Zenon
<1>5. RowsType' BY <1>1, <1>2, <1>3, <1>4, Zenon DEF RowsType
<1>6. IntentShape' BY <1>1, <1>2, Zenon DEF IntentShape
<1>7. PackageShape' BY <1>1, <1>4, Zenon DEF PackageShape
<1>8. Bounded' BY <1>1, <1>3, Zenon DEF Bounded
<1>9. LiveMembers' = LiveMembers /\ ActiveGrants' = ActiveGrants
  BY Zenon DEF LiveMembers, ActiveGrants
<1>10. ProjectionsAgree' BY <1>1, <1>3, <1>9, Zenon DEF ProjectionsAgree
<1>11. MailboxWindows' BY <1>1, <1>9, Zenon DEF MailboxWindows
<1>12. LiveIntents = {} BY <1>1, NoneLiveWhenActive, Zenon
<1>13. LiveIntents' = {n} BY <1>2, <1>12, Zenon DEF LiveIntents, Live
<1>14. LiveIntentCurrent'
  BY <1>2, <1>3, <1>13, Zenon DEF LiveIntentCurrent, Changed, Operations
<1>15. Committed' = Committed /\ n \notin Committed BY <1>2, Zenon DEF Committed
<1>16. CommitsOnce'
  <2>1. \A m \in Committed : intents'[m] = intents[m] /\ m \in IntentIds
    BY <1>2, <1>15, Zenon DEF Committed
  <2> QED BY <1>1, <1>3, <1>15, <2>1 DEF CommitsOnce
<1>17. PackageTakenOnce'
  <2>1. ASSUME NEW k \in KeyPackages, packages'[k].state # "available"
        PROVE  /\ packages'[k].intent \in IntentIds
               /\ intents'[packages'[k].intent].state # "none"
               /\ intents'[packages'[k].intent].package = k
               /\ packages'[k].state = "used" <=> packages'[k].intent \in Committed'
    <3>1. CASE packages'[k] = packages[k]
      BY <1>1, <1>2, <1>15, <2>1, <3>1 DEF PackageTakenOnce
    <3>2. CASE packages'[k] # packages[k]
      BY <1>2, <1>4, <1>15, <2>1, <3>2, Zenon
    <3> QED BY <3>1, <3>2, Zenon
  <2>2. ASSUME NEW m \in IntentIds, intents'[m].state # "none", intents'[m].op = "add"
        PROVE  packages'[intents'[m].package].intent = m
    <3>1. CASE m = n BY <1>2, <1>4, <2>2, <3>1, Zenon
    <3>2. CASE m # n
      <4>1. intents'[m] = intents[m] /\ intents[m].package \in KeyPackages
            /\ packages[intents[m].package].intent = m
        BY <1>1, <1>2, <2>2, <3>2, Zenon DEF PackageTakenOnce, IntentShape
      <4>2. packages[intents[m].package].state # "available"
        BY <1>1, <4>1 DEF PackageShape, IntentIds
      <4> QED BY <1>4, <4>1, <4>2, Zenon
    <3> QED BY <3>1, <3>2, Zenon
  <2> QED BY <2>1, <2>2, Zenon DEF PackageTakenOnce
<1> QED BY <1>5, <1>6, <1>7, <1>8, <1>10, <1>11, <1>14, <1>16, <1>17, Zenon DEF RowInv

\* Ending live intents leaves no live one, and changes no other row.
LEMMA EndStep ==
  ASSUME RowInv, NEW ended \in SUBSET LiveIntents, ended # {},
         NEW state \in {"cancelled", "expired"}, EndIntents(ended, state)
  PROVE  RowInv'
<1>1. RowsType /\ IntentShape /\ PackageShape /\ Bounded /\ ProjectionsAgree
      /\ LiveIntentCurrent /\ CommitsOnce /\ PackageTakenOnce /\ MailboxWindows
  BY Zenon DEF RowInv
<1>2. UNCHANGED <<memberships, roster, recipients, sendGrants, head, packages, log,
                  inbox, welcomes>>
  BY Zenon DEF EndIntents
<1>3. /\ conv'.epoch = conv.epoch /\ conv'.position = conv.position
      /\ conv' \in [state : {"active", "membership_pending"}, epoch : Nat \ {0},
                    position : Positions]
  BY <1>1, Zenon DEF EndIntents, ActiveIfClear, RowsType
<1>4. /\ intents' = [n \in IntentIds |-> IF n \in ended
                       THEN [intents[n] EXCEPT !.state = state] ELSE intents[n]]
      /\ \A n \in IntentIds : intents[n] \in Intents
  BY <1>1, Zenon DEF EndIntents, RowsType
<1>5. \A n \in IntentIds :
        /\ intents'[n] \in Intents
        /\ intents'[n].op = intents[n].op /\ intents'[n].target = intents[n].target
        /\ intents'[n].package = intents[n].package /\ intents'[n].base = intents[n].base
        /\ intents'[n].roster = intents[n].roster /\ intents'[n].commit = intents[n].commit
        /\ n \in ended => intents'[n].state = state /\ intents[n].state \in Live
        /\ n \notin ended => intents'[n].state = intents[n].state
  BY <1>4 DEF Intents, LiveIntents
<1>6. RowsType' BY <1>1, <1>2, <1>3, <1>4, <1>5, Zenon DEF RowsType
<1>7. IntentShape' BY <1>1, <1>5, Zenon DEF IntentShape, Live
<1>8. PackageShape' /\ Bounded' BY <1>1, <1>2, <1>3, Zenon DEF PackageShape, Bounded
<1>9. LiveMembers' = LiveMembers /\ ActiveGrants' = ActiveGrants
  BY <1>2, Zenon DEF LiveMembers, ActiveGrants
<1>10. ProjectionsAgree' BY <1>1, <1>2, <1>3, <1>9, Zenon DEF ProjectionsAgree
<1>11. MailboxWindows' BY <1>1, <1>2, <1>9, Zenon DEF MailboxWindows
<1>12. LiveIntents' = {}
  <2>1. PICK n \in ended : TRUE BY Zenon
  <2>2. LiveIntents = {n} BY <1>1, <2>1, Zenon DEF LiveIntentCurrent
  <2>3. ended = {n} BY <2>1, <2>2, Zenon
  <2> QED BY <1>5, <2>2, <2>3, Zenon DEF LiveIntents, Live
<1>13. LiveIntentCurrent' BY <1>12, Zenon DEF LiveIntentCurrent
<1>14. Committed' = Committed BY <1>5, Zenon DEF Committed, Live
<1>15. CommitsOnce'
  <2>1. \A m \in Committed : /\ intents'[m].base = intents[m].base
                             /\ intents'[m].commit = intents[m].commit /\ m \in IntentIds
    BY <1>5, Zenon DEF Committed
  <2> QED BY <1>1, <1>2, <1>3, <1>14, <2>1 DEF CommitsOnce
<1>16. PackageTakenOnce'
  BY <1>1, <1>2, <1>5, <1>14 DEF PackageTakenOnce, Live
<1> QED BY <1>6, <1>7, <1>8, <1>10, <1>11, <1>13, <1>15, <1>16, Zenon DEF RowInv

\* A proposal takes a position and no mailbox sees it.
LEMMA ProposalStep ==
  ASSUME RowInv, NEW n \in IntentIds, RecordProposal(n)
  PROVE  RowInv'
<1>1. RowsType /\ IntentShape /\ PackageShape /\ Bounded /\ ProjectionsAgree
      /\ LiveIntentCurrent /\ CommitsOnce /\ PackageTakenOnce /\ MailboxWindows
  BY Zenon DEF RowInv
<1> DEFINE entry == [position |-> NextPosition, class |-> "proposal",
                     intent |-> n, epoch |-> conv.epoch]
<1>2. /\ UNCHANGED <<memberships, roster, recipients, sendGrants, head, packages,
                     inbox, welcomes>>
      /\ log' = log \cup {entry} /\ NextPosition \in Positions
      /\ intents' = [intents EXCEPT ![n] = [intents[n] EXCEPT
                        !.state = "proposed", !.proposal = NextPosition]]
      /\ intents[n].state = "requested"
      /\ conv' = [conv EXCEPT !.position = NextPosition]
  BY Zenon DEF RecordProposal, Proposable
<1>3. /\ conv'.epoch = conv.epoch /\ conv'.position = conv.position + 1
      /\ conv'.state = conv.state /\ conv.epoch \in Nat /\ conv.position \in Nat
      /\ conv' \in [state : {"active", "membership_pending"}, epoch : Nat \ {0},
                    position : Positions]
  <2>1. conv \in [state : {"active", "membership_pending"}, epoch : Nat \ {0},
                  position : Positions]
    BY <1>1, Zenon DEF RowsType
  <2>2. conv' = [conv EXCEPT !.position = NextPosition] /\ NextPosition \in Positions
    BY <1>2, Zenon
  <2> QED BY ONLY <2>1, <2>2 DEF NextPosition, Positions
<1>4. \A m \in IntentIds : intents[m] \in Intents
  BY <1>1, Zenon DEF RowsType
<1>5. \A m \in IntentIds :
        /\ intents'[m] \in Intents
        /\ intents'[m].op = intents[m].op /\ intents'[m].target = intents[m].target
        /\ intents'[m].package = intents[m].package /\ intents'[m].base = intents[m].base
        /\ intents'[m].roster = intents[m].roster /\ intents'[m].commit = intents[m].commit
        /\ m = n => intents'[m].state = "proposed"
        /\ m # n => intents'[m].state = intents[m].state
  <2>1. DOMAIN intents = IntentIds /\ NextPosition \in Nat
    BY <1>1, <1>2 DEF RowsType, Positions
  <2>2. \A m \in IntentIds : intents'[m] =
          IF m = n THEN [intents[n] EXCEPT !.state = "proposed", !.proposal = NextPosition]
                   ELSE intents[m]
    BY <1>2, <2>1, Zenon
  <2>3. [intents[n] EXCEPT !.state = "proposed", !.proposal = NextPosition] \in Intents
    <3>1. intents[n] \in Intents /\ NextPosition \in Nat BY <1>4, <2>1, Zenon
    <3> QED BY ONLY <3>1, Zenon DEF Intents, Live
  <2>4. intents[n] \in Intents BY <1>4, Zenon
  <2>5. ASSUME NEW m \in IntentIds, m = n
        PROVE  /\ intents'[m].op = intents[m].op /\ intents'[m].target = intents[m].target
               /\ intents'[m].package = intents[m].package
               /\ intents'[m].base = intents[m].base
               /\ intents'[m].roster = intents[m].roster
               /\ intents'[m].commit = intents[m].commit
               /\ intents'[m].state = "proposed"
    BY <2>2, <2>4, <2>5, Zenon DEF Intents
  <2> QED BY <1>4, <2>2, <2>3, <2>5, Zenon
<1>6. entry \in Entries /\ entry.class = "proposal" /\ entry.position = conv.position + 1
  BY <1>2, <1>3, Zenon DEF Entries, NextPosition
<1>7. RowsType'
  <2>1. intents' \in [IntentIds -> Intents] BY <1>1, <1>2, <1>5, Zenon DEF RowsType
  <2>2. log' \subseteq Entries BY <1>1, <1>2, <1>6, Zenon DEF RowsType
  <2> QED BY <1>1, <1>2, <1>3, <2>1, <2>2, Zenon DEF RowsType
<1>8. IntentShape' BY <1>1, <1>2, <1>5 DEF IntentShape
<1>9. PackageShape' BY <1>1, <1>2, Zenon DEF PackageShape
<1>10. Bounded'
  <2>1. \A e \in log' : e.position <= conv'.position
    BY <1>1, <1>2, <1>3, <1>6 DEF Bounded, RowsType, Entries, Positions
  <2>2. ASSUME NEW i \in Installations
        PROVE  memberships'[i].joined <= conv'.position
               /\ \A p \in inbox'[i] : p <= conv'.position
    BY <1>1, <1>2, <1>3, <2>2 DEF Bounded, RowsType, Positions
  <2> QED BY <2>1, <2>2, Zenon DEF Bounded
<1>11. LiveMembers' = LiveMembers /\ ActiveGrants' = ActiveGrants
  BY <1>2, Zenon DEF LiveMembers, ActiveGrants
<1>12. ProjectionsAgree' BY <1>1, <1>2, <1>3, <1>11, Zenon DEF ProjectionsAgree
<1>13. MailboxWindows'
  <2>1. \A e \in log' : e.class # "proposal" => e \in log BY <1>2, <1>6, Zenon
  <2> QED BY <1>1, <1>2, <1>11, <2>1, Zenon DEF MailboxWindows
<1>14. LiveIntents' = LiveIntents BY <1>2, <1>5 DEF LiveIntents, Live
<1>15. LiveIntentCurrent'
  <2> SUFFICES ASSUME NEW m \in LiveIntents'
               PROVE  /\ LiveIntents' = {m} /\ conv'.state = "membership_pending"
                      /\ intents'[m].base = conv'.epoch
                      /\ intents'[m].roster = Changed(roster, m)'
    BY Zenon DEF LiveIntentCurrent
  <2>1. m \in LiveIntents /\ m \in IntentIds BY <1>14, Zenon DEF LiveIntents
  <2>2. /\ LiveIntents = {m} /\ conv.state = "membership_pending"
        /\ intents[m].base = conv.epoch /\ intents[m].roster = Changed(roster, m)
    BY <1>1, <2>1, Zenon DEF LiveIntentCurrent
  <2>3. Changed(roster, m)' = Changed(roster, m)
    <3>1. roster' = roster /\ intents'[m].op = intents[m].op
          /\ intents'[m].target = intents[m].target
      BY <1>2, <1>5, <2>1, Zenon
    <3> QED BY ONLY <3>1, Zenon DEF Changed
  <2> QED BY <1>3, <1>5, <1>14, <2>1, <2>2, <2>3, Zenon
<1>16. Committed' = Committed BY <1>2, <1>5 DEF Committed
<1>17. CommitsOnce'
  <2>1. \A m \in Committed : /\ intents'[m].base = intents[m].base
                             /\ intents'[m].commit = intents[m].commit /\ m \in IntentIds
    BY <1>5, Zenon DEF Committed
  <2>2. {e \in log' : e.class = "commit"} = {e \in log : e.class = "commit"}
    BY <1>2, <1>6, Zenon
  <2>3. {intents'[m].base : m \in Committed'} = {intents[m].base : m \in Committed}
    BY <1>16, <2>1, Zenon
  <2> HIDE DEF entry
  <2> QED BY <1>1, <1>3, <1>16, <2>1, <2>2, <2>3 DEF CommitsOnce
<1>18. PackageTakenOnce'
  BY <1>1, <1>2, <1>5, <1>16 DEF PackageTakenOnce
<1> QED BY <1>7, <1>8, <1>9, <1>10, <1>12, <1>13, <1>15, <1>17, <1>18, Zenon DEF RowInv

\* The witness's answer touches the head alone.
LEMMA WitnessStep ==
  ASSUME RowInv, WitnessHead
  PROVE  RowInv'
<1>1. RowsType /\ IntentShape /\ PackageShape /\ Bounded /\ ProjectionsAgree
      /\ LiveIntentCurrent /\ CommitsOnce /\ PackageTakenOnce /\ MailboxWindows
  BY Zenon DEF RowInv
<1>2. UNCHANGED <<conv, memberships, roster, recipients, sendGrants, packages, intents,
                  log, inbox, welcomes>>
  BY Zenon DEF WitnessHead
<1>3. head' \in [epoch : Nat, witnessed : BOOLEAN] /\ head'.epoch = head.epoch
  BY <1>1, Zenon DEF WitnessHead, RowsType
<1>4. LiveMembers' = LiveMembers /\ ActiveGrants' = ActiveGrants
      /\ LiveIntents' = LiveIntents /\ Committed' = Committed
  BY <1>2, Zenon DEF LiveMembers, ActiveGrants, LiveIntents, Committed
<1>5. RowsType' BY <1>1, <1>2, <1>3, Zenon DEF RowsType
<1>6. IntentShape' /\ PackageShape' /\ Bounded'
  BY <1>1, <1>2, Zenon DEF IntentShape, PackageShape, Bounded
<1>7. ProjectionsAgree' BY <1>1, <1>2, <1>3, <1>4, Zenon DEF ProjectionsAgree
<1>8. LiveIntentCurrent' BY <1>1, <1>2, <1>4, Zenon DEF LiveIntentCurrent, Changed
<1>9. CommitsOnce' BY <1>1, <1>2, <1>4 DEF CommitsOnce
<1>10. PackageTakenOnce' BY <1>1, <1>2, <1>4, Zenon DEF PackageTakenOnce
<1>11. MailboxWindows' BY <1>1, <1>2, <1>4, Zenon DEF MailboxWindows
<1> QED BY <1>5, <1>6, <1>7, <1>8, <1>9, <1>10, <1>11, Zenon DEF RowInv

\* An application envelope reaches the mailbox of every live member.
LEMMA AppendStep ==
  ASSUME RowInv, NEW sender \in Installations, Append(sender)
  PROVE  RowInv'
<1>1. RowsType /\ IntentShape /\ PackageShape /\ Bounded /\ ProjectionsAgree
      /\ LiveIntentCurrent /\ CommitsOnce /\ PackageTakenOnce /\ MailboxWindows
  BY Zenon DEF RowInv
<1> DEFINE entry == [position |-> NextPosition, class |-> "application",
                     intent |-> 0, epoch |-> conv.epoch]
<1>2. /\ UNCHANGED <<memberships, roster, recipients, sendGrants, head, packages,
                     intents, welcomes>>
      /\ log' = log \cup {entry} /\ NextPosition \in Positions
      /\ inbox' = FanOut(recipients, NextPosition)
      /\ conv' = [conv EXCEPT !.position = NextPosition]
  BY Zenon DEF Append
<1>3. /\ conv'.epoch = conv.epoch /\ conv'.position = conv.position + 1
      /\ conv'.state = conv.state /\ conv.epoch \in Nat /\ conv.position \in Nat
      /\ conv' \in [state : {"active", "membership_pending"}, epoch : Nat \ {0},
                    position : Positions]
  <2>1. conv \in [state : {"active", "membership_pending"}, epoch : Nat \ {0},
                  position : Positions]
    BY <1>1, Zenon DEF RowsType
  <2>2. conv' = [conv EXCEPT !.position = NextPosition] /\ NextPosition \in Positions
    BY <1>2, Zenon
  <2> QED BY ONLY <2>1, <2>2 DEF NextPosition, Positions
<1>4. entry \in Entries /\ entry.class = "application"
      /\ entry.position = conv.position + 1
  BY <1>2, <1>3, Zenon DEF Entries, NextPosition
<1>5. \A i \in Installations :
        inbox'[i] = IF i \in recipients THEN inbox[i] \cup {conv.position + 1} ELSE inbox[i]
  BY <1>2, Zenon DEF FanOut, NextPosition
<1>6. LiveMembers' = LiveMembers /\ ActiveGrants' = ActiveGrants
      /\ LiveIntents' = LiveIntents /\ Committed' = Committed
  BY <1>2, Zenon DEF LiveMembers, ActiveGrants, LiveIntents, Committed
<1>7. RowsType'
  <2>1. inbox' \in [Installations -> SUBSET Positions]
    BY <1>1, <1>2, Zenon DEF RowsType, FanOut
  <2>2. log' \subseteq Entries BY <1>1, <1>2, <1>4, Zenon DEF RowsType
  <2> QED BY <1>1, <1>2, <1>3, <2>1, <2>2, Zenon DEF RowsType
<1>8. IntentShape' /\ PackageShape'
  BY <1>1, <1>2, Zenon DEF IntentShape, PackageShape
<1>9. Bounded'
  <2>1. \A e \in log' : e.position <= conv'.position
    BY <1>1, <1>2, <1>3, <1>4 DEF Bounded, RowsType, Entries, Positions
  <2>2. ASSUME NEW i \in Installations
        PROVE  memberships'[i].joined <= conv'.position
               /\ \A p \in inbox'[i] : p <= conv'.position
    <3>1. /\ memberships[i].joined \in Nat /\ memberships[i].joined <= conv.position
          /\ inbox[i] \subseteq Nat /\ \A p \in inbox[i] : p <= conv.position
      BY <1>1, <2>2 DEF Bounded, RowsType, Positions
    <3>2. memberships'[i] = memberships[i] BY <1>2, Zenon
    <3>3. inbox'[i] \subseteq inbox[i] \cup {conv.position + 1} BY <1>5, Zenon
    <3>4. conv.position <= conv.position + 1 /\ conv.position + 1 <= conv.position + 1
      BY <1>3
    <3>5. \A p \in inbox[i] : p <= conv.position + 1 BY <1>3, <3>1
    <3>6. memberships[i].joined <= conv.position + 1 BY <1>3, <3>1
    <3>7. conv'.position = conv.position + 1 BY <1>3, Zenon
    <3> QED BY <3>2, <3>3, <3>4, <3>5, <3>6, <3>7, Zenon
  <2> QED BY <2>1, <2>2, Zenon DEF Bounded
<1>10. ProjectionsAgree' BY <1>1, <1>2, <1>3, <1>6, Zenon DEF ProjectionsAgree
<1>11. LiveIntentCurrent' BY <1>1, <1>2, <1>3, <1>6, Zenon DEF LiveIntentCurrent, Changed
<1>12. CommitsOnce'
  <2>1. {e \in log' : e.class = "commit"} = {e \in log : e.class = "commit"}
    BY <1>2, <1>4, Zenon
  <2> HIDE DEF entry
  <2> QED BY <1>1, <1>2, <1>3, <1>6, <2>1 DEF CommitsOnce
<1>13. PackageTakenOnce' BY <1>1, <1>2, <1>6, Zenon DEF PackageTakenOnce
<1>14. MailboxWindows'
  <2>1. recipients = LiveMembers BY <1>1, Zenon DEF ProjectionsAgree
  <2>2. ASSUME NEW i \in Installations, NEW e \in log', e.class # "proposal"
        PROVE  /\ (i \in LiveMembers /\ memberships[i].joined <= e.position)
                    => e.position \in inbox'[i]
               /\ (memberships[i].status = "removed"
                     /\ memberships[i].removed <= e.position)
                    => e.position \notin inbox'[i]
    <3>1. CASE e \in log
      <4>1. e.position # conv.position + 1
        BY <1>1, <1>3, <3>1 DEF Bounded, RowsType, Entries, Positions
      <4>2. /\ (i \in LiveMembers /\ memberships[i].joined <= e.position)
                 => e.position \in inbox[i]
            /\ (memberships[i].status = "removed"
                  /\ memberships[i].removed <= e.position)
                 => e.position \notin inbox[i]
        BY <1>1, <2>2, <3>1, Zenon DEF MailboxWindows
      <4>3. e.position \in inbox'[i] <=> e.position \in inbox[i] BY <1>5, <4>1, Zenon
      <4> QED BY <4>2, <4>3, Zenon
    <3>2. CASE e = entry
      <4>1. e.position = conv.position + 1 BY <1>4, <3>2, Zenon
      <4>2. conv.position + 1 \notin inbox[i]
        BY <1>1, <1>3 DEF Bounded, RowsType, Positions
      <4>3. memberships[i].status = "removed" => i \notin LiveMembers
        BY Zenon DEF LiveMembers
      <4> QED BY <1>5, <2>1, <4>1, <4>2, <4>3, Zenon
    <3> QED BY <1>2, <3>1, <3>2, Zenon
  <2>3. \A i \in Installations : (i \in LiveMembers /\ memberships[i].joined > 1)
                                   => welcomes[i] = memberships[i].joined
    BY <1>1, Zenon DEF MailboxWindows
  <2> QED BY <1>2, <1>6, <2>2, <2>3, Zenon DEF MailboxWindows
<1> QED BY <1>7, <1>8, <1>9, <1>10, <1>11, <1>12, <1>13, <1>14, Zenon DEF RowInv

-----------------------------------------------------------------------------
\* The rows a commit writes, spelled out for the proofs below.
LEMMA CommitRows ==
  ASSUME Inv, ApplyCommit
  PROVE  /\ tx \in Requests /\ tx.intent \in IntentIds
         /\ intents[tx.intent] \in Intents /\ intents[tx.intent].state = "proposed"
         /\ intents[tx.intent].op \in Operations
         /\ intents[tx.intent].target \in Installations
         /\ LiveIntents = {tx.intent} /\ intents[tx.intent].base = conv.epoch
         /\ intents[tx.intent].op = "add" => intents[tx.intent].target \notin LiveMembers
         /\ intents[tx.intent].op = "remove" =>
              /\ intents[tx.intent].target \in LiveMembers
              /\ tx.committer \in LiveMembers \ {intents[tx.intent].target}
         /\ tx.committer \in LiveMembers
         /\ conv.position + 1 \in Positions /\ conv.position \in Nat
         /\ conv.epoch \in Nat \ {0}
<1>1. /\ RowsType /\ IntentShape /\ LiveIntentCurrent /\ HeldCommit /\ ClientType
      /\ tx # None
  BY Zenon DEF Inv, RowInv, ApplyCommit
<1>2. tx \in Requests /\ tx.intent \in IntentIds BY <1>1, Zenon DEF ClientType, Requests
<1>3. /\ intents[tx.intent].state = "proposed" /\ tx.committer \in LiveMembers
      /\ intents[tx.intent].op = "remove" =>
           /\ tx.committer # intents[tx.intent].target
           /\ intents[tx.intent].target \in LiveMembers
  BY <1>1, Zenon DEF HeldCommit
<1>4. intents[tx.intent] \in Intents BY <1>1, <1>2, Zenon DEF RowsType
<1>5. intents[tx.intent].op \in Operations /\ intents[tx.intent].target \in Installations
  BY <1>1, <1>2, <1>3, Zenon DEF IntentShape
<1>6. tx.intent \in LiveIntents BY <1>2, <1>3, Zenon DEF LiveIntents, Live
<1>7. LiveIntents = {tx.intent} /\ intents[tx.intent].base = conv.epoch
  BY <1>1, <1>6, Zenon DEF LiveIntentCurrent
<1>8. intents[tx.intent].op = "add" => intents[tx.intent].target \notin LiveMembers
  BY Zenon DEF ApplyCommit, LiveMembers
<1>9. conv.position + 1 \in Positions /\ conv.position \in Nat /\ conv.epoch \in Nat \ {0}
  BY <1>1 DEF ApplyCommit, NextPosition, RowsType, Positions
<1> QED BY <1>2, <1>3, <1>4, <1>5, <1>7, <1>8, <1>9, Zenon

\* A commit that its checks admitted preserves the invariant of the rows.
LEMMA CommitStep ==
  ASSUME Inv, ApplyCommit
  PROVE  RowInv'
<1> DEFINE n == tx.intent
           target == intents[n].target
           position == conv.position + 1
           entry == [position |-> position, class |-> "commit",
                     intent |-> n, epoch |-> conv.epoch]
<1>1. RowsType /\ IntentShape /\ PackageShape /\ Bounded /\ ProjectionsAgree
      /\ LiveIntentCurrent /\ CommitsOnce /\ PackageTakenOnce /\ MailboxWindows
  BY Zenon DEF Inv, RowInv
<1>2. /\ n \in IntentIds /\ intents[n] \in Intents /\ intents[n].state = "proposed"
      /\ intents[n].op \in Operations /\ target \in Installations
      /\ LiveIntents = {n} /\ intents[n].base = conv.epoch
      /\ intents[n].op = "add" => target \notin LiveMembers
      /\ intents[n].op = "remove" => target \in LiveMembers
      /\ position \in Positions /\ conv.position \in Nat /\ conv.epoch \in Nat \ {0}
      /\ tx \in Requests
  BY CommitRows, Zenon
<1>3. /\ log' = log \cup {entry}
      /\ intents' = [intents EXCEPT ![n] = [intents[n] EXCEPT
                        !.state = "committed", !.commit = position,
                        !.committer = tx.committer]]
      /\ packages' = [k \in KeyPackages |->
           IF packages[k].intent = n THEN [packages[k] EXCEPT !.state = "used"]
                                     ELSE packages[k]]
      /\ memberships' = [memberships EXCEPT ![target] = Window(n, position)]
      /\ welcomes' = IF intents[n].op = "add" THEN [welcomes EXCEPT ![target] = position]
                                              ELSE welcomes
      /\ roster' = Changed(roster, n) /\ recipients' = Changed(recipients, n)
      /\ conv' = [state |-> "active", epoch |-> conv.epoch + 1, position |-> position]
      /\ sendGrants' = Reissued(n)
      /\ head' = [epoch |-> conv.epoch + 1, witnessed |-> FALSE]
      /\ inbox' = FanOut(Changed(LiveMembers, n), position)
  BY Zenon DEF ApplyCommit, ReissuedHead, NextPosition
<1>4. /\ conv'.epoch = conv.epoch + 1 /\ conv'.position = conv.position + 1
      /\ conv'.state = "active" /\ head'.epoch = conv.epoch + 1
  BY <1>3, Zenon
<1>5. /\ intents'[n] = [intents[n] EXCEPT !.state = "committed", !.commit = position,
                                          !.committer = tx.committer]
      /\ \A m \in IntentIds \ {n} : intents'[m] = intents[m]
  BY <1>1, <1>2, <1>3, Zenon DEF RowsType
<1>6. /\ intents'[n] \in Intents /\ intents'[n].state = "committed"
      /\ intents'[n].commit = position /\ intents'[n].base = conv.epoch
      /\ intents'[n].op = intents[n].op /\ intents'[n].target = target
      /\ intents'[n].package = intents[n].package
  <2>1. position \in Nat /\ tx.committer \in Installations
    BY <1>2 DEF Requests
  <2>2. intents[n] \in Intents /\ intents[n].base = conv.epoch BY <1>2, Zenon
  <2> HIDE DEF position, n
  <2>3. intents'[n] \in Intents BY <1>5, <2>1, <2>2, Zenon DEF Intents
  <2>4. /\ intents'[n].state = "committed" /\ intents'[n].commit = position
        /\ intents'[n].base = conv.epoch
        /\ intents'[n].op = intents[n].op /\ intents'[n].target = intents[n].target
        /\ intents'[n].package = intents[n].package
    BY <1>5, <2>2, Zenon DEF Intents
  <2> QED BY <2>3, <2>4, Zenon DEF n
<1>7. \A i \in Installations \ {target} : memberships'[i] = memberships[i]
  BY <1>1, <1>2, <1>3, Zenon DEF RowsType
<1>8. /\ memberships'[target] \in [status : {"none", "live", "removed"},
                                   joined : Nat, removed : Nat]
      /\ intents[n].op = "add" => memberships'[target].status = "live"
                                  /\ memberships'[target].joined = position
      /\ intents[n].op = "remove" => memberships'[target].status = "removed"
                                     /\ memberships'[target].removed = position
                                     /\ memberships'[target].joined = memberships[target].joined
  <2>1. memberships'[target] = Window(n, position)
    BY <1>1, <1>2, <1>3, Zenon DEF RowsType
  <2>2. memberships[target] \in [status : {"none", "live", "removed"},
                                 joined : Nat, removed : Nat]
    BY <1>1, <1>2, Zenon DEF RowsType
  <2>3. position \in Nat BY <1>2
  <2> HIDE DEF position
  <2>4. CASE intents[n].op = "add"
    <3>1. memberships'[target] = [status |-> "live", joined |-> position, removed |-> 0]
      BY <2>1, <2>4, Zenon DEF Window
    <3> QED BY ONLY <2>3, <2>4, <3>1
  <2>5. CASE intents[n].op # "add" BY <2>1, <2>2, <2>3, <2>5 DEF Window
  <2> QED BY <2>4, <2>5, Zenon
<1>9. LiveMembers' = Changed(LiveMembers, n)
  BY <1>2, <1>7, <1>8, Zenon DEF LiveMembers, Changed, Operations
<1>10. \A i \in Installations :
         inbox'[i] = IF i \in LiveMembers' THEN inbox[i] \cup {position} ELSE inbox[i]
  BY <1>3, <1>9, Zenon DEF FanOut
<1>11. entry \in Entries /\ entry.class = "commit" /\ entry.position = position
       /\ entry.intent = n
  BY <1>2, Zenon DEF Entries
<1>12. RowsType'
  <2>1. conv' \in [state : {"active", "membership_pending"}, epoch : Nat \ {0},
                   position : Positions]
        /\ head' \in [epoch : Nat, witnessed : BOOLEAN]
    BY <1>2, <1>3
  <2>2. memberships' \in [Installations -> [status : {"none", "live", "removed"},
                                            joined : Nat, removed : Nat]]
    BY <1>1, <1>3, <1>7, <1>8, Zenon DEF RowsType
  <2>3. roster' \subseteq Installations /\ recipients' \subseteq Installations
    BY <1>1, <1>2, <1>3, Zenon DEF RowsType, Changed
  <2>4. sendGrants' \in [Installations -> {"none", "active", "revoked"}]
    BY <1>1, <1>3, Zenon DEF RowsType, Reissued
  <2>5. packages' \in [KeyPackages -> [state : {"available", "taken", "used"},
                                       intent : IntentIds \cup {0}]]
    <3>1. packages \in [KeyPackages -> [state : {"available", "taken", "used"},
                                        intent : IntentIds \cup {0}]]
      BY <1>1, Zenon DEF RowsType
    <3> QED BY <1>3, <3>1, Zenon
  <2>6. intents' \in [IntentIds -> Intents]
    BY <1>1, <1>3, <1>5, <1>6, Zenon DEF RowsType
  <2>7. log' \subseteq Entries BY <1>1, <1>3, <1>11, Zenon DEF RowsType
  <2>8. inbox' \in [Installations -> SUBSET Positions]
    BY <1>1, <1>2, <1>3, Zenon DEF RowsType, FanOut
  <2>9. welcomes' \in [Installations -> Nat]
    BY <1>1, <1>2, <1>3 DEF RowsType
  <2> QED BY <2>1, <2>2, <2>3, <2>4, <2>5, <2>6, <2>7, <2>8, <2>9, Zenon DEF RowsType
<1>13. IntentShape'
  <2>1. ASSUME NEW m \in IntentIds, intents'[m].state # "none"
        PROVE  /\ intents'[m].op \in Operations /\ intents'[m].target \in Installations
               /\ intents'[m].op = "add" => intents'[m].package \in KeyPackages
    BY <1>1, <1>2, <1>5, <1>6, <2>1, "proposed" # "none", Zenon DEF IntentShape
  <2> QED BY <2>1, Zenon DEF IntentShape
<1>14. \A k \in KeyPackages :
         /\ packages'[k].intent = packages[k].intent
         /\ packages[k].intent = n => packages'[k].state = "used"
         /\ packages[k].intent # n => packages'[k].state = packages[k].state
  <2>1. \A k \in KeyPackages : packages[k] \in [state : {"available", "taken", "used"},
                                                 intent : IntentIds \cup {0}]
    BY <1>1, Zenon DEF RowsType
  <2> QED BY <1>3, <2>1, Zenon
<1>15. PackageShape' BY <1>1, <1>14, "used" # "available", Zenon DEF PackageShape
<1>16. Bounded'
  <2>1. \A e \in log' : e.position <= position
    BY <1>1, <1>2, <1>3, <1>11 DEF Bounded, RowsType, Entries, Positions
  <2>2. ASSUME NEW i \in Installations
        PROVE  memberships'[i].joined <= position /\ \A p \in inbox'[i] : p <= position
    <3>1. /\ memberships[i].joined \in Nat /\ memberships[i].joined <= conv.position
          /\ inbox[i] \subseteq Nat /\ \A p \in inbox[i] : p <= conv.position
      BY <1>1, <2>2 DEF Bounded, RowsType, Positions
    <3>2. memberships'[i].joined \in {memberships[i].joined, position}
      BY <1>2, <1>7, <1>8, Zenon DEF Operations
    <3>3. inbox'[i] \subseteq inbox[i] \cup {position} BY <1>10, Zenon
    <3>4. position <= position /\ memberships[i].joined <= position
          /\ \A p \in inbox[i] : p <= position
      BY <1>2, <3>1
    <3> HIDE DEF position
    <3> QED BY <3>2, <3>3, <3>4, Zenon
  <2> QED BY <1>4, <2>1, <2>2, Zenon DEF Bounded
<1>17. ProjectionsAgree'
  <2>1. roster' = LiveMembers' /\ recipients' = LiveMembers'
    BY <1>1, <1>3, <1>9, Zenon DEF ProjectionsAgree
  <2>2. \A i \in Installations : sendGrants'[i] =
          IF i = target THEN IF intents[n].op = "add" THEN "active" ELSE "revoked"
          ELSE IF intents[n].op = "add" /\ sendGrants[i] # "none" THEN "active"
          ELSE sendGrants[i]
    BY <1>3, Zenon DEF Reissued
  <2>3. LiveMembers' \subseteq ActiveGrants'
    <3> SUFFICES ASSUME NEW i \in LiveMembers' PROVE sendGrants'[i] = "active"
      BY Zenon DEF ActiveGrants, LiveMembers
    <3>1. i \in Installations BY Zenon DEF LiveMembers
    <3>2. CASE i = target
      BY <1>2, <1>9, <2>2, <3>1, <3>2, Zenon DEF Changed, Operations
    <3>3. CASE i # target
      <4>1. i \in LiveMembers BY <1>9, <3>3, Zenon DEF Changed
      <4>2. sendGrants[i] = "active" BY <1>1, <4>1, Zenon DEF ProjectionsAgree, ActiveGrants
      <4> QED BY <2>2, <3>1, <3>3, <4>2, Zenon
    <3> QED BY <3>2, <3>3, Zenon
  <2> QED BY <1>4, <2>1, <2>3, Zenon DEF ProjectionsAgree
<1>18. LiveIntents' = {}
  <2>1. \A m \in IntentIds : m # n => intents[m].state \notin Live
    <3>1. LiveIntents = {n} BY <1>2, Zenon
    <3>2. \A m \in IntentIds : intents[m].state \in Live => m \in LiveIntents
      BY Zenon DEF LiveIntents
    <3> QED BY ONLY <3>1, <3>2, Zenon
  <2>2. \A m \in IntentIds : intents'[m].state \notin Live
    <3>1. "committed" \notin Live BY Zenon DEF Live
    <3> QED BY <1>5, <1>6, <2>1, <3>1, Zenon
  <2> QED BY <2>2, Zenon DEF LiveIntents
<1>19. LiveIntentCurrent' BY <1>18, Zenon DEF LiveIntentCurrent
<1>20. Committed' = Committed \cup {n} /\ n \notin Committed
  <2>1. /\ n \in IntentIds /\ intents[n].state = "proposed"
        /\ intents'[n].state = "committed"
        /\ \A m \in IntentIds \ {n} : intents'[m].state = intents[m].state
    BY <1>2, <1>5, <1>6, Zenon
  <2> HIDE DEF n
  <2> QED BY <2>1, "proposed" # "committed", Zenon DEF Committed
<1>21. CommitsOnce'
  <2> DEFINE commits == {e \in log : e.class = "commit"}
  <2>1. /\ \A m \in Committed :
             {e \in commits : e.intent = m} =
               {[position |-> intents[m].commit, class |-> "commit",
                 intent |-> m, epoch |-> intents[m].base]}
        /\ \A e \in commits : e.intent \in Committed
        /\ \A l, m \in Committed : intents[l].base = intents[m].base => l = m
        /\ {intents[m].base : m \in Committed} = 1..(conv.epoch - 1)
    BY <1>1, Zenon DEF CommitsOnce
  <2>2. {e \in log' : e.class = "commit"} = commits \cup {entry} BY <1>3, <1>11, Zenon
  <2>3. \A m \in Committed : m \in IntentIds /\ m # n /\ intents'[m] = intents[m]
    BY <1>5, <1>20, Zenon DEF Committed
  <2>4. [position |-> intents'[n].commit, class |-> "commit",
         intent |-> n, epoch |-> intents'[n].base] = entry
    BY <1>6, Zenon
  <2>5. entry.intent = n BY <1>11, Zenon
  <2> HIDE DEF entry, commits, position
  <2>6. \A m \in Committed' :
          {e \in commits \cup {entry} : e.intent = m} =
            {[position |-> intents'[m].commit, class |-> "commit",
              intent |-> m, epoch |-> intents'[m].base]}
    <3> SUFFICES ASSUME NEW m \in Committed'
                 PROVE  {e \in commits \cup {entry} : e.intent = m} =
                          {[position |-> intents'[m].commit, class |-> "commit",
                            intent |-> m, epoch |-> intents'[m].base]}
      BY Zenon
    <3>1. CASE m = n
      <4>1. {e \in commits \cup {entry} : e.intent = n} = {entry}
        BY <1>20, <2>1, <2>5, Zenon
      <4> QED BY <2>4, <3>1, <4>1, Zenon
    <3>2. CASE m # n
      <4>1. m \in Committed BY <1>20, <3>2, Zenon
      <4>2. {e \in commits \cup {entry} : e.intent = m} = {e \in commits : e.intent = m}
        BY <2>5, <3>2, Zenon
      <4> QED BY <2>1, <2>3, <4>1, <4>2, Zenon
    <3> QED BY <3>1, <3>2, Zenon
  <2>7. \A e \in commits \cup {entry} : e.intent \in Committed' BY <1>20, <2>1, <2>5, Zenon
  <2>8. \A m \in Committed : intents[m].base \in 1..(conv.epoch - 1) BY <2>1, Zenon
  <2>9. \A l, m \in Committed' : intents'[l].base = intents'[m].base => l = m
    <3>1. \A m \in Committed : intents[m].base # conv.epoch BY <1>2, <2>8
    <3> QED BY <1>6, <1>20, <2>1, <2>3, <3>1
  <2>10. {intents'[m].base : m \in Committed'} = 1..(conv'.epoch - 1)
    <3>1. {intents'[m].base : m \in Committed'}
            = {intents[m].base : m \in Committed} \cup {conv.epoch}
      BY <1>6, <1>20, <2>3
    <3>2. 1..(conv'.epoch - 1) = 1..(conv.epoch - 1) \cup {conv.epoch}
      BY <1>2, <1>4
    <3> QED BY <2>1, <3>1, <3>2, Zenon
  <2> QED BY <2>2, <2>6, <2>7, <2>9, <2>10, Zenon DEF CommitsOnce
<1>22. PackageTakenOnce'
  <2>1. ASSUME NEW k \in KeyPackages, packages'[k].state # "available"
        PROVE  /\ packages'[k].intent \in IntentIds
               /\ intents'[packages'[k].intent].state # "none"
               /\ intents'[packages'[k].intent].package = k
               /\ packages'[k].state = "used" <=> packages'[k].intent \in Committed'
    <3>1. packages[k].state # "available"
      BY <1>1, <1>2, <1>14, <2>1 DEF PackageShape, IntentIds
    <3>2. /\ packages[k].intent \in IntentIds
          /\ intents[packages[k].intent].state # "none"
          /\ intents[packages[k].intent].package = k
          /\ packages[k].state = "used" <=> packages[k].intent \in Committed
      BY <1>1, <3>1, Zenon DEF PackageTakenOnce
    <3>3. CASE packages[k].intent = n
      BY <1>2, <1>6, <1>14, <1>20, <3>2, <3>3, Zenon
    <3>4. CASE packages[k].intent # n
      BY <1>5, <1>14, <1>20, <3>2, <3>4
    <3> QED BY <3>3, <3>4, Zenon
  <2>2. ASSUME NEW m \in IntentIds, intents'[m].state # "none", intents'[m].op = "add"
        PROVE  packages'[intents'[m].package].intent = m
    <3>1. intents[m].state # "none" /\ intents[m].op = "add"
          /\ intents'[m].package = intents[m].package
      BY <1>2, <1>5, <1>6, <2>2, Zenon
    <3>2. intents[m].package \in KeyPackages /\ packages[intents[m].package].intent = m
      BY <1>1, <3>1, Zenon DEF IntentShape, PackageTakenOnce
    <3> QED BY <1>14, <3>1, <3>2, Zenon
  <2> QED BY <2>1, <2>2, Zenon DEF PackageTakenOnce
<1>23. MailboxWindows'
  <2>1. ASSUME NEW i \in Installations, NEW e \in log', e.class # "proposal"
        PROVE  /\ (i \in LiveMembers' /\ memberships'[i].joined <= e.position)
                    => e.position \in inbox'[i]
               /\ (memberships'[i].status = "removed"
                     /\ memberships'[i].removed <= e.position)
                    => e.position \notin inbox'[i]
    <3>1. position \notin inbox[i]
      BY <1>1, <1>2 DEF Bounded, RowsType, Positions
    <3>2. memberships'[i].status = "removed" => i \notin LiveMembers'
      BY Zenon DEF LiveMembers
    <3>3. CASE e = entry
      <4>1. e.position = position BY <1>11, <3>3, Zenon
      <4> HIDE DEF position, entry
      <4> QED BY <1>10, <3>1, <3>2, <4>1, Zenon
    <3>4. CASE e \in log
      <4>1. e.position <= conv.position /\ e.position \in Nat
        BY <1>1, <3>4 DEF Bounded, RowsType, Entries, Positions
      <4>2. e.position # position /\ ~(position <= e.position) BY <1>2, <4>1
      <4>3. /\ (i \in LiveMembers /\ memberships[i].joined <= e.position)
                 => e.position \in inbox[i]
            /\ (memberships[i].status = "removed"
                  /\ memberships[i].removed <= e.position)
                 => e.position \notin inbox[i]
        BY <1>1, <2>1, <3>4, Zenon DEF MailboxWindows
      <4> HIDE DEF position, entry
      <4>4. CASE i = target
        BY <1>2, <1>8, <1>9, <1>10, <4>2, <4>4, Zenon DEF Changed, Operations
      <4>5. CASE i # target
        <5>1. i \in LiveMembers' <=> i \in LiveMembers BY <1>9, <4>5, Zenon DEF Changed
        <5>2. memberships'[i] = memberships[i] BY <1>7, <4>5, Zenon
        <5> QED BY <1>10, <4>2, <4>3, <5>1, <5>2, Zenon
      <4> QED BY <4>4, <4>5, Zenon
    <3> QED BY <1>3, <3>3, <3>4, Zenon
  <2>2. ASSUME NEW i \in Installations, i \in LiveMembers', memberships'[i].joined > 1
        PROVE  welcomes'[i] = memberships'[i].joined
    <3>1. CASE i = target
      <4>1. intents[n].op = "add" BY <1>2, <1>9, <2>2, <3>1, Zenon DEF Changed, Operations
      <4> QED BY <1>1, <1>2, <1>3, <1>8, <3>1, <4>1, Zenon DEF RowsType
    <3>2. CASE i # target
      <4>1. i \in LiveMembers /\ memberships'[i] = memberships[i]
        BY <1>7, <1>9, <2>2, <3>2, Zenon DEF Changed
      <4>2. welcomes[i] = memberships[i].joined
        BY <1>1, <2>2, <4>1, Zenon DEF MailboxWindows
      <4>3. welcomes'[i] = welcomes[i] BY <1>1, <1>3, <3>2, Zenon DEF RowsType
      <4> QED BY <4>1, <4>2, <4>3, Zenon
    <3> QED BY <3>1, <3>2, Zenon
  <2> QED BY <2>1, <2>2, Zenon DEF MailboxWindows
<1> QED BY <1>12, <1>13, <1>15, <1>16, <1>17, <1>19, <1>21, <1>22, <1>23, Zenon DEF RowInv

-----------------------------------------------------------------------------
\* Every step preserves the inductive invariant.
LEMMA NextInv == Inv /\ [Next]_vars => Inv'
<1> SUFFICES ASSUME Inv, [Next]_vars PROVE Inv' BY Zenon
<1>1. RowInv /\ ClientType /\ HeldCommit BY Zenon DEF Inv
\* A step that starts and ends outside a commit transaction.
<1>2. ASSUME RowInv', tx' = None,
             UNCHANGED <<leases, requests, refused>>, clock' = clock
      PROVE  Inv'
  <2>1. ClientType' BY <1>1, <1>2, Zenon DEF ClientType
  <2>2. HeldCommit' BY <1>2, Zenon DEF HeldCommit
  <2> QED BY <1>2, <2>1, <2>2, Zenon DEF Inv
<1>3. ASSUME NEW n \in IntentIds, NEW i \in Installations, NEW g \in Grants,
             NEW k \in KeyPackages, CreateAdd(n, i, g, k)
      PROVE  Inv'
  <2> DEFINE row == NewIntent("add", i, g, k, roster \cup {i})
  <2>1. row \in Intents
    <3>1. conv.epoch \in Nat /\ roster \subseteq Installations /\ clock \in Nat
      BY <1>1 DEF RowsType, RowInv, ClientType
    <3> QED BY <3>1 DEF NewIntent, Intents, Live, Operations
  <2>2. /\ row.state = "requested" /\ row.op = "add" /\ row.target = i
        /\ row.base = conv.epoch /\ row.roster = roster \cup {i} /\ row.package = k
    BY Zenon DEF NewIntent
  <2>3. /\ intents[n].state = "none" /\ conv.state = "active"
        /\ packages[k].state = "available"
        /\ intents' = [intents EXCEPT ![n] = row]
        /\ conv' = [conv EXCEPT !.state = "membership_pending"]
        /\ packages' = [packages EXCEPT ![k] = [state |-> "taken", intent |-> n]]
        /\ UNCHANGED <<memberships, roster, recipients, sendGrants, head, log, inbox,
                       welcomes>>
    BY <1>3, Zenon DEF CreateAdd, Fresh, MayCreate, Available
  <2> HIDE DEF row
  <2>4. row.op \in Operations BY <2>2, Zenon DEF Operations
  <2>5. RowInv' BY <1>1, <2>1, <2>2, <2>3, <2>4, CreateStep, Zenon
  <2> QED BY <1>2, <1>3, <2>5, Zenon DEF CreateAdd, MayCreate, clientVars
<1>4. ASSUME NEW n \in IntentIds, NEW i \in Installations, CreateRemove(n, i)
      PROVE  Inv'
  <2> DEFINE row == NewIntent("remove", i, None, None, roster \ {i})
  <2>1. row \in Intents
    <3>1. conv.epoch \in Nat /\ roster \subseteq Installations /\ clock \in Nat
      BY <1>1 DEF RowsType, RowInv, ClientType
    <3> QED BY <3>1 DEF NewIntent, Intents, Live, Operations
  <2>2. /\ row.state = "requested" /\ row.op = "remove" /\ row.target = i
        /\ row.base = conv.epoch /\ row.roster = roster \ {i} /\ row.package = None
    BY Zenon DEF NewIntent
  <2>3. /\ intents[n].state = "none" /\ conv.state = "active"
        /\ intents' = [intents EXCEPT ![n] = row]
        /\ conv' = [conv EXCEPT !.state = "membership_pending"]
        /\ packages' = packages
        /\ UNCHANGED <<memberships, roster, recipients, sendGrants, head, log, inbox,
                       welcomes>>
    BY <1>4, Zenon DEF CreateRemove, Fresh, MayCreate
  <2> HIDE DEF row
  <2>4. row.op \in Operations /\ row.op # "add" BY <2>2, Zenon DEF Operations
  <2>5. RowInv' BY <1>1, <2>1, <2>2, <2>3, <2>4, CreateStep, Zenon
  <2> QED BY <1>2, <1>4, <2>5, Zenon DEF CreateRemove, MayCreate, clientVars
<1>5. ASSUME NEW n \in IntentIds, NEW i \in Installations, CancelIntent(n, i)
      PROVE  Inv'
  <2>1. RowInv'
    <3>1. {n} \in SUBSET LiveIntents /\ {n} # {} /\ EndIntents({n}, "cancelled")
      BY <1>5, Zenon DEF CancelIntent
    <3> QED BY <1>1, <3>1, EndStep, Zenon
  <2> QED BY <1>2, <1>5, <2>1, Zenon DEF CancelIntent, EndIntents, clientVars
<1>6. ASSUME ExpireIntents PROVE Inv'
  <2> DEFINE due == {n \in LiveIntents : intents[n].expires <= clock}
  <2>1. due \in SUBSET LiveIntents /\ due # {} /\ EndIntents(due, "expired")
    BY <1>6, Zenon DEF ExpireIntents
  <2> HIDE DEF due
  <2>2. RowInv' BY <1>1, <2>1, EndStep, Zenon
  <2> QED BY <1>2, <1>6, <2>1, <2>2, Zenon DEF ExpireIntents, EndIntents, clientVars
<1>7. ASSUME NEW n \in IntentIds, RecordProposal(n) PROVE Inv'
  <2>1. RowInv' BY <1>1, <1>7, ProposalStep, Zenon
  <2> QED BY <1>2, <1>7, <2>1, Zenon DEF RecordProposal, clientVars
<1>8. ASSUME WitnessHead PROVE Inv'
  <2>1. RowInv' BY <1>1, <1>8, WitnessStep, Zenon
  <2> QED BY <1>2, <1>8, <2>1, Zenon DEF WitnessHead, clientVars
<1>9. ASSUME NEW i \in Installations, Append(i) PROVE Inv'
  <2>1. RowInv' BY <1>1, <1>9, AppendStep, Zenon
  <2> QED BY <1>2, <1>9, <2>1, Zenon DEF Append, clientVars
<1>10. ASSUME ApplyCommit PROVE Inv'
  <2>1. RowInv' BY <1>10, CommitStep, Zenon
  <2> QED BY <1>2, <1>10, <2>1, Zenon DEF ApplyCommit, clientVars
<1>11. CASE \/ \E n \in IntentIds, i \in Installations : PrepareCommit(n, i)
            \/ \E r \in requests : DiscardCommit(r)
            \/ \E r \in requests : BeginCommit(r)
            \/ \E r \in requests : RefuseCommit(r)
            \/ AbortCommit
            \/ \E g \in Grants : RecheckGrants(g)
            \/ Tick
            \/ UNCHANGED vars
  BY <1>11, OtherSteps, Zenon
<1> QED
  BY <1>3, <1>4, <1>5, <1>6, <1>7, <1>8, <1>9, <1>10, <1>11, Zenon DEF Next

\* The invariant holds in every reachable state.
THEOREM Invariance == Spec => []Inv
BY InitInv, NextInv, PTL DEF Spec

\* Type correctness of the membership stores' rows and of the requests.
THEOREM TypeCorrect == Spec => []TypeOK
<1>1. Inv => TypeOK
  BY Zenon DEF Inv, RowInv, RowsType, ClientType, TypeOK
<1> QED BY <1>1, Invariance, PTL

\* However often commits are sent, raced and retried, consumeCommit leaves one
\* envelope per committed intent and one per epoch left.
THEOREM OneCommitPerIntent == Spec => []CommitsOnce
<1>1. Inv => CommitsOnce BY Zenon DEF Inv, RowInv
<1> QED BY <1>1, Invariance, PTL

\* createIntent, cancelIntent, expireIntents and consumeCommit never leave a
\* live intent whose base epoch or proposed roster is stale.
THEOREM NoStaleIntent == Spec => []LiveIntentCurrent
<1>1. Inv => LiveIntentCurrent BY Zenon DEF Inv, RowInv
<1> QED BY <1>1, Invariance, PTL

\* The tables consumeCommit rewrites one by one agree after every transaction.
THEOREM ProjectionsAlwaysAgree == Spec => []ProjectionsAgree
<1>1. Inv => ProjectionsAgree BY Zenon DEF Inv, RowInv
<1> QED BY <1>1, Invariance, PTL

\* A key package serves one intent, and is used exactly when that one commits.
THEOREM PackageServesOneIntent == Spec => []PackageTakenOnce
<1>1. Inv => PackageTakenOnce BY Zenon DEF Inv, RowInv
<1> QED BY <1>1, Invariance, PTL

\* The mailbox of a member holds everything since it joined, and that of a
\* removed one nothing since it left.
THEOREM WindowsAlwaysHold == Spec => []MailboxWindows
<1>1. Inv => MailboxWindows BY Zenon DEF Inv, RowInv
<1> QED BY <1>1, Invariance, PTL

-----------------------------------------------------------------------------
\* Only consumeCommit's update touches the membership rows.
LEMMA OnlyCommitChanges ==
  ASSUME Inv, [Next]_vars, ~ApplyCommit
  PROVE  UNCHANGED <<memberships>> /\ conv'.epoch = conv.epoch
<1>1. conv \in [state : {"active", "membership_pending"}, epoch : Nat \ {0},
                position : Positions]
  BY Zenon DEF Inv, RowInv, RowsType
<1>2. UNCHANGED <<memberships>>
  BY Zenon DEF Next, CreateAdd, CreateRemove, CancelIntent, ExpireIntents, EndIntents,
     RecordProposal, PrepareCommit, DiscardCommit, BeginCommit, RefuseCommit, AbortCommit,
     RecheckGrants, WitnessHead, Append, Tick, conversationVars, vars
<1>3. \/ conv' = conv
      \/ \E s \in {"active", "membership_pending"} : conv' = [conv EXCEPT !.state = s]
      \/ \E p \in Positions : conv' = [conv EXCEPT !.position = p]
  BY Zenon DEF Next, CreateAdd, CreateRemove, CancelIntent, ExpireIntents, EndIntents,
     ActiveIfClear, RecordProposal, PrepareCommit, DiscardCommit, BeginCommit,
     RefuseCommit, AbortCommit, RecheckGrants, WitnessHead, Append, Tick,
     conversationVars, vars
<1>4. conv'.epoch = conv.epoch BY <1>1, <1>3, Zenon
<1> QED BY <1>2, <1>4, Zenon

\* A commit changes the group by its one target.
LEMMA CommitChangesOne ==
  ASSUME Inv, ApplyCommit
  PROVE  /\ LiveMembers' = Changed(LiveMembers, tx.intent)
         /\ tx.committer \in LiveMembers /\ tx.committer \in LiveMembers'
         /\ conv'.epoch = conv.epoch + 1 /\ tx # None
         /\ LiveIntents' = {}
<1>1. RowInv' /\ ProjectionsAgree /\ RowsType
  BY CommitStep, Zenon DEF Inv, RowInv
<1>2. roster' = Changed(roster, tx.intent) /\ tx # None
      /\ conv' = [state |-> "active", epoch |-> conv.epoch + 1, position |-> NextPosition]
  BY Zenon DEF ApplyCommit
<1>3. roster' = LiveMembers' /\ roster = LiveMembers
  BY <1>1, Zenon DEF RowInv, ProjectionsAgree
<1>4. LiveMembers' = Changed(LiveMembers, tx.intent) BY <1>2, <1>3, Zenon
<1>5. /\ tx.committer \in LiveMembers
      /\ intents[tx.intent].op \in Operations
      /\ intents[tx.intent].op = "remove" =>
           tx.committer \in LiveMembers \ {intents[tx.intent].target}
  BY CommitRows, Zenon
<1>6. tx.committer \in LiveMembers' BY <1>4, <1>5, Zenon DEF Changed, Operations
<1>7. conv'.epoch = conv.epoch + 1 /\ conv'.state = "active" BY <1>2, Zenon
<1>8. LiveIntents' = {}
  <2>1. LiveIntentCurrent' BY <1>1, Zenon DEF RowInv
  <2> QED BY <1>7, <2>1, Zenon DEF LiveIntentCurrent
<1> QED BY <1>2, <1>4, <1>5, <1>6, <1>7, <1>8, Zenon

\* Membership changes only by a commit of a member that stays one, which adds or
\* removes the intent's target and ends the epoch.
THEOREM MembershipChangesByCommit == Spec => ChangedByCommit
<1>1. ASSUME Inv, [Next]_vars
      PROVE  [LiveMembers' # LiveMembers =>
                /\ tx # None
                /\ tx.committer \in LiveMembers
                /\ tx.committer \in LiveMembers'
                /\ conv'.epoch = conv.epoch + 1
                /\ LiveMembers' = Changed(LiveMembers, tx.intent)]_vars
  <2>1. CASE ApplyCommit BY <1>1, <2>1, CommitChangesOne, Zenon
  <2>2. CASE ~ApplyCommit
    <3>1. memberships' = memberships BY <1>1, <2>2, OnlyCommitChanges, Zenon
    <3> QED BY <3>1, Zenon DEF LiveMembers
  <2> QED BY <2>1, <2>2, Zenon
<1> QED BY <1>1, Invariance, PTL DEF Spec, ChangedByCommit

-----------------------------------------------------------------------------
\* The refinement mapping of the pending change, with the one live intent.
LEMMA PendingIs ==
  ASSUME Inv
  PROVE  /\ LiveIntents = {} => PendingChange = NoChange
         /\ \A n \in LiveIntents :
              /\ PendingChange = [op |-> intents[n].op, target |-> intents[n].target]
              /\ PendingChange \in [op : {"add", "remove"}, target : Installations]
              /\ PendingChange # NoChange
<1>1. IntentShape /\ LiveIntentCurrent BY Zenon DEF Inv, RowInv
<1>2. LiveIntents = {} => PendingChange = NoChange BY Zenon DEF PendingChange
<1>3. ASSUME NEW n \in LiveIntents
      PROVE  /\ PendingChange = [op |-> intents[n].op, target |-> intents[n].target]
             /\ PendingChange \in [op : {"add", "remove"}, target : Installations]
             /\ PendingChange # NoChange
  <2>1. LiveIntents = {n} BY <1>1, Zenon DEF LiveIntentCurrent
  <2>2. (CHOOSE m \in LiveIntents : TRUE) = n BY <2>1, Zenon
  <2>3. PendingChange = [op |-> intents[n].op, target |-> intents[n].target]
    BY <2>1, <2>2, Zenon DEF PendingChange
  <2>4. intents[n].op \in {"add", "remove"} /\ intents[n].target \in Installations
    BY <1>1, Zenon DEF IntentShape, LiveIntents, Live, Operations
  <2>5. intents[n].target # None BY <2>4, Zenon
  <2> QED BY <2>3, <2>4, <2>5, Zenon DEF NoChange
<1> QED BY <1>2, <1>3, Zenon

\* A step that touches neither memberships nor the pending change is a stutter.
LEMMA GroupStutter ==
  ASSUME conv'.epoch = conv.epoch, memberships' = memberships,
         PendingChange' = PendingChange
  PROVE  UNCHANGED GroupHistory!groupVars
<1>1. LiveMembers' = LiveMembers BY Zenon DEF LiveMembers
<1> QED BY <1>1, Zenon DEF GroupHistory!groupVars

\* A new intent opens a change.
LEMMA CreateOpens ==
  ASSUME Inv, Inv', [Next]_vars, ~ApplyCommit,
         NEW n \in IntentIds, NEW i \in Installations, NEW row,
         conv.state = "active", row.state = "requested", row.op \in {"add", "remove"},
         row.target = i, row.op = "remove" => i \in LiveMembers,
         intents' = [intents EXCEPT ![n] = row]
  PROVE  GroupHistory!Next
<1>1. LiveIntents = {} BY NoneLiveWhenActive, Zenon DEF Inv, RowInv
<1>2. PendingChange = NoChange BY <1>1, PendingIs, Zenon
<1>3. intents'[n] = row BY Zenon DEF Inv, RowInv, RowsType
<1>4. n \in LiveIntents' BY <1>3, Zenon DEF LiveIntents, Live
<1>5. PendingChange' = [op |-> row.op, target |-> i]
  <2>1. LiveIntents' = {n} BY <1>4, Zenon DEF Inv, RowInv, LiveIntentCurrent
  <2>2. (CHOOSE m \in LiveIntents' : TRUE) = n BY <2>1, Zenon
  <2> QED BY <1>3, <2>1, <2>2, Zenon DEF PendingChange
<1>6. memberships' = memberships /\ conv'.epoch = conv.epoch
  BY OnlyCommitChanges, Zenon
<1>7. LiveMembers' = LiveMembers BY <1>6, Zenon DEF LiveMembers
<1> DEFINE c == [op |-> row.op, target |-> i]
<1>8. c \in GroupHistory!Changes BY Zenon DEF GroupHistory!Changes
<1>9. GroupHistory!NoChange = NoChange BY Zenon DEF GroupHistory!NoChange, NoChange
<1>10. GroupHistory!Open(c)
  BY <1>2, <1>5, <1>6, <1>7, <1>9, Zenon DEF GroupHistory!Open
<1> QED BY <1>8, <1>10, Zenon DEF GroupHistory!Next

\* Ending the live intent withdraws the change.
LEMMA EndWithdraws ==
  ASSUME Inv, Inv', [Next]_vars, ~ApplyCommit,
         NEW ended \in SUBSET LiveIntents, ended # {},
         NEW state \in {"cancelled", "expired"}, EndIntents(ended, state)
  PROVE  GroupHistory!Next
<1>1. PICK n \in ended : TRUE BY Zenon
<1>2. PendingChange # NoChange BY <1>1, PendingIs, Zenon
<1>3. LiveIntents = {n} BY <1>1, Zenon DEF Inv, RowInv, LiveIntentCurrent
<1>4. LiveIntents' = {}
  <2>1. \A m \in IntentIds : intents'[m] =
          IF m \in ended THEN [intents[m] EXCEPT !.state = state] ELSE intents[m]
    BY Zenon DEF EndIntents
  <2>2. \A m \in IntentIds : intents[m] \in Intents
    BY Zenon DEF Inv, RowInv, RowsType
  <2>3. \A m \in IntentIds : m \in ended => intents'[m].state = state
    BY <2>1, <2>2, Zenon DEF Intents
  <2>4. \A m \in IntentIds : m \notin ended => intents'[m].state \notin Live
    <3>1. \A m \in IntentIds : intents[m].state \in Live => m \in LiveIntents
      BY Zenon DEF LiveIntents
    <3> QED BY <1>1, <1>3, <2>1, <3>1, Zenon
  <2>5. state \notin Live BY Zenon DEF Live
  <2> QED BY <2>3, <2>4, <2>5, Zenon DEF LiveIntents
<1>5. PendingChange' = NoChange BY <1>4, Zenon DEF PendingChange, NoChange
<1>6. memberships' = memberships /\ conv'.epoch = conv.epoch
  BY OnlyCommitChanges, Zenon
<1>7. LiveMembers' = LiveMembers BY <1>6, Zenon DEF LiveMembers
<1>8. GroupHistory!NoChange = NoChange BY Zenon DEF GroupHistory!NoChange, NoChange
<1>9. GroupHistory!Withdraw
  BY <1>2, <1>5, <1>6, <1>7, <1>8, Zenon DEF GroupHistory!Withdraw
<1> QED BY <1>9, Zenon DEF GroupHistory!Next

\* A commit applies the pending change.
LEMMA CommitApplies ==
  ASSUME Inv, ApplyCommit
  PROVE  GroupHistory!Next
<1> DEFINE n == tx.intent
<1>1. /\ LiveIntents = {n} /\ intents[n].op \in {"add", "remove"}
      /\ intents[n].op = "add" => intents[n].target \notin LiveMembers
      /\ intents[n].op = "remove" => intents[n].target \in LiveMembers
  BY CommitRows, Zenon DEF Operations
<1>2. /\ LiveMembers' = Changed(LiveMembers, n) /\ tx.committer \in LiveMembers'
      /\ conv'.epoch = conv.epoch + 1 /\ LiveIntents' = {}
  BY CommitChangesOne, Zenon
<1>3. PendingChange' = NoChange BY <1>2, Zenon DEF PendingChange, NoChange
<1>4. /\ PendingChange = [op |-> intents[n].op, target |-> intents[n].target]
      /\ PendingChange # NoChange
  BY <1>1, PendingIs, Zenon
<1>5. PendingChange.op = intents[n].op /\ PendingChange.target = intents[n].target
  BY <1>4, Zenon
<1>6. LiveMembers' = IF PendingChange.op = "add" THEN LiveMembers \cup {PendingChange.target}
                                                 ELSE LiveMembers \ {PendingChange.target}
  BY <1>2, <1>5, Zenon DEF Changed
<1>7. GroupHistory!NoChange = NoChange BY Zenon DEF GroupHistory!NoChange, NoChange
<1>8. LiveMembers' # {} BY <1>2, Zenon
<1>9. GroupHistory!Apply
  BY <1>1, <1>2, <1>3, <1>4, <1>5, <1>6, <1>7, <1>8, Zenon DEF GroupHistory!Apply
<1> QED BY <1>9, Zenon DEF GroupHistory!Next

\* Each step of the stores is a step of the abstract group or a stutter.
LEMMA GroupStep == Inv /\ Inv' /\ [Next]_vars => [GroupHistory!Next]_(GroupHistory!groupVars)
<1> SUFFICES ASSUME Inv, Inv', [Next]_vars
             PROVE  GroupHistory!Next \/ UNCHANGED GroupHistory!groupVars
  BY Zenon
<1>1. CASE ApplyCommit BY <1>1, CommitApplies, Zenon
<1>2. CASE ~ApplyCommit
  <2>1. memberships' = memberships /\ conv'.epoch = conv.epoch
    BY <1>2, OnlyCommitChanges, Zenon
  <2>2. ASSUME intents' = intents PROVE UNCHANGED GroupHistory!groupVars
    <3>1. PendingChange' = PendingChange
      BY <2>2, Zenon DEF PendingChange, LiveIntents, NoChange
    <3> QED BY <2>1, <3>1, GroupStutter, Zenon
  <2>3. ASSUME NEW n \in IntentIds, NEW i \in Installations, NEW g \in Grants,
               NEW k \in KeyPackages, CreateAdd(n, i, g, k)
        PROVE  GroupHistory!Next
    <3> DEFINE row == NewIntent("add", i, g, k, roster \cup {i})
    <3>1. row.state = "requested" /\ row.op = "add" /\ row.target = i BY Zenon DEF NewIntent
    <3>2. conv.state = "active" /\ intents' = [intents EXCEPT ![n] = row]
      BY <2>3, Zenon DEF CreateAdd, MayCreate
    <3> HIDE DEF row
    <3> QED BY <1>2, <3>1, <3>2, CreateOpens, Zenon
  <2>4. ASSUME NEW n \in IntentIds, NEW i \in Installations, CreateRemove(n, i)
        PROVE  GroupHistory!Next
    <3> DEFINE row == NewIntent("remove", i, None, None, roster \ {i})
    <3>1. row.state = "requested" /\ row.op = "remove" /\ row.target = i BY Zenon DEF NewIntent
    <3>2. /\ conv.state = "active" /\ intents' = [intents EXCEPT ![n] = row]
          /\ i \in LiveMembers
      BY <2>4, Zenon DEF CreateRemove, MayCreate, LiveMembers
    <3> HIDE DEF row
    <3> QED BY <1>2, <3>1, <3>2, CreateOpens, Zenon
  <2>5. ASSUME NEW n \in IntentIds, NEW i \in Installations, CancelIntent(n, i)
        PROVE  GroupHistory!Next
    <3>1. {n} \in SUBSET LiveIntents /\ {n} # {} /\ EndIntents({n}, "cancelled")
      BY <2>5, Zenon DEF CancelIntent
    <3> QED BY <1>2, <3>1, EndWithdraws, Zenon
  <2>6. ASSUME ExpireIntents PROVE GroupHistory!Next
    <3> DEFINE due == {n \in LiveIntents : intents[n].expires <= clock}
    <3>1. due \in SUBSET LiveIntents /\ due # {} /\ EndIntents(due, "expired")
      BY <2>6, Zenon DEF ExpireIntents
    <3> HIDE DEF due
    <3> QED BY <1>2, <3>1, EndWithdraws, Zenon
  <2>7. ASSUME NEW n \in IntentIds, RecordProposal(n)
        PROVE  UNCHANGED GroupHistory!groupVars
    <3>1. /\ intents[n].state = "requested"
          /\ intents' = [intents EXCEPT ![n] = [intents[n] EXCEPT
                            !.state = "proposed", !.proposal = NextPosition]]
      BY <2>7, Zenon DEF RecordProposal, Proposable
    <3>2. intents[n] \in Intents /\ DOMAIN intents = IntentIds
      BY Zenon DEF Inv, RowInv, RowsType
    <3>3. /\ intents'[n].state = "proposed" /\ intents'[n].op = intents[n].op
          /\ intents'[n].target = intents[n].target
      BY <3>1, <3>2, Zenon DEF Intents
    <3>4. n \in LiveIntents /\ n \in LiveIntents'
      BY <3>1, <3>3, Zenon DEF LiveIntents, Live
    <3>5. LiveIntents = {n} /\ LiveIntents' = {n}
      BY <3>4, Zenon DEF Inv, RowInv, LiveIntentCurrent
    <3>6. PendingChange = [op |-> intents[n].op, target |-> intents[n].target]
      BY <3>4, PendingIs, Zenon
    <3>7. PendingChange' = [op |-> intents'[n].op, target |-> intents'[n].target]
      <4>1. (CHOOSE m \in LiveIntents' : TRUE) = n BY <3>5, Zenon
      <4> QED BY <3>5, <4>1, Zenon DEF PendingChange
    <3> QED BY <2>1, <3>3, <3>6, <3>7, GroupStutter, Zenon
  <2>8. CASE \/ \E n \in IntentIds, i \in Installations : PrepareCommit(n, i)
             \/ \E r \in requests : DiscardCommit(r)
             \/ \E r \in requests : BeginCommit(r)
             \/ \E r \in requests : RefuseCommit(r)
             \/ AbortCommit
             \/ \E g \in Grants : RecheckGrants(g)
             \/ WitnessHead
             \/ \E i \in Installations : Append(i)
             \/ Tick
             \/ UNCHANGED vars
    <3>1. intents' = intents
      BY <2>8, Zenon DEF PrepareCommit, DiscardCommit, BeginCommit, RefuseCommit,
         AbortCommit, RecheckGrants, WitnessHead, Append, Tick, conversationVars, vars
    <3> QED BY <2>2, <3>1, Zenon
  <2> QED BY <1>2, <2>3, <2>4, <2>5, <2>6, <2>7, <2>8, Zenon DEF Next
<1> QED BY <1>1, <1>2, Zenon

\* The stores implement the abstract group: a serial history of single changes.
THEOREM Refinement == Spec => ImplementsGroup
<1>1. Init => GroupHistory!Init
  <2> SUFFICES ASSUME Init PROVE GroupHistory!Init BY Zenon
  <2>1. LiveIntents = {} BY Zenon DEF Init, LiveIntents, NoIntent, Live
  <2>2. PendingChange = NoChange BY <2>1, Zenon DEF PendingChange
  <2>3. LiveMembers = Founders /\ conv.epoch = 1 BY Zenon DEF Init, LiveMembers
  <2> QED BY <2>2, <2>3, Zenon DEF GroupHistory!Init, GroupHistory!NoChange, NoChange
<1> QED
  BY <1>1, GroupStep, Invariance, PTL DEF Spec, ImplementsGroup, GroupHistory!Spec

=============================================================================
