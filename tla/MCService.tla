----------------------------- MODULE MCService -----------------------------
(***************************************************************************)
(* Instances of the parts of the service around the append lane: the       *)
(* evidence an append is checked against, the counters conversations       *)
(* share, the policy heads and their log, the rotation of external         *)
(* senders, the relay and the notifications.  They share no row these      *)
(* models read: a behaviour moves one of them (focus), the rest stay at    *)
(* their start.  The model values are interchangeable within each pair.    *)
(***************************************************************************)
EXTENDS AppendEvidence, QuotaSharing, PolicyWitness, PolicyIssuance, SenderRotation, Relay,
        Notifications, TLC

CONSTANTS n1, n2, k1, k2

VARIABLE focus

serviceRunVars ==
  <<focus, aeVars, quotaVars, vars, issuanceVars, rotationVars, relayVars, notifyVars>>

Interchangeable == Permutations({n1, n2}) \cup Permutations({k1, k2})

-----------------------------------------------------------------------------
(* Append evidence: one send, the same envelope under another key, another
   envelope under the first key, and a command for another conversation. *)
CmdA == [key |-> "k1", conv |-> "lane", env |-> "a"]
CmdA2 == [key |-> "k2", conv |-> "lane", env |-> "a"]
CmdB == [key |-> "k1", conv |-> "lane", env |-> "b"]
CmdX == [key |-> "k4", conv |-> "other", env |-> "x"]
TheCommands == {CmdA, CmdA2, CmdB, CmdX}
Conflicting == [now |-> 1, altered |-> 1, commands |-> {CmdA2, CmdB}]
Aging == [now |-> 2, altered |-> 1, commands |-> {CmdA}]
Unaltered == [now |-> 2, altered |-> 0, commands |-> {CmdA, CmdA2}]
TheBounds == {Conflicting, Aging, Unaltered}

\* Quotas: two devices of one account.
OneAccount(s) == "a1"

\* Relay: one conversation, and an update that names it next to one that does not.
OneTag(c) == "t"
NamesIt(u) == IF u = "u1" THEN "t" ELSE "none"

-----------------------------------------------------------------------------
Parts == {"evidence", "quota", "policy log", "issuance", "rotation", "relay", "notify"}

ServiceInit ==
  /\ focus \in Parts
  /\ AeInit /\ QuotaInit /\ Init /\ IssuanceInit /\ RotationInit /\ RelayInit /\ NotifyInit
  /\ focus # "evidence" => aeInst = Aging

ServiceNext ==
  /\ UNCHANGED focus
  /\ IF focus = "evidence" THEN AeNext ELSE UNCHANGED aeVars
  /\ IF focus = "quota" THEN QuotaNext ELSE UNCHANGED quotaVars
  /\ IF focus = "policy log" THEN Next ELSE UNCHANGED vars
  /\ IF focus = "issuance" THEN IssuanceNext ELSE UNCHANGED issuanceVars
  /\ IF focus = "rotation" THEN RotationNext ELSE UNCHANGED rotationVars
  /\ IF focus = "relay" THEN RelayNext ELSE UNCHANGED relayVars
  /\ IF focus = "notify" THEN NotifyNext ELSE UNCHANGED notifyVars

ServiceSpec == ServiceInit /\ [][ServiceNext]_serviceRunVars
=============================================================================
