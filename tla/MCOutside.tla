----------------------------- MODULE MCOutside -----------------------------
(***************************************************************************)
(* Instances of the parties around the service: the client's device and    *)
(* its session, the embedding page, the witness of the delivery log and    *)
(* the quorum of chain providers.  They share no state: a behaviour moves  *)
(* one of them (focus) and the rest stay at their start.                   *)
(***************************************************************************)
EXTENDS ClientDevice, ClientSession, EmbedBridge, WitnessLog, ChainQuorum

VARIABLE focus

outsideVars ==
  <<focus, deviceVars, clientSessionVars, bridgeVars, witnessLogVars, chainVars>>

-----------------------------------------------------------------------------
(* Chain: the payment is in block 1 of branch a only; block 1 has no code,
   block 2 has a contract or, on branch b, a delegated account. *)
PaidOnA(n, branch) == n = 1 /\ branch = "a"
WalletCode(n, branch) ==
  IF n = 1 THEN "empty" ELSE IF branch = "a" THEN "contract" ELSE "delegated"
PinnedOnA(n, branch) == IF branch = "a" THEN "pinned" ELSE "contract"

-----------------------------------------------------------------------------
Parties == {"device", "session", "bridge", "witness", "chain"}

OutsideInit ==
  /\ focus \in Parties
  /\ DeviceInit /\ ClientSessionInit /\ BridgeInit /\ WitnessLogInit /\ ChainInit
  /\ focus # "device" => events = <<>>
  /\ focus # "chain" => \A f \in DOMAIN payment : payment[f]

OutsideNext ==
  /\ UNCHANGED focus
  /\ IF focus = "device" THEN DeviceNext ELSE UNCHANGED deviceVars
  /\ IF focus = "session" THEN ClientSessionNext ELSE UNCHANGED clientSessionVars
  /\ IF focus = "bridge" THEN BridgeNext ELSE UNCHANGED bridgeVars
  /\ IF focus = "witness" THEN WitnessLogNext ELSE UNCHANGED witnessLogVars
  /\ IF focus = "chain" THEN ChainNext ELSE UNCHANGED chainVars

OutsideSpec == OutsideInit /\ [][OutsideNext]_outsideVars
=============================================================================
