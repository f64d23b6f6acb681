--------------------------- MODULE SenderRotation ---------------------------
(***************************************************************************)
(* A project's external-sender credentials.                                *)
(*                                                                         *)
(*   appendAuthority          provisions a project on its first plan, with *)
(*                            the generations 1 (current) and 2 (staged)   *)
(*   externalSenderRotation   the keeper's pass: promotes the staged       *)
(*                            generation, stages the next one and retires  *)
(*                            what has expired                             *)
(*                                                                         *)
(* Two plans may provision the project at once, and two passes may         *)
(* overlap: each reads before it holds the provision's row.  The keeper    *)
(* starts a pass every cycle of some seconds: here, at least once a day,   *)
(* and no pass lasts into the next day.  The periods are scaled down.      *)
(***************************************************************************)
EXTENDS Integers, FiniteSets

CONSTANTS
  Planners,     \* transactions that create a plan
  Rotations,    \* rotation passes in progress at a time
  Lifetime,     \* LIFETIME of a credential
  Overlap,      \* OVERLAP before its expiry in which it is replaced
  Early,        \* days a generation is published before it takes over
  LastDay,      \* bound on the clock
  Unprovisioned

\* OVERLAP and LIFETIME are 14 and 89 days, and the keeper passes daily: a credential
\* that is not yet due outlives the day of the next pass only if OVERLAP is longer.
ASSUME RotationPeriods ==
  /\ Overlap \in Nat /\ 1 < Overlap /\ Lifetime \in Nat /\ Overlap < Lifetime
  /\ Early \in Nat /\ LastDay \in Nat
  /\ Unprovisioned \notin [current : Nat, staged : Nat]

VARIABLES
  date,
  provision,    \* project_messaging_provisions
  credential,   \* external_sender_credentials, by generation
  ledger,       \* project_refs.last_signer_generation
  planner,      \* "idle", or a plan's transaction that found no provision
  rotation,     \* what a pass has found due
  lastPass,     \* the day of the last pass
  tookOver      \* the day a generation became current

rotationVars == <<date, provision, credential, ledger, planner, rotation, lastPass, tookOver>>

Published(day) == [from |-> day, until |-> day + Lifetime, state |-> "published"]

-----------------------------------------------------------------------------
(* Provisioning.                                                           *)

FindUnprovisioned(p) ==
  /\ planner[p] = "idle" /\ provision = Unprovisioned
  /\ planner' = [planner EXCEPT ![p] = "provisioning"]
  /\ UNCHANGED <<date, provision, credential, ledger, rotation, lastPass, tookOver>>

\* The first to commit publishes both generations.  The insert of the other meets
\* the unique index and its transaction is lost.
ProvisionSenders(p) ==
  /\ planner[p] = "provisioning"
  /\ IF provision # Unprovisioned THEN UNCHANGED <<credential, provision, tookOver>>
     ELSE /\ credential' = [g \in {1, 2} |-> Published(date)]
          /\ provision' = [current |-> 1, staged |-> 2]
          /\ tookOver' = [g \in {1} |-> date]
  /\ planner' = [planner EXCEPT ![p] = "idle"]
  /\ UNCHANGED <<date, ledger, rotation, lastPass>>

-----------------------------------------------------------------------------
(* The pass.                                                               *)

RotationDue(held) ==
  /\ credential[held.current].until - Overlap <= date
  /\ credential[held.staged].state = "published" /\ date < credential[held.staged].until

\* The selection finds the provision due, and waits for its row ...
BeginRotation(r) ==
  /\ rotation[r] = Unprovisioned /\ provision # Unprovisioned
  /\ rotation' = [rotation EXCEPT ![r] = provision]
  /\ UNCHANGED <<date, provision, credential, ledger, planner, lastPass, tookOver>>

\* Fault: what was selected before the lock is used.
StillDueSelected(r) == RotationDue(rotation[r])

\* ... whose condition is evaluated again once the row is locked.
StillDue(r) == rotation[r] = provision /\ RotationDue(provision)

Expired(rows) ==
  [g \in DOMAIN rows |-> IF rows[g].until <= date THEN [rows[g] EXCEPT !.state = "retired"]
                         ELSE rows[g]]

\* Promotes, stages, records the generation, and retires what has expired.
EndRotation(r) ==
  LET next == rotation[r].staged + 1
      rows == [g \in DOMAIN credential \cup {next} |->
                 IF g \in DOMAIN credential THEN credential[g] ELSE Published(date)]
  IN /\ rotation[r] # Unprovisioned
     /\ IF StillDue(r)
          THEN /\ provision' = [current |-> rotation[r].staged, staged |-> next]
               /\ credential' = Expired(rows)
               /\ ledger' = IF next > ledger THEN next ELSE ledger
               /\ tookOver' = [g \in 1..rotation[r].staged |->
                                 IF g \in DOMAIN tookOver THEN tookOver[g] ELSE date]
          ELSE credential' = Expired(credential) /\ UNCHANGED <<provision, ledger, tookOver>>
     /\ rotation' = [rotation EXCEPT ![r] = Unprovisioned]
     /\ lastPass' = date
     /\ UNCHANGED <<date, planner>>

\* A day passes; the keeper has made its pass.
NextDate ==
  /\ date < LastDay
  /\ provision # Unprovisioned => lastPass = date
  /\ \A r \in Rotations : rotation[r] = Unprovisioned
  /\ date' = date + 1
  /\ UNCHANGED <<provision, credential, ledger, planner, rotation, lastPass, tookOver>>

-----------------------------------------------------------------------------
RotationInit ==
  /\ date = 0 /\ provision = Unprovisioned /\ credential = <<>> /\ ledger = 0
  /\ planner = [p \in Planners |-> "idle"]
  /\ rotation = [r \in Rotations |-> Unprovisioned]
  /\ lastPass = 0 /\ tookOver = <<>>

RotationNext ==
  \/ \E p \in Planners : FindUnprovisioned(p) \/ ProvisionSenders(p)
  \/ \E r \in Rotations : BeginRotation(r) \/ EndRotation(r)
  \/ NextDate

RotationSpec == RotationInit /\ [][RotationNext]_rotationVars

-----------------------------------------------------------------------------
(* Properties.                                                             *)

\* Generations advance in step: every generation up to the staged one was published
\* once, the staged one follows the current one, and a rotated project's ledger names
\* the staged one - also when passes overlap or a second plan provisions late.
GenerationsInStep ==
  provision # Unprovisioned =>
    /\ provision.staged = provision.current + 1
    /\ DOMAIN credential = 1..provision.staged
    /\ ledger \in {0, provision.staged} /\ (provision.current > 1 => ledger # 0)

\* A project is never without a signer: as long as the keeper makes its passes, the
\* current generation has not expired, nor has it been retired (a proposal under it
\* would be refused, and no later head could name a live signer).
SignerIsLive ==
  provision # Unprovisioned =>
    date < credential[provision.current].until
      /\ credential[provision.current].state = "published"

\* "the staged next generation published at least 30 days before it takes over"
\* (externalSenderRotation, ADR 0001 item 9).
StagedEarly == \A g \in DOMAIN tookOver : g > 1 => tookOver[g] - credential[g].from >= Early

\* A provisioned project has one current and one staged generation, and the current
\* one can sign, with overlapping passes and late plans (rotateExternalSenderCredentials).
RotationSafe ==
  /\ GenerationsInStep
  /\ SignerIsLive
=============================================================================
