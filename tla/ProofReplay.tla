---------------------------- MODULE ProofReplay ----------------------------
(***************************************************************************)
(* Proofs of possession (http/dpop.ts): verifyDpopProof's checks in order, *)
(* and the in-process guard that lets a proof be used once.  A proof that  *)
(* fails to parse is left out: it is refused before anything is read.      *)
(***************************************************************************)
EXTENDS Integers, FiniteSets

CONSTANTS ProofKeys,      \* device keys
          Targets,        \* method and URL of a request
          Tokens,         \* access tokens, each bound to a key by TokenKey
          TokenKey,       \* installation_auth_jkt of the token's session
          Jtis,
          IatWindow,      \* IAT_WINDOW_SECONDS, in ticks
          GuardMargin,    \* the 300 seconds added to the window
          GuardCapacity,  \* the 10,000 entries beyond which the guard is swept
          ProofClock      \* bound on the clock

ASSUME ProofConstants ==
    /\ IatWindow \in Nat \ {0} /\ GuardMargin \in Nat /\ GuardCapacity \in Nat
    /\ IatWindow < GuardMargin /\ ProofClock \in Nat
    /\ TokenKey \in [Tokens -> ProofKeys]

VARIABLES proofNow,
          seen,       \* the guard's map: entries [jti, expiry]
          uses        \* how often each proof was accepted by this process

proofVars == <<proofNow, seen, uses>>

DpopProof == [key : ProofKeys, target : Targets, token : Tokens, jti : Jtis, iat : 0..ProofClock]

ProofInit ==
    /\ proofNow = 0
    /\ seen = {}
    /\ uses = << >>

Distance(a, b) == IF a > b THEN a - b ELSE b - a

HorizonOfWindow == proofNow + IatWindow

GuardHorizon == proofNow + IatWindow + GuardMargin

(* createInProcessDpopReplayGuard's claim, which sweeps only a full guard. *)
Swept == IF Cardinality(seen) > GuardCapacity
         THEN { e \in seen : e.expiry > proofNow } ELSE seen
Claimable(jti) == ~\E e \in Swept : e.jti = jti /\ e.expiry > proofNow
Claim(jti) ==
    seen' = { e \in Swept : e.jti # jti } \cup {[jti |-> jti, expiry |-> GuardHorizon]}

ProofHolds(p, target, token) ==
    /\ p.key = TokenKey[token]
    /\ p.target = target
    /\ Distance(proofNow, p.iat) <= IatWindow
    /\ p.token = token

(* verifyDpopProof on a request for target with the token. *)
VerifyDpopProof(p, target, token) ==
    /\ ProofHolds(p, target, token)
    /\ IF Claimable(p.jti)
       THEN /\ Claim(p.jti)
            /\ uses' = [q \in DOMAIN uses \cup {p} |->
                          (IF q \in DOMAIN uses THEN uses[q] ELSE 0) + (IF q = p THEN 1 ELSE 0)]
       ELSE seen' = Swept /\ UNCHANGED uses
    /\ UNCHANGED proofNow

(* The process restarts: the guard starts empty. *)
GuardRestart == seen' = {} /\ uses' = << >> /\ UNCHANGED proofNow

ProofTick ==
    /\ proofNow < ProofClock
    /\ proofNow' = proofNow + 1
    /\ UNCHANGED <<seen, uses>>

ProofNext ==
    \/ ProofTick \/ GuardRestart
    \/ \E p \in DpopProof, target \in Targets, token \in Tokens :
         VerifyDpopProof(p, target, token)

ProofSpec == ProofInit /\ [][ProofNext]_proofVars

-----------------------------------------------------------------------------
(* One process accepts a proof once, whenever it is presented again: a proof
   dated ahead of the clock stays acceptable for two windows, and its entry must
   outlive that and every sweep of a full guard. *)
ProofUsedOnce == \A p \in DOMAIN uses : uses[p] <= 1
=============================================================================
