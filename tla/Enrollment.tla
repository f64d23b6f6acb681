----------------------------- MODULE Enrollment -----------------------------
(***************************************************************************)
(* Device enrollment (identity/enrollmentStore.ts): an attempt is          *)
(* allocated for a wallet, bound to a device key when its challenges are   *)
(* issued, claimed by the first proof presented, verified outside any      *)
(* transaction, and finalized in a second transaction.                     *)
(*                                                                         *)
(* A transaction that locks the attempt's row is one action.  The          *)
(* finalization takes two, FinalizeBegin and FinalizeEnd: it holds its own *)
(* attempt's row throughout, but it reads the wallet's link without a lock *)
(* and inserts it later, so finalizations of two attempts for one wallet   *)
(* overlap between the read and the insert.                                *)
(***************************************************************************)
EXTENDS Integers, FiniteSets, TLC

CONSTANTS Attempts,       \* enrollment attempts; each names the account it would open
          Wallets, DeviceKeys,
          Proofs,         \* the proofs a client may present
          GoodProofs,     \* those whose possession and wallet signatures verify
          Completions,    \* calls of completeEnrollment
          AttemptTtl,     \* ATTEMPT_TTL_MILLISECONDS, in ticks
          EnrollClock,    \* bound on the clock
          NoValue

ASSUME EnrollmentConstants ==
    /\ GoodProofs \subseteq Proofs
    /\ AttemptTtl \in Nat \ {0}
    /\ EnrollClock \in Nat
    /\ NoValue \notin Attempts \cup DeviceKeys

VARIABLES enrollNow,
          attempt,        \* device_enrollment_attempts
          completion,     \* enrollment_completion_requests, by attempt
          link,           \* wallet_links: wallet -> account
          credential,     \* installations and device_credentials, by attempt
          completing,     \* calls of completeEnrollment in progress
          told            \* per attempt, what the callers were answered

enrollmentVars ==
    <<enrollNow, attempt, completion, link, credential, completing, told>>

Unallocated == [state |-> "none", wallet |-> NoValue, account |-> NoValue,
                key |-> NoValue, expires |-> 0]
NotClaimed == [state |-> "none", proof |-> NoValue]
NoCredential == [account |-> NoValue, wallet |-> NoValue, key |-> NoValue, proof |-> NoValue]
NoCompleting == [at |-> "idle", of |-> NoValue, proof |-> NoValue,
                 verdict |-> NoValue, saw |-> NoValue]

EnrollmentInit ==
    /\ enrollNow = 0
    /\ attempt = [a \in Attempts |-> Unallocated]
    /\ completion = [a \in Attempts |-> NotClaimed]
    /\ link = [w \in Wallets |-> NoValue]
    /\ credential = [a \in Attempts |-> NoCredential]
    /\ completing = [c \in Completions |-> NoCompleting]
    /\ told = [a \in Attempts |-> {}]

Expired(a) == enrollNow >= attempt[a].expires

(* The attempt's row is held by the finalization that locked it. *)
Held(a) == \E c \in Completions : completing[c].at = "finalizing" /\ completing[c].of = a

-----------------------------------------------------------------------------
(* allocateEnrollment.  A wallet with a link enrolls under its account, any
   other under a fresh one. *)
AllocateEnrollment(a, w) ==
    /\ attempt[a].state = "none"
    /\ attempt' = [attempt EXCEPT ![a] =
         [state |-> "allocated", wallet |-> w, key |-> NoValue,
          account |-> IF link[w] # NoValue THEN link[w] ELSE a,
          expires |-> enrollNow + AttemptTtl]]
    /\ UNCHANGED <<enrollNow, completion, link, credential, completing, told>>

ExpireAttempt(a) ==
    attempt' = IF attempt[a].state \in {"allocated", "challenges_issued"}
               THEN [attempt EXCEPT ![a].state = "expired"] ELSE attempt

(* issueChallenges, for a wallet and a device key of the caller's choice.  A
   key is registered once (installation_auth_jkt is unique); a call for a key
   already taken throws and changes nothing, like the refusals. *)
IssueChallenges(a, w, k) ==
    /\ attempt[a].state # "none" /\ ~Held(a)
    /\ IF Expired(a)
       THEN ExpireAttempt(a)
       ELSE /\ attempt[a].state = "allocated"
            /\ w = attempt[a].wallet
            /\ \A b \in Attempts : attempt[b].key # k
            /\ attempt' = [attempt EXCEPT ![a].state = "challenges_issued", ![a].key = k]
    /\ UNCHANGED <<enrollNow, completion, link, credential, completing, told>>

-----------------------------------------------------------------------------
Tell(a, answer) == told' = [told EXCEPT ![a] = @ \cup {answer}]

(* What a settled completion answers to every retry of its proof. *)
TerminalCompletionResult(state) == IF state \in {"issued", "unavailable"} THEN state ELSE "invalid"

(* completeEnrollment up to its claim transaction: a completion is claimed once,
   by the first proof, and a retry of that proof resumes it or reads its result. *)
ClaimEnrollment(c, a, proof) ==
    /\ completing[c].at = "idle"
    /\ attempt[a].state # "none" /\ ~Held(a)
    /\ LET claimed == completion[a].state # "none"
           own == completion[a].proof = proof
           verify == [completing EXCEPT ![c] = [NoCompleting EXCEPT !.at = "verifying",
                                                                   !.of = a, !.proof = proof]]
       IN \/ /\ claimed /\ ~own
             /\ Tell(a, "conflict")
             /\ UNCHANGED <<attempt, completion, completing>>
          \/ /\ claimed /\ own /\ completion[a].state = "claimed"
             /\ completing' = verify
             /\ UNCHANGED <<attempt, completion, told>>
          \/ /\ claimed /\ own /\ completion[a].state # "claimed"
             /\ Tell(a, TerminalCompletionResult(completion[a].state))
             /\ UNCHANGED <<attempt, completion, completing>>
          \/ /\ ~claimed
             /\ attempt[a].state # "challenges_issued" \/ Expired(a)
             /\ ExpireAttempt(a)
             /\ Tell(a, "invalid")
             /\ UNCHANGED <<completion, completing>>
          \/ /\ ~claimed /\ attempt[a].state = "challenges_issued" /\ ~Expired(a)
             /\ completion' = [completion EXCEPT ![a] = [state |-> "claimed", proof |-> proof]]
             /\ attempt' = [attempt EXCEPT ![a].state = "claimed"]
             /\ completing' = verify
             /\ UNCHANGED told
    /\ UNCHANGED <<enrollNow, link, credential>>

(* verifyClaim.  A bad possession or wallet signature is invalid; the wallet's
   verification may be unavailable, independently at every retry. *)
VerifyClaim(c) ==
    /\ completing[c].at = "verifying"
    /\ \E verdict \in IF completing[c].proof \in GoodProofs
                      THEN {"verified", "unavailable"} ELSE {"invalid"} :
         completing' = [completing EXCEPT ![c].at = "verified", ![c].verdict = verdict]
    /\ UNCHANGED <<enrollNow, attempt, completion, link, credential, told>>

AttemptSettled(a) == attempt[a].state \in {"issued", "invalid", "unavailable"}

LinkUncompared(c) ==
    LET a == completing[c].of
        verdict == completing[c].verdict
    IN /\ completing[c].at = "verified" /\ ~Held(a) /\ ~AttemptSettled(a)
       /\ verdict = "verified"
       /\ completing' = [completing EXCEPT ![c].at = "finalizing",
                                           ![c].saw = link[attempt[a].wallet]]
       /\ UNCHANGED <<enrollNow, attempt, completion, told, link, credential>>

(* finalizeCompletion up to its read of the wallet's link. *)
FinalizeBegin(c) ==
    LET a == completing[c].of
        verdict == completing[c].verdict
        linked == link[attempt[a].wallet]
        idle == [completing EXCEPT ![c] = NoCompleting]
    IN /\ completing[c].at = "verified" /\ ~Held(a)
       /\ \/ /\ AttemptSettled(a)
             /\ Tell(a, TerminalCompletionResult(completion[a].state))
             /\ completing' = idle
             /\ UNCHANGED <<attempt, completion>>
          \/ /\ ~AttemptSettled(a) /\ verdict # "verified"
             /\ completion' = [completion EXCEPT ![a].state = verdict]
             /\ attempt' = [attempt EXCEPT ![a].state = verdict]
             /\ Tell(a, verdict)
             /\ completing' = idle
          \/ /\ ~AttemptSettled(a) /\ verdict = "verified"
             /\ linked \notin {NoValue, attempt[a].account}
             /\ Tell(a, "invalid")
             /\ completing' = idle
             /\ UNCHANGED <<attempt, completion>>
          \/ /\ ~AttemptSettled(a) /\ verdict = "verified"
             /\ linked \in {NoValue, attempt[a].account}
             /\ completing' = [completing EXCEPT ![c].at = "finalizing", ![c].saw = linked]
             /\ UNCHANGED <<attempt, completion, told>>
       /\ UNCHANGED <<enrollNow, link, credential>>

(* The rest of finalizeCompletion: the link, the account, the installation, its
   credential and first KeyPackage, and the result, or nothing when another
   enrollment inserted the wallet's link meanwhile (wallet_ref_lookup is unique). *)
FinalizeEnd(c) ==
    LET a == completing[c].of
        w == attempt[a].wallet
        insert == completing[c].saw = NoValue
    IN /\ completing[c].at = "finalizing"
       /\ IF insert /\ link[w] # NoValue
          THEN UNCHANGED <<attempt, completion, link, credential, told>>
          ELSE /\ link' = [link EXCEPT ![w] = IF insert THEN attempt[a].account ELSE @]
               /\ credential' = [credential EXCEPT ![a] =
                    [account |-> attempt[a].account, wallet |-> w, key |-> attempt[a].key,
                     proof |-> completing[c].proof]]
               /\ completion' = [completion EXCEPT ![a].state = "issued"]
               /\ attempt' = [attempt EXCEPT ![a].state = "issued"]
               /\ Tell(a, "issued")
       /\ completing' = [completing EXCEPT ![c] = NoCompleting]
       /\ UNCHANGED enrollNow

(* The process stops, or the client's connection is lost, after the claim. *)
CompletionLost(c) ==
    /\ completing[c].at # "idle"
    /\ completing' = [completing EXCEPT ![c] = NoCompleting]
    /\ UNCHANGED <<enrollNow, attempt, completion, link, credential, told>>

EnrollTick ==
    /\ enrollNow < EnrollClock
    /\ enrollNow' = enrollNow + 1
    /\ UNCHANGED <<attempt, completion, link, credential, completing, told>>

EnrollmentNext ==
    \/ EnrollTick
    \/ \E a \in Attempts, w \in Wallets :
         AllocateEnrollment(a, w) \/ \E k \in DeviceKeys : IssueChallenges(a, w, k)
    \/ \E c \in Completions :
         \/ VerifyClaim(c) \/ FinalizeBegin(c) \/ FinalizeEnd(c) \/ CompletionLost(c)
         \/ \E a \in Attempts, proof \in Proofs : ClaimEnrollment(c, a, proof)

EnrollmentSpec == EnrollmentInit /\ [][EnrollmentNext]_enrollmentVars

(* readEnrollment. *)
ReadEnrollment(a) ==
    IF attempt[a].state \in {"issued", "invalid", "unavailable", "expired"} THEN attempt[a].state
    ELSE IF Expired(a) THEN "expired" ELSE "pending"

-----------------------------------------------------------------------------
(* Two wallets never share an account and no wallet is enrolled under two: the
   devices enrolled for a wallet carry the account its link names, however the
   enrollments of one new wallet overlap (finalizeCompletion's comparison of the
   link's account, and the unique link it inserts). *)
AccountFollowsWallet ==
    /\ \A a \in Attempts :
         credential[a] # NoCredential =>
           credential[a].account = link[credential[a].wallet]
    /\ \A v, w \in Wallets : link[v] # NoValue /\ link[v] = link[w] => v = w

(* Claims are terminal: whatever retries, lost calls and overlapping
   verifications there are, an attempt whose caller was once told invalid or
   unavailable never enrolls a device, one told issued stays issued, and the
   credential was issued to the first proof claimed, which verified. *)
ClaimsAreTerminal ==
    \A a \in Attempts :
      /\ "issued" \in told[a] => told[a] \cap {"invalid", "unavailable"} = {}
      /\ credential[a] # NoCredential =>
           /\ ReadEnrollment(a) = "issued"
           /\ told[a] \cap {"invalid", "unavailable"} = {}
           /\ credential[a].proof = completion[a].proof
           /\ credential[a].proof \in GoodProofs

(* A proof that verifies is lost for good only where the wallet went to another
   account or the verifier was unavailable: an attempt still claimed can be
   finished by presenting its proof again, at any time, even after it reads as
   expired (completeEnrollment resumes a claimed completion before it looks at
   the expiry). *)
ClaimResumable ==
    \A a \in Attempts :
      attempt[a].state = "claimed" /\ ~Held(a) /\ completion[a].proof \in GoodProofs =>
        /\ completion[a].state = "claimed"
        /\ attempt[a].key # NoValue
        /\ "invalid" \in told[a] => link[attempt[a].wallet] \notin {NoValue, attempt[a].account}

(* What an enrolling client may rely on, with any overlap of calls, retries and
   crashes: wallets and accounts stay one to one, an answer is never taken back,
   and an open claim can be finished (completeEnrollment). *)
EnrollmentSafe ==
    /\ AccountFollowsWallet
    /\ ClaimsAreTerminal
    /\ ClaimResumable
=============================================================================
