-------------------------- MODULE DeviceEnrollment --------------------------
(***************************************************************************)
(* The enrollment of a device (authority/challenges.ts, devices.ts and     *)
(* signatures.ts).  The service issues a wallet challenge and a device     *)
(* possession challenge as one pair; the account signs the first and the   *)
(* device's installation key the second; a verifier claims the pair once   *)
(* and for all, collects the evidence of five ports (wallet signature,     *)
(* possession, KeyPackage, credential signer, key directory), and accepts  *)
(* the credential the registry answers only when every piece is about its  *)
(* own attempt.                                                            *)
(*                                                                         *)
(* The ports are external: their evidence is genuine, but an answer may be *)
(* about another attempt, and any call may fail or be lost.  Several       *)
(* verifiers may work on one attempt (a retried request).  Identifiers and *)
(* digests are injective, so equality of records stands for equality of    *)
(* digests.  Chain, origin, audience, client, purpose, scope and protocol  *)
(* profile are fields every attempt of the model shares.                   *)
(***************************************************************************)
EXTENDS Integers, FiniteSets

CONSTANTS
    Enrollees,        \* the attempts to come: functions id -> [account, device, opens, closes, package]
    Verifiers,      \* verifier sessions
    MaxChallenge,   \* MAX_CHALLENGE_LIFETIME_MS
    EnrollTime,     \* bound on the clock
    ENone

VARIABLES
    attempts,   \* the challenge pairs issued: id -> [account, device, issued, opens, closes, package]
    walletSigs, \* ids whose wallet challenge the account has signed
    proofs,     \* ids whose possession challenge the device key has signed
    claims,     \* id -> the instant the pair was claimed (claimEnrollmentPair)
    sessions,   \* verifier -> its progress
    enrolled,   \* the enrollments accepted: [by, id, wallet, possession, at]
    enow

enrollVars == <<attempts, walletSigs, proofs, claims, sessions, enrolled, enow>>

Ids == DOMAIN Enrollees
Issued == DOMAIN attempts

(* parseWindow and assertKeyPackageCoversChallenge: what a challenge that
   parses says about its times. *)
WindowValid(a) ==
    /\ a.opens >= a.issued
    /\ a.closes > a.opens
    /\ a.closes - a.issued =< MaxChallenge
    /\ a.package > a.closes

(* Whether t lies in the window of the challenge pair. *)
InWindow(a, t) == t >= a.opens /\ t < a.closes

(* challengeBinding: what a wallet challenge binds. *)
WalletBinding(w) ==
    [enrollment |-> w, account |-> attempts[w].account, device |-> attempts[w].device,
     opens |-> attempts[w].opens, closes |-> attempts[w].closes]

(* parseDevicePossessionChallenge: what the possession challenge repeats. *)
PossessionBinding(p) ==
    [enrollment |-> p, account |-> attempts[p].account, device |-> attempts[p].device,
     opens |-> attempts[p].opens, closes |-> attempts[p].closes]

(* possessionChallengeMatchesWallet *)
PairAgrees(w, p) == PossessionBinding(p) = WalletBinding(w)

(* assertChallengeUsable with parseWinningChallengeClaim, and the same
   comparisons of parseClaimEnrollmentChallengePairResult: the claimed pair is
   the expected one, was claimed in its window, and is still in it. *)
ClaimAccepted(expected, w, p, claimedAt) ==
    /\ w = expected /\ p = expected
    /\ PairAgrees(w, p)
    /\ claimedAt >= attempts[w].issued
    /\ InWindow(attempts[w], claimedAt)
    /\ claimedAt =< enow
    /\ InWindow(attempts[w], enow)

(* parseVerified: evidence of the wallet signature over this challenge. *)
WalletAccepted(expected, e) == e.id = expected /\ e.at =< enow

(* parseDeviceEnrollmentRequest: the request repeats the wallet challenge's
   binding and carries the proof for this pair. *)
RequestAccepted(expected, r) ==
    /\ r.id = expected
    /\ r.account = attempts[expected].account
    /\ r.device = attempts[expected].device
    /\ r.proof = expected

(* A slip: possession evidence is not compared with the attempt. *)
PossessionOfAny(expected, e) ==
    /\ e.at =< enow
    /\ InWindow(attempts[expected], e.at)

(* parseDevicePossessionVerificationResult *)
PossessionAccepted(expected, e) ==
    /\ e.id = expected
    /\ e.at =< enow
    /\ InWindow(attempts[expected], e.at)

(* parseMlsKeyPackageSemanticVerificationResult: the package is the device's,
   and has not expired, at verification or now. *)
PackageAccepted(expected, e) ==
    /\ e.device = attempts[expected].device
    /\ e.package = attempts[expected].package
    /\ e.at =< enow
    /\ e.at < e.package
    /\ enow < attempts[expected].package

(* parseDeviceCredentialSignatureVerificationResult, as parseDeviceCredential
   compares it: the trusted key signed this very payload. *)
SignatureAccepted(c, signed) == signed.payload = c /\ signed.at =< enow

(* parseDeviceCredential: a credential over this attempt and exactly the
   evidence the verifier accepted, active now. *)
CredentialAccepted(s, c) ==
    /\ c.id = s.id
    /\ c.account = attempts[s.id].account
    /\ c.device = attempts[s.id].device
    /\ c.wallet = s.wallet
    /\ c.possession = s.possession
    /\ c.issued =< enow
    /\ enow < c.expires

(* parseDeviceDirectoryProofBundle: the entry is the credential's. *)
BundleAccepted(c, bundle) == bundle.credential = c

(* parseDeviceKeyTransparencyVerificationResult: the verdict is the entry's. *)
TransparencyAccepted(bundle, verdict) == verdict.bundle = bundle /\ verdict.at =< enow

(* parseDeviceEnrollmentResult: everything again, at the end. *)
ResultAccepted(s, c, signed, bundle, verdict) ==
    /\ PossessionAccepted(s.id, s.possession)
    /\ PackageAccepted(s.id, s.package)
    /\ CredentialAccepted(s, c)
    /\ SignatureAccepted(c, signed)
    /\ BundleAccepted(c, bundle)
    /\ TransparencyAccepted(bundle, verdict)

-----------------------------------------------------------------------------

Idle == [phase |-> "idle", id |-> ENone, wallet |-> ENone,
         possession |-> ENone, package |-> ENone]

EnrollInit ==
    /\ attempts = << >>
    /\ walletSigs = {}
    /\ proofs = {}
    /\ claims = << >>
    /\ sessions = [v \in Verifiers |-> Idle]
    /\ enrolled = {}
    /\ enow = 0

(* The service stores both challenges of a pair at once; one that does not
   parse (parseSiweChallenge, parseEip712Challenge,
   parseDevicePossessionChallenge) is never stored. *)
IssuePair(id) ==
    /\ id \notin Issued
    /\ LET a == [account |-> Enrollees[id].account, device |-> Enrollees[id].device,
                 issued |-> enow, opens |-> enow + Enrollees[id].opens,
                 closes |-> enow + Enrollees[id].closes,
                 package |-> Enrollees[id].package]
       IN /\ WindowValid(a)
          /\ attempts' = [i \in Issued \cup {id} |-> IF i = id THEN a ELSE attempts[i]]
    /\ UNCHANGED <<walletSigs, proofs, claims, sessions, enrolled, enow>>

(* The account signs the wallet challenge, the device key the possession
   challenge. *)
SignWallet(id) ==
    /\ id \in Issued \ walletSigs
    /\ walletSigs' = walletSigs \cup {id}
    /\ UNCHANGED <<attempts, proofs, claims, sessions, enrolled, enow>>

SignPossession(id) ==
    /\ id \in Issued \ proofs
    /\ proofs' = proofs \cup {id}
    /\ UNCHANGED <<attempts, walletSigs, claims, sessions, enrolled, enow>>

(* claimEnrollmentPair: one verifier wins the pair, for ever; the others are
   told already-claimed-or-consumed.  The winner's answer may be lost, or may
   no longer be acceptable when it arrives. *)
ClaimPair(v, id) ==
    /\ sessions[v].phase = "idle"
    /\ id \in Issued
    /\ IF id \in DOMAIN claims
       THEN /\ sessions' = [sessions EXCEPT ![v].phase = "refused"]
            /\ UNCHANGED claims
       ELSE /\ claims' = [i \in DOMAIN claims \cup {id} |->
                            IF i = id THEN enow ELSE claims[i]]
            /\ \/ sessions' = [sessions EXCEPT ![v].phase = "refused"]
               \/ \E w \in Issued, p \in Issued :
                    sessions' = [sessions EXCEPT ![v] =
                       IF ClaimAccepted(id, w, p, enow)
                       THEN [Idle EXCEPT !.phase = "claimed", !.id = id]
                       ELSE [Idle EXCEPT !.phase = "refused"]]
    /\ UNCHANGED <<attempts, walletSigs, proofs, enrolled, enow>>

(* The step of a session when a port answers: on to the next phase, or over. *)
Answered(v, ok, next) ==
    sessions' = [sessions EXCEPT ![v] = IF ok THEN next ELSE [@ EXCEPT !.phase = "refused"]]

(* parseWalletSignatureVerificationResult: evidence that some account signed
   some challenge. *)
VerifyWallet(v) ==
    LET s == sessions[v] IN
    /\ s.phase = "claimed"
    /\ \E x \in walletSigs :
         LET e == [id |-> x, at |-> enow] IN
         Answered(v, WalletAccepted(s.id, e),
                  [s EXCEPT !.phase = "signed", !.wallet = e])
    /\ UNCHANGED <<attempts, walletSigs, proofs, claims, enrolled, enow>>

(* The request is parsed against the claimed pair and its proof is verified. *)
VerifyPossession(v) ==
    LET s == sessions[v] IN
    /\ s.phase = "signed"
    /\ \E r \in proofs, x \in proofs :
         LET request == [id |-> r, account |-> attempts[r].account,
                         device |-> attempts[r].device, proof |-> r]
             e == [id |-> x, at |-> enow]
         IN Answered(v, RequestAccepted(s.id, request) /\ PossessionAccepted(s.id, e),
                     [s EXCEPT !.phase = "proved", !.possession = e])
    /\ UNCHANGED <<attempts, walletSigs, proofs, claims, enrolled, enow>>

VerifyPackage(v) ==
    LET s == sessions[v] IN
    /\ s.phase = "proved"
    /\ \E x \in Issued :
         LET e == [device |-> attempts[x].device, package |-> attempts[x].package, at |-> enow]
         IN Answered(v, PackageAccepted(s.id, e),
                     [s EXCEPT !.phase = "packaged", !.package = e])
    /\ UNCHANGED <<attempts, walletSigs, proofs, claims, enrolled, enow>>

(* A credential the registry may have signed for attempt x, from evidence some
   verifier holds. *)
Credentials(x) ==
    { [id |-> x, account |-> attempts[x].account, device |-> attempts[x].device,
       wallet |-> sessions[u].wallet, possession |-> sessions[u].possession,
       issued |-> enow, expires |-> enow + 1] :
      u \in { u \in Verifiers : sessions[u].possession # ENone } }

(* enrollAtomically: the registry answers with a credential and its directory
   bundle, and the directory's verdict is checked with the rest. *)
Enroll(v) ==
    LET s == sessions[v] IN
    /\ s.phase = "packaged"
    /\ \E x \in Issued : \E c \in Credentials(x), other \in UNION { Credentials(y) : y \in Issued } :
         LET signed == [payload |-> other, at |-> enow]
             bundle == [credential |-> other]
             verdict == [bundle |-> bundle, at |-> enow]
             ok == ResultAccepted(s, c, signed, bundle, verdict)
         IN /\ Answered(v, ok, [s EXCEPT !.phase = "enrolled"])
            /\ enrolled' = IF ok
                           THEN enrolled \cup {[by |-> v, id |-> c.id, account |-> c.account,
                                                device |-> c.device, wallet |-> c.wallet,
                                                possession |-> c.possession, at |-> enow]}
                           ELSE enrolled
    /\ UNCHANGED <<attempts, walletSigs, proofs, claims, enow>>

(* A port answers invalid or unavailable, or the verifier crashes: the claim
   stays. *)
Abandon(v) ==
    /\ sessions[v].phase \in {"claimed", "signed", "proved", "packaged"}
    /\ sessions' = [sessions EXCEPT ![v].phase = "refused"]
    /\ UNCHANGED <<attempts, walletSigs, proofs, claims, enrolled, enow>>

EnrollTick ==
    /\ enow < EnrollTime
    /\ enow' = enow + 1
    /\ UNCHANGED <<attempts, walletSigs, proofs, claims, sessions, enrolled>>

EnrollNext ==
    \/ \E id \in Ids : IssuePair(id) \/ SignWallet(id) \/ SignPossession(id)
    \/ \E v \in Verifiers, id \in Ids : ClaimPair(v, id)
    \/ \E v \in Verifiers :
         VerifyWallet(v) \/ VerifyPossession(v) \/ VerifyPackage(v) \/ Enroll(v) \/ Abandon(v)
    \/ EnrollTick

EnrollSpec == EnrollInit /\ [][EnrollNext]_enrollVars

-----------------------------------------------------------------------------

(* Whoever is enrolled was vouched for by both keys of the very attempt: the
   account signed its wallet challenge, the device key proved possession
   inside the challenge window, and the credential names that account and
   that device, whatever answers the ports mixed up.
   (parseDeviceEnrollmentResult, parseDevicePossessionVerificationResult) *)
EnrolledByBothKeys ==
    \A c \in enrolled :
        /\ c.id \in walletSigs \cap proofs
        /\ c.wallet.id = c.id /\ c.possession.id = c.id
        /\ c.account = attempts[c.id].account
        /\ c.device = attempts[c.id].device
        /\ InWindow(attempts[c.id], c.possession.at)

(* A pair of challenges enrolls at most one device credential, by the verifier
   that claimed it inside its window and not before it opened, while its
   initial KeyPackage is usable; retries of the request, lost claim answers
   and crashes never spend a pair twice.
   (parseClaimEnrollmentChallengePairResult, assertChallengeUsable) *)
PairSpentOnce ==
    /\ \A c, d \in enrolled : c.id = d.id => c = d
    /\ \A c \in enrolled :
        /\ InWindow(attempts[c.id], claims[c.id])
        /\ claims[c.id] =< c.wallet.at /\ c.wallet.at =< c.possession.at
        /\ c.at < attempts[c.id].package

(* A verifier whose ports all answered about its own attempt is never refused
   at the last step before the KeyPackage runs out: the final check repeats
   the earlier ones at a later instant and must not depend on the challenge
   window being still open.  (parseDeviceEnrollmentResult) *)
HonestEnrollmentCompletes ==
    \A v \in Verifiers :
        LET s == sessions[v] IN
        (s.phase = "packaged" /\ enow < attempts[s.id].package) =>
        \E c \in Credentials(s.id) :
            LET bundle == [credential |-> c]
            IN ResultAccepted(s, c, [payload |-> c, at |-> enow], bundle,
                              [bundle |-> bundle, at |-> enow])

(* A device credential is vouched for by both keys of one attempt, spends its
   pair of challenges once, and is given to every attempt whose ports answered
   honestly in time (parseDeviceEnrollmentResult). *)
CredentialsVouched ==
    /\ EnrolledByBothKeys
    /\ PairSpentOnce
    /\ HonestEnrollmentCompletes
=============================================================================
