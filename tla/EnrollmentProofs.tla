-------------------------- MODULE EnrollmentProofs --------------------------
(***************************************************************************)
(* What an enrolling client may rely on (EnrollmentSafe), for any number   *)
(* of attempts, wallets, device keys, proofs and calls.                    *)
(***************************************************************************)
EXTENDS Enrollment, TLAPS

-----------------------------------------------------------------------------
(* EnrollmentSafe becomes inductive with
     EnrollTypes      the types of the rows
     AttemptShape     what an attempt's state says of its row and of its completion
     AccountsOwned    an account belongs to the wallet of the attempt it is named
                      after, so no two wallets can be linked to one account
     CallsCurrent     what a call in progress remembers is still so; a finalization
                      holds its attempt alone, and a link it read is still there
     CredentialsLinked, AnswersHold
                      what a credential and an answer given say of the rows *)
AttemptStates == {"none", "allocated", "challenges_issued", "claimed", "issued",
                  "invalid", "unavailable", "expired"}
AttemptRecords == [state : AttemptStates, wallet : Wallets \cup {NoValue},
                   account : Attempts \cup {NoValue}, key : DeviceKeys \cup {NoValue},
                   expires : Nat]
CompletionRecords == [state : {"none", "claimed", "issued", "invalid", "unavailable"},
                      proof : Proofs \cup {NoValue}]
CredentialRecords == [account : Attempts \cup {NoValue}, wallet : Wallets \cup {NoValue},
                      key : DeviceKeys \cup {NoValue}, proof : Proofs \cup {NoValue}]
CompletingRecords == [at : {"idle", "verifying", "verified", "finalizing"},
                      of : Attempts \cup {NoValue}, proof : Proofs \cup {NoValue},
                      verdict : {"verified", "unavailable", "invalid", NoValue},
                      saw : Attempts \cup {NoValue}]
EnrollAnswers == {"conflict", "issued", "invalid", "unavailable"}

EnrollTypes ==
  /\ enrollNow \in Nat
  /\ attempt \in [Attempts -> AttemptRecords]
  /\ completion \in [Attempts -> CompletionRecords]
  /\ link \in [Wallets -> Attempts \cup {NoValue}]
  /\ credential \in [Attempts -> CredentialRecords]
  /\ completing \in [Completions -> CompletingRecords]
  /\ told \in [Attempts -> SUBSET EnrollAnswers]

ClaimedStates == {"claimed", "issued", "invalid", "unavailable"}

AttemptShape ==
  \A a \in Attempts :
    /\ attempt[a].state # "none" =>
         attempt[a].wallet \in Wallets /\ attempt[a].account \in Attempts
    /\ attempt[a].state \in ClaimedStates \cup {"challenges_issued"} =>
         attempt[a].key \in DeviceKeys
    /\ completion[a].state =
         IF attempt[a].state \in ClaimedStates THEN attempt[a].state ELSE "none"

AccountsOwned ==
  /\ \A a \in Attempts : attempt[a].state # "none" =>
       /\ attempt[attempt[a].account].state # "none"
       /\ attempt[attempt[a].account].wallet = attempt[a].wallet
  /\ \A w \in Wallets : link[w] # NoValue =>
       attempt[link[w]].state # "none" /\ attempt[link[w]].wallet = w

CallCurrent(c) ==
  LET a == completing[c].of
  IN completing[c].at # "idle" =>
       /\ a \in Attempts
       /\ completion[a].state # "none"
       /\ completing[c].proof = completion[a].proof
       /\ completing[c].at \in {"verified", "finalizing"} =>
            IF completion[a].proof \in GoodProofs
            THEN completing[c].verdict \in {"verified", "unavailable"}
            ELSE completing[c].verdict = "invalid"
       /\ completing[c].at = "finalizing" =>
            /\ completing[c].verdict = "verified"
            /\ attempt[a].state = "claimed"
            /\ completing[c].saw # NoValue => link[attempt[a].wallet] = attempt[a].account

CallsCurrent ==
  /\ \A c \in Completions : CallCurrent(c)
  /\ \A c, d \in Completions :
       completing[c].at = "finalizing" /\ completing[d].at = "finalizing"
         /\ completing[c].of = completing[d].of => c = d

CredentialsLinked ==
  \A a \in Attempts :
    /\ credential[a] # NoCredential <=> attempt[a].state = "issued"
    /\ credential[a] # NoCredential =>
         /\ credential[a].wallet = attempt[a].wallet
         /\ credential[a].account = attempt[a].account
         /\ link[attempt[a].wallet] = attempt[a].account
         /\ credential[a].proof = completion[a].proof
         /\ credential[a].proof \in GoodProofs

Displaced(a) == link[attempt[a].wallet] \notin {NoValue, attempt[a].account}

AnswersHold ==
  \A a \in Attempts :
    /\ told[a] # {} => attempt[a].state # "none"
    /\ "issued" \in told[a] => attempt[a].state = "issued"
    /\ "unavailable" \in told[a] => attempt[a].state = "unavailable"
    /\ "invalid" \in told[a] =>
         \/ attempt[a].state \in {"invalid", "expired"}
         \/ attempt[a].state \in {"claimed", "unavailable"} /\ Displaced(a)

EnrollmentInv ==
  EnrollTypes /\ AttemptShape /\ AccountsOwned /\ CallsCurrent /\ CredentialsLinked /\ AnswersHold

(* A row with another state. *)
Mark(rows, a, s) == [rows EXCEPT ![a].state = s]

\* Marking an attempt changes the state of that attempt and nothing else.
LEMMA AttemptMarked ==
  ASSUME NEW rows \in [Attempts -> AttemptRecords], NEW a \in Attempts, NEW s \in AttemptStates
  PROVE  /\ Mark(rows, a, s) \in [Attempts -> AttemptRecords]
         /\ Mark(rows, a, s)[a].state = s
         /\ \A b \in Attempts :
              /\ Mark(rows, a, s)[b].wallet = rows[b].wallet
              /\ Mark(rows, a, s)[b].account = rows[b].account
              /\ Mark(rows, a, s)[b].key = rows[b].key
              /\ b # a => Mark(rows, a, s)[b] = rows[b]
<1> DEFINE r == [rows[a] EXCEPT !.state = s]
<1>1. r \in AttemptRecords /\ r.state = s /\ r.wallet = rows[a].wallet
      /\ r.account = rows[a].account /\ r.key = rows[a].key
  BY Zenon DEF AttemptRecords
<1>2. Mark(rows, a, s) = [rows EXCEPT ![a] = r] BY Zenon DEF Mark
<1> HIDE DEF r
<1>3. [rows EXCEPT ![a] = r] \in [Attempts -> AttemptRecords] BY <1>1, Zenon
<1>4. [rows EXCEPT ![a] = r][a] = r /\ \A b \in Attempts \ {a} : [rows EXCEPT ![a] = r][b] = rows[b]
  BY Zenon
<1> QED BY <1>1, <1>2, <1>3, <1>4, Zenon

\* The same for a completion.
LEMMA CompletionMarked ==
  ASSUME NEW rows \in [Attempts -> CompletionRecords], NEW a \in Attempts,
         NEW s \in {"none", "claimed", "issued", "invalid", "unavailable"}
  PROVE  /\ Mark(rows, a, s) \in [Attempts -> CompletionRecords]
         /\ Mark(rows, a, s)[a].state = s /\ Mark(rows, a, s)[a].proof = rows[a].proof
         /\ \A b \in Attempts \ {a} : Mark(rows, a, s)[b] = rows[b]
<1> DEFINE r == [rows[a] EXCEPT !.state = s]
<1>1. r \in CompletionRecords /\ r.state = s /\ r.proof = rows[a].proof
  BY Zenon DEF CompletionRecords
<1>2. Mark(rows, a, s) = [rows EXCEPT ![a] = r] BY Zenon DEF Mark
<1> HIDE DEF r
<1>3. [rows EXCEPT ![a] = r] \in [Attempts -> CompletionRecords] BY <1>1, Zenon
<1>4. [rows EXCEPT ![a] = r][a] = r /\ \A b \in Attempts \ {a} : [rows EXCEPT ![a] = r][b] = rows[b]
  BY Zenon
<1> QED BY <1>1, <1>2, <1>3, <1>4, Zenon

\* An answer is recorded for its attempt.
LEMMA Told ==
  ASSUME EnrollTypes, NEW a \in Attempts, NEW answer \in EnrollAnswers, Tell(a, answer)
  PROVE  /\ told' \in [Attempts -> SUBSET EnrollAnswers]
         /\ told'[a] = told[a] \cup {answer}
         /\ \A b \in Attempts \ {a} : told'[b] = told[b]
<1>1. told \in [Attempts -> SUBSET EnrollAnswers] BY Zenon DEF EnrollTypes
<1>2. told[a] \cup {answer} \in SUBSET EnrollAnswers BY <1>1, Zenon
<1> QED BY <1>1, <1>2, Zenon DEF Tell

\* Accounts keep their wallets while attempts keep theirs and no link is made.
LEMMA OwnersKept ==
  ASSUME AttemptShape, AccountsOwned, EnrollTypes, link' = link,
         \A b \in Attempts : /\ attempt'[b].state = "none" <=> attempt[b].state = "none"
                             /\ attempt'[b].wallet = attempt[b].wallet
                             /\ attempt'[b].account = attempt[b].account
  PROVE  AccountsOwned'
<1>1. \A w \in Wallets : link[w] # NoValue => link[w] \in Attempts BY Zenon DEF EnrollTypes
<1>2. \A b \in Attempts : attempt[b].state # "none" => attempt[b].account \in Attempts
  BY Zenon DEF AttemptShape
<1> QED BY <1>1, <1>2 DEF AccountsOwned

\* A step of one call that changes no row but the answers.
LEMMA CallMoves ==
  ASSUME EnrollmentInv, NEW c \in Completions,
         completing' \in [Completions -> CompletingRecords],
         \A d \in Completions \ {c} : completing'[d] = completing[d],
         CallCurrent(c)',
         completing'[c].at = "finalizing" => ~Held(completing'[c].of),
         UNCHANGED <<enrollNow, attempt, completion, link, credential>>,
         told' \in [Attempts -> SUBSET EnrollAnswers], AnswersHold'
  PROVE  EnrollmentInv'
<1>1. EnrollTypes' BY Zenon DEF EnrollmentInv, EnrollTypes
<1>2. AttemptShape' /\ AccountsOwned' /\ CredentialsLinked'
  BY DEF EnrollmentInv, AttemptShape, AccountsOwned, CredentialsLinked
<1>3. \A d \in Completions : CallCurrent(d)'
  <2> TAKE d \in Completions
  <2>1. CASE d = c BY <2>1, Zenon
  <2>2. CASE d # c
    <3>1. completing'[d] = completing[d] BY <2>2, Zenon
    <3>2. CallCurrent(d) BY Zenon DEF EnrollmentInv, CallsCurrent
    <3> QED BY <3>1, <3>2, Zenon DEF CallCurrent
  <2> QED BY <2>1, <2>2, Zenon
<1>4. CallsCurrent' BY <1>3 DEF EnrollmentInv, CallsCurrent, Held
<1> QED BY <1>1, <1>2, <1>4, Zenon DEF EnrollmentInv

\* A new attempt is for the account its wallet is linked to, or opens its own.
LEMMA AllocateStep ==
  ASSUME EnrollmentInv, NEW a \in Attempts, NEW w \in Wallets, AllocateEnrollment(a, w)
  PROVE  EnrollmentInv'
<1> DEFINE r == [state |-> "allocated", wallet |-> w, key |-> NoValue,
                 account |-> IF link[w] # NoValue THEN link[w] ELSE a,
                 expires |-> enrollNow + AttemptTtl]
<1>1. EnrollTypes /\ AttemptShape /\ AccountsOwned /\ CallsCurrent /\ CredentialsLinked /\ AnswersHold
  BY Zenon DEF EnrollmentInv
<1>2. enrollNow + AttemptTtl \in Nat /\ link[w] \in Attempts \cup {NoValue}
  BY <1>1, EnrollmentConstants DEF EnrollTypes
<1>3. /\ r \in AttemptRecords /\ r.state = "allocated" /\ r.wallet = w
      /\ r.account \in Attempts /\ r.account = IF link[w] # NoValue THEN link[w] ELSE a
  BY <1>2, Zenon DEF AttemptRecords, AttemptStates
<1>4. attempt[a].state = "none" /\ attempt' = [attempt EXCEPT ![a] = r]
      /\ UNCHANGED <<enrollNow, completion, link, credential, completing, told>>
  BY Zenon DEF AllocateEnrollment
<1> HIDE DEF r
<1>5. /\ attempt' \in [Attempts -> AttemptRecords] /\ attempt'[a] = r
      /\ \A b \in Attempts \ {a} : attempt'[b] = attempt[b]
  BY <1>1, <1>3, <1>4, Zenon DEF EnrollTypes
<1>6. \A b \in Attempts : attempt[b].state # "none" => b # a /\ attempt'[b] = attempt[b]
  BY <1>4, <1>5, Zenon
<1>7. EnrollTypes' BY <1>1, <1>4, <1>5, Zenon DEF EnrollTypes
<1>8. AttemptShape' BY <1>1, <1>3, <1>4, <1>5, Zenon DEF AttemptShape, ClaimedStates
<1>9. AccountsOwned'
  <2>1. \A v \in Wallets : link[v] # NoValue => link[v] \in Attempts BY <1>1, Zenon DEF EnrollTypes
  <2>2. \A b \in Attempts : attempt[b].state # "none" => attempt[b].account \in Attempts
    BY <1>1, Zenon DEF AttemptShape
  <2>3. attempt'[attempt'[a].account].state # "none"
        /\ attempt'[attempt'[a].account].wallet = attempt'[a].wallet
    BY <1>1, <1>3, <1>5, <1>6, <2>1 DEF AccountsOwned
  <2> QED BY <1>1, <1>4, <1>5, <1>6, <2>1, <2>2, <2>3 DEF AccountsOwned
<1>10. CallsCurrent'
  <2>1. ASSUME NEW c \in Completions PROVE CallCurrent(c)'
    <3>1. CallCurrent(c) /\ completing'[c] = completing[c] /\ completion' = completion /\ link' = link
      BY <1>1, <1>4, Zenon DEF CallsCurrent
    <3>2. completing[c].at # "idle" =>
            completing[c].of \in Attempts /\ attempt[completing[c].of].state # "none"
      BY <1>1, <3>1, Zenon DEF CallCurrent, AttemptShape, ClaimedStates
    <3> QED BY <1>6, <3>1, <3>2, Zenon DEF CallCurrent
  <2> QED BY <1>1, <1>4, <2>1, Zenon DEF CallsCurrent
<1>11. CredentialsLinked' BY <1>1, <1>3, <1>4, <1>5, <1>6 DEF CredentialsLinked
<1>12. AnswersHold'
  <2>1. told[a] = {} BY <1>1, <1>4, Zenon DEF AnswersHold
  <2> QED BY <1>1, <1>4, <1>5, <2>1, Zenon DEF AnswersHold, Displaced
<1> QED BY <1>7, <1>8, <1>9, <1>10, <1>11, <1>12, Zenon DEF EnrollmentInv

(* A change of an attempt that was never claimed, with or without a refusal. *)
UnclaimedChange(a) ==
  /\ attempt[a].state \in {"allocated", "challenges_issued"}
  /\ attempt' \in [Attempts -> AttemptRecords]
  /\ attempt'[a].state \in {"challenges_issued", "expired"}
  /\ attempt'[a].wallet = attempt[a].wallet /\ attempt'[a].account = attempt[a].account
  /\ attempt'[a].state = "challenges_issued" => attempt'[a].key \in DeviceKeys
  /\ \A b \in Attempts \ {a} : attempt'[b] = attempt[b]
  /\ told' \in [Attempts -> SUBSET EnrollAnswers]
  /\ \A b \in Attempts \ {a} : told'[b] = told[b]
  /\ \/ told'[a] = told[a]
     \/ attempt'[a].state = "expired" /\ told'[a] = told[a] \cup {"invalid"}

\* Such a change keeps the invariant: no call is about the attempt, and no answer
\* but a conflict was given.
LEMMA UnclaimedMoves ==
  ASSUME EnrollmentInv, NEW a \in Attempts, UnclaimedChange(a),
         UNCHANGED <<enrollNow, completion, link, credential, completing>>
  PROVE  EnrollmentInv'
<1>1. EnrollTypes /\ AttemptShape /\ AccountsOwned /\ CallsCurrent /\ CredentialsLinked /\ AnswersHold
  BY Zenon DEF EnrollmentInv
<1> USE DEF UnclaimedChange
<1>2. completion[a].state = "none" BY <1>1, Zenon DEF AttemptShape, ClaimedStates
<1>3. EnrollTypes' BY <1>1, Zenon DEF EnrollTypes
<1>4. AttemptShape' BY <1>1, <1>2 DEF AttemptShape, ClaimedStates
<1>5. AccountsOwned'
  <2>1. \A b \in Attempts : /\ attempt'[b].state = "none" <=> attempt[b].state = "none"
                            /\ attempt'[b].wallet = attempt[b].wallet
                            /\ attempt'[b].account = attempt[b].account
    BY Zenon
  <2> QED BY <1>1, <2>1, OwnersKept, Zenon
<1>6. CallsCurrent'
  <2>1. ASSUME NEW c \in Completions PROVE CallCurrent(c)'
    <3>1. CallCurrent(c) /\ completing' = completing /\ completion' = completion /\ link' = link
      BY <1>1, Zenon DEF CallsCurrent
    <3>2. completing[c].at # "idle" => completing[c].of \in Attempts \ {a}
      BY <1>2, <3>1, Zenon DEF CallCurrent
    <3> QED BY <3>1, <3>2 DEF CallCurrent
  <2> QED BY <1>1, <2>1, Zenon DEF CallsCurrent
<1>7. CredentialsLinked' BY <1>1 DEF CredentialsLinked
<1>8. AnswersHold'
  <2>1. "issued" \notin told[a] /\ "unavailable" \notin told[a] /\ "invalid" \notin told[a]
    BY <1>1, Zenon DEF AnswersHold
  <2> QED BY <1>1, <2>1 DEF AnswersHold, Displaced
<1> QED BY <1>3, <1>4, <1>5, <1>6, <1>7, <1>8, Zenon DEF EnrollmentInv

\* Only an answer is given, and it agrees with the rows.
LEMMA AnswerGiven ==
  ASSUME EnrollmentInv, NEW a \in Attempts, NEW answer \in EnrollAnswers, Tell(a, answer),
         attempt[a].state # "none",
         answer = "issued" => attempt[a].state = "issued",
         answer = "unavailable" => attempt[a].state = "unavailable",
         answer = "invalid" => \/ attempt[a].state \in {"invalid", "expired"}
                               \/ attempt[a].state = "claimed" /\ Displaced(a),
         UNCHANGED <<enrollNow, attempt, completion, link, credential>>
  PROVE  told' \in [Attempts -> SUBSET EnrollAnswers] /\ AnswersHold'
<1>1. EnrollTypes /\ AnswersHold BY Zenon DEF EnrollmentInv
<1>2. /\ told' \in [Attempts -> SUBSET EnrollAnswers]
      /\ told'[a] = told[a] \cup {answer}
      /\ \A b \in Attempts \ {a} : told'[b] = told[b]
  BY <1>1, Told, Zenon
<1>3. ASSUME NEW b \in Attempts
      PROVE  /\ told'[b] # {} => attempt'[b].state # "none"
             /\ "issued" \in told'[b] => attempt'[b].state = "issued"
             /\ "unavailable" \in told'[b] => attempt'[b].state = "unavailable"
             /\ "invalid" \in told'[b] =>
                  \/ attempt'[b].state \in {"invalid", "expired"}
                  \/ attempt'[b].state \in {"claimed", "unavailable"} /\ Displaced(b)'
  <2>1. Displaced(b)' <=> Displaced(b) BY Zenon DEF Displaced
  <2>2. CASE b = a BY <1>1, <1>2, <2>1, <2>2, Zenon DEF AnswersHold
  <2>3. CASE b # a BY <1>1, <1>2, <2>1, <2>3, Zenon DEF AnswersHold
  <2> QED BY <2>2, <2>3, Zenon
<1>4. AnswersHold' BY <1>3, Zenon DEF AnswersHold
<1> QED BY <1>2, <1>4, Zenon

\* issueChallenges binds a key to an open attempt, or finds the attempt expired.
LEMMA ChallengesStep ==
  ASSUME EnrollmentInv, NEW a \in Attempts, NEW w \in Wallets, NEW k \in DeviceKeys,
         IssueChallenges(a, w, k)
  PROVE  EnrollmentInv'
<1>1. EnrollTypes BY Zenon DEF EnrollmentInv
<1>2. attempt \in [Attempts -> AttemptRecords] /\ told \in [Attempts -> SUBSET EnrollAnswers]
  BY <1>1, Zenon DEF EnrollTypes
<1>3. UNCHANGED <<enrollNow, completion, link, credential, completing, told>>
  BY Zenon DEF IssueChallenges
<1>4. CASE attempt' = attempt
  BY <1>3, <1>4 DEF EnrollmentInv, EnrollTypes, AttemptShape, AccountsOwned, CallsCurrent,
                    CallCurrent, CredentialsLinked, AnswersHold, Displaced
<1>5. CASE attempt[a].state \in {"allocated", "challenges_issued"} /\ attempt' = Mark(attempt, a, "expired")
  <2>1. "expired" \in AttemptStates BY Zenon DEF AttemptStates
  <2>2. /\ attempt' \in [Attempts -> AttemptRecords] /\ attempt'[a].state = "expired"
        /\ attempt'[a].wallet = attempt[a].wallet /\ attempt'[a].account = attempt[a].account
        /\ \A b \in Attempts \ {a} : attempt'[b] = attempt[b]
    BY <1>2, <1>5, <2>1, AttemptMarked
  <2>3. UnclaimedChange(a) BY <1>2, <1>3, <1>5, <2>2, Zenon DEF UnclaimedChange
  <2> QED BY <1>3, <2>3, UnclaimedMoves, Zenon
<1>6. CASE attempt[a].state = "allocated"
           /\ attempt' = [attempt EXCEPT ![a].state = "challenges_issued", ![a].key = k]
  <2> DEFINE r == [[attempt[a] EXCEPT !.state = "challenges_issued"] EXCEPT !.key = k]
  <2>1. r \in AttemptRecords BY <1>2, Zenon DEF AttemptRecords, AttemptStates
  <2>2. r.state = "challenges_issued" /\ r.key = k /\ r.wallet = attempt[a].wallet
        /\ r.account = attempt[a].account
    BY <1>2, Zenon DEF AttemptRecords
  <2>3. attempt'[a] = r /\ \A b \in Attempts \ {a} : attempt'[b] = attempt[b]
    BY <1>2, <1>6, Zenon
  <2>4. attempt' \in [Attempts -> AttemptRecords]
    <3> DEFINE issued == [attempt EXCEPT ![a].state = "challenges_issued"]
    <3>1. issued \in [Attempts -> AttemptRecords]
      <4>1. [attempt[a] EXCEPT !.state = "challenges_issued"] \in AttemptRecords
        BY <1>2, Zenon DEF AttemptRecords, AttemptStates
      <4> QED BY <1>2, <4>1, Zenon
    <3>2. attempt' = [issued EXCEPT ![a].key = k] BY <1>6, Zenon
    <3> HIDE DEF issued
    <3>3. attempt' = [issued EXCEPT ![a] = attempt'[a]] BY <3>1, <3>2, Zenon
    <3> QED BY <2>1, <2>3, <3>1, <3>3, Zenon
  <2> HIDE DEF r
  <2>5. UnclaimedChange(a) BY <1>2, <1>3, <1>6, <2>2, <2>3, <2>4, Zenon DEF UnclaimedChange
  <2> QED BY <1>3, <2>5, UnclaimedMoves
<1> QED BY <1>4, <1>5, <1>6, Zenon DEF IssueChallenges, ExpireAttempt, Mark

\* verifyClaim's verdict is about the proof that was claimed.
LEMMA VerifyStep ==
  ASSUME EnrollmentInv, NEW c \in Completions, VerifyClaim(c)
  PROVE  EnrollmentInv'
<1>1. EnrollTypes /\ AnswersHold /\ CallCurrent(c) BY Zenon DEF EnrollmentInv, CallsCurrent
<1>2. completing \in [Completions -> CompletingRecords] BY <1>1, Zenon DEF EnrollTypes
<1>3. PICK verdict \in IF completing[c].proof \in GoodProofs
                       THEN {"verified", "unavailable"} ELSE {"invalid"} :
        completing' = [completing EXCEPT ![c].at = "verified", ![c].verdict = verdict]
  BY Zenon DEF VerifyClaim
<1>4. verdict \in {"verified", "unavailable", "invalid", NoValue} BY <1>3, Zenon
<1> DEFINE r == [[completing[c] EXCEPT !.at = "verified"] EXCEPT !.verdict = verdict]
<1>5. r \in CompletingRecords BY <1>2, <1>4, Zenon DEF CompletingRecords
<1>6. r.at = "verified" /\ r.of = completing[c].of /\ r.proof = completing[c].proof
      /\ r.verdict = verdict
  BY <1>2, Zenon DEF CompletingRecords
<1>7. completing'[c] = r /\ \A d \in Completions \ {c} : completing'[d] = completing[d]
  BY <1>2, <1>3, Zenon
<1>8. completing' \in [Completions -> CompletingRecords]
  <2> DEFINE moved == [completing EXCEPT ![c].at = "verified"]
  <2>1. moved \in [Completions -> CompletingRecords]
    <3>1. [completing[c] EXCEPT !.at = "verified"] \in CompletingRecords
      BY <1>2, Zenon DEF CompletingRecords
    <3> QED BY <1>2, <3>1, Zenon
  <2>2. completing' = [moved EXCEPT ![c].verdict = verdict] BY <1>3, Zenon
  <2> HIDE DEF moved
  <2>3. completing' = [moved EXCEPT ![c] = completing'[c]] BY <2>1, <2>2, Zenon
  <2> QED BY <1>5, <1>7, <2>1, <2>3, Zenon
<1> HIDE DEF r
<1>9. UNCHANGED <<enrollNow, attempt, completion, link, credential, told>> /\ completing[c].at = "verifying"
  BY Zenon DEF VerifyClaim
<1>10. CallCurrent(c)'
  BY <1>1, <1>3, <1>6, <1>7, <1>9, Zenon DEF CallCurrent
<1>11. told' \in [Attempts -> SUBSET EnrollAnswers] /\ AnswersHold'
  BY <1>1, <1>9, Zenon DEF EnrollTypes, AnswersHold, Displaced
<1> QED BY <1>6, <1>7, <1>8, <1>9, <1>10, <1>11, CallMoves, Zenon

CallEnds(c) == completing' = [completing EXCEPT ![c] = NoCompleting]

\* A call that ends without changing a row.
LEMMA CallLost ==
  ASSUME EnrollmentInv, NEW c \in Completions, CallEnds(c),
         UNCHANGED <<enrollNow, attempt, completion, link, credential>>,
         told' \in [Attempts -> SUBSET EnrollAnswers], AnswersHold'
  PROVE  EnrollmentInv'
<1>1. EnrollTypes BY Zenon DEF EnrollmentInv
<1>2. NoCompleting \in CompletingRecords /\ NoCompleting.at = "idle"
  BY Zenon DEF NoCompleting, CompletingRecords
<1>3. completing \in [Completions -> CompletingRecords] BY <1>1, Zenon DEF EnrollTypes
<1>4. /\ completing' \in [Completions -> CompletingRecords] /\ completing'[c] = NoCompleting
      /\ \A d \in Completions \ {c} : completing'[d] = completing[d]
  BY <1>2, <1>3, Zenon DEF CallEnds
<1>5. CallCurrent(c)' BY <1>2, <1>4, Zenon DEF CallCurrent
<1> QED BY <1>2, <1>4, <1>5, CallMoves, Zenon

\* completeEnrollment's claim: the first proof claims, the same proof resumes or
\* reads the result, another conflicts, and an attempt not ready expires.
LEMMA ClaimStep ==
  ASSUME EnrollmentInv, NEW c \in Completions, NEW a \in Attempts, NEW proof \in Proofs,
         ClaimEnrollment(c, a, proof)
  PROVE  EnrollmentInv'
<1> DEFINE r == [NoCompleting EXCEPT !.at = "verifying", !.of = a, !.proof = proof]
<1> DEFINE claimed == completion[a].state # "none"
<1> DEFINE own == completion[a].proof = proof
<1>1. EnrollTypes /\ AttemptShape /\ AccountsOwned /\ CallsCurrent /\ CredentialsLinked /\ AnswersHold
  BY Zenon DEF EnrollmentInv
<1>2. /\ attempt \in [Attempts -> AttemptRecords] /\ completion \in [Attempts -> CompletionRecords]
      /\ completing \in [Completions -> CompletingRecords] /\ told \in [Attempts -> SUBSET EnrollAnswers]
  BY <1>1, Zenon DEF EnrollTypes
<1>3. /\ completing[c].at = "idle" /\ attempt[a].state # "none"
      /\ UNCHANGED <<enrollNow, link, credential>>
  BY Zenon DEF ClaimEnrollment
<1>4. r \in CompletingRecords BY Zenon DEF NoCompleting, CompletingRecords
<1>5. r.at = "verifying" /\ r.of = a /\ r.proof = proof BY Zenon DEF NoCompleting
<1>6. \/ /\ claimed /\ ~own /\ Tell(a, "conflict")
         /\ UNCHANGED <<attempt, completion, completing>>
      \/ /\ claimed /\ own /\ completion[a].state = "claimed"
         /\ completing' = [completing EXCEPT ![c] = r]
         /\ UNCHANGED <<attempt, completion, told>>
      \/ /\ claimed /\ completion[a].state # "claimed"
         /\ Tell(a, TerminalCompletionResult(completion[a].state))
         /\ UNCHANGED <<attempt, completion, completing>>
      \/ /\ ~claimed /\ ExpireAttempt(a) /\ Tell(a, "invalid")
         /\ attempt[a].state # "challenges_issued" \/ Expired(a)
         /\ UNCHANGED <<completion, completing>>
      \/ /\ ~claimed /\ attempt[a].state = "challenges_issued"
         /\ completion' = [completion EXCEPT ![a] = [state |-> "claimed", proof |-> proof]]
         /\ attempt' = Mark(attempt, a, "claimed")
         /\ completing' = [completing EXCEPT ![c] = r]
         /\ UNCHANGED told
  BY Zenon DEF ClaimEnrollment, Mark
<1> HIDE DEF r
<1>7. ASSUME completing' = [completing EXCEPT ![c] = r]
      PROVE  /\ completing' \in [Completions -> CompletingRecords] /\ completing'[c] = r
             /\ \A d \in Completions \ {c} : completing'[d] = completing[d]
  BY <1>2, <1>4, <1>7, Zenon
<1>8. CASE claimed /\ ~own /\ Tell(a, "conflict") /\ UNCHANGED <<attempt, completion, completing>>
  <2>1. "conflict" \in EnrollAnswers BY Zenon DEF EnrollAnswers
  <2>2. told' \in [Attempts -> SUBSET EnrollAnswers] /\ AnswersHold'
    BY <1>3, <1>8, <2>1, AnswerGiven, Zenon
  <2>3. CallCurrent(c)' BY <1>3, <1>8, Zenon DEF CallCurrent
  <2> QED BY <1>2, <1>3, <1>8, <2>2, <2>3, CallMoves, Zenon
<1>9. CASE /\ claimed /\ own /\ completion[a].state = "claimed"
           /\ completing' = [completing EXCEPT ![c] = r]
           /\ UNCHANGED <<attempt, completion, told>>
  <2>1. CallCurrent(c)' BY <1>5, <1>7, <1>9, Zenon DEF CallCurrent
  <2>2. told' \in [Attempts -> SUBSET EnrollAnswers] /\ AnswersHold'
    BY <1>1, <1>2, <1>3, <1>9, Zenon DEF AnswersHold, Displaced
  <2>3. completing'[c].at # "finalizing" BY <1>5, <1>7, <1>9, Zenon
  <2>4. UNCHANGED <<enrollNow, attempt, completion, link, credential>> BY <1>3, <1>9, Zenon
  <2> QED BY <1>7, <1>9, <2>1, <2>2, <2>3, <2>4, CallMoves, Zenon
<1>10. CASE /\ claimed /\ completion[a].state # "claimed"
            /\ Tell(a, TerminalCompletionResult(completion[a].state))
            /\ UNCHANGED <<attempt, completion, completing>>
  <2> DEFINE answer == TerminalCompletionResult(completion[a].state)
  <2>1. answer = attempt[a].state /\ answer \in {"issued", "unavailable", "invalid"}
    BY <1>1, <1>2, <1>10, Zenon
       DEF AttemptShape, ClaimedStates, TerminalCompletionResult, CompletionRecords
  <2>2. answer \in EnrollAnswers BY <2>1, Zenon DEF EnrollAnswers
  <2>3. Tell(a, answer) BY <1>10, Zenon
  <2> HIDE DEF answer
  <2>4. told' \in [Attempts -> SUBSET EnrollAnswers] /\ AnswersHold'
    BY <1>3, <1>10, <2>1, <2>2, <2>3, AnswerGiven, Zenon
  <2>5. CallCurrent(c)' BY <1>3, <1>10, Zenon DEF CallCurrent
  <2> QED BY <1>2, <1>3, <1>10, <2>4, <2>5, CallMoves, Zenon
<1>11. CASE /\ ~claimed /\ ExpireAttempt(a) /\ Tell(a, "invalid")
            /\ attempt[a].state # "challenges_issued" \/ Expired(a)
            /\ UNCHANGED <<completion, completing>>
  <2>1. "invalid" \in EnrollAnswers /\ "expired" \in AttemptStates
    BY Zenon DEF EnrollAnswers, AttemptStates
  <2>2. CASE attempt[a].state \in {"allocated", "challenges_issued"}
    <3>1. attempt' = Mark(attempt, a, "expired") BY <1>11, <2>2, Zenon DEF ExpireAttempt, Mark
    <3>2. /\ attempt' \in [Attempts -> AttemptRecords] /\ attempt'[a].state = "expired"
          /\ attempt'[a].wallet = attempt[a].wallet /\ attempt'[a].account = attempt[a].account
          /\ \A b \in Attempts \ {a} : attempt'[b] = attempt[b]
      BY <1>2, <2>1, <3>1, AttemptMarked
    <3>3. /\ told' \in [Attempts -> SUBSET EnrollAnswers]
          /\ told'[a] = told[a] \cup {"invalid"}
          /\ \A b \in Attempts \ {a} : told'[b] = told[b]
      BY <1>1, <1>11, <2>1, Told, Zenon
    <3>4. UnclaimedChange(a) BY <2>2, <3>2, <3>3, Zenon DEF UnclaimedChange
    <3> QED BY <1>3, <1>11, <3>4, UnclaimedMoves, Zenon
  <2>3. CASE attempt[a].state \notin {"allocated", "challenges_issued"}
    <3>1. attempt' = attempt BY <1>11, <2>3, Zenon DEF ExpireAttempt
    <3>2. attempt[a].state = "expired"
      BY <1>1, <1>2, <1>3, <1>11, <2>3, Zenon
         DEF AttemptShape, ClaimedStates, AttemptRecords, AttemptStates
    <3>3. told' \in [Attempts -> SUBSET EnrollAnswers] /\ AnswersHold'
      BY <1>3, <1>11, <2>1, <3>1, <3>2, AnswerGiven, Zenon
    <3>4. CallCurrent(c)' BY <1>3, <1>11, Zenon DEF CallCurrent
    <3> QED BY <1>2, <1>3, <1>11, <3>1, <3>3, <3>4, CallMoves, Zenon
  <2> QED BY <2>2, <2>3, Zenon
<1>12. CASE /\ ~claimed /\ attempt[a].state = "challenges_issued"
            /\ completion' = [completion EXCEPT ![a] = [state |-> "claimed", proof |-> proof]]
            /\ attempt' = Mark(attempt, a, "claimed")
            /\ completing' = [completing EXCEPT ![c] = r]
            /\ UNCHANGED told
  <2>1. /\ attempt' \in [Attempts -> AttemptRecords] /\ attempt'[a].state = "claimed"
        /\ \A b \in Attempts : /\ attempt'[b].wallet = attempt[b].wallet
                               /\ attempt'[b].account = attempt[b].account
                               /\ attempt'[b].key = attempt[b].key
                               /\ b # a => attempt'[b] = attempt[b]
    <3>1. "claimed" \in AttemptStates BY Zenon DEF AttemptStates
    <3> QED BY <1>2, <1>12, <3>1, AttemptMarked
  <2>2. /\ completion' \in [Attempts -> CompletionRecords]
        /\ completion'[a].state = "claimed" /\ completion'[a].proof = proof
        /\ \A b \in Attempts \ {a} : completion'[b] = completion[b]
    <3> DEFINE q == [state |-> "claimed", proof |-> proof]
    <3>1. q \in CompletionRecords /\ q.state = "claimed" /\ q.proof = proof
      BY Zenon DEF CompletionRecords
    <3>2. completion' = [completion EXCEPT ![a] = q] BY <1>12, Zenon
    <3> HIDE DEF q
    <3> QED BY <1>2, <3>1, <3>2, Zenon
  <2>3. EnrollTypes' BY <1>1, <1>3, <1>7, <1>12, <2>1, <2>2, Zenon DEF EnrollTypes
  <2>4. AttemptShape' BY <1>1, <2>1, <2>2, <1>12 DEF AttemptShape, ClaimedStates
  <2>5. AccountsOwned' BY <1>1, <1>3, <1>12, <2>1, OwnersKept, Zenon
  <2>6. \A d \in Completions \ {c} : completing[d].at # "idle" => completing[d].of \in Attempts \ {a}
    BY <1>1, <1>12, Zenon DEF CallsCurrent, CallCurrent
  <2>7. ASSUME NEW d \in Completions PROVE CallCurrent(d)'
    <3>1. CASE d = c BY <1>5, <1>7, <1>12, <2>2, <3>1, Zenon DEF CallCurrent
    <3>2. CASE d # c
      <4>1. CallCurrent(d) /\ completing'[d] = completing[d] /\ link' = link
        BY <1>1, <1>3, <1>7, <1>12, <3>2, Zenon DEF CallsCurrent
      <4> QED BY <2>1, <2>2, <2>6, <3>2, <4>1 DEF CallCurrent
    <3> QED BY <3>1, <3>2, Zenon
  <2>8. CallsCurrent' BY <1>1, <1>5, <1>7, <1>12, <2>7, Zenon DEF CallsCurrent
  <2>9. CredentialsLinked' BY <1>1, <1>3, <1>12, <2>1, <2>2 DEF CredentialsLinked
  <2>10. AnswersHold'
    <3>1. "issued" \notin told[a] /\ "unavailable" \notin told[a] /\ "invalid" \notin told[a]
      BY <1>1, <1>12, Zenon DEF AnswersHold
    <3> QED BY <1>1, <1>3, <1>12, <2>1, <3>1 DEF AnswersHold, Displaced
  <2> QED BY <2>3, <2>4, <2>5, <2>8, <2>9, <2>10, Zenon DEF EnrollmentInv
<1> QED BY <1>6, <1>8, <1>9, <1>10, <1>11, <1>12, Zenon

(* The end of the call c that settles its attempt a in state s. *)
Settles(c, a, s) ==
  /\ completing[c].of = a /\ attempt[a].state = "claimed"
  /\ \A d \in Completions \ {c} : completing[d].at = "finalizing" => completing[d].of # a
  /\ attempt' = Mark(attempt, a, s)
  /\ completion' = Mark(completion, a, s)
  /\ completing' = [completing EXCEPT ![c] = NoCompleting]
  /\ Tell(a, s)
  /\ \A w \in Wallets : link[w] # NoValue => link'[w] = link[w]

\* What settling an attempt leaves as it was, whatever the verdict.
LEMMA Settled ==
  ASSUME EnrollmentInv, NEW c \in Completions, NEW a \in Attempts,
         NEW s \in {"issued", "invalid", "unavailable"}, Settles(c, a, s)
  PROVE  /\ attempt' \in [Attempts -> AttemptRecords] /\ attempt'[a].state = s
         /\ \A b \in Attempts : /\ attempt'[b].wallet = attempt[b].wallet
                                /\ attempt'[b].account = attempt[b].account
                                /\ b # a => attempt'[b] = attempt[b]
         /\ completion' \in [Attempts -> CompletionRecords]
         /\ \A b \in Attempts : completion'[b].proof = completion[b].proof
         /\ completing' \in [Completions -> CompletingRecords]
         /\ told' \in [Attempts -> SUBSET EnrollAnswers]
         /\ told'[a] = told[a] \cup {s} /\ \A b \in Attempts \ {a} : told'[b] = told[b]
         /\ AttemptShape' /\ CallsCurrent'
<1> USE DEF Settles
<1>1. EnrollTypes /\ AttemptShape /\ CallsCurrent BY Zenon DEF EnrollmentInv
<1>2. /\ attempt \in [Attempts -> AttemptRecords] /\ completion \in [Attempts -> CompletionRecords]
      /\ completing \in [Completions -> CompletingRecords]
  BY <1>1, Zenon DEF EnrollTypes
<1>3. s \in AttemptStates /\ s \in EnrollAnswers /\ s \in ClaimedStates
  BY Zenon DEF AttemptStates, EnrollAnswers, ClaimedStates
<1>4. /\ attempt' \in [Attempts -> AttemptRecords] /\ attempt'[a].state = s
      /\ \A b \in Attempts : /\ attempt'[b].wallet = attempt[b].wallet
                             /\ attempt'[b].account = attempt[b].account
                             /\ attempt'[b].key = attempt[b].key
                             /\ b # a => attempt'[b] = attempt[b]
  BY <1>2, <1>3, AttemptMarked
<1>5. /\ completion' \in [Attempts -> CompletionRecords]
      /\ completion'[a].state = s /\ completion'[a].proof = completion[a].proof
      /\ \A b \in Attempts \ {a} : completion'[b] = completion[b]
  <2>1. s \in {"none", "claimed", "issued", "invalid", "unavailable"} BY Zenon
  <2> QED BY <1>2, <2>1, CompletionMarked
<1>6. NoCompleting \in CompletingRecords /\ NoCompleting.at = "idle"
  BY Zenon DEF NoCompleting, CompletingRecords
<1>7. /\ completing' \in [Completions -> CompletingRecords] /\ completing'[c] = NoCompleting
      /\ \A d \in Completions \ {c} : completing'[d] = completing[d]
  BY <1>2, <1>6, Zenon
<1>8. /\ told' \in [Attempts -> SUBSET EnrollAnswers]
      /\ told'[a] = told[a] \cup {s} /\ \A b \in Attempts \ {a} : told'[b] = told[b]
  BY <1>1, <1>3, Told, Zenon
<1>9. AttemptShape' BY <1>1, <1>3, <1>4, <1>5 DEF AttemptShape, ClaimedStates
<1>10. ASSUME NEW d \in Completions PROVE CallCurrent(d)'
  <2>1. CASE d = c BY <1>6, <1>7, <2>1, Zenon DEF CallCurrent
  <2>2. CASE d # c
    <3>1. CallCurrent(d) /\ completing'[d] = completing[d]
      BY <1>1, <1>7, <2>2, Zenon DEF CallsCurrent
    <3>2. completing[d].at = "finalizing" =>
            /\ completing[d].of \in Attempts \ {a}
            /\ attempt[completing[d].of].wallet \in Wallets
            /\ attempt[completing[d].of].account \in Attempts
      BY <1>1, <2>2, <3>1, Zenon DEF CallCurrent, AttemptShape
    <3>3. completing[d].at = "finalizing" /\ completing[d].saw # NoValue =>
            link'[attempt[completing[d].of].wallet] = attempt[completing[d].of].account
      BY <3>1, <3>2, EnrollmentConstants, Zenon DEF CallCurrent
    <3> QED BY <1>4, <1>5, <3>1, <3>2, <3>3 DEF CallCurrent
  <2> QED BY <2>1, <2>2, Zenon
<1>11. CallsCurrent' BY <1>1, <1>6, <1>7, <1>10, Zenon DEF CallsCurrent
<1> HIDE DEF Settles
<1> QED BY <1>4, <1>5, <1>7, <1>8, <1>9, <1>11, Zenon

\* The record of a call that goes on to finalize, having read the link as v.
Finalizing(x, v) == [[x EXCEPT !.at = "finalizing"] EXCEPT !.saw = v]

LEMMA CallMoved ==
  ASSUME NEW x \in CompletingRecords, NEW v \in Attempts \cup {NoValue}
  PROVE  /\ Finalizing(x, v) \in CompletingRecords /\ Finalizing(x, v).at = "finalizing"
         /\ Finalizing(x, v).of = x.of /\ Finalizing(x, v).proof = x.proof
         /\ Finalizing(x, v).verdict = x.verdict /\ Finalizing(x, v).saw = v
<1>1. Finalizing(x, v) \in CompletingRecords BY ZenonT(30) DEF Finalizing, CompletingRecords
<1> QED BY <1>1, Zenon DEF Finalizing, CompletingRecords

\* finalizeCompletion up to its read of the link: the result of a settled attempt,
\* a failed verification, a wallet that went to another account, or the lock.
LEMMA FinalizeBeginStep ==
  ASSUME EnrollmentInv, NEW c \in Completions, FinalizeBegin(c)
  PROVE  EnrollmentInv'
<1> DEFINE a == completing[c].of
<1> DEFINE verdict == completing[c].verdict
<1>1. EnrollTypes /\ AttemptShape /\ AccountsOwned /\ CallsCurrent /\ CredentialsLinked /\ AnswersHold
  BY Zenon DEF EnrollmentInv
<1>2. /\ attempt \in [Attempts -> AttemptRecords] /\ completion \in [Attempts -> CompletionRecords]
      /\ completing \in [Completions -> CompletingRecords] /\ told \in [Attempts -> SUBSET EnrollAnswers]
      /\ link \in [Wallets -> Attempts \cup {NoValue}]
  BY <1>1, Zenon DEF EnrollTypes
<1>3. /\ completing[c].at = "verified" /\ ~Held(a)
      /\ UNCHANGED <<enrollNow, link, credential>>
  BY Zenon DEF FinalizeBegin
<1>4. /\ CallCurrent(c) /\ a \in Attempts /\ completion[a].state = attempt[a].state
      /\ attempt[a].state \in ClaimedStates
      /\ verdict \in {"verified", "unavailable", "invalid"}
  BY <1>1, <1>3, Zenon DEF CallsCurrent, CallCurrent, AttemptShape
<1>5. attempt[a].state = "claimed" \/ AttemptSettled(a)
  BY <1>4, Zenon DEF ClaimedStates, AttemptSettled
<1>6. attempt[a].wallet \in Wallets /\ attempt[a].account \in Attempts
  BY <1>1, <1>4, Zenon DEF AttemptShape, ClaimedStates
<1>7. CASE /\ AttemptSettled(a)
           /\ Tell(a, TerminalCompletionResult(completion[a].state))
           /\ completing' = [completing EXCEPT ![c] = NoCompleting]
           /\ UNCHANGED <<attempt, completion>>
  <2> DEFINE answer == TerminalCompletionResult(completion[a].state)
  <2>1. answer = attempt[a].state /\ answer \in {"issued", "unavailable", "invalid"}
    BY <1>4, <1>7, Zenon DEF AttemptSettled, TerminalCompletionResult
  <2>2. answer \in EnrollAnswers BY <2>1, Zenon DEF EnrollAnswers
  <2>3. Tell(a, answer) BY <1>7, Zenon
  <2> HIDE DEF answer, a
  <2>4. told' \in [Attempts -> SUBSET EnrollAnswers] /\ AnswersHold'
    BY <1>3, <1>4, <1>7, <2>1, <2>2, <2>3, AnswerGiven, Zenon
  <2>5. CallEnds(c) BY <1>7, Zenon DEF CallEnds
  <2>6. UNCHANGED <<enrollNow, attempt, completion, link, credential>> BY <1>3, <1>7, Zenon
  <2> QED BY <2>4, <2>5, <2>6, CallLost, Zenon
<1>8. CASE /\ ~AttemptSettled(a) /\ verdict # "verified"
           /\ completion' = [completion EXCEPT ![a].state = verdict]
           /\ attempt' = [attempt EXCEPT ![a].state = verdict]
           /\ Tell(a, verdict)
           /\ completing' = [completing EXCEPT ![c] = NoCompleting]
  <2>1. verdict \in {"unavailable", "invalid"} BY <1>4, <1>8, Zenon
  <2>2. Settles(c, a, verdict) BY <1>3, <1>5, <1>8, Zenon DEF Settles, Mark, Held
  <2> HIDE DEF a, verdict
  <2>3. verdict \in {"issued", "invalid", "unavailable"} BY <2>1, Zenon
  <2>4. /\ attempt' \in [Attempts -> AttemptRecords] /\ attempt'[a].state = verdict
        /\ \A b \in Attempts : /\ attempt'[b].wallet = attempt[b].wallet
                               /\ attempt'[b].account = attempt[b].account
                               /\ b # a => attempt'[b] = attempt[b]
        /\ completion' \in [Attempts -> CompletionRecords]
        /\ \A b \in Attempts : completion'[b].proof = completion[b].proof
        /\ completing' \in [Completions -> CompletingRecords]
        /\ told' \in [Attempts -> SUBSET EnrollAnswers]
        /\ told'[a] = told[a] \cup {verdict} /\ \A b \in Attempts \ {a} : told'[b] = told[b]
        /\ AttemptShape' /\ CallsCurrent'
    BY <1>4, <2>2, <2>3, Settled, Zenon
  <2>5. EnrollTypes' BY <1>1, <1>3, <2>4, Zenon DEF EnrollTypes
  <2>6. attempt[a].state = "claimed" BY <1>5, <1>8, Zenon
  <2>7. AccountsOwned'
    <3>1. \A b \in Attempts : attempt'[b].state = "none" <=> attempt[b].state = "none"
      BY <2>1, <2>4, <2>6, Zenon
    <3>2. \A b \in Attempts : attempt'[b].wallet = attempt[b].wallet
                              /\ attempt'[b].account = attempt[b].account
      BY <2>4, Zenon
    <3>3. AttemptShape /\ AccountsOwned /\ EnrollTypes /\ link' = link BY <1>1, <1>3, Zenon
    <3> QED BY <3>1, <3>2, <3>3, OwnersKept, Zenon
  <2>8. CredentialsLinked' BY <1>1, <1>3, <2>1, <2>4, <2>6 DEF CredentialsLinked
  <2>9. AnswersHold' BY <1>1, <1>3, <2>1, <2>4, <2>6 DEF AnswersHold, Displaced
  <2> QED BY <2>4, <2>5, <2>7, <2>8, <2>9, Zenon DEF EnrollmentInv
<1>9. CASE /\ ~AttemptSettled(a) /\ link[attempt[a].wallet] \notin {NoValue, attempt[a].account}
           /\ Tell(a, "invalid")
           /\ completing' = [completing EXCEPT ![c] = NoCompleting]
           /\ UNCHANGED <<attempt, completion>>
  <2>1. "invalid" \in EnrollAnswers BY Zenon DEF EnrollAnswers
  <2>2. Displaced(a) BY <1>9, Zenon DEF Displaced
  <2>3. attempt[a].state = "claimed" BY <1>5, <1>9, Zenon
  <2> HIDE DEF a
  <2>4. told' \in [Attempts -> SUBSET EnrollAnswers] /\ AnswersHold'
    BY <1>3, <1>4, <1>9, <2>1, <2>2, <2>3, AnswerGiven, Zenon
  <2>5. CallEnds(c) BY <1>9, Zenon DEF CallEnds
  <2>6. UNCHANGED <<enrollNow, attempt, completion, link, credential>> BY <1>3, <1>9, Zenon
  <2> QED BY <2>4, <2>5, <2>6, CallLost
<1>10. CASE /\ ~AttemptSettled(a) /\ verdict = "verified"
            /\ link[attempt[a].wallet] \in {NoValue, attempt[a].account}
            /\ completing' = [completing EXCEPT ![c].at = "finalizing",
                                                ![c].saw = link[attempt[a].wallet]]
            /\ UNCHANGED <<attempt, completion, told>>
  <2> DEFINE saw == link[attempt[a].wallet]
  <2>1. saw \in Attempts \cup {NoValue} BY <1>2, <1>6, Zenon
  <2>2. completing' = [completing EXCEPT ![c].at = "finalizing", ![c].saw = saw] BY <1>10, Zenon
  <2> DEFINE r == Finalizing(completing[c], saw)
  <2> HIDE DEF saw
  <2>3. r \in CompletingRecords BY <1>2, <2>1, CallMoved, Zenon
  <2>4. r.at = "finalizing" /\ r.of = completing[c].of /\ r.proof = completing[c].proof
        /\ r.verdict = completing[c].verdict /\ r.saw = saw
    BY <1>2, <2>1, CallMoved, Zenon
  <2>5. completing'[c] = r /\ \A d \in Completions \ {c} : completing'[d] = completing[d]
    BY <1>2, <2>2, Zenon DEF Finalizing
  <2>6. completing' \in [Completions -> CompletingRecords]
    <3> DEFINE moved == [completing EXCEPT ![c].at = "finalizing"]
    <3>1. moved \in [Completions -> CompletingRecords]
      <4>1. [completing[c] EXCEPT !.at = "finalizing"] \in CompletingRecords
        BY <1>2 DEF CompletingRecords
      <4> QED BY <1>2, <4>1, Zenon
    <3>2. completing' = [moved EXCEPT ![c].saw = saw] BY <2>2, Zenon
    <3> HIDE DEF moved
    <3>3. completing' = [moved EXCEPT ![c] = completing'[c]] BY <3>1, <3>2, Zenon
    <3> QED BY <2>3, <2>5, <3>1, <3>3, Zenon
  <2> HIDE DEF r
  <2>7. attempt[a].state = "claimed" BY <1>5, <1>10, Zenon
  <2>8. CallCurrent(c)'
    BY <1>3, <1>4, <1>10, <2>4, <2>5, <2>7, Zenon DEF CallCurrent, saw
  <2>9. told' \in [Attempts -> SUBSET EnrollAnswers] /\ AnswersHold'
    BY <1>1, <1>2, <1>3, <1>10, Zenon DEF AnswersHold, Displaced
  <2>10. ~Held(completing'[c].of) BY <1>3, <2>4, <2>5, Zenon
  <2> QED BY <1>3, <1>10, <2>5, <2>6, <2>8, <2>9, <2>10, CallMoves, Zenon
<1> QED BY <1>7, <1>8, <1>9, <1>10, Zenon DEF FinalizeBegin

\* A credential made from known parts is one, and is not the absent one.
LEMMA CredentialMade ==
  ASSUME NEW acc \in Attempts, NEW w \in Wallets, NEW k \in DeviceKeys, NEW p \in Proofs
  PROVE  LET q == [account |-> acc, wallet |-> w, key |-> k, proof |-> p]
         IN  /\ q \in CredentialRecords /\ q # NoCredential
             /\ q.account = acc /\ q.wallet = w /\ q.proof = p
<1> DEFINE q == [account |-> acc, wallet |-> w, key |-> k, proof |-> p]
<1>1. q \in CredentialRecords BY Zenon DEF CredentialRecords
<1>2. q.account # NoValue BY EnrollmentConstants, Zenon
<1>3. NoCredential.account = NoValue BY Zenon DEF NoCredential
<1> QED BY <1>1, <1>2, <1>3, Zenon

\* The rest of finalizeCompletion: nothing when another enrollment linked the
\* wallet meanwhile, and otherwise the link, the credential and the result.
LEMMA FinalizeEndStep ==
  ASSUME EnrollmentInv, NEW c \in Completions, FinalizeEnd(c)
  PROVE  EnrollmentInv'
<1> DEFINE a == completing[c].of
<1> DEFINE w == attempt[a].wallet
<1> DEFINE insert == completing[c].saw = NoValue
<1>1. EnrollTypes /\ AttemptShape /\ AccountsOwned /\ CallsCurrent /\ CredentialsLinked /\ AnswersHold
  BY DEF EnrollmentInv
<1>2. /\ attempt \in [Attempts -> AttemptRecords] /\ completion \in [Attempts -> CompletionRecords]
      /\ completing \in [Completions -> CompletingRecords] /\ told \in [Attempts -> SUBSET EnrollAnswers]
      /\ link \in [Wallets -> Attempts \cup {NoValue}]
      /\ credential \in [Attempts -> CredentialRecords]
  BY <1>1, Zenon DEF EnrollTypes
<1>3. completing[c].at = "finalizing" /\ enrollNow' = enrollNow /\ CallEnds(c)
  BY Zenon DEF FinalizeEnd, CallEnds
<1>4. /\ a \in Attempts /\ attempt[a].state = "claimed"
      /\ completing[c].proof = completion[a].proof /\ completing[c].proof \in GoodProofs
      /\ ~insert => link[w] = attempt[a].account
  BY <1>1, <1>3, Zenon DEF CallsCurrent, CallCurrent
<1>5. w \in Wallets /\ attempt[a].account \in Attempts /\ attempt[a].key \in DeviceKeys
  BY <1>1, <1>4, Zenon DEF AttemptShape, ClaimedStates
<1>6. CASE insert /\ link[w] # NoValue
  <2>1. UNCHANGED <<enrollNow, attempt, completion, link, credential, told>>
    BY <1>3, <1>6, Zenon DEF FinalizeEnd
  <2>2. told' \in [Attempts -> SUBSET EnrollAnswers] /\ AnswersHold'
    BY <1>1, <1>2, <2>1, Zenon DEF AnswersHold, Displaced
  <2> QED BY <1>3, <2>1, <2>2, CallLost, Zenon
<1>7. CASE ~(insert /\ link[w] # NoValue)
  <2> DEFINE q == [account |-> attempt[a].account, wallet |-> w, key |-> attempt[a].key,
                   proof |-> completing[c].proof]
  <2>1. /\ link' = [link EXCEPT ![w] = IF insert THEN attempt[a].account ELSE @]
        /\ credential' = [credential EXCEPT ![a] = q]
        /\ completion' = Mark(completion, a, "issued") /\ attempt' = Mark(attempt, a, "issued")
        /\ Tell(a, "issued")
    BY <1>7, Zenon DEF FinalizeEnd, Mark
  <2>2. /\ q \in CredentialRecords /\ q # NoCredential
        /\ q.account = attempt[a].account /\ q.wallet = w /\ q.proof = completing[c].proof
    <3>1. completing[c].proof \in Proofs BY <1>4, EnrollmentConstants, Zenon
    <3> HIDE DEF a, w
    <3> QED BY <1>5, <3>1, CredentialMade
  <2>3. insert \/ link[w] = attempt[a].account BY <1>4, Zenon
  <2>4. insert => link[w] = NoValue BY <1>7, Zenon
  <2>5. attempt[a].wallet = w BY Zenon DEF w
  <2> HIDE DEF a, w, insert, q
  <2>6. /\ link' \in [Wallets -> Attempts \cup {NoValue}] /\ link'[w] = attempt[a].account
        /\ \A v \in Wallets \ {w} : link'[v] = link[v]
    BY <1>2, <1>5, <2>1, <2>3, Zenon
  <2>7. link[w] # NoValue => link[w] = attempt[a].account BY <2>3, <2>4, Zenon
  <2>8. Settles(c, a, "issued")
    <3>1. \A d \in Completions \ {c} : completing[d].at = "finalizing" => completing[d].of # a
      BY <1>1, <1>3, Zenon DEF CallsCurrent, a
    <3>2. \A v \in Wallets : link[v] # NoValue => link'[v] = link[v] BY <2>6, <2>7, Zenon
    <3>3. completing[c].of = a BY Zenon DEF a
    <3> QED BY <1>3, <1>4, <2>1, <3>1, <3>2, <3>3, Zenon DEF Settles, CallEnds
  <2>9. /\ attempt' \in [Attempts -> AttemptRecords] /\ attempt'[a].state = "issued"
        /\ \A b \in Attempts : /\ attempt'[b].wallet = attempt[b].wallet
                               /\ attempt'[b].account = attempt[b].account
                               /\ b # a => attempt'[b] = attempt[b]
        /\ completion' \in [Attempts -> CompletionRecords]
        /\ \A b \in Attempts : completion'[b].proof = completion[b].proof
        /\ completing' \in [Completions -> CompletingRecords]
        /\ told' \in [Attempts -> SUBSET EnrollAnswers]
        /\ told'[a] = told[a] \cup {"issued"} /\ \A b \in Attempts \ {a} : told'[b] = told[b]
        /\ AttemptShape' /\ CallsCurrent'
    BY <1>4, <2>8, Settled, Zenon
  <2>10. /\ credential' \in [Attempts -> CredentialRecords] /\ credential'[a] = q
        /\ \A b \in Attempts \ {a} : credential'[b] = credential[b]
    BY <1>2, <1>4, <2>1, <2>2, Zenon
  <2>11. EnrollTypes' BY <1>1, <1>3, <2>6, <2>7, <2>9, <2>10, Zenon DEF EnrollTypes
  <2>12. AccountsOwned'
    <3>1. \A b \in Attempts : attempt'[b].state = "none" <=> attempt[b].state = "none"
      BY <1>4, <2>9, Zenon
    <3>2. \A b \in Attempts : attempt[b].state # "none" => attempt[b].account \in Attempts
      BY <1>1, Zenon DEF AttemptShape
    <3>3. attempt[attempt[a].account].state # "none" /\ attempt[attempt[a].account].wallet = w
      BY <1>1, <1>4, <2>5, Zenon DEF AccountsOwned
    <3>4. \A v \in Wallets : link[v] # NoValue => link[v] \in Attempts BY <1>2, Zenon
    <3> QED BY <1>1, <1>5, <2>6, <2>7, <2>9, <3>1, <3>2, <3>3, <3>4, SMTT(30) DEF AccountsOwned
  <2>13. CredentialsLinked'
    <3>1. ASSUME NEW b \in Attempts, b # a
          PROVE  /\ credential'[b] # NoCredential <=> attempt'[b].state = "issued"
                 /\ credential'[b] # NoCredential =>
                      /\ credential'[b].wallet = attempt'[b].wallet
                      /\ credential'[b].account = attempt'[b].account
                      /\ link'[attempt'[b].wallet] = attempt'[b].account
                      /\ credential'[b].proof = completion'[b].proof
                      /\ credential'[b].proof \in GoodProofs
      <4>1. attempt'[b] = attempt[b] /\ credential'[b] = credential[b]
            /\ completion'[b].proof = completion[b].proof
        BY <2>9, <2>10, <3>1, Zenon
      <4>2. attempt[b].state = "issued" =>
              attempt[b].wallet \in Wallets /\ attempt[b].account \in Attempts
        BY <1>1, Zenon DEF AttemptShape
      <4>3. credential[b] # NoCredential => link'[attempt[b].wallet] = attempt[b].account
        BY <1>1, <2>6, <2>7, <4>2, EnrollmentConstants, SMTT(30) DEF CredentialsLinked
      <4> QED BY <1>1, <4>1, <4>3, Zenon DEF CredentialsLinked
    <3>2. /\ credential'[a] # NoCredential /\ attempt'[a].state = "issued"
          /\ credential'[a].wallet = attempt'[a].wallet
          /\ credential'[a].account = attempt'[a].account
          /\ link'[attempt'[a].wallet] = attempt'[a].account
          /\ credential'[a].proof = completion'[a].proof
          /\ credential'[a].proof \in GoodProofs
      BY <1>4, <2>2, <2>6, <2>7, <2>9, <2>10, <2>5, Zenon
    <3> QED BY <1>4, <3>1, <3>2, Zenon DEF CredentialsLinked
  <2>14. AnswersHold'
    <3>1. "unavailable" \notin told[a] /\ ("invalid" \in told[a] => Displaced(a))
      BY <1>1, <1>4, Zenon DEF AnswersHold
    <3>2. ~Displaced(a) BY <2>6, <2>7, <2>5, Zenon DEF Displaced
    <3>3. ASSUME NEW b \in Attempts, b # a, Displaced(b), attempt[b].state # "none"
          PROVE  Displaced(b)'
      <4>1. attempt[b].wallet \in Wallets /\ attempt'[b] = attempt[b]
        BY <1>1, <2>9, <3>3, Zenon DEF AttemptShape
      <4> QED BY <2>6, <2>7, <3>3, <4>1, Zenon DEF Displaced
    <3> QED BY <1>1, <1>4, <2>9, <3>1, <3>2, <3>3, SMTT(30) DEF AnswersHold
  <2> QED BY <2>9, <2>11, <2>12, <2>13, <2>14, Zenon DEF EnrollmentInv
<1> QED BY <1>6, <1>7, Zenon

\* Time alone changes nothing the invariant speaks of.
LEMMA ClockOnly ==
  ASSUME EnrollmentInv, enrollNow' \in Nat,
         UNCHANGED <<attempt, completion, link, credential, completing, told>>
  PROVE  EnrollmentInv'
<1>1. EnrollTypes' BY Zenon DEF EnrollmentInv, EnrollTypes
<1>2. AttemptShape' BY Zenon DEF EnrollmentInv, AttemptShape
<1>3. AccountsOwned' BY Zenon DEF EnrollmentInv, AccountsOwned
<1>4. CallsCurrent' BY Zenon DEF EnrollmentInv, CallsCurrent, CallCurrent
<1>5. CredentialsLinked' BY Zenon DEF EnrollmentInv, CredentialsLinked
<1>6. AnswersHold' BY Zenon DEF EnrollmentInv, AnswersHold, Displaced
<1> QED BY <1>1, <1>2, <1>3, <1>4, <1>5, <1>6, Zenon DEF EnrollmentInv

\* Wallets and accounts stay one to one, answers are never taken back and open
\* claims can be finished, for any number of attempts, wallets, proofs and calls of
\* completeEnrollment that overlap, are retried or are lost.
THEOREM EnrollmentAlwaysSafe == EnrollmentSpec => []EnrollmentSafe
<1>1. EnrollmentInit => EnrollmentInv
  <2> SUFFICES ASSUME EnrollmentInit PROVE EnrollmentInv BY Zenon
  <2>1. Unallocated \in AttemptRecords /\ Unallocated.state = "none"
    BY Zenon DEF Unallocated, AttemptRecords, AttemptStates
  <2>2. NotClaimed \in CompletionRecords /\ NotClaimed.state = "none"
    BY Zenon DEF NotClaimed, CompletionRecords
  <2>3. NoCredential \in CredentialRecords BY Zenon DEF NoCredential, CredentialRecords
  <2>4. NoCompleting \in CompletingRecords /\ NoCompleting.at = "idle"
    BY Zenon DEF NoCompleting, CompletingRecords
  <2>5. EnrollTypes BY <2>1, <2>2, <2>3, <2>4, Zenon DEF EnrollmentInit, EnrollTypes
  <2>6. CallsCurrent BY <2>4, Zenon DEF EnrollmentInit, CallsCurrent, CallCurrent
  <2> QED BY <2>1, <2>2, <2>5, <2>6, Zenon
             DEF EnrollmentInit, EnrollmentInv, AttemptShape, AccountsOwned,
                                       CredentialsLinked, AnswersHold, ClaimedStates
<1>2. EnrollmentInv /\ [EnrollmentNext]_enrollmentVars => EnrollmentInv'
  <2> SUFFICES ASSUME EnrollmentInv, [EnrollmentNext]_enrollmentVars PROVE EnrollmentInv'
    BY Zenon
  <2>1. CASE UNCHANGED enrollmentVars
    <3>1. enrollNow' = enrollNow /\ UNCHANGED <<attempt, completion, link, credential, completing, told>>
      BY <2>1, Zenon DEF enrollmentVars
    <3>2. enrollNow' \in Nat BY <3>1, Zenon DEF EnrollmentInv, EnrollTypes
    <3> QED BY <3>1, <3>2, ClockOnly, Zenon
  <2>2. CASE EnrollTick
    <3>1. enrollNow' = enrollNow + 1 /\ UNCHANGED <<attempt, completion, link, credential, completing, told>>
      BY <2>2, Zenon DEF EnrollTick
    <3>2. enrollNow' \in Nat BY <3>1 DEF EnrollmentInv, EnrollTypes
    <3> QED BY <3>1, <3>2, ClockOnly, Zenon
  <2>3. ASSUME NEW c \in Completions, CompletionLost(c) PROVE EnrollmentInv'
    <3>1. CallEnds(c) /\ UNCHANGED <<enrollNow, attempt, completion, link, credential, told>>
      BY <2>3, Zenon DEF CompletionLost, CallEnds
    <3>2. told' \in [Attempts -> SUBSET EnrollAnswers] /\ AnswersHold'
      BY <3>1, Zenon DEF EnrollmentInv, EnrollTypes, AnswersHold, Displaced
    <3> QED BY <3>1, <3>2, CallLost, Zenon
  <2> QED BY Zenon, <2>1, <2>2, <2>3, AllocateStep, ChallengesStep, ClaimStep, VerifyStep,
             FinalizeBeginStep, FinalizeEndStep DEF EnrollmentNext
<1>3. EnrollmentInv => EnrollmentSafe
  <2> SUFFICES ASSUME EnrollmentInv PROVE EnrollmentSafe BY Zenon
  <2>1. AccountFollowsWallet
    BY DEF AccountFollowsWallet, EnrollmentInv, CredentialsLinked, AccountsOwned
  <2>2. ClaimsAreTerminal
    BY Zenon DEF ClaimsAreTerminal, ReadEnrollment, EnrollmentInv, CredentialsLinked, AnswersHold
  <2>3. ClaimResumable
    BY EnrollmentConstants, Zenon DEF ClaimResumable, EnrollmentInv, AttemptShape, ClaimedStates,
                               AnswersHold, Displaced
  <2> QED BY <2>1, <2>2, <2>3, Zenon DEF EnrollmentSafe
<1> QED BY <1>1, <1>2, <1>3, PTL DEF EnrollmentSpec
====
