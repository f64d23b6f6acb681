--------------------------- MODULE IdentityProofs ---------------------------
(***************************************************************************)
(* What request proofs, sessions, eligibility grants and embed sessions    *)
(* promise, for any number of devices, transactions, sessions, proofs,     *)
(* grants, anchors, origins and contexts: ProofUsedOnce, SessionsSafe,     *)
(* RevokedForGood, RecheckSafe and EmbedSessionsSafe.                      *)
(*                                                                         *)
(* ProofUsedOnce rests on ProofInv: a proof that was accepted is either    *)
(* past its window or remembered by an entry that outlives the window.     *)
(* SessionsSafe rests on SessionInv: which transaction holds which row     *)
(* (RowLocks), that the rows a transaction has read are unchanged while it *)
(* holds them, and that every row belongs to a named family.               *)
(* RecheckSafe rests on GrantInv: the rest of a recheck covers every grant *)
(* it has to end.  EmbedSessionsSafe rests on EmbedInv: a revocation has   *)
(* seen every context but the late ones, and a row has one holder.         *)
(***************************************************************************)
EXTENDS ProofReplay, Sessions, EligibilityGrants, EmbedContexts, TLAPS

-----------------------------------------------------------------------------
(* The guard remembers every accepted proof for as long as it is acceptable. *)
Remembered(p) ==
  \/ proofNow > p.iat + IatWindow
  \/ \E e \in seen : e.jti = p.jti /\ e.expiry > p.iat + IatWindow

ProofInv ==
  /\ proofNow \in Nat
  /\ seen \subseteq [jti : Jtis, expiry : Nat]
  /\ DOMAIN uses \subseteq DpopProof
  /\ \A p \in DOMAIN uses : uses[p] = 1 /\ Remembered(p)

\* An accepted proof was never accepted before by this process: the entry it would
\* have left is neither expired nor swept while the proof is within its window.
LEMMA AcceptedIsNew ==
  ASSUME ProofInv, NEW p \in DpopProof, NEW target, NEW token,
         ProofHolds(p, target, token), Claimable(p.jti)
  PROVE  p \notin DOMAIN uses
<1> SUFFICES ASSUME p \in DOMAIN uses PROVE FALSE BY Zenon
<1>1. p.iat \in Nat /\ proofNow \in Nat /\ IatWindow \in Nat
  BY ProofConstants DEF DpopProof, ProofInv
<1>2. proofNow <= p.iat + IatWindow BY <1>1 DEF ProofHolds, Distance
<1>3. PICK e \in seen : e.jti = p.jti /\ e.expiry > p.iat + IatWindow
  BY <1>1, <1>2 DEF ProofInv, Remembered
<1>4. e.expiry \in Nat BY <1>3, Zenon DEF ProofInv
<1>5. e.expiry > proofNow BY <1>1, <1>2, <1>3, <1>4
<1>6. e \in Swept BY <1>3, <1>5, Zenon DEF Swept
<1> QED BY <1>3, <1>5, <1>6, Zenon DEF Claimable

\* Claiming an identifier forgets only entries that are out of date.
LEMMA ClaimForgetsOldEntries ==
  ASSUME ProofInv, NEW p \in DpopProof, Claimable(p.jti), Claim(p.jti), proofNow' = proofNow,
         NEW q \in DOMAIN uses
  PROVE  Remembered(q)'
<1>1. q.iat \in Nat /\ proofNow \in Nat /\ IatWindow \in Nat
  BY ProofConstants DEF DpopProof, ProofInv
<1>2. CASE proofNow > q.iat + IatWindow BY <1>2, Zenon DEF Remembered
<1>3. CASE ~(proofNow > q.iat + IatWindow)
  <2>1. PICK e \in seen : e.jti = q.jti /\ e.expiry > q.iat + IatWindow
    BY <1>3, Zenon DEF ProofInv, Remembered
  <2>2. e.expiry \in Nat BY <2>1, Zenon DEF ProofInv
  <2>3. e.expiry > proofNow BY <1>1, <1>3, <2>1, <2>2
  <2>4. e \in Swept BY <2>1, <2>3, Zenon DEF Swept
  <2>5. e.jti # p.jti BY <2>3, <2>4, Zenon DEF Claimable
  <2>6. e \in seen' BY <2>4, <2>5, Zenon DEF Claim
  <2> QED BY <2>1, <2>6, Zenon DEF Remembered
<1> QED BY <1>2, <1>3, Zenon

\* A proof is accepted at most once by a process, for every window, guard margin
\* and guard capacity, and however often it is presented (verifyDpopProof and the
\* in-process replay guard), as long as the margin exceeds the window.
THEOREM AcceptedOnce == ProofSpec => []ProofUsedOnce
<1>1. ProofInit => ProofInv BY DEF ProofInit, ProofInv
<1>2. ASSUME ProofInv, [ProofNext]_proofVars PROVE ProofInv'
  <2>1. CASE UNCHANGED proofVars BY <1>2, <2>1, Zenon DEF proofVars, ProofInv, Remembered
  <2>2. CASE ProofTick
    <3>1. proofNow' \in Nat /\ seen' = seen /\ uses' = uses /\ proofNow' = proofNow + 1
      BY <1>2, <2>2 DEF ProofTick, ProofInv
    <3>2. ASSUME NEW p \in DOMAIN uses PROVE Remembered(p)'
      <4>1. p.iat \in Nat /\ IatWindow \in Nat /\ proofNow \in Nat /\ Remembered(p)
        BY <1>2, <3>2, ProofConstants DEF DpopProof, ProofInv
      <4> QED BY <3>1, <4>1 DEF Remembered
    <3> QED BY <1>2, <3>1, <3>2, Zenon DEF ProofInv
  <2>3. CASE GuardRestart BY <1>2, <2>3 DEF GuardRestart, ProofInv
  <2>4. ASSUME NEW p \in DpopProof, NEW target \in Targets, NEW token \in Tokens,
               VerifyDpopProof(p, target, token)
        PROVE  ProofInv'
    <3>1. proofNow' = proofNow /\ ProofHolds(p, target, token) BY <2>4, Zenon DEF VerifyDpopProof
    <3>2. p.iat \in Nat /\ p.jti \in Jtis /\ proofNow \in Nat /\ IatWindow \in Nat
          /\ GuardMargin \in Nat /\ IatWindow < GuardMargin
      BY <1>2, ProofConstants DEF DpopProof, ProofInv
    <3>3. CASE Claimable(p.jti)
      <4>1. Claim(p.jti) /\ uses' = [q \in DOMAIN uses \cup {p} |->
                          (IF q \in DOMAIN uses THEN uses[q] ELSE 0) + (IF q = p THEN 1 ELSE 0)]
        BY <2>4, <3>3, Zenon DEF VerifyDpopProof
      <4>2. p \notin DOMAIN uses BY <1>2, <3>1, <3>3, AcceptedIsNew, Zenon
      <4>3. GuardHorizon \in Nat /\ GuardHorizon > p.iat + IatWindow
        BY <3>1, <3>2 DEF GuardHorizon, ProofHolds, Distance
      <4>4. Remembered(p)'
        <5> DEFINE entry == [jti |-> p.jti, expiry |-> GuardHorizon]
        <5>1. entry \in seen' BY <4>1, Zenon DEF Claim
        <5>2. entry.jti = p.jti /\ entry.expiry = GuardHorizon BY Zenon
        <5>3. \E e \in seen' : e.jti = p.jti /\ e.expiry > p.iat + IatWindow
          BY <4>3, <5>1, <5>2, Zenon
        <5> QED BY <5>3, Zenon DEF Remembered
      <4>5. \A q \in DOMAIN uses : Remembered(q)'
        BY <1>2, <3>1, <3>3, <4>1, ClaimForgetsOldEntries, Zenon
      <4>6. seen' \subseteq [jti : Jtis, expiry : Nat]
        BY <1>2, <3>2, <4>1, <4>3 DEF Claim, Swept, ProofInv
      <4>7. DOMAIN uses' = DOMAIN uses \cup {p} /\ \A q \in DOMAIN uses' : uses'[q] = 1
        BY <1>2, <4>1, <4>2 DEF ProofInv
      <4> QED BY <1>2, <3>1, <4>4, <4>5, <4>6, <4>7, Zenon DEF ProofInv
    <3>4. CASE ~Claimable(p.jti)
      <4>1. seen' = Swept /\ uses' = uses BY <2>4, <3>4, Zenon DEF VerifyDpopProof
      <4>2. ASSUME NEW q \in DOMAIN uses PROVE Remembered(q)'
        <5>1. q.iat \in Nat BY <1>2 DEF DpopProof, ProofInv
        <5>2. CASE proofNow > q.iat + IatWindow BY <3>1, <5>2, Zenon DEF Remembered
        <5>3. CASE ~(proofNow > q.iat + IatWindow)
          <6>1. PICK e \in seen : e.jti = q.jti /\ e.expiry > q.iat + IatWindow
            BY <1>2, <5>3, Zenon DEF ProofInv, Remembered
          <6>2. e.expiry \in Nat BY <1>2, <6>1, Zenon DEF ProofInv
          <6>3. e.expiry > proofNow BY <3>2, <5>1, <5>3, <6>1, <6>2
          <6> QED BY <4>1, <6>1, <6>3, Zenon DEF Swept, Remembered
        <5> QED BY <5>2, <5>3, Zenon
      <4> QED BY <1>2, <3>1, <4>1, <4>2, Zenon DEF Swept, ProofInv
    <3> QED BY <3>3, <3>4, Zenon
  <2> QED BY <1>2, <2>1, <2>2, <2>3, <2>4, Zenon DEF ProofNext
<1>3. ProofInv => ProofUsedOnce BY DEF ProofInv, ProofUsedOnce
<1> QED BY <1>1, <1>2, <1>3, PTL DEF ProofSpec

-----------------------------------------------------------------------------
(* SessionsSafe becomes inductive with the types of the rows, a family named by
   the index of its first row, and the locks of the transactions: the row that is
   about to be rotated is still active, and no other transaction holds it. *)
SessionRows == [family : Nat, device : Installations, generation : Nat,
                state : {"active", "rotated", "revoked"}, access : Nat, refresh : Nat]
RunningRecords ==
  [kind : {"none", "issue", "refresh", "rotate", "reuse", "logout", "revoke"},
   row : Nat, device : Installations \cup {NoDevice}, rows : SUBSET Nat,
   now : Nat, credential : {"none", "active", "revoked"}]

SessionTypes ==
  /\ sessionNow \in Nat
  /\ credentialStatus \in [Installations -> {"active", "revoked"}]
  /\ session \in Seq(SessionRows)
  /\ running \in [Transactions -> RunningRecords]

RowsKnown ==
  \A t \in Transactions :
    /\ running[t].kind \in {"issue", "revoke"} => running[t].device \in Installations
    /\ running[t].kind \in {"refresh", "rotate", "reuse"} => running[t].row \in DOMAIN session

RowLocks ==
  \A t \in Transactions : running[t].kind = "rotate" =>
    /\ session[running[t].row].state = "active"
    /\ \A u \in Transactions \ {t} :
         running[u].kind \in {"rotate", "reuse"} => running[u].row # running[t].row

FamiliesNamed == \A i \in DOMAIN session : session[i].family <= i

SessionInv == SessionTypes /\ RowsKnown /\ RowLocks /\ FamiliesNamed /\ OneLiveToken

Marked(r, s) == [r EXCEPT !.state = s]

\* Changing a row's state keeps the rest of the row.
LEMMA RowMarked ==
  ASSUME NEW r \in SessionRows, NEW s \in {"active", "rotated", "revoked"}
  PROVE  /\ Marked(r, s) \in SessionRows
         /\ Marked(r, s).family = r.family /\ Marked(r, s).generation = r.generation
         /\ Marked(r, s).device = r.device /\ Marked(r, s).state = s
BY Zenon DEF SessionRows, Marked

\* A statement that revokes rows changes nothing else, and only those it selected.
LEMMA RowsRevoked ==
  ASSUME session \in Seq(SessionRows), NEW rows, NEW states, RevokeRows(rows, states)
  PROVE  /\ session' \in Seq(SessionRows) /\ DOMAIN session' = DOMAIN session
         /\ \A i \in DOMAIN session :
              /\ session'[i].family = session[i].family
              /\ session'[i].generation = session[i].generation
              /\ session'[i].state \in {session[i].state, "revoked"}
              /\ i \notin rows => session'[i] = session[i]
<1>1. DOMAIN session' = DOMAIN session BY Zenon DEF RevokeRows
<1>2. ASSUME NEW i \in DOMAIN session
      PROVE  /\ session'[i] \in SessionRows
             /\ session'[i].family = session[i].family
             /\ session'[i].generation = session[i].generation
             /\ session'[i].state \in {session[i].state, "revoked"}
             /\ i \notin rows => session'[i] = session[i]
  <2>1. session[i] \in SessionRows BY <1>2
  <2>2. (session'[i] = Marked(session[i], "revoked") /\ i \in rows) \/ session'[i] = session[i]
    BY Zenon DEF RevokeRows, Marked
  <2> QED BY <2>1, <2>2, RowMarked
<1>3. session' = [i \in 1..Len(session) |-> session'[i]] BY DEF RevokeRows
<1>4. Len(session) \in Nat /\ DOMAIN session = 1..Len(session) OBVIOUS
<1>5. session' \in Seq(SessionRows) BY <1>2, <1>3, <1>4
<1> QED BY <1>1, <1>2, <1>5, Zenon

\* The fields of a row, and its place.
LEMMA RowFields ==
  ASSUME NEW s \in Seq(SessionRows)
  PROVE  /\ Len(s) \in Nat /\ DOMAIN s = 1..Len(s)
         /\ \A i \in DOMAIN s : /\ i \in Nat /\ i < Len(s) + 1
                                /\ s[i] \in SessionRows
                                /\ s[i].family \in Nat /\ s[i].generation \in Nat
                                /\ s[i].device \in Installations
<1>1. ASSUME NEW i \in DOMAIN s PROVE s[i] \in SessionRows OBVIOUS
<1>2. \A r \in SessionRows : r.family \in Nat /\ r.generation \in Nat /\ r.device \in Installations
  BY Zenon DEF SessionRows
<1> QED BY <1>1, <1>2

\* A row appended after existing rows leaves them in place.
LEMMA RowAppended ==
  ASSUME NEW s \in Seq(SessionRows), NEW row \in SessionRows
  PROVE  /\ Append(s, row) \in Seq(SessionRows)
         /\ DOMAIN Append(s, row) = DOMAIN s \cup {Len(s) + 1}
         /\ Append(s, row)[Len(s) + 1] = row
         /\ \A i \in DOMAIN s : Append(s, row)[i] = s[i]
OBVIOUS

\* The row of a new generation is a row.
LEMMA RowTyped ==
  ASSUME NEW f \in Nat, NEW d \in Installations, NEW g \in Nat, NEW now \in Nat
  PROVE  /\ Row(f, d, g, now) \in SessionRows
         /\ Row(f, d, g, now).family = f /\ Row(f, d, g, now).generation = g
<1>1. AccessTtl \in Nat /\ RefreshTtl \in Nat /\ CredentialTtl \in Nat BY SessionConstants, Zenon
<1>2. Least(now + AccessTtl, CredentialTtl) \in Nat /\ Least(now + RefreshTtl, CredentialTtl) \in Nat
  BY <1>1 DEF Least
<1> QED BY <1>2, Zenon DEF Row, SessionRows

Successor(r, now) == Row(r.family, r.device, r.generation + 1, now)

\* The row that replaces a rotated one is of its family, one generation on.
LEMMA SuccessorRow ==
  ASSUME NEW r \in SessionRows, NEW now \in Nat
  PROVE  /\ Successor(r, now) \in SessionRows
         /\ Successor(r, now).family = r.family
         /\ Successor(r, now).generation = r.generation + 1
<1>1. r.family \in Nat /\ r.device \in Installations /\ r.generation + 1 \in Nat BY DEF SessionRows
<1>2. AccessTtl \in Nat /\ RefreshTtl \in Nat /\ CredentialTtl \in Nat BY SessionConstants, Zenon
<1>3. Least(now + AccessTtl, CredentialTtl) \in Nat /\ Least(now + RefreshTtl, CredentialTtl) \in Nat
  BY <1>2 DEF Least
<1> QED BY <1>1, <1>3, Zenon DEF Successor, Row, SessionRows

\* A transaction that ends, or only reads, leaves the other transactions alone.
LEMMA Finished ==
  ASSUME running \in [Transactions -> RunningRecords], NEW t \in Transactions, Finish(t)
  PROVE  /\ running' \in [Transactions -> RunningRecords]
         /\ running'[t].kind = "none"
         /\ \A u \in Transactions \ {t} : running'[u] = running[u]
<1>1. NotRunning \in RunningRecords BY Zenon DEF NotRunning, RunningRecords
<1> QED BY <1>1, Zenon DEF Finish, NotRunning

(* What a transaction may be recorded as doing. *)
MayBecome(t, r) ==
  /\ r \in RunningRecords
  /\ r.kind \in {"issue", "revoke"} => r.device \in Installations
  /\ r.kind \in {"refresh", "rotate", "reuse"} => r.row \in DOMAIN session
  /\ r.kind = "rotate" => session[r.row].state = "active"
  /\ r.kind \in {"rotate", "reuse"} =>
       \A u \in Transactions \ {t} :
         running[u].kind \in {"rotate", "reuse"} => running[u].row # r.row

Moves(t) ==
  /\ running' \in [Transactions -> RunningRecords]
  /\ \A u \in Transactions \ {t} : running'[u] = running[u]
  /\ MayBecome(t, running'[t])

\* A transaction that starts, or goes on to hold a row no other holds, keeps the
\* invariant.
LEMMA TransactionMoves ==
  ASSUME SessionInv, NEW t \in Transactions, Moves(t),
         UNCHANGED <<sessionNow, credentialStatus, session>>
  PROVE  SessionInv'
<1>1. running \in [Transactions -> RunningRecords] BY Zenon DEF SessionInv, SessionTypes
<1>2. running' \in [Transactions -> RunningRecords] BY Zenon DEF Moves
<1>3. SessionTypes' BY <1>2, Zenon DEF SessionInv, SessionTypes
<1>4. RowsKnown' BY Zenon DEF SessionInv, RowsKnown, Moves, MayBecome
<1>5. RowLocks' BY DEF SessionInv, RowLocks, Moves, MayBecome
<1> QED BY <1>3, <1>4, <1>5, Zenon DEF SessionInv, FamiliesNamed, OneLiveToken

\* A statement that revokes rows no refresh holds, and ends its transaction, keeps
\* the invariant.
LEMMA RevocationEnds ==
  ASSUME SessionInv, NEW t \in Transactions, NEW states,
         FreeFor(t, running[t].rows), RevokeRows(running[t].rows, states), Finish(t),
         credentialStatus' \in [Installations -> {"active", "revoked"}], sessionNow' = sessionNow
  PROVE  SessionInv'
<1> DEFINE rows == running[t].rows
<1>1. session \in Seq(SessionRows) /\ running \in [Transactions -> RunningRecords]
  BY Zenon DEF SessionInv, SessionTypes
<1>2. /\ session' \in Seq(SessionRows) /\ DOMAIN session' = DOMAIN session
      /\ \A i \in DOMAIN session :
           /\ session'[i].family = session[i].family
           /\ session'[i].generation = session[i].generation
           /\ session'[i].state \in {session[i].state, "revoked"}
           /\ i \notin rows => session'[i] = session[i]
  BY <1>1, RowsRevoked, Zenon
<1>3. /\ running' \in [Transactions -> RunningRecords] /\ running'[t].kind = "none"
      /\ \A u \in Transactions \ {t} : running'[u] = running[u]
  BY <1>1, Finished, Zenon
<1>4. \A u \in Transactions \ {t} :
        running[u].kind \in {"rotate", "reuse"} => running[u].row \notin rows
  BY Zenon DEF FreeFor, LockedBy
<1> HIDE DEF rows
<1>5. SessionTypes' BY <1>2, <1>3, Zenon DEF SessionInv, SessionTypes
<1>6. RowsKnown' BY <1>2, <1>3, Zenon DEF SessionInv, RowsKnown
<1>7. RowLocks' BY <1>2, <1>3, <1>4 DEF SessionInv, RowLocks, RowsKnown
<1>8. FamiliesNamed' BY <1>2, Zenon DEF SessionInv, FamiliesNamed
<1>9. OneLiveToken' BY <1>2, Zenon DEF SessionInv, OneLiveToken
<1> QED BY <1>5, <1>6, <1>7, <1>8, <1>9, Zenon DEF SessionInv

\* The first row of a family does not belong to a family that is there already.
LEMMA IssueEndStep ==
  ASSUME SessionInv, NEW t \in Transactions, IssueEnd(t)
  PROVE  SessionInv'
<1> DEFINE n == Len(session) + 1
<1> DEFINE row == Row(n, running[t].device, 0, running[t].now)
<1>1. session \in Seq(SessionRows) /\ running \in [Transactions -> RunningRecords]
      /\ n \in Nat /\ DOMAIN session = 1..Len(session) /\ n \notin DOMAIN session
  BY DEF SessionInv, SessionTypes
<1>2. running[t].device \in Installations /\ running[t].now \in Nat
  BY <1>1, Zenon DEF IssueEnd, SessionInv, RowsKnown, RunningRecords
<1>3. row \in SessionRows /\ row.family = n BY <1>1, <1>2, RowTyped
<1>4. session' = Append(session, row) BY Zenon DEF IssueEnd
<1> HIDE DEF row
<1>5. /\ session' \in Seq(SessionRows) /\ DOMAIN session' = DOMAIN session \cup {n}
      /\ session'[n] = row /\ \A i \in DOMAIN session : session'[i] = session[i]
  BY <1>1, <1>3, <1>4, RowAppended
<1>6. /\ running' \in [Transactions -> RunningRecords] /\ running'[t].kind = "none"
      /\ \A u \in Transactions \ {t} : running'[u] = running[u]
  BY <1>1, Finished, Zenon DEF IssueEnd
<1>7. UNCHANGED <<sessionNow, credentialStatus>> BY Zenon DEF IssueEnd
<1>8. SessionTypes' BY <1>5, <1>6, <1>7, Zenon DEF SessionInv, SessionTypes
<1>9. RowsKnown' BY <1>5, <1>6, Zenon DEF SessionInv, RowsKnown
<1>10. RowLocks' BY <1>5, <1>6 DEF SessionInv, RowLocks, RowsKnown
<1>11. \A i \in DOMAIN session :
        i \in Nat /\ i < n /\ session[i].family <= i /\ session[i].family \in Nat
  BY <1>1, RowFields, Zenon DEF SessionInv, FamiliesNamed
<1> HIDE DEF n
<1>12. FamiliesNamed' BY <1>1, <1>3, <1>5, <1>11 DEF FamiliesNamed
<1>13. ASSUME NEW i \in DOMAIN session', NEW j \in DOMAIN session',
              session'[i].family = session'[j].family, i < j
       PROVE  i \in DOMAIN session /\ j \in DOMAIN session
  BY <1>1, <1>3, <1>5, <1>11, <1>13
<1>14. OneLiveToken' BY <1>5, <1>13, Zenon DEF SessionInv, OneLiveToken
<1> QED BY <1>8, <1>9, <1>10, <1>12, <1>14, Zenon DEF SessionInv

\* The rotated row was the family's last and only live one, and its successor is
\* the last afterwards.
LEMMA RotateEndStep ==
  ASSUME SessionInv, NEW t \in Transactions, RotateEnd(t)
  PROVE  /\ SessionInv'
         /\ \A i \in DOMAIN session :
              session[i].state = "revoked" => session'[i].state = "revoked"
<1> DEFINE n == Len(session) + 1
<1> DEFINE k == running[t].row
<1> DEFINE marked == [session EXCEPT ![k].state = "rotated"]
<1> DEFINE row == Successor(session[k], running[t].now)
<1>1. session \in Seq(SessionRows) /\ running \in [Transactions -> RunningRecords]
      /\ n \in Nat /\ DOMAIN session = 1..Len(session) /\ n \notin DOMAIN session
  BY DEF SessionInv, SessionTypes
<1>2. k \in DOMAIN session /\ session[k].state = "active" /\ running[t].now \in Nat
      /\ session[k] \in SessionRows /\ session[k].generation \in Nat
      /\ session[k].family \in Nat /\ session[k].device \in Installations
  <2>1. k \in DOMAIN session /\ session[k].state = "active" /\ running[t] \in RunningRecords
    BY <1>1, Zenon DEF RotateEnd, SessionInv, RowsKnown, RowLocks
  <2>2. running[t].now \in Nat BY <2>1, Zenon DEF RunningRecords
  <2> QED BY <1>1, <2>1, <2>2, RowFields, Zenon
<1>3. row \in SessionRows /\ row.family = session[k].family
      /\ row.generation = session[k].generation + 1
  BY <1>2, SuccessorRow, Zenon
<1>4. session' = Append(marked, row) BY Zenon DEF RotateEnd, Successor
<1>5. marked[k] = Marked(session[k], "rotated") /\ DOMAIN marked = DOMAIN session
      /\ \A i \in DOMAIN session \ {k} : marked[i] = session[i]
  BY <1>2, Zenon DEF Marked
<1>6. Marked(session[k], "rotated") \in SessionRows
      /\ Marked(session[k], "rotated").state = "rotated"
      /\ Marked(session[k], "rotated").family = session[k].family
      /\ Marked(session[k], "rotated").generation = session[k].generation
  BY <1>2, RowMarked, Zenon
<1>7. marked \in Seq(SessionRows) /\ Len(marked) = Len(session)
  <2>1. session \in [1..Len(session) -> SessionRows] /\ Len(session) \in Nat BY <1>1
  <2>2. marked = [session EXCEPT ![k] = Marked(session[k], "rotated")] BY Zenon DEF Marked
  <2> HIDE DEF marked
  <2>3. marked \in [1..Len(session) -> SessionRows] BY <1>6, <2>1, <2>2, Zenon
  <2>4. marked \in Seq(SessionRows) BY <2>1, <2>3
  <2>5. DOMAIN marked = 1..Len(marked) /\ Len(marked) \in Nat BY <2>4
  <2> QED BY <1>1, <1>5, <2>1, <2>4, <2>5
<1> HIDE DEF row, marked
<1>8. /\ session' \in Seq(SessionRows) /\ DOMAIN session' = DOMAIN session \cup {n}
      /\ session'[n] = row /\ \A i \in DOMAIN session : session'[i] = marked[i]
  BY <1>3, <1>4, <1>5, <1>7, RowAppended
<1>9. /\ \A i \in DOMAIN session \ {k} : session'[i] = session[i]
      /\ session'[k].state = "rotated" /\ session'[k].family = session[k].family
      /\ session'[k].generation = session[k].generation
  BY <1>2, <1>5, <1>6, <1>8, Zenon
<1>10. /\ running' \in [Transactions -> RunningRecords] /\ running'[t].kind = "none"
       /\ \A u \in Transactions \ {t} : running'[u] = running[u]
  BY <1>1, Finished, Zenon DEF RotateEnd
<1>11. UNCHANGED <<sessionNow, credentialStatus>> BY Zenon DEF RotateEnd
<1>12. SessionTypes' BY <1>8, <1>10, <1>11, Zenon DEF SessionInv, SessionTypes
<1>13. RowsKnown' BY <1>8, <1>10, Zenon DEF SessionInv, RowsKnown
<1>14. \A u \in Transactions \ {t} : running[u].kind = "rotate" => running[u].row # k
  BY Zenon DEF RotateEnd, SessionInv, RowLocks
<1>15. \A i \in DOMAIN session :
        i \in Nat /\ i < n /\ session[i].family <= i /\ session[i].family \in Nat
                                 /\ session[i].generation \in Nat
  BY <1>1, RowFields, Zenon DEF SessionInv, FamiliesNamed
<1>16. \A i \in DOMAIN session : session[i].family = session[k].family /\ i # k =>
         /\ session[i].generation < session[k].generation
         /\ session[i].state # "active"
  BY <1>2, <1>15 DEF SessionInv, OneLiveToken
<1> HIDE DEF n, k
<1>17. RowLocks'
  BY <1>8, <1>9, <1>10, <1>14 DEF SessionInv, RowLocks, RowsKnown
<1>18. FamiliesNamed'
  <2>1. \A i \in DOMAIN session : session'[i].family = session[i].family BY <1>9, Zenon
  <2>2. session'[n].family <= n BY <1>1, <1>2, <1>3, <1>8, <1>15
  <2> QED BY <1>8, <1>15, <2>1, <2>2, Zenon DEF FamiliesNamed
<1>19. ASSUME NEW i \in DOMAIN session', NEW j \in DOMAIN session',
              session'[i].family = session'[j].family, i < j
       PROVE  session'[i].generation < session'[j].generation /\ session'[i].state # "active"
  <2>1. i \in DOMAIN session BY <1>1, <1>8, <1>15, <1>19
  <2>2. CASE j \in DOMAIN session
    <3>1. session[i].family = session[j].family BY <1>9, <1>19, <2>1, <2>2, Zenon
    <3>2. session[i].generation < session[j].generation /\ session[i].state # "active"
      BY <1>19, <2>1, <2>2, <3>1, Zenon DEF SessionInv, OneLiveToken
    <3> QED BY <1>2, <1>9, <2>1, <2>2, <3>2, Zenon
  <2>3. CASE j = n
    <3>1. session[i].family = session[k].family BY <1>3, <1>8, <1>9, <1>19, <2>1, <2>3, Zenon
    <3>2. session'[i].generation <= session[k].generation /\ session'[i].state # "active"
          /\ session'[i].generation \in Nat
      BY <1>2, <1>9, <1>15, <1>16, <2>1, <3>1
    <3> QED BY <1>2, <1>3, <1>8, <2>3, <3>2
  <2> QED BY <1>8, <2>2, <2>3, Zenon
<1>20. OneLiveToken' BY <1>19, Zenon DEF OneLiveToken
<1>21. \A i \in DOMAIN session : session[i].state = "revoked" => session'[i].state = "revoked"
  BY <1>2, <1>9, Zenon
<1> QED BY <1>12, <1>13, <1>17, <1>18, <1>20, <1>21, Zenon DEF SessionInv

\* The lock of a refresh: the row is free, and active when it is to be rotated.
LEMMA RefreshLockStep ==
  ASSUME SessionInv, NEW t \in Transactions, RefreshLock(t)
  PROVE  SessionInv'
<1> DEFINE i == running[t].row
<1>1. running \in [Transactions -> RunningRecords] /\ session \in Seq(SessionRows)
  BY Zenon DEF SessionInv, SessionTypes
<1>2. running[t] \in RunningRecords /\ i \in DOMAIN session
  BY <1>1, Zenon DEF RefreshLock, SessionInv, RowsKnown
<1>3. \A u \in Transactions \ {t} :
        running[u].kind \in {"rotate", "reuse"} => running[u].row # i
  BY Zenon DEF RefreshLock, RowIsFree, FreeFor, LockedBy
<1>4. UNCHANGED <<sessionNow, credentialStatus, session>> BY Zenon DEF RefreshLock
<1>5. CASE running' = [running EXCEPT ![t].kind = "reuse",
                                      ![t].rows = FamilyRows(session[i].family)]
  <2> DEFINE rows == FamilyRows(session[i].family)
  <2>1. rows \in SUBSET Nat BY <1>1, RowFields, Zenon DEF FamilyRows
  <2>2. running' = [running EXCEPT ![t].kind = "reuse", ![t].rows = rows] BY <1>5, Zenon
  <2> HIDE DEF rows
  <2>3. running'[t] = [[running[t] EXCEPT !.kind = "reuse"] EXCEPT !.rows = rows]
        /\ \A u \in Transactions \ {t} : running'[u] = running[u]
    BY <1>1, <2>2, Zenon
  <2>5. running'[t].kind = "reuse" /\ running'[t].row = i BY <1>2, <2>3, Zenon DEF RunningRecords
  <2>6. running'[t] \in RunningRecords BY <1>2, <2>1, <2>3, Zenon DEF RunningRecords
  <2>7. running' \in [Transactions -> RunningRecords]
    <3> DEFINE reusing == [running EXCEPT ![t].kind = "reuse"]
    <3>1. reusing \in [Transactions -> RunningRecords]
      <4>1. [running[t] EXCEPT !.kind = "reuse"] \in RunningRecords
        BY <1>2, Zenon DEF RunningRecords
      <4> QED BY <1>1, <4>1, Zenon
    <3>2. running' = [reusing EXCEPT ![t].rows = rows] BY <2>2, Zenon
    <3> HIDE DEF reusing
    <3>3. running' = [reusing EXCEPT ![t] = running'[t]] BY <3>1, <3>2, Zenon
    <3> QED BY <2>6, <3>1, <3>3, Zenon
  <2>8. Moves(t) BY <1>2, <1>3, <2>3, <2>5, <2>6, <2>7, Zenon DEF Moves, MayBecome
  <2> QED BY <1>4, <2>8, TransactionMoves, Zenon
<1>6. CASE Finish(t)
  <2>1. NotRunning \in RunningRecords /\ NotRunning.kind = "none"
    BY Zenon DEF NotRunning, RunningRecords
  <2>2. MayBecome(t, NotRunning) BY <2>1, Zenon DEF MayBecome
  <2>3. /\ running' \in [Transactions -> RunningRecords] /\ running'[t] = NotRunning
        /\ \A u \in Transactions \ {t} : running'[u] = running[u]
    BY <1>1, <1>6, <2>1, Zenon DEF Finish
  <2>4. Moves(t) BY <2>2, <2>3, Zenon DEF Moves
  <2> QED BY <1>4, <2>4, TransactionMoves
<1>7. CASE Refreshable(t) /\ running' = [running EXCEPT ![t].kind = "rotate"]
  <2>1. running'[t] = [running[t] EXCEPT !.kind = "rotate"]
        /\ \A u \in Transactions \ {t} : running'[u] = running[u]
    BY <1>1, <1>7, Zenon
  <2>2. running'[t].kind = "rotate" /\ running'[t].row = i BY <1>2, <2>1, Zenon DEF RunningRecords
  <2>3. running'[t] \in RunningRecords BY <1>2, <2>1, Zenon DEF RunningRecords
  <2>4. running' \in [Transactions -> RunningRecords]
    <3>1. running' = [running EXCEPT ![t] = running'[t]] BY <1>1, <1>7, <2>1, Zenon
    <3> QED BY <1>1, <2>3, <3>1, Zenon
  <2>5. session[i].state = "active" BY <1>7, Zenon DEF Refreshable
  <2>6. Moves(t) BY <1>2, <1>3, <2>1, <2>2, <2>3, <2>4, <2>5, Zenon DEF Moves, MayBecome
  <2> QED BY <1>4, <2>6, TransactionMoves
<1> QED BY <1>5, <1>6, <1>7, Zenon DEF RefreshLock

\* A session's issue starts with a read of the credential.
LEMMA IssueBeginStep ==
  ASSUME SessionInv, NEW t \in Transactions, NEW d \in Installations, IssueBegin(t, d)
  PROVE  SessionInv'
<1>1. sessionNow \in Nat /\ session \in Seq(SessionRows) /\ DOMAIN session \subseteq Nat
      /\ running \in [Transactions -> RunningRecords]
  BY RowFields, Zenon DEF SessionInv, SessionTypes
<1> DEFINE r == [NotRunning EXCEPT !.kind = "issue", !.device = d, !.now = sessionNow]
<1>2. running' = [running EXCEPT ![t] = r] BY Zenon DEF IssueBegin
<1>3. UNCHANGED <<sessionNow, credentialStatus, session>> BY Zenon DEF IssueBegin
<1>4. r \in RunningRecords BY <1>1, Zenon DEF NotRunning, RunningRecords
<1>5. r.kind = "issue" /\ r.device = d BY Zenon DEF NotRunning
<1> HIDE DEF r
<1>6. MayBecome(t, r) BY <1>4, <1>5, Zenon DEF MayBecome
<1>7. /\ running' \in [Transactions -> RunningRecords] /\ running'[t] = r
      /\ \A u \in Transactions \ {t} : running'[u] = running[u]
  BY <1>1, <1>2, <1>4, Zenon
<1>8. Moves(t) BY <1>6, <1>7, Zenon DEF Moves
<1> QED BY <1>3, <1>8, TransactionMoves, Zenon

\* A refresh starts with a read of a row that is there.
LEMMA RefreshBeginStep ==
  ASSUME SessionInv, NEW t \in Transactions, NEW i \in DOMAIN session, RefreshBegin(t, i)
  PROVE  SessionInv'
<1>1. sessionNow \in Nat /\ session \in Seq(SessionRows) /\ DOMAIN session \subseteq Nat
      /\ running \in [Transactions -> RunningRecords]
  BY RowFields, Zenon DEF SessionInv, SessionTypes
<1> DEFINE status == credentialStatus[session[i].device]
<1> DEFINE r == [NotRunning EXCEPT !.kind = "refresh", !.row = i, !.now = sessionNow,
                                   !.credential = status]
<1>2. running' = [running EXCEPT ![t] = r] BY Zenon DEF RefreshBegin
<1>3. UNCHANGED <<sessionNow, credentialStatus, session>> BY Zenon DEF RefreshBegin
<1>4. status \in {"none", "active", "revoked"}
  BY <1>1, RowFields, Zenon DEF SessionInv, SessionTypes
<1> HIDE DEF status
<1>5. r \in RunningRecords BY <1>1, <1>4, Zenon DEF NotRunning, RunningRecords
<1>6. r.kind = "refresh" /\ r.row = i BY Zenon DEF NotRunning
<1> HIDE DEF r
<1>7. MayBecome(t, r) BY <1>5, <1>6, Zenon DEF MayBecome
<1>8. /\ running' \in [Transactions -> RunningRecords] /\ running'[t] = r
      /\ \A u \in Transactions \ {t} : running'[u] = running[u]
  BY <1>1, <1>2, <1>5, Zenon
<1>9. Moves(t) BY <1>7, <1>8, Zenon DEF Moves
<1> QED BY <1>3, <1>9, TransactionMoves, Zenon

\* A logout starts with the rows of the family that are there.
LEMMA LogoutBeginStep ==
  ASSUME SessionInv, NEW t \in Transactions, NEW i \in DOMAIN session, LogoutBegin(t, i)
  PROVE  SessionInv'
<1>1. sessionNow \in Nat /\ session \in Seq(SessionRows) /\ DOMAIN session \subseteq Nat
      /\ running \in [Transactions -> RunningRecords]
  BY RowFields DEF SessionInv, SessionTypes
<1> DEFINE rows == FamilyRows(session[i].family)
<1> DEFINE r == [NotRunning EXCEPT !.kind = "logout", !.row = i, !.rows = rows]
<1>2. running' = [running EXCEPT ![t] = r] BY Zenon DEF LogoutBegin
<1>3. UNCHANGED <<sessionNow, credentialStatus, session>> BY Zenon DEF LogoutBegin
<1>4. rows \in SUBSET Nat BY <1>1, Zenon DEF FamilyRows
<1> HIDE DEF rows
<1>5. r \in RunningRecords BY <1>1, <1>4, Zenon DEF NotRunning, RunningRecords
<1>6. r.kind = "logout" BY Zenon DEF NotRunning
<1> HIDE DEF r
<1>7. MayBecome(t, r) BY <1>5, <1>6, Zenon DEF MayBecome
<1>8. /\ running' \in [Transactions -> RunningRecords] /\ running'[t] = r
      /\ \A u \in Transactions \ {t} : running'[u] = running[u]
  BY <1>1, <1>2, <1>5
<1>9. Moves(t) BY <1>7, <1>8 DEF Moves
<1> QED BY <1>3, <1>9, TransactionMoves

\* A device's revocation starts with the live rows of the device.
LEMMA RevokeBeginStep ==
  ASSUME SessionInv, NEW t \in Transactions, NEW i \in DOMAIN session, NEW d \in Installations,
         RevokeBegin(t, i, d)
  PROVE  SessionInv'
<1>1. sessionNow \in Nat /\ session \in Seq(SessionRows) /\ DOMAIN session \subseteq Nat
      /\ running \in [Transactions -> RunningRecords]
  BY RowFields, Zenon DEF SessionInv, SessionTypes
<1> DEFINE rows == { k \in DOMAIN session : session[k].device = d /\ session[k].state = "active" }
<1> DEFINE r == [NotRunning EXCEPT !.kind = "revoke", !.device = d, !.rows = rows]
<1>2. running' = [running EXCEPT ![t] = r] BY Zenon DEF RevokeBegin
<1>3. UNCHANGED <<sessionNow, credentialStatus, session>> BY Zenon DEF RevokeBegin
<1>4. rows \in SUBSET Nat BY <1>1, Zenon
<1> HIDE DEF rows
<1>5. r \in RunningRecords BY <1>1, <1>4, Zenon DEF NotRunning, RunningRecords
<1>6. r.kind = "revoke" /\ r.device = d BY Zenon DEF NotRunning
<1> HIDE DEF r
<1>7. MayBecome(t, r) BY <1>5, <1>6, Zenon DEF MayBecome
<1>8. /\ running' \in [Transactions -> RunningRecords] /\ running'[t] = r
      /\ \A u \in Transactions \ {t} : running'[u] = running[u]
  BY <1>1, <1>2, <1>5, Zenon
<1>9. Moves(t) BY <1>7, <1>8, Zenon DEF Moves
<1> QED BY <1>3, <1>9, TransactionMoves, Zenon

(* No row is taken out of revocation. *)
Kept ==
  \A i \in DOMAIN session : session[i].state = "revoked" => session'[i].state = "revoked"

\* The invariant holds initially.
LEMMA SessionsStart ==
  ASSUME SessionInit
  PROVE  SessionInv
<1>1. NotRunning \in RunningRecords /\ NotRunning.kind = "none"
  BY Zenon DEF NotRunning, RunningRecords
<1>2. SessionTypes BY <1>1 DEF SessionInit, SessionTypes
<1>3. DOMAIN session = {} BY DEF SessionInit
<1>4. \A t \in Transactions : running[t].kind = "none" BY <1>1, Zenon DEF SessionInit
<1> QED BY <1>2, <1>3, <1>4, Zenon DEF SessionInv, RowsKnown, RowLocks, FamiliesNamed, OneLiveToken

\* Every step keeps the invariant, and revoked rows revoked.
LEMMA SessionStep ==
  ASSUME SessionInv, [SessionNext]_sessionVars
  PROVE  SessionInv' /\ Kept
<1> USE DEF Kept
<1>0. session \in Seq(SessionRows) BY Zenon DEF SessionInv, SessionTypes
<1>1. CASE UNCHANGED sessionVars
  BY <1>1, Zenon
     DEF sessionVars, SessionInv, SessionTypes, RowsKnown, RowLocks, FamiliesNamed, OneLiveToken
<1>2. CASE SessionTick
  BY <1>2
     DEF SessionTick, SessionInv, SessionTypes, RowsKnown, RowLocks, FamiliesNamed, OneLiveToken
<1>3. ASSUME NEW t \in Transactions, IssueEnd(t) PROVE SessionInv' /\ Kept
  <2>1. \A i \in DOMAIN session : session'[i] = session[i] BY <1>0, <1>3 DEF IssueEnd
  <2> QED BY <1>3, <2>1, IssueEndStep, Zenon
<1>4. ASSUME NEW t \in Transactions, RefreshLock(t) PROVE SessionInv' /\ Kept
  <2>1. session' = session BY <1>4, Zenon DEF RefreshLock
  <2> QED BY <1>4, <2>1, RefreshLockStep, Zenon
<1>5. ASSUME NEW t \in Transactions, RotateEnd(t) PROVE SessionInv' /\ Kept
  BY <1>5, RotateEndStep, Zenon
<1>6. ASSUME NEW t \in Transactions, ReuseEnd(t) \/ LogoutEnd(t) PROVE SessionInv' /\ Kept
  <2>1. /\ FreeFor(t, running[t].rows) /\ RevokeRows(running[t].rows, {"active", "rotated"})
        /\ Finish(t) /\ credentialStatus' = credentialStatus /\ sessionNow' = sessionNow
    BY <1>6, Zenon DEF ReuseEnd, LogoutEnd, RevokeFamily
  <2>2. credentialStatus' \in [Installations -> {"active", "revoked"}]
    BY <2>1, Zenon DEF SessionInv, SessionTypes
  <2>3. SessionInv' BY <2>1, <2>2, RevocationEnds, Zenon
  <2>4. \A k \in DOMAIN session : session'[k].state \in {session[k].state, "revoked"}
    BY <1>0, <2>1, RowsRevoked, Zenon
  <2> QED BY <2>3, <2>4, Zenon
<1>7. ASSUME NEW t \in Transactions, RevokeEnd(t) PROVE SessionInv' /\ Kept
  <2>1. /\ FreeFor(t, running[t].rows) /\ RevokeRows(running[t].rows, {"active"})
        /\ Finish(t) /\ sessionNow' = sessionNow
        /\ credentialStatus' = [credentialStatus EXCEPT ![running[t].device] = "revoked"]
    BY <1>7, Zenon DEF RevokeEnd
  <2>2. credentialStatus' \in [Installations -> {"active", "revoked"}]
    <3>1. credentialStatus \in [Installations -> {"active", "revoked"}]
      BY Zenon DEF SessionInv, SessionTypes
    <3> QED BY <2>1, <3>1, Zenon
  <2>3. SessionInv' BY <2>1, <2>2, RevocationEnds, Zenon
  <2>4. \A k \in DOMAIN session : session'[k].state \in {session[k].state, "revoked"}
    BY <1>0, <2>1, RowsRevoked, Zenon
  <2> QED BY <2>3, <2>4
<1>8. ASSUME NEW t \in Transactions, DeadlockAbort(t) PROVE SessionInv' /\ Kept
  <2>1. NotRunning \in RunningRecords /\ NotRunning.kind = "none"
    BY Zenon DEF NotRunning, RunningRecords
  <2>2. MayBecome(t, NotRunning) BY <2>1, Zenon DEF MayBecome
  <2>3. /\ running' \in [Transactions -> RunningRecords] /\ running'[t] = NotRunning
        /\ \A u \in Transactions \ {t} : running'[u] = running[u]
    BY <1>8, <2>1, Zenon DEF DeadlockAbort, Finish, SessionInv, SessionTypes
  <2>4. Moves(t) BY <2>2, <2>3, Zenon DEF Moves
  <2>5. UNCHANGED <<sessionNow, credentialStatus, session>> BY <1>8, Zenon DEF DeadlockAbort
  <2> QED BY <2>4, <2>5, TransactionMoves, Zenon
<1>9. ASSUME NEW t \in Transactions, NEW d \in Installations, IssueBegin(t, d)
      PROVE  SessionInv' /\ Kept
  <2>1. session' = session BY <1>9, Zenon DEF IssueBegin
  <2> QED BY <1>9, <2>1, IssueBeginStep, Zenon
<1>10. ASSUME NEW t \in Transactions, NEW i \in DOMAIN session, RefreshBegin(t, i)
       PROVE  SessionInv' /\ Kept
  <2>1. session' = session BY <1>10, Zenon DEF RefreshBegin
  <2> QED BY <1>10, <2>1, RefreshBeginStep, Zenon
<1>11. ASSUME NEW t \in Transactions, NEW i \in DOMAIN session, LogoutBegin(t, i)
       PROVE  SessionInv' /\ Kept
  <2>1. session' = session BY <1>11, Zenon DEF LogoutBegin
  <2> QED BY <1>11, <2>1, LogoutBeginStep
<1>12. ASSUME NEW t \in Transactions, NEW i \in DOMAIN session, NEW d \in Installations,
              RevokeBegin(t, i, d)
       PROVE  SessionInv' /\ Kept
  <2>1. session' = session BY <1>12, Zenon DEF RevokeBegin
  <2> QED BY <1>12, <2>1, RevokeBeginStep, Zenon
<1> QED
  BY <1>1, <1>2, <1>3, <1>4, <1>5, <1>6, <1>7, <1>8, <1>9, <1>10, <1>11, <1>12, Zenon
     DEF SessionNext

\* At most one token of a family is live and none of a revoked device
\* authenticates, for any number of devices, sessions and transactions that issue,
\* refresh, log out and revoke at once (refreshSession, revokeInstallation).
THEOREM SessionsAlwaysSafe == SessionSpec => []SessionsSafe
<1>1. SessionInv => SessionsSafe
  <2> SUFFICES ASSUME SessionInv PROVE SessionsSafe BY Zenon
  <2>1. LockedOut BY Zenon DEF LockedOut, Authenticates
  <2> QED BY <2>1, Zenon DEF SessionInv, SessionsSafe
<1> QED BY <1>1, SessionsStart, SessionStep, PTL DEF SessionSpec

\* Once revoked, a session's row stays revoked: no refresh that overlaps a logout,
\* a reuse or a device's revocation brings it back (refreshSession's row lock).
THEOREM RevocationIsFinal == SessionSpec => RevokedForGood
<1>1. SessionInv /\ [SessionNext]_sessionVars =>
        [\A i \in DOMAIN session :
           session[i].state = "revoked" => session'[i].state = "revoked"]_sessionVars
  BY SessionStep, Zenon DEF Kept
<1> QED BY <1>1, SessionsStart, SessionStep, PTL DEF SessionSpec, RevokedForGood

-----------------------------------------------------------------------------
(* Eligibility grants and their recheck.                                   *)

GrantRows == [state : {"none", "active", "suspended", "revoked", "expired"},
              anchor : Anchors \cup {RelayAnchor}, until : Nat]
PassRecords == [at : {"idle", "checking"}, todo : SUBSET Anchors, suspend : SUBSET Chains,
                due : SUBSET GrantIds]

GrantTypes ==
    /\ grantNow \in Nat /\ orphaned \in SUBSET Anchors
    /\ eligibility \in [GrantIds -> GrantRows]
    /\ claim \in [GrantIds -> Anchors \cup {RelayAnchor}]
    /\ recheck \in PassRecords /\ outages \in SUBSET Chains

\* A grant that a pass must end is not born again: only a grant that is not there
\* yet is being claimed, and those the pass has seen are there.
ClaimsPrecede ==
    /\ \A g \in GrantIds : claim[g] # RelayAnchor => eligibility[g].state = "none"
    /\ \A g \in recheck.due : eligibility[g].state # "none"

\* What is left of the pass covers every grant it still has to end: its anchor is
\* to be asked about, or its chain to be suspended.
Covered(g) ==
    /\ recheck.at = "checking"
    /\ eligibility[g].anchor \in orphaned
    /\ \/ eligibility[g].anchor \in recheck.todo
       \/ ChainOf[eligibility[g].anchor] \in recheck.suspend
DueCovered == \A g \in recheck.due : eligibility[g].state = "active" => Covered(g)

\* A chain is noted for suspension only when its providers gave no agreed answer.
SuspensionsFounded == recheck.suspend \subseteq outages

GrantInv ==
    /\ GrantTypes /\ ClaimsPrecede /\ DueCovered /\ SuspensionsFounded
    /\ OutageStaysOnChain

\* Rows whose state alone is set keep their anchor; all others stay as they are.
LEMMA StatesSet ==
  ASSUME GrantTypes, NEW rows \in SUBSET GrantIds, NEW s \in {"suspended", "revoked", "expired"},
         SetState(rows, s)
  PROVE  /\ eligibility' \in [GrantIds -> GrantRows]
         /\ \A g \in GrantIds : eligibility'[g].anchor = eligibility[g].anchor
         /\ \A g \in rows : eligibility'[g].state = s
         /\ \A g \in GrantIds \ rows : eligibility'[g].state = eligibility[g].state
<1>1. eligibility \in [GrantIds -> GrantRows] BY Zenon DEF GrantTypes
<1>2. \A g \in GrantIds : [eligibility[g] EXCEPT !.state = s] \in GrantRows
  BY <1>1, Zenon DEF GrantRows
<1>3. \A g \in GrantIds : /\ [eligibility[g] EXCEPT !.state = s].anchor = eligibility[g].anchor
                          /\ [eligibility[g] EXCEPT !.state = s].state = s
  BY <1>1, Zenon DEF GrantRows
<1> QED BY <1>1, <1>2, <1>3, Zenon DEF SetState

LEMMA GrantStart == ASSUME GrantInit PROVE GrantInv
<1>1. NoGrantRow \in GrantRows /\ NoPass \in PassRecords
      /\ NoGrantRow.state = "none" /\ NoPass.due = {} /\ NoPass.suspend = {}
  BY Zenon DEF NoGrantRow, NoPass, GrantRows, PassRecords
<1>2. GrantTypes BY <1>1, Zenon DEF GrantInit, GrantTypes
<1> QED BY <1>1, <1>2, Zenon DEF GrantInit, GrantInv, ClaimsPrecede, DueCovered, SuspensionsFounded,
                          OutageStaysOnChain

\* Verification of a purchase touches the claim of a grant that is not there.
LEMMA VerifyStep ==
  ASSUME GrantInv, NEW g \in GrantIds, NEW b \in Anchors, VerifyPurchaseClaim(g, b)
  PROVE  GrantInv'
<1>1. UNCHANGED <<grantNow, orphaned, eligibility, recheck, outages>>
      /\ eligibility[g].state = "none" /\ claim' = [claim EXCEPT ![g] = b]
  BY Zenon DEF VerifyPurchaseClaim
<1>2. GrantTypes' BY <1>1, Zenon DEF GrantInv, GrantTypes
<1>3. ClaimsPrecede' BY <1>1, Zenon DEF GrantInv, GrantTypes, ClaimsPrecede
<1> QED BY <1>1, <1>2, <1>3, Zenon
           DEF GrantInv, DueCovered, Covered, SuspensionsFounded, OutageStaysOnChain

\* A row appears where there was none.
LEMMA GrantInserted ==
  ASSUME GrantInv, NEW g \in GrantIds, eligibility[g].state = "none",
         NEW row \in GrantRows, row.state = "active",
         eligibility' = [eligibility EXCEPT ![g] = row],
         claim' \in [GrantIds -> Anchors \cup {RelayAnchor}], claim'[g] = RelayAnchor,
         \A h \in GrantIds \ {g} : claim'[h] = claim[h],
         UNCHANGED <<grantNow, orphaned, recheck, outages>>
  PROVE  GrantInv'
<1>1. GrantTypes' BY Zenon DEF GrantInv, GrantTypes
<1>2. eligibility'[g] = row /\ \A h \in GrantIds \ {g} : eligibility'[h] = eligibility[h]
  BY Zenon DEF GrantInv, GrantTypes
<1>3. g \notin recheck.due BY Zenon DEF GrantInv, ClaimsPrecede
<1>4. recheck.due \subseteq GrantIds BY Zenon DEF GrantInv, GrantTypes, PassRecords
<1>5. ClaimsPrecede' BY <1>2, <1>3, <1>4, Zenon DEF GrantInv, ClaimsPrecede
<1>6. DueCovered' BY <1>2, <1>3, <1>4 DEF GrantInv, DueCovered, Covered
<1>7. OutageStaysOnChain' BY <1>2 DEF GrantInv, OutageStaysOnChain
<1> QED BY <1>1, <1>5, <1>6, <1>7, Zenon DEF GrantInv, SuspensionsFounded

LEMMA InsertStep ==
  ASSUME GrantInv, NEW g \in GrantIds, InsertPurchaseGrant(g)
  PROVE  GrantInv'
<1>1. claim[g] # RelayAnchor /\ eligibility[g].state = "none"
      /\ claim \in [GrantIds -> Anchors \cup {RelayAnchor}]
  BY Zenon DEF InsertPurchaseGrant, GrantInv, ClaimsPrecede, GrantTypes
<1>2. claim' = [claim EXCEPT ![g] = RelayAnchor] /\ UNCHANGED <<grantNow, orphaned, recheck, outages>>
  BY Zenon DEF InsertPurchaseGrant
<1>3. claim' \in [GrantIds -> Anchors \cup {RelayAnchor}] /\ claim'[g] = RelayAnchor
      /\ \A h \in GrantIds \ {g} : claim'[h] = claim[h]
  BY <1>1, <1>2, Zenon
<1> DEFINE row == [state |-> "active", anchor |-> claim[g], until |-> grantNow + LeaseTicks]
<1>4. CASE eligibility' = [eligibility EXCEPT ![g] = row]
  <2>1. row \in GrantRows /\ row.state = "active"
    BY <1>1, GrantConstants DEF GrantInv, GrantTypes, GrantRows
  <2> HIDE DEF row
  <2> QED BY <1>1, <1>2, <1>3, <1>4, <2>1, GrantInserted, Zenon
<1>5. CASE UNCHANGED eligibility
  <2>1. GrantTypes' BY <1>2, <1>3, <1>5, Zenon DEF GrantInv, GrantTypes
  <2>2. ClaimsPrecede' BY <1>2, <1>3, <1>5, Zenon DEF GrantInv, ClaimsPrecede
  <2> QED BY <1>2, <1>5, <2>1, <2>2, Zenon
          DEF GrantInv, DueCovered, Covered, SuspensionsFounded, OutageStaysOnChain
<1> QED BY <1>4, <1>5, Zenon DEF InsertPurchaseGrant

LEMMA RelayGrantStep ==
  ASSUME GrantInv, NEW g \in GrantIds, IssueRelayGrant(g)
  PROVE  GrantInv'
<1> DEFINE row == [state |-> "active", anchor |-> RelayAnchor, until |-> grantNow + LeaseTicks]
<1>1. row \in GrantRows /\ row.state = "active"
  BY GrantConstants DEF GrantInv, GrantTypes, GrantRows
<1>2. eligibility[g].state = "none" /\ claim[g] = RelayAnchor
      /\ eligibility' = [eligibility EXCEPT ![g] = row]
      /\ claim' = claim /\ UNCHANGED <<grantNow, orphaned, recheck, outages>>
  BY Zenon DEF IssueRelayGrant
<1>3. claim \in [GrantIds -> Anchors \cup {RelayAnchor}] BY Zenon DEF GrantInv, GrantTypes
<1> HIDE DEF row
<1> QED BY <1>1, <1>2, <1>3, GrantInserted, Zenon

\* A pass starts with every anchor of an active grant to be asked about.
LEMMA RecheckBeginStep == ASSUME GrantInv, RecheckBegin PROVE GrantInv'
<1> DEFINE r == [at |-> "checking", suspend |-> {},
                 todo |-> { eligibility[g].anchor : g \in Active } \ {RelayAnchor},
                 due |-> { g \in Active : eligibility[g].anchor \in orphaned }]
<1>1. recheck' = r /\ UNCHANGED <<grantNow, orphaned, eligibility, claim, outages>>
  BY Zenon DEF RecheckBegin
<1>2. GrantTypes BY Zenon DEF GrantInv
<1>3. Active \subseteq GrantIds /\ \A g \in Active : eligibility[g].state = "active"
  BY Zenon DEF Active
<1>4. \A g \in GrantIds : eligibility[g].anchor \in Anchors \cup {RelayAnchor}
  BY <1>2, Zenon DEF GrantTypes, GrantRows
<1>5. r \in PassRecords BY <1>3, <1>4, Zenon DEF PassRecords
<1>6. /\ r.at = "checking" /\ r.suspend = {}
      /\ \A g \in r.due : g \in Active /\ eligibility[g].anchor \in orphaned
      /\ \A g \in Active : eligibility[g].anchor # RelayAnchor => eligibility[g].anchor \in r.todo
  BY Zenon
<1> HIDE DEF r
<1>7. GrantTypes' BY <1>1, <1>2, <1>5, Zenon DEF GrantTypes
<1>8. ClaimsPrecede' BY <1>1, <1>3, <1>6, Zenon DEF GrantInv, ClaimsPrecede
<1>9. RelayAnchor \notin orphaned BY <1>2, GrantConstants, Zenon DEF GrantTypes
<1>10. DueCovered' BY <1>1, <1>6, <1>9, Zenon DEF DueCovered, Covered
<1>11. SuspensionsFounded' BY <1>1, <1>6, Zenon DEF SuspensionsFounded
<1> QED BY <1>1, <1>7, <1>8, <1>10, <1>11, Zenon DEF GrantInv, OutageStaysOnChain

LEMMA ChecksDoneIs ==
  ASSUME GrantTypes, NEW b \in Anchors
  PROVE  /\ ChecksDone(b) \in PassRecords /\ ChecksDone(b).at = recheck.at
         /\ ChecksDone(b).todo = recheck.todo \ {b} /\ ChecksDone(b).suspend = recheck.suspend
         /\ ChecksDone(b).due = recheck.due
BY Zenon DEF ChecksDone, GrantTypes, PassRecords

LEMMA NoAnswerIs ==
  ASSUME GrantTypes, NEW b \in Anchors
  PROVE  /\ NoAnswer(b) \in PassRecords /\ NoAnswer(b).at = recheck.at
         /\ NoAnswer(b).todo = recheck.todo \ {b}
         /\ NoAnswer(b).suspend = recheck.suspend \cup {ChainOf[b]}
         /\ NoAnswer(b).due = recheck.due
<1>1. ChainOf[b] \in Chains BY Zenon DEF Chains
<1> QED BY <1>1, ChecksDoneIs, Zenon DEF NoAnswer, PassRecords

\* The answer about one anchor: its chain is noted, or passed over, or the grants
\* of an orphaned anchor end at once, so that none is left uncovered.
LEMMA RecheckAnchorStep ==
  ASSUME GrantInv, NEW b \in Anchors, RecheckAnchor(b)
  PROVE  GrantInv'
<1>1. GrantTypes /\ ClaimsPrecede /\ DueCovered /\ SuspensionsFounded /\ OutageStaysOnChain
  BY Zenon DEF GrantInv
<1>2. recheck.at = "checking" /\ UNCHANGED <<grantNow, orphaned, claim>> BY Zenon DEF RecheckAnchor
<1>3. recheck.due \subseteq GrantIds /\ ChainOf[b] \in Chains
  BY <1>1, Zenon DEF GrantTypes, PassRecords, Chains
<1>4. CASE ChainOf[b] \in recheck.suspend /\ recheck' = ChecksDone(b)
           /\ UNCHANGED <<eligibility, outages>>
  <2>1. GrantTypes' BY <1>1, <1>2, <1>4, ChecksDoneIs, Zenon DEF GrantTypes
  <2>2. ClaimsPrecede' BY <1>1, <1>2, <1>4, ChecksDoneIs, Zenon DEF ClaimsPrecede
  <2>3. DueCovered' BY <1>1, <1>2, <1>4, ChecksDoneIs, Zenon DEF DueCovered, Covered
  <2>4. SuspensionsFounded' BY <1>1, <1>4, ChecksDoneIs, Zenon DEF SuspensionsFounded
  <2> QED BY <1>1, <1>4, <2>1, <2>2, <2>3, <2>4, Zenon DEF GrantInv, OutageStaysOnChain
<1>5. CASE recheck' = NoAnswer(b) /\ outages' = outages \cup {ChainOf[b]} /\ UNCHANGED eligibility
  <2>1. GrantTypes' BY <1>1, <1>2, <1>3, <1>5, NoAnswerIs, Zenon DEF GrantTypes
  <2>2. ClaimsPrecede' BY <1>1, <1>2, <1>5, NoAnswerIs, Zenon DEF ClaimsPrecede
  <2>3. DueCovered' BY <1>1, <1>2, <1>5, NoAnswerIs, Zenon DEF DueCovered, Covered
  <2>4. SuspensionsFounded' BY <1>1, <1>5, NoAnswerIs, Zenon DEF SuspensionsFounded
  <2> QED BY <1>1, <1>5, <2>1, <2>2, <2>3, <2>4, Zenon DEF GrantInv, OutageStaysOnChain
<1>6. CASE recheck' = ChecksDone(b) /\ b \notin orphaned /\ UNCHANGED <<eligibility, outages>>
  <2>1. GrantTypes' BY <1>1, <1>2, <1>6, ChecksDoneIs, Zenon DEF GrantTypes
  <2>2. ClaimsPrecede' BY <1>1, <1>2, <1>6, ChecksDoneIs, Zenon DEF ClaimsPrecede
  <2>3. DueCovered' BY <1>1, <1>2, <1>6, ChecksDoneIs, Zenon DEF DueCovered, Covered
  <2>4. SuspensionsFounded' BY <1>1, <1>6, ChecksDoneIs, Zenon DEF SuspensionsFounded
  <2> QED BY <1>1, <1>6, <2>1, <2>2, <2>3, <2>4, Zenon DEF GrantInv, OutageStaysOnChain
<1> DEFINE rows == { g \in GrantIds : eligibility[g].anchor = b
                                      /\ eligibility[g].state \in {"active", "suspended"} }
<1>7. CASE recheck' = ChecksDone(b) /\ SetState(rows, "revoked") /\ UNCHANGED outages
  <2>1. /\ \A g \in rows : eligibility[g].state \in {"active", "suspended"}
        /\ \A g \in GrantIds \ rows : eligibility[g].state = "active" => eligibility[g].anchor # b
        /\ rows \in SUBSET GrantIds
    BY Zenon
  <2> HIDE DEF rows
  <2>2. /\ eligibility' \in [GrantIds -> GrantRows]
        /\ \A g \in GrantIds : eligibility'[g].anchor = eligibility[g].anchor
        /\ \A g \in rows : eligibility'[g].state = "revoked"
        /\ \A g \in GrantIds \ rows : eligibility'[g].state = eligibility[g].state
    BY <1>1, <1>7, <2>1, StatesSet, Zenon
  <2>3. GrantTypes' BY <1>1, <1>2, <1>7, <2>2, ChecksDoneIs, Zenon DEF GrantTypes
  <2>4. ClaimsPrecede' BY <1>1, <1>2, <1>3, <1>7, <2>1, <2>2, ChecksDoneIs DEF ClaimsPrecede
  <2>5. DueCovered' BY <1>1, <1>2, <1>3, <1>7, <2>1, <2>2, ChecksDoneIs DEF DueCovered, Covered
  <2>6. SuspensionsFounded' BY <1>1, <1>7, ChecksDoneIs, Zenon DEF SuspensionsFounded
  <2>7. OutageStaysOnChain' BY <1>1, <1>7, <2>2, Zenon DEF OutageStaysOnChain
  <2> QED BY <2>3, <2>4, <2>5, <2>6, <2>7, Zenon DEF GrantInv
<1> QED BY <1>4, <1>5, <1>6, <1>7, Zenon DEF RecheckAnchor

\* A chain is suspended: its active grants end, among them those due on it.
LEMMA RecheckSuspendStep ==
  ASSUME GrantInv, NEW c \in Chains, RecheckSuspend(c)
  PROVE  GrantInv'
<1> DEFINE rows == Active \cap AnchoredOn(c)
<1>1. GrantTypes /\ ClaimsPrecede /\ DueCovered /\ SuspensionsFounded /\ OutageStaysOnChain
  BY Zenon DEF GrantInv
<1>2. /\ recheck.at = "checking" /\ recheck.todo = {} /\ c \in recheck.suspend
      /\ UNCHANGED <<grantNow, orphaned, claim, outages>> /\ SetState(rows, "suspended")
      /\ recheck' = [recheck EXCEPT !.suspend = @ \ {c}]
  BY Zenon DEF RecheckSuspend, SuspendChain
<1>3. /\ recheck' \in PassRecords /\ recheck'.at = "checking" /\ recheck'.todo = {}
      /\ recheck'.suspend = recheck.suspend \ {c} /\ recheck'.due = recheck.due
      /\ recheck.due \subseteq GrantIds
  BY <1>1, <1>2, Zenon DEF GrantTypes, PassRecords
<1>4. /\ rows \in SUBSET GrantIds
      /\ \A g \in rows : /\ eligibility[g].state = "active" /\ eligibility[g].anchor # RelayAnchor
                         /\ ChainOf[eligibility[g].anchor] = c
      /\ \A g \in GrantIds \ rows : eligibility[g].state = "active" =>
           eligibility[g].anchor = RelayAnchor \/ ChainOf[eligibility[g].anchor] # c
  BY Zenon DEF Active, AnchoredOn
<1> HIDE DEF rows
<1>5. /\ eligibility' \in [GrantIds -> GrantRows]
      /\ \A g \in GrantIds : eligibility'[g].anchor = eligibility[g].anchor
      /\ \A g \in rows : eligibility'[g].state = "suspended"
      /\ \A g \in GrantIds \ rows : eligibility'[g].state = eligibility[g].state
  BY <1>1, <1>2, <1>4, StatesSet, Zenon
<1>6. GrantTypes' BY <1>1, <1>2, <1>3, <1>5, Zenon DEF GrantTypes
<1>7. ClaimsPrecede' BY <1>1, <1>2, <1>3, <1>4, <1>5 DEF ClaimsPrecede
<1>8. RelayAnchor \notin orphaned BY <1>1, GrantConstants, Zenon DEF GrantTypes
<1>9. DueCovered' BY <1>1, <1>2, <1>3, <1>4, <1>5, <1>8 DEF DueCovered, Covered
<1>10. SuspensionsFounded' BY <1>1, <1>2, <1>3, Zenon DEF SuspensionsFounded
<1>11. OutageStaysOnChain' BY <1>1, <1>2, <1>4, <1>5 DEF OutageStaysOnChain, SuspensionsFounded
<1> QED BY <1>6, <1>7, <1>9, <1>10, <1>11, Zenon DEF GrantInv

\* The sweep ends the pass: nothing is left to ask or to suspend, so no grant that
\* was due is active.
LEMMA RecheckSweepStep == ASSUME GrantInv, RecheckSweep PROVE GrantInv'
<1> DEFINE rows == { g \in Active : eligibility[g].until <= grantNow }
<1>1. GrantTypes /\ ClaimsPrecede /\ DueCovered /\ SuspensionsFounded /\ OutageStaysOnChain
  BY Zenon DEF GrantInv
<1>2. /\ recheck.todo = {} /\ recheck.suspend = {} /\ SetState(rows, "expired")
      /\ UNCHANGED <<grantNow, orphaned, claim, outages>>
      /\ recheck' = [recheck EXCEPT !.at = "idle"]
  BY Zenon DEF RecheckSweep
<1>3. /\ recheck' \in PassRecords /\ recheck'.suspend = {}
      /\ recheck'.due = recheck.due /\ recheck.due \subseteq GrantIds
  BY <1>1, <1>2, Zenon DEF GrantTypes, PassRecords
<1>4. rows \in SUBSET GrantIds /\ \A g \in rows : eligibility[g].state = "active"
  BY Zenon DEF Active
<1> HIDE DEF rows
<1>5. /\ eligibility' \in [GrantIds -> GrantRows]
      /\ \A g \in GrantIds : eligibility'[g].anchor = eligibility[g].anchor
      /\ \A g \in rows : eligibility'[g].state = "expired"
      /\ \A g \in GrantIds \ rows : eligibility'[g].state = eligibility[g].state
  BY <1>1, <1>2, <1>4, StatesSet, Zenon
<1>6. GrantTypes' BY <1>1, <1>2, <1>3, <1>5, Zenon DEF GrantTypes
<1>7. ClaimsPrecede' BY <1>1, <1>2, <1>3, <1>4, <1>5 DEF ClaimsPrecede
<1>8. \A g \in recheck.due : eligibility[g].state # "active"
  BY <1>1, <1>2, Zenon DEF DueCovered, Covered
<1>9. DueCovered' BY <1>3, <1>4, <1>5, <1>8, Zenon DEF DueCovered
<1>10. OutageStaysOnChain' BY <1>1, <1>2, <1>4, <1>5, Zenon DEF OutageStaysOnChain
<1> QED BY <1>3, <1>6, <1>7, <1>9, <1>10, Zenon DEF GrantInv, SuspensionsFounded

\* A chain loses a block, a pass fails, or time passes.
LEMMA OrphanStep == ASSUME GrantInv, NEW b \in Anchors, Orphan(b) PROVE GrantInv'
<1>1. orphaned' = orphaned \cup {b} /\ UNCHANGED <<grantNow, eligibility, claim, recheck, outages>>
  BY Zenon DEF Orphan
<1>2. GrantTypes' BY <1>1, Zenon DEF GrantInv, GrantTypes
<1>3. DueCovered' BY <1>1, Zenon DEF GrantInv, DueCovered, Covered
<1> QED BY <1>1, <1>2, <1>3, Zenon
           DEF GrantInv, ClaimsPrecede, SuspensionsFounded, OutageStaysOnChain

LEMMA RecheckFailsStep == ASSUME GrantInv, RecheckFails PROVE GrantInv'
<1>1. recheck' = NoPass /\ UNCHANGED <<grantNow, orphaned, eligibility, claim, outages>>
  BY Zenon DEF RecheckFails
<1>2. NoPass \in PassRecords /\ NoPass.due = {} /\ NoPass.suspend = {}
  BY Zenon DEF NoPass, PassRecords
<1>3. GrantTypes' BY <1>1, <1>2, Zenon DEF GrantInv, GrantTypes
<1> QED BY <1>1, <1>2, <1>3, Zenon
        DEF GrantInv, ClaimsPrecede, DueCovered, SuspensionsFounded, OutageStaysOnChain

LEMMA GrantTimePasses ==
  ASSUME GrantInv, grantNow' \in Nat, UNCHANGED <<orphaned, eligibility, claim, recheck, outages>>
  PROVE  GrantInv'
<1>1. GrantTypes' BY Zenon DEF GrantInv, GrantTypes
<1> QED BY <1>1, Zenon DEF GrantInv, ClaimsPrecede, DueCovered, Covered, SuspensionsFounded,
                    OutageStaysOnChain

LEMMA GrantStep == ASSUME GrantInv, [GrantNext]_grantVars PROVE GrantInv'
<1>1. CASE UNCHANGED grantVars BY <1>1, GrantTimePasses, Zenon DEF grantVars, GrantInv, GrantTypes
<1>2. CASE GrantTick
  <2>1. grantNow' \in Nat /\ UNCHANGED <<orphaned, eligibility, claim, recheck, outages>>
    BY <1>2 DEF GrantTick, GrantInv, GrantTypes
  <2> QED BY <2>1, GrantTimePasses, Zenon
<1>3. CASE RecheckBegin BY <1>3, RecheckBeginStep, Zenon
<1>4. CASE RecheckSweep BY <1>4, RecheckSweepStep
<1>5. CASE RecheckFails BY <1>5, RecheckFailsStep
<1>6. ASSUME NEW g \in GrantIds, InsertPurchaseGrant(g) PROVE GrantInv' BY <1>6, InsertStep, Zenon
<1>7. ASSUME NEW g \in GrantIds, IssueRelayGrant(g) PROVE GrantInv' BY <1>7, RelayGrantStep, Zenon
<1>8. ASSUME NEW g \in GrantIds, NEW b \in Anchors, VerifyPurchaseClaim(g, b) PROVE GrantInv'
  BY <1>8, VerifyStep, Zenon
<1>9. ASSUME NEW b \in Anchors, RecheckAnchor(b) PROVE GrantInv' BY <1>9, RecheckAnchorStep
<1>10. ASSUME NEW b \in Anchors, Orphan(b) PROVE GrantInv' BY <1>10, OrphanStep
<1>11. ASSUME NEW c \in Chains, RecheckSuspend(c) PROVE GrantInv'
  BY <1>11, RecheckSuspendStep, Zenon
<1> QED BY <1>1, <1>2, <1>3, <1>4, <1>5, <1>6, <1>7, <1>8, <1>9, <1>10, <1>11, Zenon DEF GrantNext

\* RecheckSafe, for any number of grants, anchors and chains and however the pass,
\* the purchases and the chain interleave (recheck-grants.mjs, eligibilityStore.ts).
THEOREM RecheckAlwaysSafe == GrantSpec => []RecheckSafe
<1>1. GrantInit => GrantInv BY GrantStart, Zenon
<1>2. GrantInv /\ [GrantNext]_grantVars => GrantInv' BY GrantStep, Zenon
<1>3. GrantInv => RecheckSafe
  BY Zenon DEF GrantInv, RecheckSafe, RecheckFailsClosed, DueCovered, Covered
<1> QED BY <1>1, <1>2, <1>3, PTL DEF GrantSpec

-----------------------------------------------------------------------------
(* Embed contexts and sessions.                                            *)

ContextRows == [state : {"none", "issued", "redeemed", "invalid", "revoked"},
                origin : Origins \cup {NoOrigin}, expires : Nat, late : BOOLEAN]
EmbedSessionRows == [state : {"none", "unauthenticated", "revoked"}, expires : Nat]
IssueRecords == [origin : Origins \cup {NoOrigin}, now : Nat]
RedeemRecords == [at : {"idle", "waiting", "locked"}, context : Contexts \cup {NoOrigin},
                  now : Nat, matches : BOOLEAN]
RevokeRecords == [at : {"idle", "contexts", "sessions"}, origin : Origins \cup {NoOrigin},
                  contexts : SUBSET Contexts, sessions : SUBSET Contexts]

EmbedTypes ==
    /\ embedNow \in Nat /\ origin \in [Origins -> {"active", "revoked"}]
    /\ context \in [Contexts -> ContextRows]
    /\ embedSession \in [Contexts -> EmbedSessionRows]
    /\ issuing \in [Contexts -> IssueRecords]
    /\ redeeming \in [Redeemers -> RedeemRecords]
    /\ revoking \in RevokeRecords

\* A context that is being inserted is not there yet, and is for a known origin,
\* as every context is.
InsertsPending ==
    \A x \in Contexts :
      /\ issuing[x] # NotIssuing => context[x].state = "none" /\ issuing[x].origin \in Origins
      /\ context[x].state # "none" => context[x].origin \in Origins

\* A row has one holder, and is as it was when its lock was got.
RedemptionsHold ==
    \A r \in Redeemers :
      /\ redeeming[r].at # "idle" => redeeming[r].context \in Contexts
      /\ redeeming[r].at = "locked" =>
           /\ context[redeeming[r].context].state = "issued"
           /\ ~HeldByRevoker(redeeming[r].context)
           /\ \A q \in Redeemers \ {r} : redeeming[q].at = "locked" =>
                redeeming[q].context # redeeming[r].context

\* The revocation in progress is of an active origin; it has seen every context of
\* the origin but the late ones, and, once it holds these, every session of them.
RevocationSees ==
    revoking.at # "idle" =>
      /\ revoking.origin \in Origins /\ origin[revoking.origin] = "active"
      /\ \A x \in Contexts :
           context[x].state # "none" /\ context[x].origin = revoking.origin /\ ~context[x].late =>
             /\ x \in revoking.contexts
             /\ revoking.at = "sessions" /\ embedSession[x].state = "unauthenticated" =>
                  x \in revoking.sessions

\* A revoked origin has no context left to redeem and no session that is not ended,
\* the late ones aside.
RevokedIsEmpty ==
    \A x \in Contexts :
      context[x].state # "none" /\ ~context[x].late /\ origin[context[x].origin] = "revoked" =>
        context[x].state # "issued" /\ embedSession[x].state # "unauthenticated"

EmbedInv ==
    /\ EmbedTypes /\ InsertsPending /\ RedemptionsHold /\ RevocationSees /\ RevokedIsEmpty
    /\ ContextRedeemedOnce

LEMMA EmbedStart == ASSUME EmbedInit PROVE EmbedInv
<1>1. /\ NoContext \in ContextRows /\ NoContext.state = "none"
      /\ NoSession \in EmbedSessionRows /\ NoSession.state = "none"
      /\ NotIssuing \in IssueRecords /\ NotRedeeming \in RedeemRecords
      /\ NotRedeeming.at = "idle" /\ NotRevoking \in RevokeRecords /\ NotRevoking.at = "idle"
  BY Zenon DEF NoContext, NoSession, NotIssuing, NotRedeeming, NotRevoking, ContextRows,
         EmbedSessionRows, IssueRecords, RedeemRecords, RevokeRecords
<1>2. EmbedTypes BY <1>1, Zenon DEF EmbedInit, EmbedTypes
<1>3. \A x \in Contexts : context[x].state = "none" /\ embedSession[x].state = "none"
                          /\ issuing[x] = NotIssuing
  BY <1>1, Zenon DEF EmbedInit
<1>4. \A r \in Redeemers : redeeming[r].at = "idle" BY <1>1, Zenon DEF EmbedInit
<1>5. revoking.at = "idle" BY <1>1, Zenon DEF EmbedInit
<1> QED BY <1>2, <1>3, <1>4, <1>5, Zenon
           DEF EmbedInv, InsertsPending, RedemptionsHold, RevocationSees,
                                      RevokedIsEmpty, ContextRedeemedOnce

\* issueContext: what it inserts is new, and late when a revocation is past it.
LEMMA EmbedIssueBeginStep ==
  ASSUME EmbedInv, NEW x \in Contexts, NEW o \in Origins, IssueContextBegin(x, o)
  PROVE  EmbedInv'
<1> DEFINE i == [origin |-> o, now |-> embedNow]
<1>1. /\ context[x].state = "none" /\ issuing' = [issuing EXCEPT ![x] = i]
      /\ UNCHANGED <<embedNow, origin, context, embedSession, redeeming, revoking>>
  BY Zenon DEF IssueContextBegin
<1>2. i \in IssueRecords /\ i.origin = o BY Zenon DEF EmbedInv, EmbedTypes, IssueRecords
<1> HIDE DEF i
<1>3. EmbedTypes' BY <1>1, <1>2, Zenon DEF EmbedInv, EmbedTypes
<1>4. InsertsPending' BY <1>1, <1>2, Zenon DEF EmbedInv, EmbedTypes, InsertsPending
<1>5. RedemptionsHold' BY <1>1, Zenon DEF EmbedInv, RedemptionsHold, HeldByRevoker
<1> QED BY <1>1, <1>3, <1>4, <1>5, Zenon
           DEF EmbedInv, RevocationSees, RevokedIsEmpty, ContextRedeemedOnce

LEMMA EmbedIssueEndStep ==
  ASSUME EmbedInv, NEW x \in Contexts, IssueContextEnd(x)
  PROVE  EmbedInv'
<1> DEFINE o == issuing[x].origin
<1> DEFINE c == [state |-> "issued", origin |-> o, expires |-> issuing[x].now + ContextTtl,
                 late |-> \/ origin[o] = "revoked"
                          \/ revoking.origin = o /\ revoking.at \in {"contexts", "sessions"}]
<1>1. /\ issuing[x] # NotIssuing /\ context' = [context EXCEPT ![x] = c]
      /\ issuing' = [issuing EXCEPT ![x] = NotIssuing]
      /\ UNCHANGED <<embedNow, origin, embedSession, redeeming, revoking>>
  BY Zenon DEF IssueContextEnd
<1>2. /\ EmbedTypes /\ InsertsPending /\ RedemptionsHold /\ RevocationSees /\ RevokedIsEmpty
      /\ ContextRedeemedOnce
  BY Zenon DEF EmbedInv
<1>3. context[x].state = "none" /\ o \in Origins BY <1>1, <1>2, Zenon DEF InsertsPending
<1>4. embedSession[x].state = "none" BY <1>2, <1>3, Zenon DEF ContextRedeemedOnce
<1>5. c.late \in BOOLEAN BY Zenon
<1>6. issuing[x].now + ContextTtl \in Nat
  BY <1>2, EmbedConstants DEF EmbedTypes, IssueRecords
<1>7. c \in ContextRows BY <1>3, <1>5, <1>6, Zenon DEF ContextRows
<1>8. /\ c.state = "issued" /\ c.origin = o
      /\ origin[o] = "revoked" => c.late
      /\ revoking.origin = o /\ revoking.at # "idle" => c.late
  BY <1>2, Zenon DEF EmbedTypes, RevokeRecords
<1>9. NotIssuing \in IssueRecords BY Zenon DEF NotIssuing, IssueRecords
<1> HIDE DEF o, c
<1>10. EmbedTypes' BY <1>1, <1>2, <1>7, <1>9, Zenon DEF EmbedTypes
<1>11. context'[x] = c /\ \A y \in Contexts \ {x} : context'[y] = context[y]
  BY <1>1, <1>2, Zenon DEF EmbedTypes
<1>12. InsertsPending' BY <1>1, <1>2, <1>3, <1>8, <1>11, Zenon DEF EmbedTypes, InsertsPending
<1>13. RedemptionsHold'
  <2>1. \A r \in Redeemers : redeeming[r].at = "locked" => redeeming[r].context # x
    BY <1>2, <1>3, Zenon DEF RedemptionsHold
  <2> QED BY <1>1, <1>2, <1>11, <2>1 DEF RedemptionsHold, HeldByRevoker
<1>14. RevocationSees' BY <1>1, <1>2, <1>8, <1>11 DEF RevocationSees
<1>15. RevokedIsEmpty' BY <1>1, <1>2, <1>8, <1>11 DEF RevokedIsEmpty
<1>16. ContextRedeemedOnce' BY <1>1, <1>2, <1>4, <1>11, Zenon DEF ContextRedeemedOnce
<1> QED BY <1>10, <1>12, <1>13, <1>14, <1>15, <1>16, Zenon DEF EmbedInv

LEMMA IdleRedemption == NotRedeeming \in RedeemRecords /\ NotRedeeming.at = "idle"
BY Zenon DEF NotRedeeming, RedeemRecords

\* A redemption that starts waits, and holds nothing.
LEMMA RedeemBeginStep ==
  ASSUME EmbedInv, NEW r \in Redeemers, NEW x \in Contexts, NEW matches \in BOOLEAN,
         RedeemBegin(r, x, matches)
  PROVE  EmbedInv'
<1> DEFINE q == [at |-> "waiting", context |-> x, now |-> embedNow,
                 matches |-> matches /\ origin[context[x].origin] = "active"]
<1>1. /\ redeeming' = [redeeming EXCEPT ![r] = q]
      /\ UNCHANGED <<embedNow, origin, context, embedSession, issuing, revoking>>
  BY Zenon DEF RedeemBegin
<1>2. q.matches \in BOOLEAN BY Zenon
<1>3. q \in RedeemRecords /\ q.at = "waiting" /\ q.context = x
  BY <1>2, Zenon DEF EmbedInv, EmbedTypes, RedeemRecords
<1> HIDE DEF q
<1>4. EmbedTypes' BY <1>1, <1>3, Zenon DEF EmbedInv, EmbedTypes
<1>5. redeeming'[r] = q /\ \A t \in Redeemers \ {r} : redeeming'[t] = redeeming[t]
  BY <1>1, Zenon DEF EmbedInv, EmbedTypes
<1>6. RedemptionsHold' BY <1>1, <1>3, <1>5 DEF EmbedInv, RedemptionsHold, HeldByRevoker
<1> QED BY <1>1, <1>4, <1>6, Zenon
        DEF EmbedInv, InsertsPending, RevocationSees, RevokedIsEmpty, ContextRedeemedOnce

\* A redemption gives up its place, with no other change.
LEMMA RedemptionLeaves ==
  ASSUME EmbedInv, NEW r \in Redeemers, redeeming' = [redeeming EXCEPT ![r] = NotRedeeming],
         UNCHANGED <<embedNow, origin, context, embedSession, issuing, revoking>>
  PROVE  EmbedInv'
<1>1. EmbedTypes' BY IdleRedemption, Zenon DEF EmbedInv, EmbedTypes
<1>2. redeeming'[r].at = "idle" /\ \A t \in Redeemers \ {r} : redeeming'[t] = redeeming[t]
  BY IdleRedemption, Zenon DEF EmbedInv, EmbedTypes
<1>3. RedemptionsHold' BY <1>2 DEF EmbedInv, RedemptionsHold, HeldByRevoker
<1> QED BY <1>1, <1>3, Zenon DEF EmbedInv, InsertsPending, RevocationSees, RevokedIsEmpty,
                          ContextRedeemedOnce

LEMMA RedeemLockStep ==
  ASSUME EmbedInv, NEW r \in Redeemers, RedeemLock(r)
  PROVE  EmbedInv'
<1> DEFINE x == redeeming[r].context
<1>1. /\ redeeming[r].at = "waiting" /\ ~HeldByRedeemer(x) /\ ~HeldByRevoker(x)
      /\ UNCHANGED <<embedNow, origin, context, embedSession, issuing, revoking>>
  BY Zenon DEF RedeemLock
<1>2. EmbedTypes /\ RedemptionsHold BY Zenon DEF EmbedInv
<1>3. CASE context[x].state = "issued" /\ redeeming' = [redeeming EXCEPT ![r].at = "locked"]
  <2>1. /\ [redeeming[r] EXCEPT !.at = "locked"] \in RedeemRecords
        /\ [redeeming[r] EXCEPT !.at = "locked"].context = x
        /\ [redeeming[r] EXCEPT !.at = "locked"].at = "locked"
    BY <1>2, Zenon DEF EmbedTypes, RedeemRecords
  <2>2. redeeming' \in [Redeemers -> RedeemRecords] /\ redeeming'[r].context = x
        /\ redeeming'[r].at = "locked" /\ \A t \in Redeemers \ {r} : redeeming'[t] = redeeming[t]
    BY <1>2, <1>3, <2>1, Zenon DEF EmbedTypes
  <2>3. x \in Contexts BY <1>1, <1>2, Zenon DEF RedemptionsHold
  <2>4. \A t \in Redeemers : redeeming[t].at = "locked" => redeeming[t].context # x
    BY <1>1, Zenon DEF HeldByRedeemer
  <2>5. context[x].state = "issued" BY <1>3, Zenon
  <2> HIDE DEF x
  <2>6. EmbedTypes' BY <1>1, <1>2, <2>2, Zenon DEF EmbedTypes
  <2>7. RedemptionsHold' BY <1>1, <1>2, <2>2, <2>3, <2>4, <2>5 DEF RedemptionsHold, HeldByRevoker
  <2> QED BY <1>1, <2>6, <2>7, Zenon
          DEF EmbedInv, InsertsPending, RevocationSees, RevokedIsEmpty, ContextRedeemedOnce
<1>4. CASE redeeming' = [redeeming EXCEPT ![r] = NotRedeeming]
  BY <1>1, <1>4, RedemptionLeaves, Zenon
<1> QED BY <1>3, <1>4, Zenon DEF RedeemLock

\* The claim commits: the context leaves "issued" under its only holder, and its
\* session, if any, is one the revocation in progress has not had to see.
LEMMA RedeemEndStep ==
  ASSUME EmbedInv, NEW r \in Redeemers, RedeemEnd(r)
  PROVE  EmbedInv'
<1> DEFINE x == redeeming[r].context
<1> DEFINE good == redeeming[r].matches /\ Timely(r)
<1> DEFINE state == IF good THEN "redeemed" ELSE "invalid"
<1> DEFINE s == [state |-> "unauthenticated", expires |-> redeeming[r].now + EmbedSessionTtl]
<1>1. /\ EmbedTypes /\ InsertsPending /\ RedemptionsHold /\ RevocationSees /\ RevokedIsEmpty
      /\ ContextRedeemedOnce
  BY DEF EmbedInv
<1>2. /\ redeeming[r].at = "locked" /\ redeeming' = [redeeming EXCEPT ![r] = NotRedeeming]
      /\ context' = [context EXCEPT ![x].state = state]
      /\ embedSession' = IF good THEN [embedSession EXCEPT ![x] = s] ELSE embedSession
      /\ UNCHANGED <<embedNow, origin, issuing, revoking>>
  BY Zenon DEF RedeemEnd
<1>3. /\ x \in Contexts /\ context[x].state = "issued" /\ ~HeldByRevoker(x)
      /\ \A q \in Redeemers \ {r} : redeeming[q].at = "locked" => redeeming[q].context # x
  BY <1>1, <1>2, Zenon DEF RedemptionsHold
<1>4. /\ s \in EmbedSessionRows /\ s.state = "unauthenticated"
      /\ good => s.expires < context[x].expires + EmbedSessionTtl
  BY <1>1, <1>3, EmbedConstants DEF EmbedTypes, RedeemRecords, EmbedSessionRows, ContextRows, Timely
<1>5. state \in {"redeemed", "invalid"} /\ (good => state = "redeemed") BY Zenon
<1> HIDE DEF x, good, state, s
<1>6. /\ [context[x] EXCEPT !.state = state] \in ContextRows
      /\ [context[x] EXCEPT !.state = state].state = state
      /\ [context[x] EXCEPT !.state = state].origin = context[x].origin
      /\ [context[x] EXCEPT !.state = state].late = context[x].late
      /\ [context[x] EXCEPT !.state = state].expires = context[x].expires
  BY <1>1, <1>3, <1>5, Zenon DEF EmbedTypes, ContextRows
<1>7. /\ context' \in [Contexts -> ContextRows] /\ context'[x].state = state
      /\ context'[x].origin = context[x].origin /\ context'[x].late = context[x].late
      /\ context'[x].expires = context[x].expires
      /\ \A y \in Contexts \ {x} : context'[y] = context[y]
  BY <1>1, <1>2, <1>3, <1>6, Zenon DEF EmbedTypes
<1>8. embedSession[x].state = "none" BY <1>1, <1>3, Zenon DEF ContextRedeemedOnce
<1>9. /\ embedSession' \in [Contexts -> EmbedSessionRows]
      /\ \A y \in Contexts \ {x} : embedSession'[y] = embedSession[y]
      /\ IF good THEN embedSession'[x] = s ELSE embedSession'[x] = embedSession[x]
  BY <1>1, <1>2, <1>3, <1>4, Zenon DEF EmbedTypes
<1>10. redeeming'[r].at = "idle" /\ \A t \in Redeemers \ {r} : redeeming'[t] = redeeming[t]
  BY <1>1, <1>2, IdleRedemption, Zenon DEF EmbedTypes
<1>11. EmbedTypes' BY <1>1, <1>2, <1>7, <1>9, IdleRedemption, Zenon DEF EmbedTypes
<1>12. InsertsPending' BY <1>1, <1>2, <1>3, <1>5, <1>7, Zenon DEF InsertsPending
<1>13. RedemptionsHold' BY <1>1, <1>2, <1>3, <1>7, <1>10 DEF RedemptionsHold, HeldByRevoker
<1>14. RevocationSees'
  BY <1>1, <1>2, <1>3, <1>7, <1>9 DEF RevocationSees, HeldByRevoker
<1>15. RevokedIsEmpty' BY <1>1, <1>2, <1>3, <1>5, <1>7, <1>9 DEF RevokedIsEmpty
<1>16. ContextRedeemedOnce'
  BY <1>1, <1>4, <1>5, <1>7, <1>8, <1>9 DEF ContextRedeemedOnce
<1> QED BY <1>11, <1>12, <1>13, <1>14, <1>15, <1>16 DEF EmbedInv

LEMMA RevokeSessionStep ==
  ASSUME EmbedInv, NEW x \in Contexts, RevokeEmbedSession(x)
  PROVE  EmbedInv'
<1>1. /\ embedSession[x].state = "unauthenticated"
      /\ embedSession' = [embedSession EXCEPT ![x].state = "revoked"]
      /\ UNCHANGED <<embedNow, origin, context, issuing, redeeming, revoking>>
  BY Zenon DEF RevokeEmbedSession
<1>2. EmbedTypes BY Zenon DEF EmbedInv
<1>3. /\ [embedSession[x] EXCEPT !.state = "revoked"] \in EmbedSessionRows
      /\ [embedSession[x] EXCEPT !.state = "revoked"].state = "revoked"
      /\ [embedSession[x] EXCEPT !.state = "revoked"].expires = embedSession[x].expires
  BY <1>2, Zenon DEF EmbedTypes, EmbedSessionRows
<1>4. /\ embedSession' \in [Contexts -> EmbedSessionRows] /\ embedSession'[x].state = "revoked"
      /\ embedSession'[x].expires = embedSession[x].expires
      /\ \A y \in Contexts \ {x} : embedSession'[y] = embedSession[y]
  BY <1>1, <1>2, <1>3, Zenon DEF EmbedTypes
<1>5. EmbedTypes' BY <1>1, <1>2, <1>4, Zenon DEF EmbedTypes
<1>6. RedemptionsHold' BY <1>1, Zenon DEF EmbedInv, RedemptionsHold, HeldByRevoker
<1>7. RevocationSees' BY <1>1, <1>4, Zenon DEF EmbedInv, RevocationSees
<1>8. RevokedIsEmpty' BY <1>1, <1>4, Zenon DEF EmbedInv, RevokedIsEmpty
<1>9. ContextRedeemedOnce' BY <1>1, <1>4, Zenon DEF EmbedInv, ContextRedeemedOnce
<1> QED BY <1>1, <1>5, <1>6, <1>7, <1>8, <1>9, Zenon DEF EmbedInv, InsertsPending

\* revokeParentOrigin sees every context there is ...
LEMMA EmbedRevokeBeginStep ==
  ASSUME EmbedInv, NEW o \in Origins, RevokeOriginBegin(o)
  PROVE  EmbedInv'
<1> DEFINE v == [at |-> "contexts", origin |-> o, contexts |-> ContextsOf(o), sessions |-> {}]
<1>1. /\ origin[o] = "active" /\ revoking' = v
      /\ UNCHANGED <<embedNow, origin, context, embedSession, issuing, redeeming>>
  BY Zenon DEF RevokeOriginBegin
<1>2. ContextsOf(o) \subseteq Contexts
      /\ \A x \in Contexts : context[x].state # "none" /\ context[x].origin = o => x \in ContextsOf(o)
  BY Zenon DEF ContextsOf
<1>3. v \in RevokeRecords /\ v.at = "contexts" /\ v.origin = o /\ v.contexts = ContextsOf(o)
  BY <1>2, Zenon DEF RevokeRecords
<1> HIDE DEF v
<1>4. EmbedTypes' BY <1>1, <1>3, Zenon DEF EmbedInv, EmbedTypes
<1>5. RedemptionsHold' BY <1>1, <1>3, Zenon DEF EmbedInv, RedemptionsHold, HeldByRevoker
<1>6. RevocationSees' BY <1>1, <1>2, <1>3, Zenon DEF RevocationSees
<1> QED BY <1>1, <1>4, <1>5, <1>6, Zenon
           DEF EmbedInv, InsertsPending, RevokedIsEmpty, ContextRedeemedOnce

\* ... and, holding them, every session ...
LEMMA RevokeContextsStep == ASSUME EmbedInv, RevokeOriginContexts PROVE EmbedInv'
<1> DEFINE found == SessionsOf(revoking.origin)
<1>1. /\ revoking.at = "contexts" /\ \A x \in revoking.contexts : ~HeldByRedeemer(x)
      /\ revoking' = [revoking EXCEPT !.at = "sessions", !.sessions = found]
      /\ UNCHANGED <<embedNow, origin, context, embedSession, issuing, redeeming>>
  BY Zenon DEF RevokeOriginContexts
<1>2. EmbedTypes BY Zenon DEF EmbedInv
<1>3. /\ found \in SUBSET Contexts
      /\ \A x \in Contexts : context[x].state # "none" /\ context[x].origin = revoking.origin
                             /\ embedSession[x].state # "none" => x \in found
  BY Zenon DEF SessionsOf, ContextsOf
<1> HIDE DEF found
<1>4. revoking' \in RevokeRecords BY <1>1, <1>2, <1>3, Zenon DEF EmbedTypes, RevokeRecords
<1>5. /\ revoking'.at = "sessions" /\ revoking'.origin = revoking.origin
      /\ revoking'.contexts = revoking.contexts /\ revoking'.sessions = found
  BY <1>1, <1>2, Zenon DEF EmbedTypes, RevokeRecords
<1>6. EmbedTypes' BY <1>1, <1>2, <1>4, Zenon DEF EmbedTypes
<1>7. RedemptionsHold'
  BY <1>1, <1>5, Zenon DEF EmbedInv, RedemptionsHold, HeldByRevoker, HeldByRedeemer
<1>8. RevocationSees' BY <1>1, <1>3, <1>5, Zenon DEF EmbedInv, RevocationSees
<1> QED BY <1>1, <1>6, <1>7, <1>8, Zenon
           DEF EmbedInv, InsertsPending, RevokedIsEmpty, ContextRedeemedOnce

\* ... and ends them all when it commits.
LEMMA RevokeEndStep == ASSUME EmbedInv, RevokeOriginEnd PROVE EmbedInv'
<1>1. /\ EmbedTypes /\ InsertsPending /\ RedemptionsHold /\ RevocationSees /\ RevokedIsEmpty
      /\ ContextRedeemedOnce
  BY Zenon DEF EmbedInv
<1>2. /\ revoking.at = "sessions" /\ origin' = [origin EXCEPT ![revoking.origin] = "revoked"]
      /\ revoking' = NotRevoking /\ UNCHANGED <<embedNow, issuing, redeeming>>
  BY Zenon DEF RevokeOriginEnd
<1>3. revoking.origin \in Origins /\ origin[revoking.origin] = "active"
  BY <1>1, <1>2, Zenon DEF RevocationSees
<1>4. NotRevoking \in RevokeRecords /\ NotRevoking.at = "idle"
  BY Zenon DEF NotRevoking, RevokeRecords
<1>5. \A x \in Contexts : /\ [context[x] EXCEPT !.state = "revoked"] \in ContextRows
                          /\ [context[x] EXCEPT !.state = "revoked"].state = "revoked"
                          /\ [context[x] EXCEPT !.state = "revoked"].origin = context[x].origin
                          /\ [context[x] EXCEPT !.state = "revoked"].late = context[x].late
                          /\ [context[x] EXCEPT !.state = "revoked"].expires = context[x].expires
  BY <1>1, Zenon DEF EmbedTypes, ContextRows
<1>6. \A x \in Contexts : /\ [embedSession[x] EXCEPT !.state = "revoked"] \in EmbedSessionRows
                          /\ [embedSession[x] EXCEPT !.state = "revoked"].state = "revoked"
                          /\ [embedSession[x] EXCEPT !.state = "revoked"].expires
                               = embedSession[x].expires
  BY <1>1, Zenon DEF EmbedTypes, EmbedSessionRows
<1>7. /\ context' \in [Contexts -> ContextRows]
      /\ \A x \in Contexts : /\ context'[x].origin = context[x].origin
                             /\ context'[x].late = context[x].late
                             /\ context'[x].expires = context[x].expires
                             /\ IF x \in revoking.contexts /\ context[x].state = "issued"
                                THEN context'[x].state = "revoked"
                                ELSE context'[x].state = context[x].state
  BY <1>1, <1>5, Zenon DEF RevokeOriginEnd, EmbedTypes
<1>8. /\ embedSession' \in [Contexts -> EmbedSessionRows]
      /\ \A x \in Contexts : /\ embedSession'[x].expires = embedSession[x].expires
                             /\ IF x \in revoking.sessions
                                   /\ embedSession[x].state = "unauthenticated"
                                THEN embedSession'[x].state = "revoked"
                                ELSE embedSession'[x].state = embedSession[x].state
  BY <1>1, <1>6, Zenon DEF RevokeOriginEnd, EmbedTypes
<1>9. /\ origin' \in [Origins -> {"active", "revoked"}] /\ origin'[revoking.origin] = "revoked"
      /\ \A o \in Origins \ {revoking.origin} : origin'[o] = origin[o]
  BY <1>1, <1>2, <1>3, Zenon DEF EmbedTypes
<1>10. EmbedTypes' BY <1>1, <1>2, <1>4, <1>7, <1>8, <1>9, Zenon DEF EmbedTypes
<1>11. InsertsPending' BY <1>1, <1>2, <1>7, Zenon DEF InsertsPending
<1>12. RedemptionsHold'
  BY <1>1, <1>2, <1>4, <1>7, Zenon DEF RedemptionsHold, HeldByRevoker
<1>13. RevocationSees' BY <1>2, <1>4, Zenon DEF RevocationSees
<1>14. RevokedIsEmpty'
  BY <1>1, <1>2, <1>7, <1>8, <1>9 DEF RevokedIsEmpty, RevocationSees, InsertsPending
<1>15. ContextRedeemedOnce' BY <1>1, <1>7, <1>8, Zenon DEF ContextRedeemedOnce
<1> QED BY <1>10, <1>11, <1>12, <1>13, <1>14, <1>15, Zenon DEF EmbedInv

LEMMA EmbedTimePasses ==
  ASSUME EmbedInv, embedNow' \in Nat,
         UNCHANGED <<origin, context, embedSession, issuing, redeeming, revoking>>
  PROVE  EmbedInv'
<1>1. EmbedTypes' BY Zenon DEF EmbedInv, EmbedTypes
<1>2. RedemptionsHold' BY Zenon DEF EmbedInv, RedemptionsHold, HeldByRevoker
<1> QED BY <1>1, <1>2, Zenon DEF EmbedInv, InsertsPending, RevocationSees, RevokedIsEmpty,
                          ContextRedeemedOnce

LEMMA EmbedStep == ASSUME EmbedInv, [EmbedNext]_embedVars PROVE EmbedInv'
<1>1. CASE UNCHANGED embedVars BY <1>1, EmbedTimePasses, Zenon DEF embedVars, EmbedInv, EmbedTypes
<1>2. CASE EmbedTick
  <2>1. embedNow' \in Nat
        /\ UNCHANGED <<origin, context, embedSession, issuing, redeeming, revoking>>
    BY <1>2 DEF EmbedTick, EmbedInv, EmbedTypes
  <2> QED BY <2>1, EmbedTimePasses, Zenon
<1>3. CASE RevokeOriginContexts BY <1>3, RevokeContextsStep, Zenon
<1>4. CASE RevokeOriginEnd BY <1>4, RevokeEndStep
<1>5. ASSUME NEW o \in Origins, RevokeOriginBegin(o) PROVE EmbedInv' BY <1>5, EmbedRevokeBeginStep, Zenon
<1>6. ASSUME NEW o \in Origins, NEW x \in Contexts, IssueContextBegin(x, o) PROVE EmbedInv'
  BY <1>6, EmbedIssueBeginStep, Zenon
<1>7. ASSUME NEW x \in Contexts, IssueContextEnd(x) PROVE EmbedInv' BY <1>7, EmbedIssueEndStep
<1>8. ASSUME NEW x \in Contexts, RevokeEmbedSession(x) PROVE EmbedInv' BY <1>8, RevokeSessionStep
<1>9. ASSUME NEW r \in Redeemers, RedeemLock(r) PROVE EmbedInv' BY <1>9, RedeemLockStep
<1>10. ASSUME NEW r \in Redeemers, RedeemEnd(r) PROVE EmbedInv' BY <1>10, RedeemEndStep
<1>11. ASSUME NEW r \in Redeemers, RedeemAbort(r) PROVE EmbedInv'
  BY <1>11, RedemptionLeaves, Zenon DEF RedeemAbort
<1>12. ASSUME NEW r \in Redeemers, NEW x \in Contexts, NEW matches \in BOOLEAN,
              RedeemBegin(r, x, matches)
       PROVE  EmbedInv'
  BY <1>12, RedeemBeginStep, Zenon
<1> QED BY <1>1, <1>2, <1>3, <1>4, <1>5, <1>6, <1>7, <1>8, <1>9, <1>10, <1>11, <1>12, Zenon
           DEF EmbedNext

\* EmbedSessionsSafe, for any number of contexts, origins and redemptions and any
\* overlap of issue, redemption and revocation (embedContextStore.ts).
THEOREM EmbedSessionsAlwaysSafe == EmbedSpec => []EmbedSessionsSafe
<1>1. EmbedInit => EmbedInv BY EmbedStart, Zenon
<1>2. EmbedInv /\ [EmbedNext]_embedVars => EmbedInv' BY EmbedStep, Zenon
<1>3. EmbedInv => EmbedSessionsSafe
  BY Zenon DEF EmbedInv, EmbedSessionsSafe, RevokedOriginEndsSessions, SessionLive, RevokedIsEmpty,
         ContextRedeemedOnce
<1> QED BY <1>1, <1>2, <1>3, PTL DEF EmbedSpec

=============================================================================
