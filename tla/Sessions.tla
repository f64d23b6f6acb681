------------------------------ MODULE Sessions ------------------------------
(***************************************************************************)
(* Sessions of an account's devices: issueSession, refreshSession and      *)
(* revokeSessionFamily of identity/enrollmentStore.ts, and authenticate,   *)
(* deleteSession and revokeInstallation of http/messagingHttp.ts.          *)
(*                                                                         *)
(* The database runs READ COMMITTED.  A statement sees the rows committed  *)
(* when it starts, waits for the locks on the rows it selects and then     *)
(* looks at those rows again, so a row inserted while it waits escapes it. *)
(* A transaction is therefore a Begin, which takes the statement's         *)
(* snapshot, and an End, which needs the rows' locks and commits.          *)
(***************************************************************************)
EXTENDS Integers, Sequences, FiniteSets, TLC

CONSTANTS Installations,   \* devices of one account, with one credential each
          Transactions,    \* transactions that may run at once
          AccessTtl,       \* ACCESS_TTL_MILLISECONDS, in ticks
          RefreshTtl,      \* REFRESH_TTL_MILLISECONDS
          CredentialTtl,   \* CREDENTIAL_TTL_MILLISECONDS
          SessionClock,    \* bound on the clock
          MaxSessions,     \* bound on the rows of auth_sessions
          NoDevice

ASSUME SessionConstants ==
    /\ {AccessTtl, RefreshTtl, CredentialTtl} \subseteq Nat \ {0}
    /\ SessionClock \in Nat /\ MaxSessions \in Nat

VARIABLES sessionNow,
          credentialStatus,   \* device_credentials.status, with the installation's
          session,            \* auth_sessions, in order of insertion
          running,            \* transactions in progress
          familyRevoked       \* families whose revocation was answered

sessionVars == <<sessionNow, credentialStatus, session, running, familyRevoked>>

NotRunning == [kind |-> "none", row |-> 0, device |-> NoDevice, rows |-> {},
               now |-> 0, credential |-> "none"]

SessionInit ==
    /\ sessionNow = 0
    /\ credentialStatus = [d \in Installations |-> "active"]
    /\ session = << >>
    /\ running = [t \in Transactions |-> NotRunning]
    /\ familyRevoked = {}

Least(a, b) == IF a < b THEN a ELSE b

Row(family, d, generation, now) ==
    [family |-> family, device |-> d, generation |-> generation, state |-> "active",
     access |-> Least(now + AccessTtl, CredentialTtl),
     refresh |-> Least(now + RefreshTtl, CredentialTtl)]

FamilyRows(f) == { i \in DOMAIN session : session[i].family = f }

(* Rows locked by a transaction other than t: a refresh holds the row it selected. *)
LockedBy(t) == IF running[t].kind \in {"rotate", "reuse"} THEN {running[t].row} ELSE {}
FreeFor(t, rows) == \A u \in Transactions \ {t} : LockedBy(u) \cap rows = {}

Finish(t) == running' = [running EXCEPT ![t] = NotRunning]

(* Revokes, of the rows a statement saw, those still in one of the states. *)
RevokeRows(rows, states) ==
    session' = [i \in DOMAIN session |->
                  IF i \in rows /\ session[i].state \in states
                  THEN [session[i] EXCEPT !.state = "revoked"] ELSE session[i]]

-----------------------------------------------------------------------------
(* authenticate: the session is active and unexpired, and so is the credential.
   Its proof of possession is ProofReplay's. *)
Authenticates(i) ==
    /\ session[i].state = "active"
    /\ session[i].access > sessionNow
    /\ credentialStatus[session[i].device] = "active"
    /\ CredentialTtl > sessionNow

(* issueSession reads the credential, and later inserts a family's first row. *)
IssueBegin(t, d) ==
    /\ running[t] = NotRunning
    /\ Len(session) < MaxSessions
    /\ credentialStatus[d] = "active" /\ CredentialTtl > sessionNow
    /\ running' = [running EXCEPT ![t] =
         [NotRunning EXCEPT !.kind = "issue", !.device = d, !.now = sessionNow]]
    /\ UNCHANGED <<sessionNow, credentialStatus, session, familyRevoked>>

IssueEnd(t) ==
    /\ running[t].kind = "issue"
    /\ Len(session) < MaxSessions
    /\ session' = Append(session, Row(Len(session) + 1, running[t].device, 0, running[t].now))
    /\ Finish(t)
    /\ UNCHANGED <<sessionNow, credentialStatus, familyRevoked>>

-----------------------------------------------------------------------------
(* refreshSession's SELECT ... FOR UPDATE OF s starts: the credential it joins is
   the one of this moment, the session's row the one found when the lock is got. *)
RefreshBegin(t, i) ==
    /\ running[t] = NotRunning
    /\ running' = [running EXCEPT ![t] =
         [NotRunning EXCEPT !.kind = "refresh", !.row = i, !.now = sessionNow,
                            !.credential = credentialStatus[session[i].device]]]
    /\ UNCHANGED <<sessionNow, credentialStatus, session, familyRevoked>>

RowIsFree(t) == FreeFor(t, {running[t].row})

Refreshable(t) ==
    LET row == session[running[t].row]
    IN /\ row.state = "active"
       /\ running[t].now < row.refresh
       /\ running[t].credential = "active"
       /\ running[t].now < CredentialTtl

(* The lock is got.  A rotated or revoked token was used before: the rows of its
   family that are there now will be revoked. *)
RefreshLock(t) ==
    LET i == running[t].row
        used == session[i].state \in {"rotated", "revoked"}
    IN /\ running[t].kind = "refresh" /\ RowIsFree(t)
       /\ \/ /\ used
             /\ running' = [running EXCEPT ![t].kind = "reuse",
                                           ![t].rows = FamilyRows(session[i].family)]
          \/ ~used /\ ~Refreshable(t) /\ Finish(t)
          \/ /\ ~used /\ Refreshable(t)
             /\ running' = [running EXCEPT ![t].kind = "rotate"]
       /\ UNCHANGED <<sessionNow, credentialStatus, session, familyRevoked>>

RotateKeepsRow(t) ==
    LET i == running[t].row
    IN /\ running[t].kind = "rotate"
       /\ Len(session) < MaxSessions
       /\ session' = Append(session, Row(session[i].family, session[i].device,
                                         session[i].generation + 1, running[t].now))
       /\ Finish(t)
       /\ UNCHANGED <<sessionNow, credentialStatus, familyRevoked>>

(* Sets the row rotated and inserts the family's next. *)
RotateEnd(t) ==
    LET i == running[t].row
    IN /\ running[t].kind = "rotate"
       /\ Len(session) < MaxSessions
       /\ session' = Append([session EXCEPT ![i].state = "rotated"],
                            Row(session[i].family, session[i].device,
                                session[i].generation + 1, running[t].now))
       /\ Finish(t)
       /\ UNCHANGED <<sessionNow, credentialStatus, familyRevoked>>

RevokeFamily(t, f) ==
    /\ FreeFor(t, running[t].rows)
    /\ RevokeRows(running[t].rows, {"active", "rotated"})
    /\ familyRevoked' = familyRevoked \cup {f}
    /\ Finish(t)
    /\ UNCHANGED <<sessionNow, credentialStatus>>

ReuseEnd(t) ==
    /\ running[t].kind = "reuse"
    /\ RevokeFamily(t, session[running[t].row].family)

(* Two uses of rotated tokens of one family hold each other's rows; the database
   ends one of them with an error. *)
DeadlockAbort(t) ==
    /\ \E u \in Transactions \ {t} :
         /\ running[t].kind = "reuse" /\ running[u].kind = "reuse"
         /\ running[u].row \in running[t].rows /\ running[t].row \in running[u].rows
    /\ Finish(t)
    /\ UNCHANGED <<sessionNow, credentialStatus, session, familyRevoked>>

-----------------------------------------------------------------------------
(* deleteSession, once authenticated, and revokeSessionFamily: one UPDATE of the
   family's rows. *)
LogoutBegin(t, i) ==
    /\ running[t] = NotRunning
    /\ Authenticates(i)
    /\ running' = [running EXCEPT ![t] =
         [NotRunning EXCEPT !.kind = "logout", !.row = i,
                            !.rows = FamilyRows(session[i].family)]]
    /\ UNCHANGED <<sessionNow, credentialStatus, session, familyRevoked>>

LogoutEnd(t) ==
    /\ running[t].kind = "logout"
    /\ RevokeFamily(t, session[running[t].row].family)

(* revokeInstallation, by another device of the account: the installation, its
   credential and its active sessions, in one transaction. *)
RevokeBegin(t, by, d) ==
    /\ running[t] = NotRunning
    /\ Authenticates(by) /\ session[by].device # d
    /\ credentialStatus[d] = "active"
    /\ \A u \in Transactions : running[u].kind = "revoke" => running[u].device # d
    /\ running' = [running EXCEPT ![t] =
         [NotRunning EXCEPT !.kind = "revoke", !.device = d,
            !.rows = { i \in DOMAIN session : session[i].device = d
                                              /\ session[i].state = "active" }]]
    /\ UNCHANGED <<sessionNow, credentialStatus, session, familyRevoked>>

RevokeEnd(t) ==
    /\ running[t].kind = "revoke"
    /\ FreeFor(t, running[t].rows)
    /\ credentialStatus' = [credentialStatus EXCEPT ![running[t].device] = "revoked"]
    /\ RevokeRows(running[t].rows, {"active"})
    /\ Finish(t)
    /\ UNCHANGED <<sessionNow, familyRevoked>>

SessionTick ==
    /\ sessionNow < SessionClock
    /\ sessionNow' = sessionNow + 1
    /\ UNCHANGED <<credentialStatus, session, running, familyRevoked>>

SessionNext ==
    \/ SessionTick
    \/ \E t \in Transactions :
         \/ IssueEnd(t) \/ RefreshLock(t) \/ RotateEnd(t) \/ ReuseEnd(t) \/ DeadlockAbort(t)
         \/ LogoutEnd(t) \/ RevokeEnd(t)
         \/ \E d \in Installations : IssueBegin(t, d)
         \/ \E i \in DOMAIN session :
              \/ RefreshBegin(t, i) \/ LogoutBegin(t, i)
              \/ \E d \in Installations : RevokeBegin(t, i, d)

SessionSpec == SessionInit /\ [][SessionNext]_sessionVars

-----------------------------------------------------------------------------
(* A refresh token is exchanged once: however refreshes, logouts and revocations
   of a family overlap, its rows are one chain of generations and only the last
   can be live (refreshSession locks the row it rotates). *)
OneLiveToken ==
    \A i, j \in DOMAIN session :
      session[i].family = session[j].family /\ i < j =>
        /\ session[i].generation < session[j].generation
        /\ session[i].state # "active"

(* Revoking another device is a full lock-out: a session of it inserted by an
   issue or a refresh that overlapped the revocation, and so never marked
   revoked, does not authenticate (authenticate looks at the credential too). *)
LockedOut ==
    \A d \in Installations : credentialStatus[d] = "revoked" =>
      \A i \in DOMAIN session : session[i].device = d => ~Authenticates(i)

(* A token revoked by a logout, a reuse or a device's revocation is never
   accepted again: no overlapping refresh takes its row out of that state. *)
RevokedForGood ==
    [][\A i \in DOMAIN session :
         session[i].state = "revoked" => session'[i].state = "revoked"]_sessionVars

(* What deleteSession and refreshSession's reuse promise: once the revocation of
   a family is answered, no session of the family is live. *)
FamilyRevocationComplete ==
    \A f \in familyRevoked : \A i \in FamilyRows(f) : session[i].state # "active"

(* One token of a family is live at a time, and none of a revoked device
   authenticates, with any overlap of the transactions that issue, refresh and
   revoke (refreshSession, revokeInstallation, authenticate). *)
SessionsSafe ==
    /\ OneLiveToken
    /\ LockedOut
=============================================================================
