--------------------------- MODULE EmbedContexts ---------------------------
(***************************************************************************)
(* Embed contexts and sessions (embed/embedContextStore.ts, behind the     *)
(* handlers of embed/embedBff.ts) for one tenant: a context is issued for  *)
(* a parent origin, redeemed once for a session, and the revocation of the *)
(* origin ends both.                                                       *)
(*                                                                         *)
(* revokeParentOrigin is one transaction of three statements.  A statement *)
(* sees what is committed when it starts; its own changes are seen by      *)
(* others when it commits, and it waits for rows others have locked.       *)
(***************************************************************************)
EXTENDS Integers, FiniteSets, TLC

CONSTANTS Contexts, Origins,
          Redeemers,       \* redeemContext calls that may run at once
          ContextTtl,      \* CONTEXT_TTL_MILLISECONDS, in ticks
          EmbedSessionTtl, \* SESSION_TTL_MILLISECONDS
          EmbedClock,      \* bound on the clock
          NoOrigin

ASSUME EmbedConstants == {ContextTtl, EmbedSessionTtl} \subseteq Nat \ {0} /\ EmbedClock \in Nat

VARIABLES embedNow,
          origin,        \* tenant_parent_origins: active or revoked
          context,       \* embed_contexts: [state, origin, expires, late]
          embedSession,  \* embed_sessions, by context: [state, expires]
          issuing,       \* issueContext calls between the binding's read and the commit
          redeeming,     \* redeemContext transactions
          revoking       \* the revokeParentOrigin transaction

embedVars == <<embedNow, origin, context, embedSession, issuing, redeeming, revoking>>

NoContext == [state |-> "none", origin |-> NoOrigin, expires |-> 0, late |-> FALSE]
NoSession == [state |-> "none", expires |-> 0]
NotRedeeming == [at |-> "idle", context |-> NoOrigin, now |-> 0, matches |-> FALSE]
NotIssuing == [origin |-> NoOrigin, now |-> 0]
NotRevoking == [at |-> "idle", origin |-> NoOrigin, contexts |-> {}, sessions |-> {}]

EmbedInit ==
    /\ embedNow = 0
    /\ origin = [o \in Origins |-> "active"]
    /\ context = [x \in Contexts |-> NoContext]
    /\ embedSession = [x \in Contexts |-> NoSession]
    /\ issuing = [x \in Contexts |-> NotIssuing]
    /\ redeeming = [r \in Redeemers |-> NotRedeeming]
    /\ revoking = NotRevoking

-----------------------------------------------------------------------------
(* issueContext reads the tenant's active binding without a lock ... *)
IssueContextBegin(x, o) ==
    /\ context[x].state = "none" /\ issuing[x] = NotIssuing
    /\ origin[o] = "active"
    /\ issuing' = [issuing EXCEPT ![x] = [origin |-> o, now |-> embedNow]]
    /\ UNCHANGED <<embedNow, origin, context, embedSession, redeeming, revoking>>

(* ... and inserts the context, dated by the call's start.  late: the origin's revocation had passed over
   the contexts, or was complete, before this one was there. *)
IssueContextEnd(x) ==
    LET o == issuing[x].origin
    IN /\ issuing[x] # NotIssuing
       /\ context' = [context EXCEPT ![x] =
            [state |-> "issued", origin |-> o, expires |-> issuing[x].now + ContextTtl,
             late |-> \/ origin[o] = "revoked"
                      \/ revoking.origin = o /\ revoking.at \in {"contexts", "sessions"}]]
       /\ issuing' = [issuing EXCEPT ![x] = NotIssuing]
       /\ UNCHANGED <<embedNow, origin, embedSession, redeeming, revoking>>

-----------------------------------------------------------------------------
(* Rows of embed_contexts held by a redemption, or by the revocation once its
   statement has got them. *)
HeldByRedeemer(x) == \E r \in Redeemers : redeeming[r].at = "locked" /\ redeeming[r].context = x
HeldByRevoker(x) == revoking.at = "sessions" /\ x \in revoking.contexts

(* redeemContext takes its time and, by its SELECT ... FOR UPDATE OF c, what is
   committed of the tenant and the origin.  matches: the request names the
   tenant, origin and audience the context was issued for, and all are active. *)
RedeemBegin(r, x, matches) ==
    /\ redeeming[r] = NotRedeeming /\ context[x].state # "none"
    /\ redeeming' = [redeeming EXCEPT ![r] =
         [at |-> "waiting", context |-> x, now |-> embedNow,
          matches |-> matches /\ origin[context[x].origin] = "active"]]
    /\ UNCHANGED <<embedNow, origin, context, embedSession, issuing, revoking>>

(* The row's lock is got, and the row read again: only an issued context is claimed. *)
RedeemLock(r) ==
    LET x == redeeming[r].context
    IN /\ redeeming[r].at = "waiting"
       /\ ~HeldByRedeemer(x) /\ ~HeldByRevoker(x)
       /\ redeeming' = IF context[x].state = "issued"
                       THEN [redeeming EXCEPT ![r].at = "locked"]
                       ELSE [redeeming EXCEPT ![r] = NotRedeeming]
       /\ UNCHANGED <<embedNow, origin, context, embedSession, issuing, revoking>>

Timely(r) == redeeming[r].now < context[redeeming[r].context].expires

(* The claim, its check and the session commit together; a claim that fails the
   check is terminal. *)
RedeemEnd(r) ==
    LET x == redeeming[r].context
        good == redeeming[r].matches /\ Timely(r)
    IN /\ redeeming[r].at = "locked"
       /\ context' = [context EXCEPT ![x].state = IF good THEN "redeemed" ELSE "invalid"]
       /\ embedSession' = IF good
            THEN [embedSession EXCEPT ![x] = [state |-> "unauthenticated",
                                              expires |-> redeeming[r].now + EmbedSessionTtl]]
            ELSE embedSession
       /\ redeeming' = [redeeming EXCEPT ![r] = NotRedeeming]
       /\ UNCHANGED <<embedNow, origin, issuing, revoking>>

(* The transaction fails, or the process stops, before its commit. *)
RedeemAbort(r) ==
    /\ redeeming[r].at = "locked"
    /\ redeeming' = [redeeming EXCEPT ![r] = NotRedeeming]
    /\ UNCHANGED <<embedNow, origin, context, embedSession, issuing, revoking>>

(* readSession. *)
SessionLive(x) ==
    embedSession[x].state = "unauthenticated" /\ embedSession[x].expires > embedNow

(* revokeSession, and deleteSession of the handlers. *)
RevokeEmbedSession(x) ==
    /\ embedSession[x].state = "unauthenticated"
    /\ embedSession' = [embedSession EXCEPT ![x].state = "revoked"]
    /\ UNCHANGED <<embedNow, origin, context, issuing, redeeming, revoking>>

-----------------------------------------------------------------------------
ContextsOf(o) == { x \in Contexts : context[x].state # "none" /\ context[x].origin = o }
SessionsOf(o) == { x \in ContextsOf(o) : embedSession[x].state # "none" }

(* revokeParentOrigin: the origin's row; the UPDATE of its contexts starts ... *)
RevokeOriginBegin(o) ==
    /\ revoking = NotRevoking /\ origin[o] = "active"
    /\ revoking' = [at |-> "contexts", origin |-> o, contexts |-> ContextsOf(o), sessions |-> {}]
    /\ UNCHANGED <<embedNow, origin, context, embedSession, issuing, redeeming>>

SessionsTogether ==
    /\ revoking.at = "contexts"
    /\ revoking' = [revoking EXCEPT !.at = "sessions", !.sessions = SessionsOf(revoking.origin)]
    /\ UNCHANGED <<embedNow, origin, context, embedSession, issuing, redeeming>>

(* ... and gets the rows it saw; then the UPDATE of its sessions starts ... *)
RevokeOriginContexts ==
    /\ revoking.at = "contexts"
    /\ \A x \in revoking.contexts : ~HeldByRedeemer(x)
    /\ revoking' = [revoking EXCEPT !.at = "sessions", !.sessions = SessionsOf(revoking.origin)]
    /\ UNCHANGED <<embedNow, origin, context, embedSession, issuing, redeeming>>

(* ... and all commit.  Each UPDATE changes the rows still in the states it names. *)
RevokeOriginEnd ==
    /\ revoking.at = "sessions"
    /\ origin' = [origin EXCEPT ![revoking.origin] = "revoked"]
    /\ context' = [x \in Contexts |->
         IF x \in revoking.contexts /\ context[x].state = "issued"
         THEN [context[x] EXCEPT !.state = "revoked"] ELSE context[x]]
    /\ embedSession' = [x \in Contexts |->
         IF x \in revoking.sessions /\ embedSession[x].state = "unauthenticated"
         THEN [embedSession[x] EXCEPT !.state = "revoked"] ELSE embedSession[x]]
    /\ revoking' = NotRevoking
    /\ UNCHANGED <<embedNow, issuing, redeeming>>

EmbedTick ==
    /\ embedNow < EmbedClock
    /\ embedNow' = embedNow + 1
    /\ UNCHANGED <<origin, context, embedSession, issuing, redeeming, revoking>>

EmbedNext ==
    \/ EmbedTick \/ RevokeOriginContexts \/ RevokeOriginEnd
    \/ \E o \in Origins : RevokeOriginBegin(o) \/ \E x \in Contexts : IssueContextBegin(x, o)
    \/ \E x \in Contexts : IssueContextEnd(x) \/ RevokeEmbedSession(x)
    \/ \E r \in Redeemers :
         \/ RedeemLock(r) \/ RedeemEnd(r) \/ RedeemAbort(r)
         \/ \E x \in Contexts, matches \in BOOLEAN : RedeemBegin(r, x, matches)

EmbedSpec == EmbedInit /\ [][EmbedNext]_embedVars

-----------------------------------------------------------------------------
(* The revocation of an origin ends its sessions: however it overlaps the
   redemptions, a session of a revoked origin is live only when its context was
   inserted behind the revocation's back, by an issueContext that had read the
   origin before (revokeParentOrigin revokes contexts first, sessions second). *)
RevokedOriginEndsSessions ==
    \A x \in Contexts :
      SessionLive(x) /\ origin[context[x].origin] = "revoked" => context[x].late

(* A context opens one session or none, however many redemptions of it overlap
   each other and the revocation: no session beside a context refused or revoked
   (redeemContext, claimed under the row's lock), and none that outlives the
   context's expiry by more than the lifetime of a session. *)
ContextRedeemedOnce ==
    \A x \in Contexts : embedSession[x].state # "none" =>
      /\ context[x].state = "redeemed"
      /\ embedSession[x].expires < context[x].expires + EmbedSessionTtl

(* An embedded session belongs to one redeemed context of an origin that was not
   revoked before it, with any overlap of issue, redemption and revocation
   (redeemContext, revokeParentOrigin). *)
EmbedSessionsSafe ==
    /\ RevokedOriginEndsSessions
    /\ ContextRedeemedOnce
=============================================================================
