---------------------------- MODULE ClientSession ---------------------------
(***************************************************************************)
(* The browser client's session (lib/messaging/client.ts): calls that      *)
(* refresh on a 401 without waiting for one another, the rotating refresh  *)
(* token kept in local storage, sign-out, and the enrollment ceremony      *)
(* that replaces the device's MLS identity before the wallet has signed.   *)
(* The service (modelled in Sessions and Enrollment) rotates a refresh     *)
(* token once and ends the family of one that is presented twice.          *)
(***************************************************************************)
EXTENDS Integers, FiniteSets

CONSTANTS Calls,             \* calls of the page that may be in flight together
          MaxInstallations,  \* bound on completed enrollments
          MaxRotations,      \* bound on the rotations of a family
          MaxAttempts        \* bound on enrollment attempts

ASSUME ClientSessionBounds ==
    MaxInstallations \in Nat \ {0} /\ MaxRotations \in Nat \ {0} /\ MaxAttempts \in Nat \ {0}

VARIABLES service,   \* installation -> [identity, current, live], 0 current when not enrolled
          device,    \* the installation of IndexedDB's device record, or 0
          identity,  \* the MLS identity in IndexedDB: the attempt that made it
          token,     \* local storage: [of, generation], of = 0 when there is none
          ready,     \* the page's sessionState
          call,      \* call -> [at, token, device, answer]
          ceremony,  \* the enrollment under way: [at, identity, installation]
          attempts,  \* enrollments begun
          happened   \* what has happened to the page: overlap, lost, expired, left, enrolled

clientSessionVars == <<service, device, identity, token, ready, call, ceremony, attempts, happened>>

NoToken == [of |-> 0, generation |-> 0]
NoCall == [at |-> "idle", token |-> NoToken, device |-> 0, answer |-> 0]
NoCeremony == [at |-> "idle", identity |-> 0, installation |-> 0]
Installations == 1..MaxInstallations

ClientSessionInit ==
    /\ service = [i \in Installations |-> [identity |-> 0, current |-> 0, live |-> FALSE]]
    /\ device = 0 /\ identity = 0 /\ token = NoToken /\ ready = FALSE
    /\ call = [c \in Calls |-> NoCall]
    /\ ceremony = NoCeremony /\ attempts = 0 /\ happened = {}

Waiting == {c \in Calls : call[c].at # "idle"}

-----------------------------------------------------------------------------
(* tryRefresh reads the token and the device record, and posts them. *)
RefreshBegins(c) ==
    /\ call[c].at = "idle" /\ token # NoToken /\ device # 0
    /\ call' = [call EXCEPT ![c] = [at |-> "sent", token |-> token, device |-> device, answer |-> 0]]
    /\ happened' = IF Waiting = {} /\ ceremony.at = "idle" THEN happened ELSE happened \cup {"overlap"}
    /\ UNCHANGED <<service, device, identity, token, ready, ceremony, attempts>>

(* The service: the family's current token, proved with the installation's own key, is rotated; a token that
   was already rotated ends the family. *)
RefreshServed(c) ==
    LET t == call[c].token
        family == service[t.of]
        rotates == family.live /\ t.generation = family.current /\ call[c].device = t.of
    IN /\ call[c].at = "sent"
       /\ rotates => family.current < MaxRotations
       /\ call' = [call EXCEPT ![c].at = "answered", ![c].answer = IF rotates THEN family.current + 1 ELSE 0]
       /\ service' = IF rotates THEN [service EXCEPT ![t.of].current = @ + 1]
                     ELSE IF t.generation < family.current THEN [service EXCEPT ![t.of].live = FALSE]
                     ELSE service
       /\ UNCHANGED <<device, identity, token, ready, ceremony, attempts, happened>>

TokenKept(c) ==   \* mutant: the rotated token is not stored
    /\ call[c].at = "answered"
    /\ call' = [call EXCEPT ![c] = NoCall]
    /\ IF call[c].answer = 0 THEN token' = NoToken /\ ready' = FALSE ELSE ready' = TRUE /\ UNCHANGED token
    /\ UNCHANGED <<service, device, identity, ceremony, attempts, happened>>

(* The rotated token is stored; a 401 signs the page out (signOutLocal). *)
RefreshAnswered(c) ==
    /\ call[c].at = "answered"
    /\ call' = [call EXCEPT ![c] = NoCall]
    /\ IF call[c].answer = 0
       THEN token' = NoToken /\ ready' = FALSE
       ELSE token' = [call[c].token EXCEPT !.generation = call[c].answer] /\ ready' = TRUE
    /\ UNCHANGED <<service, device, identity, ceremony, attempts, happened>>

(* Any other failure leaves the stored token as it is; the service may have rotated it. *)
RefreshLost(c) ==
    /\ call[c].at \in {"sent", "answered"}
    /\ call' = [call EXCEPT ![c] = NoCall]
    /\ happened' = happened \cup {"lost"}
    /\ UNCHANGED <<service, device, identity, token, ready, ceremony, attempts>>

(* The family ends at the service: it expired, or was revoked elsewhere. *)
FamilyEnds(i) ==
    /\ service[i].live
    /\ service' = [service EXCEPT ![i].live = FALSE]
    /\ happened' = happened \cup {"expired"}
    /\ UNCHANGED <<device, identity, token, ready, call, ceremony, attempts>>

(* signOut: the session is deleted if the call gets through, and the page forgets its token either way. *)
SignOut ==
    /\ ready
    /\ service' \in {service, [service EXCEPT ![token.of].live = FALSE]}
    /\ token # NoToken
    /\ token' = NoToken /\ ready' = FALSE
    /\ happened' = happened \cup {"left"}
    /\ UNCHANGED <<device, identity, call, ceremony, attempts>>

(* The page is loaded again: memory is lost, storage is kept (restoreSession then refreshes). *)
Reload ==
    /\ ready' = FALSE
    /\ call' = [c \in Calls |-> NoCall] /\ ceremony' = NoCeremony
    /\ happened' = happened \cup (IF Waiting = {} THEN {} ELSE {"lost"})
                        \cup (IF ceremony.at = "idle" THEN {} ELSE {"abandoned"})
    /\ UNCHANGED <<service, device, identity, token, attempts>>

-----------------------------------------------------------------------------
(* enrollDevice, offered while there is no session: a fresh identity replaces the stored one before the
   challenges are asked for. *)
EnrollBegins ==
    /\ ceremony.at = "idle" /\ ~ready /\ attempts < MaxAttempts
    /\ attempts' = attempts + 1 /\ identity' = attempts + 1
    /\ ceremony' = [at |-> "signing", identity |-> attempts + 1, installation |-> 0]
    /\ happened' = IF Waiting = {} THEN happened ELSE happened \cup {"overlap"}
    /\ UNCHANGED <<service, device, token, ready, call>>

(* The wallet declines, the service refuses, or an answer is lost after the completion. *)
EnrollFails ==
    /\ ceremony.at \in {"signing", "completed"}
    /\ ceremony' = NoCeremony
    /\ happened' = happened \cup {"abandoned"}
    /\ UNCHANGED <<service, device, identity, token, ready, call, attempts>>

EnrollCompletes ==
    /\ ceremony.at = "signing"
    /\ \E i \in Installations :
         /\ service[i].current = 0 /\ \A j \in 1..i - 1 : service[j].current # 0
         /\ service' = [service EXCEPT ![i] = [identity |-> ceremony.identity, current |-> 1, live |-> TRUE]]
         /\ ceremony' = [ceremony EXCEPT !.at = "completed", !.installation = i]
    /\ UNCHANGED <<device, identity, token, ready, call, attempts, happened>>

(* The device record, and after it the token, are stored. *)
EnrollDeviceSaved ==
    /\ ceremony.at = "completed"
    /\ device' = ceremony.installation
    /\ ceremony' = [ceremony EXCEPT !.at = "saved"]
    /\ UNCHANGED <<service, identity, token, ready, call, attempts, happened>>

EnrollTokenSaved ==
    /\ ceremony.at = "saved"
    /\ token' = [of |-> ceremony.installation, generation |-> 1]
    /\ ready' = TRUE /\ ceremony' = NoCeremony
    /\ UNCHANGED <<service, device, identity, call, attempts, happened>>

ClientSessionNext ==
    \/ \E c \in Calls : RefreshBegins(c) \/ RefreshServed(c) \/ RefreshAnswered(c) \/ RefreshLost(c)
    \/ \E i \in Installations : FamilyEnds(i)
    \/ SignOut \/ Reload
    \/ EnrollBegins \/ EnrollFails \/ EnrollCompletes \/ EnrollDeviceSaved \/ EnrollTokenSaved

ClientSessionSpec == ClientSessionInit /\ [][ClientSessionNext]_clientSessionVars

-----------------------------------------------------------------------------
(* A device whose refresh is refused had a cause: refreshes that overlapped, an answer that was lost, or a
   family ended by its expiry or by the user.  Refreshes made one after the other keep the session for ever
   (tryRefresh against the service's reuse rule). *)
RefusedForCause ==
    \A c \in Calls : call[c].at = "answered" /\ call[c].answer = 0
      => happened \cap {"overlap", "lost", "expired", "left", "abandoned"} # {}

(* A page that is ready presents the MLS identity its installation enrolled, unless an enrollment was begun
   and not finished on this device (resetMlsIdentity, enrollDevice). *)
IdentityEnrolled ==
    ready /\ ceremony.at = "idle" /\ happened \cap {"abandoned", "overlap"} = {}
      => identity = service[device].identity

(* The stored token is of the stored device, so its proofs are made with the right key, once no call and no
   enrollment is under way (enrollDevice's two stores, tryRefresh). *)
TokenOfDevice ==
    token # NoToken /\ ceremony.at = "idle" /\ happened \cap {"overlap", "abandoned"} = {}
      => token.of = device

(* An abandoned enrollment costs nothing: a page that is ready has the identity of its installation ("Only the
   attempt that actually enrolls keeps its identity ... so abandoned attempts cost nothing", mls.ts). *)
AbandonedCostsNothing ==
    ready /\ ceremony.at = "idle" => identity = service[device].identity

(* A page stays signed in with the device, the token and the MLS identity that belong together, unless one of
   the named mishaps came between its separate stores (client.ts). *)
PageSessionSafe ==
    /\ RefusedForCause
    /\ IdentityEnrolled
    /\ TokenOfDevice
=============================================================================
