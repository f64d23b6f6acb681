---------------------------- MODULE ClientDevice ----------------------------
(***************************************************************************)
(* The browser client of one conversation (lib/messaging/conversation.ts   *)
(* over mls.ts and idb.ts): it creates or joins the MLS group, reads the   *)
(* log, sends, and commits a relay seat, while its page polls every five   *)
(* seconds whether or not the last poll has ended.                         *)
(*                                                                         *)
(* Between two awaits an operation is alone; at an await any other one may *)
(* run, and the tab may be closed.  What a step leaves in IndexedDB (the   *)
(* MLS state, the group map, the message cache) outlives the tab.  MLS is  *)
(* external: a Commit is merged in its own epoch only, a ciphertext opened *)
(* once and in its own epoch, a KeyPackage used by one join.  The service  *)
(* is the log: it takes a message or a Commit for the current epoch.       *)
(***************************************************************************)
EXTENDS Integers, Sequences, FiniteSets

CONSTANTS Readers,    \* decryptedMessages passes that may overlap
          MaxEvents,  \* bound on the log and on the device's epoch
          MaxFaults   \* bound on failed fetches, lost answers and closed tabs

VARIABLES events,     \* the log: [class, mine, epoch the sender's group was in]
          group,      \* the device's MLS group: [at: position joined, epoch, used]
          position,   \* its entry in the group map: processedPosition, or 0
          cache,      \* the message cache: position -> none, text or blank
          pass,       \* decryptedMessages: [at, limit, next, position, cache]
          sending,    \* sendMessage: [at, epoch, sealed, position, cache]
          committing, \* enableRelay and disableRelay: [at, epoch, resulting, position]
          joining,    \* startConversation or syncWelcomes: idle, joined
          upset       \* what has happened to the client so far

deviceVars == <<events, group, position, cache, pass, sending, committing, joining, upset>>

Positions == 1..MaxEvents
Empty == [i \in Positions |-> "none"]
NoPass == [at |-> "idle", limit |-> 0, next |-> 0, position |-> 0, cache |-> Empty]
NoSend == [at |-> "idle", epoch |-> 0, sealed |-> 0, position |-> 0, cache |-> Empty]
NoCommit == [at |-> "idle", epoch |-> 0, resulting |-> 0, position |-> 0]

Event(class, mine, epoch) == [class |-> class, mine |-> mine, epoch |-> epoch]
EpochOf(n) == Cardinality({i \in 1..n : events[i].class = "commit"})
LogEpoch == EpochOf(Len(events))

DeviceInit ==
    /\ \/ events = <<>>
       \/ events = <<Event("commit", FALSE, 0)>>
    /\ group = [at |-> 0, epoch |-> 0, used |-> {}]
    /\ position = 0 /\ cache = Empty
    /\ pass = [r \in Readers |-> NoPass]
    /\ sending = NoSend /\ committing = NoCommit /\ joining = "idle"
    /\ upset = {}

(* Operations in progress: a step beside one of them makes both overlap. *)
Busy == {r \in Readers : pass[r].at # "idle"} \cup {k \in {"send"} : sending.at # "idle"}
          \cup {k \in {"commit"} : committing.at # "idle"} \cup {k \in {"join"} : joining # "idle"}
Overlaps == IF Busy = {} THEN upset ELSE upset \cup {"overlap"}
Faults(why) == IF why \in upset THEN upset ELSE upset \cup {why}
MayFault == Cardinality(upset \ {"overlap"}) < MaxFaults

-----------------------------------------------------------------------------
(* The other members, in step with the log. *)
PeerSends ==
    /\ Len(events) < MaxEvents /\ events # <<>>
    /\ events' = Append(events, Event("application", FALSE, LogEpoch))
    /\ UNCHANGED <<group, position, cache, pass, sending, committing, joining, upset>>

PeerCommits ==
    /\ Len(events) < MaxEvents /\ events # <<>>
    /\ events' = Append(events, Event("commit", FALSE, LogEpoch))
    /\ UNCHANGED <<group, position, cache, pass, sending, committing, joining, upset>>

-----------------------------------------------------------------------------
JoinedGroup == [at |-> 1, epoch |-> 1, used |-> {}]

(* activatePlannedConversation: the group is built and saved, the activation posted, and only then is the
   conversation's entry remembered; without its answer it never is. *)
Activate ==
    /\ events = <<>> /\ joining = "idle"
    /\ group' = JoinedGroup
    /\ events' = <<Event("commit", TRUE, 0)>>
    /\ \/ joining' = "joined" /\ upset' = Overlaps
       \/ MayFault /\ joining' = "idle" /\ upset' = Faults("lost")
    /\ UNCHANGED <<position, cache, pass, sending, committing>>

(* syncWelcomes: a conversation without an entry is joined; its KeyPackage is then spent. *)
JoinWelcome ==
    /\ events # <<>> /\ ~events[1].mine /\ position = 0 /\ joining = "idle"
    /\ group.at = 0
    /\ group' = JoinedGroup
    /\ joining' = "joined" /\ upset' = Overlaps
    /\ UNCHANGED <<events, position, cache, pass, sending, committing>>

RememberJoined ==
    /\ joining = "joined"
    /\ position' = 1 /\ joining' = "idle"
    /\ UNCHANGED <<events, group, cache, pass, sending, committing, upset>>

-----------------------------------------------------------------------------
(* decryptedMessages reads the entry and the cache for a page fetched before. *)
BeginPass(r, limit) ==
    /\ pass[r].at = "idle" /\ position # 0 /\ limit <= Len(events)
    /\ pass' = [pass EXCEPT ![r] = [at |-> "event", limit |-> limit, next |-> 1, position |-> position,
                                    cache |-> cache]]
    /\ upset' = Overlaps
    /\ UNCHANGED <<events, group, position, cache, sending, committing, joining>>

Current(r) == events[pass[r].next]
Reading(r) == pass[r].at = "event" /\ pass[r].next <= pass[r].limit
Advance(r) == [pass EXCEPT ![r].next = @ + 1]

(* Nothing to do for an event: a Commit already covered, or a message in the cache. *)
SkipEvent(r) ==
    /\ Reading(r)
    /\ \/ Current(r).class = "commit" /\ pass[r].next <= pass[r].position
       \/ Current(r).class = "application" /\ pass[r].cache[pass[r].next] # "none"
    /\ pass' = Advance(r)
    /\ UNCHANGED <<events, group, position, cache, sending, committing, joining, upset>>

NotSkipped(r) ==
    Reading(r) /\ IF Current(r).class = "commit" THEN pass[r].next > pass[r].position
                                                ELSE pass[r].cache[pass[r].next] = "none"

(* A fetch that fails ends the pass at a Commit and passes over a message. *)
FetchFails(r) ==
    /\ NotSkipped(r) /\ MayFault
    /\ upset' = Faults("fetch")
    /\ pass' = IF Current(r).class = "commit" THEN [pass EXCEPT ![r] = NoPass] ELSE Advance(r)
    /\ UNCHANGED <<events, group, position, cache, sending, committing, joining>>

(* A Commit of this device was merged when it was made; another one is merged now, or the pass ends. *)
MergesOnlyOwn(r) ==   \* mutant: the Commits of others are taken for merged
    /\ NotSkipped(r) /\ Current(r).class = "commit"
    /\ pass' = [pass EXCEPT ![r].at = "remember", ![r].position = pass[r].next]
    /\ UNCHANGED <<events, group, position, cache, sending, committing, joining, upset>>

Mergeable(i) == group.epoch = events[i].epoch

ReadCommit(r) ==
    /\ NotSkipped(r) /\ Current(r).class = "commit"
    /\ IF Current(r).mine \/ Mergeable(pass[r].next)
       THEN /\ pass' = [pass EXCEPT ![r].at = "remember", ![r].position = pass[r].next]
            /\ group' = IF Current(r).mine THEN group ELSE [group EXCEPT !.epoch = @ + 1]
       ELSE pass' = [pass EXCEPT ![r] = NoPass] /\ UNCHANGED group
    /\ UNCHANGED <<events, position, cache, sending, committing, joining, upset>>

RememberCommit(r) ==
    /\ pass[r].at = "remember"
    /\ position' = pass[r].next
    /\ pass' = [pass EXCEPT ![r].at = "event", ![r].next = @ + 1]
    /\ UNCHANGED <<events, group, cache, sending, committing, joining, upset>>

(* A message of this device that is not in the cache cannot be recovered; another one is opened, once, and
   cached, as blank when it does not open. *)
ReadOwn(r) ==
    /\ NotSkipped(r) /\ Current(r).class = "application" /\ Current(r).mine
    /\ pass' = [Advance(r) EXCEPT ![r].cache[pass[r].next] = "blank"]
    /\ UNCHANGED <<events, group, position, cache, sending, committing, joining, upset>>

Opened(i) == group.epoch = events[i].epoch /\ i \notin group.used

ReadMessage(r) ==
    LET i == pass[r].next
    IN /\ NotSkipped(r) /\ Current(r).class = "application" /\ ~Current(r).mine
       /\ group' = IF Opened(i) THEN [group EXCEPT !.used = @ \cup {i}] ELSE group
       /\ pass' = [pass EXCEPT ![r].at = "write", ![r].cache[i] = IF Opened(i) THEN "text" ELSE "blank"]
       /\ UNCHANGED <<events, position, cache, sending, committing, joining, upset>>

WriteCache(r) ==
    /\ pass[r].at = "write"
    /\ cache' = pass[r].cache
    /\ pass' = [pass EXCEPT ![r].at = "event", ![r].next = @ + 1]
    /\ UNCHANGED <<events, group, position, sending, committing, joining, upset>>

EndPass(r) ==
    /\ pass[r].at = "event" /\ pass[r].next > pass[r].limit
    /\ pass' = [pass EXCEPT ![r] = NoPass]
    /\ UNCHANGED <<events, group, position, cache, sending, committing, joining, upset>>

-----------------------------------------------------------------------------
(* sendMessage: the conversation's detail, the seal, the append, and then the cache, read and written. *)
SealedEpoch == group.epoch

SendSeal ==
    /\ sending.at = "idle" /\ position # 0
    /\ sending' = [NoSend EXCEPT !.at = "sealed", !.epoch = LogEpoch, !.sealed = SealedEpoch]
    /\ upset' = Overlaps
    /\ UNCHANGED <<events, group, position, cache, pass, committing, joining>>

SendAppend ==
    /\ sending.at = "sealed"
    /\ IF sending.epoch = LogEpoch /\ Len(events) < MaxEvents
       THEN /\ events' = Append(events, Event("application", TRUE, sending.sealed))
            /\ \/ sending' = [sending EXCEPT !.at = "accepted", !.position = Len(events) + 1] /\ UNCHANGED upset
               \/ MayFault /\ sending' = NoSend /\ upset' = Faults("lost")
       ELSE sending' = NoSend /\ UNCHANGED <<events, upset>>
    /\ UNCHANGED <<group, position, cache, pass, committing, joining>>

SendReadCache ==
    /\ sending.at = "accepted"
    /\ sending' = [sending EXCEPT !.at = "write", !.cache = cache]
    /\ UNCHANGED <<events, group, position, cache, pass, committing, joining, upset>>

SendWriteCache ==
    /\ sending.at = "write"
    /\ cache' = [sending.cache EXCEPT ![sending.position] = "text"]
    /\ sending' = NoSend
    /\ UNCHANGED <<events, group, position, pass, committing, joining, upset>>

-----------------------------------------------------------------------------
(* enableRelay and disableRelay: the service composes an intent at its epoch, the device merges its own
   Commit, and posts it; a refused one stays merged.  Every Commit of this device after the first one adds the
   relay's seat or removes it. *)
RelaySeated == Cardinality({i \in 2..Len(events) : events[i].class = "commit" /\ events[i].mine}) % 2 = 1

AddsMember == [group EXCEPT !.epoch = @ + 1]
RemovesMember == [group EXCEPT !.epoch = @ + 1]

CommitMerge(merged) ==
    /\ committing.at = "idle" /\ position # 0 /\ group.epoch < MaxEvents
    /\ committing' = [NoCommit EXCEPT !.at = "merged", !.epoch = LogEpoch, !.resulting = merged.epoch]
    /\ group' = merged
    /\ upset' = Overlaps
    /\ UNCHANGED <<events, position, cache, pass, sending, joining>>

EnableRelay == ~RelaySeated /\ CommitMerge(AddsMember)
DisableRelay == RelaySeated /\ CommitMerge(RemovesMember)

CommitPost ==
    /\ committing.at = "merged"
    /\ IF committing.epoch = LogEpoch /\ committing.resulting = LogEpoch + 1 /\ Len(events) < MaxEvents
       THEN /\ events' = Append(events, Event("commit", TRUE, LogEpoch))
            /\ \/ /\ committing' = [committing EXCEPT !.at = "accepted", !.position = Len(events) + 1]
                  /\ UNCHANGED upset
               \/ MayFault /\ committing' = NoCommit /\ upset' = Faults("lost")
       ELSE committing' = NoCommit /\ upset' = Faults("refused") /\ UNCHANGED events
    /\ UNCHANGED <<group, position, cache, pass, sending, joining>>

CommitRemember ==
    /\ committing.at = "accepted"
    /\ position' = IF position = 0 THEN 0 ELSE committing.position
    /\ committing' = NoCommit
    /\ UNCHANGED <<events, group, cache, pass, sending, joining, upset>>

(* The tab is closed, and the client starts again from IndexedDB. *)
CloseTab ==
    /\ Busy # {} /\ MayFault
    /\ pass' = [r \in Readers |-> NoPass]
    /\ sending' = NoSend /\ committing' = NoCommit /\ joining' = "idle"
    /\ upset' = Faults("closed")
    /\ UNCHANGED <<events, group, position, cache>>

DeviceNext ==
    \/ PeerSends \/ PeerCommits
    \/ Activate \/ JoinWelcome \/ RememberJoined
    \/ \E r \in Readers :
         \/ \E limit \in 0..Len(events) : BeginPass(r, limit)
         \/ SkipEvent(r) \/ FetchFails(r) \/ ReadCommit(r) \/ RememberCommit(r)
         \/ ReadOwn(r) \/ ReadMessage(r) \/ WriteCache(r) \/ EndPass(r)
    \/ SendSeal \/ SendAppend \/ SendReadCache \/ SendWriteCache
    \/ EnableRelay \/ DisableRelay \/ CommitPost \/ CommitRemember
    \/ CloseTab

DeviceSpec == DeviceInit /\ [][DeviceNext]_deviceVars

-----------------------------------------------------------------------------
(* A message of another member sent after the device joined is given up only for a cause: operations that
   overlapped, a fetch that failed, a tab that was closed, a Commit that was refused, or a later Commit of
   this very device made before the message was read.  Passes that run one after the other open all the rest,
   across the Commits of others and lost answers (decryptedMessages). *)
LostForCause ==
    \A i \in 1..Len(events) :
      events[i].class = "application" /\ ~events[i].mine /\ cache[i] = "blank"
        => \/ upset \cap {"overlap", "fetch", "closed", "refused"} # {}
           \/ \E j \in i..Len(events) : events[j].class = "commit" /\ events[j].mine

(* The remembered position covers every Commit of others that the group has merged, so none is merged twice,
   as long as operations do not overlap and the tab stays open (GroupRecord, rememberGroup). *)
PositionCoversGroup ==
    Busy = {} /\ upset \cap {"overlap", "closed", "refused"} = {} /\ position # 0
      => \A i \in 1..Len(events) :
           events[i].class = "commit" /\ ~events[i].mine /\ i > position => group.epoch <= events[i].epoch

(* A message this device sent and whose acceptance it saw keeps its text (sendMessage's cache entry). *)
OwnTextKept ==
    \A i \in 1..Len(events) :
      events[i].class = "application" /\ events[i].mine /\ cache[i] = "blank"
        => upset \cap {"overlap", "closed", "lost"} # {}

(* A message that was opened, and can never be opened again, is in the cache with its text once nothing runs
   ("peer messages decrypt exactly once and are cached immediately", decryptedMessages). *)
OpenedIsKept ==
    Busy = {} => \A i \in group.used : cache[i] = "text"

(* A device keeps what it received and sent, and knows how far it has read, unless one of the named mishaps
   came between its separate stores (conversation.ts). *)
DeviceStateSafe ==
    /\ LostForCause
    /\ PositionCoversGroup
    /\ OwnTextKept
=============================================================================
