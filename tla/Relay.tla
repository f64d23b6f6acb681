------------------------------- MODULE Relay -------------------------------
(***************************************************************************)
(* The channel relay of one member (relay/relayDrain.ts, relayFormat.ts,   *)
(* storage/relayInstallationStore.ts and the relay handlers of             *)
(* http/messagingHttp.ts): a service-operated MLS member whose sealed      *)
(* state lives in one row.  Three transactions write that row under its    *)
(* lock: the provisioner's top-up, the keeper's drain and the sealing of a *)
(* reply that came in through the webhook.                                 *)
(*                                                                         *)
(* The drain sends to the channel before it commits, so an abort keeps     *)
(* what was sent and forgets that it was.  The MLS library is external: a  *)
(* group follows the Commits in order, opens messages of its own epoch     *)
(* only, and is closed by the Commit that removes its member.              *)
(***************************************************************************)
EXTENDS Integers, Sequences, FiniteSets, SequencesExt

CONSTANTS Talks, Packages, Updates,
          Keepers,        \* relayDrain requests that may run at once
          Hooks,          \* telegramWebhook requests that may run at once
          ConversationTag(_), \* conversationTag
          Address(_),     \* the tag a Telegram update starts with, or NoTag
          NoTag, Nobody,
          MaxLog,         \* bound on a conversation's log
          MaxGeneration,  \* bound on the replies sealed in one epoch
          Faulty          \* whether a drain may also die for reasons outside this model

VARIABLES relay,          \* relay_installations.state, or "none"
          snapshot,       \* the sealed MLS state: [keys, group]
          shelf,          \* the relay's available KeyPackages
          intent,         \* the open membership intent on the relay, per conversation
          seated,         \* memberships of the relay with removed_at NULL
          welcome,        \* the mls_welcomes row for the relay, per conversation
          convLog,        \* envelopes, per conversation
          gate,           \* the policy anchor's witness_state is verified
          mark,           \* relay_forward_watermarks.processed_position, 0 for no row
          draining,       \* drain transactions, by keeper
          hook,           \* inbound updates being handled
          sent,           \* how often the member's channel got the message at a position (two is many)
          unsent          \* messages whose send the provider refused

relayVars == <<relay, snapshot, shelf, intent, seated, welcome, convLog, gate, mark,
               draining, hook, sent, unsent>>

NoGroup == [joined |-> 0, epoch |-> 0, live |-> FALSE, generation |-> 0]
NoIntent == [operation |-> "none", package |-> Nobody]
NoWelcome == [at |-> 0, package |-> Nobody]
NoDrain == [at |-> "idle", state |-> [keys |-> {}, group |-> <<>>], marks |-> <<>>,
            todo |-> {}, conv |-> Nobody, upTo |-> 0]
NoHook == [at |-> "idle", update |-> Nobody, conv |-> Nobody, declared |-> 0,
           sealed |-> [epoch |-> 0, generation |-> 0]]

RelayInit ==
    /\ relay = "none" /\ snapshot = [keys |-> {}, group |-> [c \in Talks |-> NoGroup]]
    /\ shelf = {}
    /\ intent = [c \in Talks |-> NoIntent]
    /\ seated = [c \in Talks |-> FALSE]
    /\ welcome = [c \in Talks |-> NoWelcome]
    /\ convLog = [c \in Talks |-> <<>>]
    /\ gate = [c \in Talks |-> TRUE]
    /\ mark = [c \in Talks |-> 0]
    /\ draining = [k \in Keepers |-> NoDrain]
    /\ hook = [h \in Hooks |-> NoHook]
    /\ sent = [c \in Talks |-> [n \in 1..MaxLog |-> 0]]
    /\ unsent = {}

-----------------------------------------------------------------------------
Commits == {"add", "remove", "commit"}
Entry(class) == [class |-> class, update |-> Nobody, sealed |-> [epoch |-> 0, generation |-> 0]]

(* The epoch of a conversation after its first n envelopes. *)
EpochAt(c, n) == Len(SelectSeq(SubSeq(convLog[c], 1, n), LAMBDA e : e.class \in Commits))
Epoch(c) == EpochAt(c, Len(convLog[c]))

(* withState holds the relay's row FOR UPDATE from its first statement to the commit. *)
RowFree == \A k \in Keepers : draining[k].at = "idle"
CanMutate == relay = "active" /\ RowFree

-----------------------------------------------------------------------------
(* provision: the first call makes the relay with one KeyPackage; later ones put one on an empty shelf,
   its private key going into the sealed state. *)
Provision(p) ==
    /\ relay = "none" \/ (CanMutate /\ shelf = {})
    /\ p \notin snapshot.keys
    /\ \A c \in Talks : welcome[c].package # p /\ intent[c].package # p
    /\ relay' = "active" /\ shelf' = {p}
    /\ snapshot' = [snapshot EXCEPT !.keys = @ \cup {p}]
    /\ UNCHANGED <<intent, seated, welcome, convLog, gate, mark, draining, hook, sent, unsent>>

(* enableConversationRelay, once provisioned: refused when the relay is seated; the intent takes a package. *)
EnableConversationRelay(c) ==
    /\ relay = "active" /\ ~seated[c] /\ intent[c] = NoIntent
    /\ \E p \in shelf :
         /\ intent' = [intent EXCEPT ![c] = [operation |-> "add", package |-> p]]
         /\ shelf' = shelf \ {p}
    /\ UNCHANGED <<relay, snapshot, seated, welcome, convLog, gate, mark, draining, hook, sent, unsent>>

DisableConversationRelay(c) ==
    /\ relay = "active" /\ seated[c] /\ intent[c] = NoIntent
    /\ intent' = [intent EXCEPT ![c] = [operation |-> "remove", package |-> Nobody]]
    /\ UNCHANGED <<relay, snapshot, shelf, seated, welcome, convLog, gate, mark, draining, hook, sent, unsent>>

(* composeRelayIntent cancels an intent whose proposal cannot be recorded, and intents expire; a taken
   package is not given back. *)
CancelSeat(c) ==
    /\ intent[c] # NoIntent
    /\ intent' = [intent EXCEPT ![c] = NoIntent]
    /\ UNCHANGED <<relay, snapshot, shelf, seated, welcome, convLog, gate, mark, draining, hook, sent, unsent>>

(* The member's device commits the intent: one envelope, the membership window, the Welcome (the one of an
   earlier window is deleted), and the conversation closed until the new policy head is witnessed. *)
CommitIntent(c) ==
    LET adds == intent[c].operation = "add"
    IN /\ intent[c] # NoIntent /\ gate[c] /\ Len(convLog[c]) < MaxLog
       /\ convLog' = [convLog EXCEPT ![c] = Append(@, Entry(intent[c].operation))]
       /\ seated' = [seated EXCEPT ![c] = adds]
       /\ welcome' = IF adds
                     THEN [welcome EXCEPT ![c] = [at |-> Len(convLog[c]) + 1, package |-> intent[c].package]]
                     ELSE welcome
       /\ intent' = [intent EXCEPT ![c] = NoIntent]
       /\ gate' = [gate EXCEPT ![c] = FALSE]
       /\ UNCHANGED <<relay, snapshot, shelf, mark, draining, hook, sent, unsent>>

(* Another member's Commit, and another member's message. *)
MemberCommits(c) ==
    /\ gate[c] /\ Len(convLog[c]) < MaxLog
    /\ convLog' = [convLog EXCEPT ![c] = Append(@, Entry("commit"))]
    /\ gate' = [gate EXCEPT ![c] = FALSE]
    /\ UNCHANGED <<relay, snapshot, shelf, intent, seated, welcome, mark, draining, hook, sent, unsent>>

MemberSends(c) ==
    /\ gate[c] /\ Len(convLog[c]) < MaxLog
    /\ convLog' = [convLog EXCEPT ![c] =
                     Append(@, [Entry("message") EXCEPT !.sealed.epoch = Epoch(c)])]
    /\ UNCHANGED <<relay, snapshot, shelf, intent, seated, welcome, gate, mark, draining, hook, sent, unsent>>

WitnessPolicy(c) ==
    /\ ~gate[c]
    /\ gate' = [gate EXCEPT ![c] = TRUE]
    /\ UNCHANGED <<relay, snapshot, shelf, intent, seated, welcome, convLog, mark, draining, hook, sent, unsent>>

-----------------------------------------------------------------------------
(* The bridge verbs on one group (external). *)
JoinedGroup(c) == [joined |-> welcome[c].at, epoch |-> EpochAt(c, welcome[c].at), live |-> TRUE, generation |-> 0]
Merged(g, class) == [g EXCEPT !.epoch = @ + 1, !.live = class # "remove", !.generation = 0]

(* drainOne, up to its first loop: the row is locked and every Welcome without a watermark is joined. *)
DrainBegin(k) ==
    LET fresh == {c \in Talks : welcome[c] # NoWelcome /\ mark[c] = 0}
    IN /\ CanMutate /\ draining[k] = NoDrain
       /\ \A c \in fresh : welcome[c].package \in snapshot.keys
       /\ draining' = [draining EXCEPT ![k] =
            [NoDrain EXCEPT
               !.at = "joined",
               !.state = [keys |-> snapshot.keys \ {welcome[c].package : c \in fresh},
                          group |-> [c \in Talks |-> IF c \in fresh THEN JoinedGroup(c) ELSE snapshot.group[c]]],
               !.marks = [c \in Talks |-> IF c \in fresh THEN welcome[c].at ELSE mark[c]]]]
       /\ UNCHANGED <<relay, snapshot, shelf, intent, seated, welcome, convLog, gate, mark, hook, sent, unsent>>

(* The seats: watermarks whose membership is live. *)
DrainSeats(k) ==
    /\ draining[k].at = "joined"
    /\ draining' = [draining EXCEPT ![k].at = "folding",
                                    ![k].todo = {c \in Talks : draining[k].marks[c] # 0 /\ seated[c]}]
    /\ UNCHANGED <<relay, snapshot, shelf, intent, seated, welcome, convLog, gate, mark, hook, sent, unsent>>

(* One seat's envelopes after its processed position, as they are when they are read. *)
DrainConversation(k, c) ==
    /\ draining[k].at = "folding" /\ draining[k].conv = Nobody /\ c \in draining[k].todo
    /\ draining' = [draining EXCEPT ![k].conv = c, ![k].upTo = Len(convLog[c])]
    /\ UNCHANGED <<relay, snapshot, shelf, intent, seated, welcome, convLog, gate, mark, hook, sent, unsent>>

(* One envelope.  A Commit is merged, another member's message is opened and sent, the relay's own is passed. *)
Opens(g, e) ==
    CASE e.class \in Commits -> g.live
      [] e.class = "message" -> g.live /\ g.epoch = e.sealed.epoch
      [] OTHER -> TRUE

DrainEnvelope(k, delivered) ==
    LET d == draining[k]
        c == d.conv
        n == d.marks[c] + 1
        e == convLog[c][n]
    IN /\ c # Nobody /\ n <= d.upTo
       /\ Opens(d.state.group[c], e)
       /\ draining' = [draining EXCEPT
            ![k].marks[c] = n,
            ![k].state.group[c] = IF e.class \in Commits THEN Merged(@, e.class) ELSE @]
       /\ sent' = IF e.class = "message" /\ delivered THEN [sent EXCEPT ![c][n] = IF @ = 2 THEN 2 ELSE @ + 1]
                                                      ELSE sent
       /\ unsent' = IF e.class = "message" /\ ~delivered THEN unsent \cup {<<c, n>>} ELSE unsent
       /\ e.class # "message" => delivered
       /\ UNCHANGED <<relay, snapshot, shelf, intent, seated, welcome, convLog, gate, mark, hook>>

(* The seat's last envelope is folded. *)
DrainedConversation(k) ==
    LET d == draining[k]
    IN /\ d.conv # Nobody /\ d.marks[d.conv] = d.upTo
       /\ draining' = [draining EXCEPT ![k].todo = @ \ {d.conv}, ![k].conv = Nobody, ![k].upTo = 0]
       /\ UNCHANGED <<relay, snapshot, shelf, intent, seated, welcome, convLog, gate, mark, hook, sent, unsent>>

(* The transaction commits: the watermarks and the resealed state together. *)
DrainCommit(k) ==
    /\ draining[k].at = "folding" /\ draining[k].todo = {}
    /\ snapshot' = draining[k].state /\ mark' = draining[k].marks
    /\ draining' = [draining EXCEPT ![k] = NoDrain]
    /\ UNCHANGED <<relay, shelf, intent, seated, welcome, convLog, gate, hook, sent, unsent>>

(* An exception leaves the row and the watermarks as they were: the bridge refuses an envelope, or the
   process, the connection or the commit fails.  runRelayDrain goes on to the next relay. *)
DrainAbort(k) ==
    LET d == draining[k]
    IN /\ d.at # "idle"
       /\ \/ Faulty
          \/ d.conv # Nobody /\ d.marks[d.conv] < d.upTo
             /\ ~Opens(d.state.group[d.conv], convLog[d.conv][d.marks[d.conv] + 1])
       /\ draining' = [draining EXCEPT ![k] = NoDrain]
       /\ UNCHANGED <<relay, snapshot, shelf, intent, seated, welcome, convLog, gate, mark, hook, sent, unsent>>

-----------------------------------------------------------------------------
(* routeInbound: the conversations a reply may go to, given the seated ones.  Of several with the tag the
   code takes the most recently drained. *)
RouteInbound(tag, candidates) ==
    LET matches == {c \in candidates : ConversationTag(c) = tag}
    IN IF tag # NoTag /\ matches # {} THEN matches
       ELSE IF Cardinality(candidates) = 1 THEN candidates
       ELSE {}

(* relayInbound reads the candidates, the send grant and the conversation's head ... *)
HookRoute(h, u) ==
    LET candidates == {c \in Talks : mark[c] # 0 /\ seated[c]}
    IN /\ relay = "active" /\ hook[h] = NoHook
       /\ \E c \in RouteInbound(Address(u), candidates) :
            /\ gate[c]
            /\ hook' = [hook EXCEPT ![h] = [NoHook EXCEPT !.at = "routed", !.update = u, !.conv = c,
                                                          !.declared = Epoch(c)]]
       /\ UNCHANGED <<relay, snapshot, shelf, intent, seated, welcome, convLog, gate, mark, draining, sent, unsent>>

(* Mutant: the reply is sealed without the row lock. *)
HookSealUnlocked(h) ==
    LET c == hook[h].conv
        g == snapshot.group[c]
    IN /\ hook[h].at = "routed" /\ relay = "active" /\ g.live /\ g.generation < MaxGeneration
       /\ snapshot' = [snapshot EXCEPT !.group[c].generation = @ + 1]
       /\ hook' = [hook EXCEPT ![h].at = "sealed",
                               ![h].sealed = [epoch |-> g.epoch, generation |-> g.generation + 1]]
       /\ UNCHANGED <<relay, shelf, intent, seated, welcome, convLog, gate, mark, draining, sent, unsent>>

(* ... seals under the relay's row lock, in the epoch the sealed state is at ... *)
HookSeal(h) ==
    LET c == hook[h].conv
        g == snapshot.group[c]
    IN /\ hook[h].at = "routed" /\ CanMutate /\ g.live /\ g.generation < MaxGeneration
       /\ snapshot' = [snapshot EXCEPT !.group[c].generation = @ + 1]
       /\ hook' = [hook EXCEPT ![h].at = "sealed",
                               ![h].sealed = [epoch |-> g.epoch, generation |-> g.generation + 1]]
       /\ UNCHANGED <<relay, shelf, intent, seated, welcome, convLog, gate, mark, draining, sent, unsent>>

(* ... and appends, keyed by the update.  The lane refuses a key or an envelope id the conversation has
   seen under another body, a moved epoch, a closed gate and a removed sender. *)
AlreadyAppended(u, c) == \E n \in DOMAIN convLog[c] : convLog[c][n].update = u

HookAppend(h) ==
    LET w == hook[h]
        c == w.conv
        admitted == /\ ~AlreadyAppended(w.update, c)
                    /\ w.declared = Epoch(c) /\ gate[c] /\ seated[c]
    IN /\ w.at = "sealed" /\ (admitted => Len(convLog[c]) < MaxLog)
       /\ convLog' = IF admitted
                     THEN [convLog EXCEPT ![c] = Append(@, [class |-> "reply", update |-> w.update,
                                                            sealed |-> w.sealed])]
                     ELSE convLog
       /\ hook' = [hook EXCEPT ![h] = NoHook]
       /\ UNCHANGED <<relay, snapshot, shelf, intent, seated, welcome, gate, mark, draining, sent, unsent>>

(* The handler fails or is lost; Telegram may deliver the update again. *)
HookLost(h) ==
    /\ hook[h] # NoHook
    /\ hook' = [hook EXCEPT ![h] = NoHook]
    /\ UNCHANGED <<relay, snapshot, shelf, intent, seated, welcome, convLog, gate, mark, draining, sent, unsent>>

-----------------------------------------------------------------------------
RelayNext ==
    \/ \E p \in Packages : Provision(p)
    \/ \E c \in Talks : \/ EnableConversationRelay(c) \/ DisableConversationRelay(c)
                                \/ CancelSeat(c) \/ CommitIntent(c)
                                \/ MemberCommits(c) \/ MemberSends(c) \/ WitnessPolicy(c)
    \/ \E k \in Keepers : \/ DrainBegin(k) \/ DrainSeats(k)
                          \/ \E c \in Talks : DrainConversation(k, c)
                          \/ \E delivered \in BOOLEAN : DrainEnvelope(k, delivered)
                          \/ DrainedConversation(k) \/ DrainCommit(k) \/ DrainAbort(k)
    \/ \E h \in Hooks : \/ \E u \in Updates : HookRoute(h, u)
                        \/ HookSeal(h) \/ HookAppend(h) \/ HookLost(h)

RelaySpec == RelayInit /\ [][RelayNext]_relayVars

(* The keeper calls relayDrain in every cycle, and a drain runs to its end. *)
DrainFairness ==
    \A k \in Keepers :
        /\ WF_relayVars(DrainBegin(k)) /\ WF_relayVars(DrainSeats(k))
        /\ WF_relayVars(\E c \in Talks : DrainConversation(k, c))
        /\ WF_relayVars(\E delivered \in BOOLEAN : DrainEnvelope(k, delivered))
        /\ WF_relayVars(DrainedConversation(k)) /\ WF_relayVars(DrainCommit(k)) /\ WF_relayVars(DrainAbort(k))

FairRelaySpec == RelaySpec /\ DrainFairness

-----------------------------------------------------------------------------
(* The sealed MLS state and the watermarks describe the same prefix of every conversation's log, whichever
   transactions ran, died or waited: a group out of step could never open another envelope. *)
StateInStep ==
    \A c \in Talks :
        mark[c] # 0 => snapshot.group[c].epoch = EpochAt(c, mark[c])

(* The sealed state holds the private key of every KeyPackage that may still come back in a Welcome: one on
   the shelf, one an intent took, one in a Welcome the relay has not joined. *)
KeysHeld ==
    /\ shelf \subseteq snapshot.keys
    /\ \A c \in Talks :
         /\ intent[c].operation = "add" => intent[c].package \in snapshot.keys
         /\ welcome[c].at # snapshot.group[c].joined => welcome[c].package \in snapshot.keys

(* A message of another member that the watermark has passed was handed to the channel: aborted drains,
   removals and replies in between never make the relay skip one. *)
NothingSkipped ==
    \A c \in Talks : \A n \in 1..Len(convLog[c]) :
        convLog[c][n].class = "message" /\ snapshot.group[c].joined < n /\ n <= mark[c]
          => sent[c][n] > 0 \/ <<c, n>> \in unsent

(* No two replies in a conversation are sealed under the same generation of the same epoch, however many
   webhook deliveries, drains and aborts run at once. *)
GenerationUsedOnce ==
    \A c \in Talks : \A m, n \in DOMAIN convLog[c] :
        convLog[c][m].class = "reply" /\ convLog[c][n].class = "reply" /\ m # n
          => convLog[c][m].sealed # convLog[c][n].sealed

(* A Telegram update is appended at most once to a conversation, however often it is delivered. *)
OneAppendPerUpdate ==
    \A c \in Talks : \A m, n \in DOMAIN convLog[c] :
        convLog[c][m].update = convLog[c][n].update /\ convLog[c][m].update # Nobody => m = n

(* "join any Welcome addressed to it" (relayDrain.ts, the comment of the outbound path): while the relay keeps
   the seat a Welcome gave it, the drains join that Welcome. *)
WelcomesJoined ==
    \A c \in Talks :
        (seated[c] /\ welcome[c].at # snapshot.group[c].joined)
          ~> ~(seated[c] /\ welcome[c].at # snapshot.group[c].joined)

(* The relay's one sealed state survives its three writers: it stays in step with the log and keeps its keys,
   no message is skipped, no generation or update is used twice (runRelayDrain, telegramWebhook, provision). *)
RelaySafe ==
    /\ StateInStep
    /\ KeysHeld
    /\ NothingSkipped
    /\ GenerationUsedOnce
    /\ OneAppendPerUpdate
=============================================================================
