--------------------------- MODULE Notifications ---------------------------
(***************************************************************************)
(* One account's notification channels (storage/notificationChannelStore   *)
(* .ts behind the channel handlers of http/messagingHttp.ts) and the       *)
(* wakeups sent to them (notify/notificationDispatch.ts), whose cooldown   *)
(* lives in the memory of each server instance.                            *)
(***************************************************************************)
EXTENDS Integers, FiniteSets

CONSTANTS Channels, Addresses, Chats,
          Scopes,            \* what a wakeup is about: a conversation or a project
          Servers,           \* server instances
          CodeTtl, TokenTtl, \* CODE_TTL_MS and TOKEN_TTL_MS, in ticks
          Cooldown,          \* COOLDOWN_MS
          MaxVerifyAttempts, \* MAX_VERIFY_ATTEMPTS
          MaxCooldowns,      \* the size at which a server forgets elapsed cooldowns
          NotifyClock,       \* bound on the clock
          NoTarget

ASSUME NotifyConstants ==
    {CodeTtl, TokenTtl, Cooldown, MaxVerifyAttempts, MaxCooldowns, NotifyClock} \subseteq Nat

VARIABLES notifyNow,
          channel,      \* notification_channels
          guesses,      \* how often a code was compared with the channel's
          lastSentAt,   \* by server: the cooldown map, as a set of [scope, at]
          dispatching,  \* dispatch calls past the cooldown, before the read of the channels
          woken         \* wakeups sent: [server, scope, channel, at]

notifyVars == <<notifyNow, channel, guesses, lastSentAt, dispatching, woken>>

NoChannel == [kind |-> "none", target |-> NoTarget, state |-> "none", secret |-> FALSE,
              expires |-> 0, attempts |-> 0]

NotifyInit ==
    /\ notifyNow = 0
    /\ channel = [x \in Channels |-> NoChannel]
    /\ guesses = [x \in Channels |-> 0]
    /\ lastSentAt = [i \in Servers |-> {}]
    /\ dispatching = {} /\ woken = {}

-----------------------------------------------------------------------------
(* notification_channels_unique_active *)
TakenBy(x, kind, target) ==
    \E y \in Channels \ {x} : /\ channel[y].state = "active"
                              /\ channel[y].kind = kind /\ channel[y].target = target

ActiveElsewhere(x, kind, target) == TakenBy(x, kind, target)

(* createChannel: an email address that is active is refused; a Telegram channel has no target yet; a WhatsApp
   one is kept pending without a secret. *)
CreateChannel(x, kind, target) ==
    /\ channel[x] = NoChannel
    /\ kind = "telegram" <=> target = NoTarget
    /\ kind # "telegram" => ~TakenBy(x, kind, target)
    /\ channel' = [channel EXCEPT ![x] =
         [kind |-> kind, target |-> target, state |-> "pending", secret |-> kind # "whatsapp",
          expires |-> notifyNow + (IF kind = "telegram" THEN TokenTtl ELSE CodeTtl), attempts |-> 0]]
    /\ UNCHANGED <<notifyNow, guesses, lastSentAt, dispatching, woken>>

(* verifyEmailCode, under the row's lock.  A second channel of the same address cannot become active. *)
AttemptsLeft(x) == channel[x].attempts < MaxVerifyAttempts
MayGuess(x) == AttemptsLeft(x)

VerifyEmailCode(x, right) ==
    /\ channel[x].kind = "email" /\ channel[x].state = "pending" /\ channel[x].secret
    /\ channel[x].expires > notifyNow /\ MayGuess(x)
    /\ guesses' = [guesses EXCEPT ![x] = @ + 1]
    /\ IF right
       THEN /\ ~ActiveElsewhere(x, "email", channel[x].target)
            /\ channel' = [channel EXCEPT ![x].state = "active", ![x].secret = FALSE, ![x].expires = 0]
       ELSE channel' = [channel EXCEPT ![x].attempts = @ + 1]
    /\ UNCHANGED <<notifyNow, lastSentAt, dispatching, woken>>

(* redeemTelegramToken: the webhook saw /start with the channel's token from a chat. *)
Redeemable(x) ==
    /\ channel[x].kind = "telegram" /\ channel[x].state = "pending"
    /\ channel[x].secret /\ channel[x].expires > notifyNow

RedeemTelegramToken(x, chat) ==
    /\ Redeemable(x) /\ ~ActiveElsewhere(x, "telegram", chat)
    /\ channel' = [channel EXCEPT ![x].state = "active", ![x].target = chat,
                                  ![x].secret = FALSE, ![x].expires = 0]
    /\ UNCHANGED <<notifyNow, guesses, lastSentAt, dispatching, woken>>

Disable(x) ==
    /\ channel[x].state \in {"pending", "active"}
    /\ channel' = [channel EXCEPT ![x].state = "disabled"]
    /\ UNCHANGED <<notifyNow, guesses, lastSentAt, dispatching, woken>>

-----------------------------------------------------------------------------
(* dispatch up to its first await: a scope that is not cooling is marked at once, elapsed marks are dropped
   when the map is large. *)
Cooling(i, s) == \E m \in lastSentAt[i] : m.scope = s /\ notifyNow - m.at < Cooldown
Elapsed(marks) == {m \in marks : notifyNow - m.at >= Cooldown}

DispatchBeginUnmarked(i, s) ==   \* mutant: the mark is set only once the wakeup is out
    /\ ~Cooling(i, s)
    /\ dispatching' = dispatching \cup {[server |-> i, scope |-> s, at |-> notifyNow]}
    /\ UNCHANGED <<notifyNow, channel, guesses, lastSentAt, woken>>

DispatchBegin(i, s) ==
    LET marked == {m \in lastSentAt[i] : m.scope # s} \cup {[scope |-> s, at |-> notifyNow]}
    IN /\ ~Cooling(i, s)
       /\ lastSentAt' = [lastSentAt EXCEPT ![i] =
                           IF Cardinality(marked) > MaxCooldowns THEN marked \ Elapsed(marked) ELSE marked]
       /\ dispatching' = dispatching \cup {[server |-> i, scope |-> s, at |-> notifyNow]}
       /\ UNCHANGED <<notifyNow, channel, guesses, woken>>

(* The channels are read and each active one is sent to, once.  A failed read, a refused or a lost send is
   the end of it: nothing is tried again before the cooldown has run. *)
DispatchSend(d, reached) ==
    /\ d \in dispatching
    /\ reached \subseteq {x \in Channels : channel[x].state = "active" /\ channel[x].kind \in {"email", "telegram"}}
    /\ dispatching' = dispatching \ {d}
    /\ woken' = woken \cup {[server |-> d.server, scope |-> d.scope, channel |-> x, at |-> d.at] : x \in reached}
    /\ UNCHANGED <<notifyNow, channel, guesses, lastSentAt>>

NotifyTick ==
    /\ notifyNow < NotifyClock
    /\ notifyNow' = notifyNow + 1
    /\ UNCHANGED <<channel, guesses, lastSentAt, dispatching, woken>>

NotifyNext ==
    \/ \E x \in Channels : \/ \E target \in Addresses : \/ CreateChannel(x, "email", target)
                                                        \/ CreateChannel(x, "whatsapp", target)
                           \/ CreateChannel(x, "telegram", NoTarget)
                           \/ \E right \in BOOLEAN : VerifyEmailCode(x, right)
                           \/ \E chat \in Chats : RedeemTelegramToken(x, chat)
                           \/ Disable(x)
    \/ \E i \in Servers, s \in Scopes : DispatchBegin(i, s)
    \/ \E d \in dispatching, reached \in SUBSET Channels : DispatchSend(d, reached)
    \/ NotifyTick

NotifySpec == NotifyInit /\ [][NotifyNext]_notifyVars

-----------------------------------------------------------------------------
(* A channel's code is compared with at most MAX_VERIFY_ATTEMPTS guesses, whatever else is created, expires or
   is disabled in between. *)
GuessesBounded ==
    \A x \in Channels : guesses[x] <= MaxVerifyAttempts

(* Two channels that were pending for one address or chat never both become active. *)
OneActivePerTarget ==
    \A x, y \in Channels :
        channel[x].state = "active" /\ channel[y].state = "active"
          /\ channel[x].kind = channel[y].kind /\ channel[x].target = channel[y].target => x = y

(* One server wakes a channel about a scope at most once in a cooldown, though dispatch awaits between the
   check and the send, and channels come and go meanwhile. *)
WakeupsSpaced ==
    \A v, w \in woken :
        v.server = w.server /\ v.scope = w.scope /\ v.channel = w.channel /\ v.at <= w.at /\ v # w
          => w.at - v.at >= Cooldown

(* A verified channel's target never changes, and what was disabled never comes back: a token that was used
   once cannot move the channel to another chat. *)
TargetFixed ==
    [][\A x \in Channels :
         /\ channel[x].state = "active" => channel'[x].target = channel[x].target
         /\ channel[x].state = "disabled" => channel'[x].state = "disabled"]_notifyVars

(* Channels are confirmed by few guesses, one per target, and woken at most once per cooldown
   (notificationChannelStore, notificationDispatch). *)
NotificationsSafe ==
    /\ GuessesBounded
    /\ OneActivePerTarget
    /\ WakeupsSpaced
=============================================================================
