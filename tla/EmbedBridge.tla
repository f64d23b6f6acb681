---------------------------- MODULE EmbedBridge ----------------------------
(***************************************************************************)
(* The bridge between a host page (embed/hostSdk.ts) and the messaging     *)
(* frame it embeds (embed/EmbedProductionFrame.tsx), over the gates of     *)
(* embed/runtime.ts and the parsers of embed/protocol.ts, with the embed   *)
(* session the frame obtains from the service.                             *)
(*                                                                         *)
(* Both pages are honest.  postMessage keeps the order of one direction.   *)
(* The frame may be reloaded: a later document of the same window, which   *)
(* starts again with new nonces while messages of the earlier one are      *)
(* still on their way.  A nonce is the number of the document that drew    *)
(* it; the one channel id and parent nonce of a host are left out.  Only   *)
(* host.init carries a request id, so no request id is ever repeated.      *)
(***************************************************************************)
EXTENDS Integers, Sequences, FiniteSets

CONSTANTS MaxPerWindow,    \* EMBED_MAX_MESSAGES_PER_WINDOW
          MaxAccepted,     \* EMBED_MAX_ACCEPTED_MESSAGES
          MaxDocuments,    \* bound on the documents the frame's window loads
          MaxOperations,   \* bound on what the host page asks of the SDK
          NoNonce

ASSUME BridgeConstants == {MaxPerWindow, MaxAccepted, MaxDocuments} \subseteq Nat \ {0} /\ MaxOperations \in Nat

VARIABLES host,       \* [state, gate, handle, channel, why]
          frame,      \* [doc, phase, gate, timer, channel, why]
          toHost, toFrame,
          redemption, \* the redemption request: [at: idle, sent, made, refused or answered, by: document]
          deletion,   \* the DELETE: [at: idle, sent or done, cookie: it carries the cookie,
                      \*              after: the redemption was answered before it]
          cookie,     \* the browser holds the session's cookie
          session     \* embed_sessions: none, live, revoked

bridgeVars == <<host, frame, toHost, toFrame, redemption, deletion, cookie, session>>

Closed == [state |-> "none"]
Gate(next, peer, first) ==
    [state |-> "open", next |-> next, peer |-> peer, first |-> first, accepted |-> 0, attempts |-> 0]
NoChannelYet == [inbound |-> Closed, nonce |-> NoNonce, next |-> 0]
Unstarted(d) == [doc |-> d, phase |-> "checking", gate |-> FALSE, timer |-> FALSE,
                 channel |-> NoChannelYet, why |-> "none"]

BridgeInit ==
    /\ host = [state |-> "connecting", gate |-> TRUE, handle |-> TRUE,
               channel |-> NoChannelYet, why |-> "none"]
    /\ frame = Unstarted(1)
    /\ toHost = <<>> /\ toFrame = <<>>
    /\ redemption = [at |-> "idle", by |-> 0]
    /\ deletion = [at |-> "idle", cookie |-> FALSE, after |-> FALSE]
    /\ cookie = FALSE /\ session = "none"

FrameBootstrap(d) == [type |-> "frame.bootstrap_ready", seq |-> -1, peer |-> NoNonce, nonce |-> d]
Message(type, seq, peer, nonce) == [type |-> type, seq |-> seq, peer |-> peer, nonce |-> nonce]

-----------------------------------------------------------------------------
(* The parsers, for messages of the right shape. *)
EnvelopeParses(m, g) == m.seq = g.next /\ m.peer = g.peer

HostMessageParses(m, g) ==
    /\ EnvelopeParses(m, g)
    /\ \/ m.type = "host.init" /\ g.next = 0 /\ g.peer = NoNonce
       \/ m.type \in {"host.set", "host.destroy"} /\ g.next >= 1 /\ g.peer # NoNonce

FrameMessageParses(m, g) ==
    /\ EnvelopeParses(m, g)
    /\ \/ m.type = "frame.ready" /\ g.next = 0
       \/ m.type \in {"frame.layout", "frame.auth_required", "frame.closed", "frame.error"} /\ g.next >= 1

InitializationOfAnyDocument(m, d) == m.type = "host.init" /\ m.seq = 0 /\ m.peer = NoNonce

InitializationParses(m, d) ==
    /\ m.type = "host.init" /\ m.seq = 0 /\ m.peer = NoNonce
    /\ m.nonce = d

BootstrapParses(m) == m.type = "frame.bootstrap_ready"

(* EmbedInboundGate.accept: the gate afterwards and the verdict. *)
Accept(g, m, parses) ==
    LET tried == [g EXCEPT !.attempts = @ + 1]
    IN CASE g.state # "open" -> [gate |-> g, verdict |-> "closed"]
         [] g.state = "open" /\ g.attempts >= MaxPerWindow -> [gate |-> g, verdict |-> "rate-limited"]
         [] OTHER ->
            CASE ~parses -> [gate |-> tried, verdict |-> "invalid-message"]
              [] parses /\ g.accepted = 0 /\ g.first \notin {"any", m.type} ->
                    [gate |-> tried, verdict |-> "invalid-state"]
              [] OTHER ->
                 IF g.accepted >= MaxAccepted
                 THEN [gate |-> Closed, verdict |-> "channel-exhausted"]
                 ELSE [gate |-> [tried EXCEPT !.accepted = @ + 1, !.next = @ + 1], verdict |-> "accepted"]

(* The one-shot gates before there is a channel: the first message closes them, one way or the other, so
   their rate budget is never used up. *)
OneShot(open, parses) ==
    IF ~open THEN "closed" ELSE IF parses THEN "accepted" ELSE "invalid-message"

-----------------------------------------------------------------------------
(* failClosed: the SDK forgets the channel and the handle, stops listening and removes the iframe. *)
HostFailed(why) == [host EXCEPT !.state = "failed", !.why = why, !.gate = FALSE, !.handle = FALSE,
                                !.channel = NoChannelYet]
Listening == host.state \in {"connecting", "ready", "ended"}

(* receiveFrameMessage without a channel: the bootstrap is answered with host.init, which carries the
   handle and echoes the document's nonce. *)
HostBootstrapped(m) ==
    LET verdict == OneShot(host.gate, BootstrapParses(m))
    IN /\ host.channel = NoChannelYet
       /\ IF verdict = "accepted" /\ host.handle
          THEN /\ host' = [host EXCEPT !.gate = FALSE, !.handle = FALSE, !.channel =
                                [inbound |-> Gate(0, "parent", "frame.ready"), nonce |-> NoNonce, next |-> 1]]
               /\ toFrame' = Append(toFrame, Message("host.init", 0, NoNonce, m.nonce))
          ELSE host' = HostFailed(verdict) /\ UNCHANGED toFrame

(* ... and with one: a refused message ends the bridge, frame.ready pins the frame's nonce, and
   frame.closed ends the frame. *)
HostReceived(m) ==
    LET r == Accept(host.channel.inbound, m, FrameMessageParses(m, host.channel.inbound))
        kept == [host EXCEPT !.channel.inbound = r.gate]
    IN /\ host.channel # NoChannelYet
       /\ host' = CASE r.verdict = "closed" -> host
                    [] r.verdict \notin {"closed", "accepted"} -> HostFailed(r.verdict)
                    [] r.verdict = "accepted" /\ m.type = "frame.ready" /\ host.channel.nonce = NoNonce ->
                          [kept EXCEPT !.channel.nonce = m.nonce, !.state = "ready"]
                    [] r.verdict = "accepted" /\ m.type = "frame.closed" -> [kept EXCEPT !.state = "ended"]
                    [] OTHER -> kept
       /\ UNCHANGED toFrame

HostReceives ==
    /\ toHost # <<>>
    /\ toHost' = Tail(toHost)
    /\ IF Listening
       THEN HostBootstrapped(Head(toHost)) \/ HostReceived(Head(toHost))
       ELSE UNCHANGED <<host, toFrame>>
    /\ UNCHANGED <<frame, redemption, deletion, cookie, session>>

HostTimeout ==
    /\ host.state = "connecting"
    /\ host' = HostFailed("timeout")
    /\ UNCHANGED <<frame, toHost, toFrame, redemption, deletion, cookie, session>>

(* postEstablished numbers the message and names the frame's nonce. *)
Posted(type) == Append(toFrame, Message(type, host.channel.next, host.channel.nonce, NoNonce))

HostSets ==
    /\ host.channel.nonce # NoNonce /\ host.channel.next <= MaxOperations
    /\ toFrame' = Posted("host.set")
    /\ host' = [host EXCEPT !.channel.next = @ + 1]
    /\ UNCHANGED <<frame, toHost, redemption, deletion, cookie, session>>

(* destroy: host.destroy goes out if there is a channel, then the iframe is removed with everything else. *)
HostDestroy ==
    /\ Listening
    /\ toFrame' = IF host.channel.nonce # NoNonce THEN Posted("host.destroy") ELSE toFrame
    /\ host' = [host EXCEPT !.state = "destroyed", !.gate = FALSE, !.handle = FALSE, !.channel = NoChannelYet]
    /\ UNCHANGED <<frame, toHost, redemption, deletion, cookie, session>>

-----------------------------------------------------------------------------
(* The frame's effect: a document that may not run here blocks, any other one announces itself. *)
FrameMounts ==
    /\ frame.phase = "checking"
    /\ \/ /\ frame' = [frame EXCEPT !.phase = "blocked"]
          /\ UNCHANGED toHost
       \/ /\ frame' = [frame EXCEPT !.phase = "waiting", !.gate = TRUE, !.timer = TRUE]
          /\ toHost' = Append(toHost, FrameBootstrap(frame.doc))
    /\ UNCHANGED <<host, toFrame, redemption, deletion, cookie, session>>

FrameFailed(why) == [frame EXCEPT !.phase = "failed", !.why = why, !.gate = FALSE, !.timer = FALSE,
                                  !.channel = NoChannelYet]

FrameTimeout ==
    /\ frame.timer /\ frame.channel = NoChannelYet
    /\ frame' = FrameFailed("timeout")
    /\ UNCHANGED <<host, toHost, toFrame, redemption, deletion, cookie, session>>

(* postOperation, when there is a channel. *)
Operation(type) == Append(toHost, Message(type, frame.channel.next, "parent", NoNonce))

(* host.init: the frame opens its channel, applies the theme, says frame.ready and its layout, and redeems
   the context; a theme that cannot be materialised ends it. *)
FrameInitialized(m) ==
    LET verdict == OneShot(frame.gate, InitializationParses(m, frame.doc))
    IN /\ frame.channel = NoChannelYet
       /\ CASE verdict = "closed" -> UNCHANGED <<frame, toHost, redemption>>
            [] verdict = "invalid-message" ->
                  frame' = FrameFailed(verdict) /\ UNCHANGED <<toHost, redemption>>
            [] OTHER ->
                  \/ /\ frame' = [frame EXCEPT !.gate = FALSE, !.timer = FALSE, !.channel =
                                    [inbound |-> Gate(1, frame.doc, "any"), nonce |-> frame.doc, next |-> 2]]
                     /\ toHost' = toHost \o <<Message("frame.ready", 0, "parent", frame.doc),
                                              Message("frame.layout", 1, "parent", NoNonce)>>
                     /\ redemption' = [at |-> "sent", by |-> frame.doc]
                  \/ frame' = FrameFailed("theme") /\ UNCHANGED <<toHost, redemption>>
       /\ UNCHANGED <<deletion>>

(* A later host message: refused, the frame reports it and closes its channel; host.destroy is answered
   with frame.closed and a DELETE of the session, sent with the cookie the browser then holds. *)
FrameReceived(m) ==
    LET r == Accept(frame.channel.inbound, m, HostMessageParses(m, frame.channel.inbound))
        kept == [frame EXCEPT !.channel.inbound = r.gate]
        Reject(why) == frame' = FrameFailed(why) /\ toHost' = Operation("frame.error") /\ UNCHANGED deletion
    IN /\ frame.channel # NoChannelYet
       /\ CASE r.verdict = "closed" -> UNCHANGED <<frame, toHost, deletion>>
            [] r.verdict \notin {"closed", "accepted"} -> Reject(r.verdict)
            [] r.verdict = "accepted" /\ m.type = "host.set" ->
                  \/ frame' = kept /\ UNCHANGED <<toHost, deletion>>
                  \/ Reject("theme")
            [] OTHER -> /\ frame' = [kept EXCEPT !.phase = "closed", !.channel = NoChannelYet]
                        /\ toHost' = Operation("frame.closed")
                        /\ deletion' = [at |-> "sent", cookie |-> cookie, after |-> redemption.at = "answered"]
       /\ UNCHANGED redemption

FrameReceives ==
    /\ toFrame # <<>>
    /\ toFrame' = Tail(toFrame)
    /\ IF frame.phase \in {"checking", "blocked"}
       THEN UNCHANGED <<frame, toHost, redemption, deletion>>
       ELSE FrameInitialized(Head(toFrame)) \/ FrameReceived(Head(toFrame))
    /\ UNCHANGED <<host, cookie, session>>

-----------------------------------------------------------------------------
(* The service redeems the context, or refuses it; its answer sets the cookie even when the channel that
   asked is closed, and perhaps when the document that asked is gone. *)
RedeemContext ==
    /\ redemption.at = "sent"
    /\ \/ redemption' = [redemption EXCEPT !.at = "made"] /\ session' = "live"
       \/ redemption' = [redemption EXCEPT !.at = "refused"] /\ UNCHANGED session
    /\ UNCHANGED <<host, frame, toHost, toFrame, deletion, cookie>>

RedemptionAnswered ==
    LET made == redemption.at = "made"
        asked == frame.doc = redemption.by /\ frame.phase # "gone"
    IN /\ redemption.at \in {"made", "refused"}
       /\ redemption' = [redemption EXCEPT !.at = "answered"]
       /\ cookie' \in {cookie \/ made} \cup IF asked THEN {} ELSE {cookie}
       /\ IF asked /\ frame.channel # NoChannelYet
          THEN /\ toHost' = Operation(IF made THEN "frame.auth_required" ELSE "frame.error")
               /\ frame' = [frame EXCEPT !.phase = IF made THEN "ready" ELSE "failed",
                                         !.why = IF made THEN @ ELSE "context", !.channel.next = @ + 1]
          ELSE UNCHANGED <<frame, toHost>>
       /\ UNCHANGED <<host, toFrame, deletion, session>>

(* deleteSession revokes the session whose cookie came with the request; its answer clears the cookie in
   any case. *)
DeleteSession ==
    /\ deletion.at = "sent"
    /\ session' = IF deletion.cookie /\ session = "live" THEN "revoked" ELSE session
    /\ cookie' = FALSE
    /\ deletion' = [deletion EXCEPT !.at = "done"]
    /\ UNCHANGED <<host, frame, toHost, toFrame, redemption>>

(* The browser: an attempt leaves the ten-second window, the frame is reloaded, or a removed frame is gone. *)
AttemptAges ==
    /\ \/ /\ host.channel.inbound.state = "open" /\ host.channel.inbound.attempts > 0
          /\ host' = [host EXCEPT !.channel.inbound.attempts = @ - 1]
          /\ UNCHANGED frame
       \/ /\ frame.channel.inbound.state = "open" /\ frame.channel.inbound.attempts > 0
          /\ frame' = [frame EXCEPT !.channel.inbound.attempts = @ - 1]
          /\ UNCHANGED host
    /\ UNCHANGED <<toHost, toFrame, redemption, deletion, cookie, session>>

Removed == host.state \in {"failed", "destroyed"}

FrameReloads ==
    /\ ~Removed /\ frame.doc < MaxDocuments
    /\ frame' = Unstarted(frame.doc + 1)
    /\ toFrame' = <<>>
    /\ UNCHANGED <<host, toHost, redemption, deletion, cookie, session>>

FrameUnloads ==
    /\ Removed /\ frame.phase # "gone"
    /\ frame' = [Unstarted(frame.doc) EXCEPT !.phase = "gone", !.why = frame.why]
    /\ toFrame' = <<>>
    /\ UNCHANGED <<host, toHost, redemption, deletion, cookie, session>>

BridgeNext ==
    \/ HostReceives \/ HostTimeout \/ HostSets \/ HostDestroy
    \/ FrameMounts \/ FrameTimeout \/ FrameReceives
    \/ RedeemContext \/ RedemptionAnswered \/ DeleteSession
    \/ AttemptAges \/ FrameReloads \/ FrameUnloads

BridgeSpec == BridgeInit /\ [][BridgeNext]_bridgeVars

-----------------------------------------------------------------------------
(* Each side numbers its messages as the other's gate expects them: what one sent and the other accepted
   differ by what is on its way, whatever happens around them (postEstablished, postOperation, accept). *)
InStep ==
    frame.channel # NoChannelYet /\ host.channel # NoChannelYet =>
        /\ frame.channel.next = host.channel.inbound.next + Len(toHost)
        /\ host.channel.nonce # NoNonce => host.channel.next = frame.channel.inbound.next + Len(toFrame)

(* As long as the frame is not reloaded, neither page refuses a message of the other as malformed or out of
   place: a bridge between two honest pages ends by a timeout, a budget, a theme or the context (failClosed,
   receiveHostMessage). *)
FailsForCause ==
    frame.doc = 1 => {host.why, frame.why} \cap {"closed", "invalid-message", "invalid-state"} = {}

(* A frame opens a channel only in the document whose bootstrap the host answered, and the host is ready
   with that document: an initialization meant for an earlier document of the window is refused
   (parseHostInitialization). *)
ChannelOfThisDocument ==
    frame.channel # NoChannelYet /\ host.channel # NoChannelYet =>
        /\ host.channel.nonce \in {NoNonce, frame.doc}
        /\ redemption.by = frame.doc
        /\ \A i \in 1..Len(toHost) : toHost[i].type # "frame.bootstrap_ready"

(* A frame closed by host.destroy after its redemption was answered leaves no live session behind
   (receiveHostMessage's DELETE, deleteSession). *)
ClosedEndsSession == deletion.at = "done" /\ deletion.after => session # "live"

(* The same without the condition: once a closed frame's requests are answered, no session is live.  A
   redemption still on its way when host.destroy arrives refutes it. *)
ClosedHoldsNoSession == deletion.at = "done" /\ redemption.at = "answered" => session # "live"

(* Two honest pages keep one channel in step, end it for cause, never across documents, and leave no session
   behind when the host destroys the frame (hostSdk.ts, EmbedProductionFrame.tsx). *)
BridgeSafe ==
    /\ InStep
    /\ FailsForCause
    /\ ChannelOfThisDocument
    /\ ClosedEndsSession
=============================================================================
