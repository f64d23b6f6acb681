---------------------------- MODULE MCAppendLane ----------------------------
(* Small instances of the append lane. *)
EXTENDS AppendLane, TLC

CONSTANTS s1, s2

Cmd(s, k, e, t) == [sender |-> s, key |-> k, envelope |-> e, etag |-> t]

\* One send, the same envelope under another key, another envelope under the
\* first key, and the same envelope identifier from another sender.
MCCommands ==
  { Cmd(s1, "k1", "e1", 0), Cmd(s1, "k2", "e1", 0), Cmd(s1, "k1", "e2", 0),
    Cmd(s2, "k1", "e1", 0) }

\* Two senders; the second one seals against the head after two changes.
WriterCommands == { Cmd(s1, "k1", "e1", 0), Cmd(s2, "k2", "e2", 2) }

\* Two senders of the current head.
DrainCommands == { Cmd(s1, "k1", "e1", 0), Cmd(s2, "k2", "e2", 0) }

\* Request slots are interchangeable.
Slots == Permutations(Invocations)
=============================================================================
