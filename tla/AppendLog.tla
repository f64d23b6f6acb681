------------------------------ MODULE AppendLog ------------------------------
(***************************************************************************)
(* What the append route promises its clients, whatever happens inside: a  *)
(* conversation is an append-only log in which an envelope identifier      *)
(* occurs at most once, and a client that holds a receipt finds the        *)
(* envelope it asked for at the position the receipt names.  Publishing    *)
(* and telling the client may be one step or two, by different requests;   *)
(* a client may be told nothing useful at all.                             *)
(***************************************************************************)
EXTENDS Naturals, Sequences

CONSTANTS Clients, Entries

VARIABLES
  published,   \* the log
  asked,       \* the command each client slot is about
  told         \* the answer it has been given

vars == <<published, asked, told>>

IsApplication(e) == e.class = "application"

Fresh(e) == \A n \in DOMAIN published :
  IsApplication(published[n]) => published[n].identity.envelope # e.identity.envelope

Newest == published[Len(published)]

\* The log is extended by at most one entry, never rewritten.
Publish ==
  \/ published' = published
  \/ /\ Len(published') = Len(published) + 1
     /\ published' = Append(published, Newest')
     /\ Newest' \in Entries
     /\ IsApplication(Newest') => Fresh(Newest')

\* A true receipt for a command c.
Receipt(r, c) ==
  /\ r.position \in DOMAIN published'
  /\ IsApplication(published'[r.position])
  /\ published'[r.position].identity =
       [sender |-> c.sender, envelope |-> c.envelope, etag |-> c.etag]

\* A slot is given a new command, loses it, or is answered about the one it has.
Tell(i) ==
  told'[i].status = "accepted" =>
    asked'[i] = asked[i] /\ (told'[i] = told[i] \/ Receipt(told'[i], asked[i]))

Init == published = <<>> /\ \A i \in Clients : told[i].status # "accepted"

Next == Publish /\ \A i \in Clients : Tell(i)

Spec == Init /\ [][Next]_vars
=============================================================================
