---------------------------- MODULE MCMembership ----------------------------
(* The instance of Membership for TLC.  b and c are eligible with a key     *)
(* package each and b is a founder, so that b may leave and come back.      *)
EXTENDS Membership, TLC

CONSTANTS a, b, c, gb, gc, kb, kc

MCHolder == gb :> b @@ gc :> c
MCOwner == kb :> b @@ kc :> c

\* Two changes, none of b, with expiries and competing or re-sent requests, and a third change
\* where nothing expires and one request is outstanding.
Scope ==
  \/ /\ intents[3].state = "none" /\ Cardinality(log) <= 4
     /\ \A n \in IntentIds : intents[n].target # b
  \/ clock = 0 /\ Cardinality(requests) <= 1
=============================================================================
