------------------------------- MODULE Group -------------------------------
(***************************************************************************)
(* What the membership stores promise: a group whose members change one at *)
(* a time.  A change is opened while none is open, and is then either      *)
(* withdrawn or applied; applying it ends the epoch.  Nobody is added      *)
(* twice, only a member is removed, and the group never empties.           *)
(***************************************************************************)
EXTENDS Integers

CONSTANTS Installations, Founders, None

VARIABLES epoch, members, change

groupVars == <<epoch, members, change>>

NoChange == [op |-> None, target |-> None]
Changes == [op : {"add", "remove"}, target : Installations]

Init == epoch = 1 /\ members = Founders /\ change = NoChange

Open(c) ==
  /\ change = NoChange
  /\ c.op = "remove" => c.target \in members
  /\ change' = c
  /\ UNCHANGED <<epoch, members>>

Withdraw ==
  /\ change # NoChange
  /\ change' = NoChange
  /\ UNCHANGED <<epoch, members>>

Apply ==
  /\ change # NoChange
  /\ \/ /\ change.op = "add" /\ change.target \notin members
        /\ members' = members \cup {change.target}
     \/ /\ change.op = "remove" /\ change.target \in members
        /\ members' = members \ {change.target}
        /\ members' # {}
  /\ epoch' = epoch + 1
  /\ change' = NoChange

Next == (\E c \in Changes : Open(c)) \/ Withdraw \/ Apply

Spec == Init /\ [][Next]_groupVars
=============================================================================
