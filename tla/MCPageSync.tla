------------------------------ MODULE MCPageSync ------------------------------
EXTENDS PageSync

CONSTANTS a, b

CreatorAndJoiner == [c \in Clients |-> IF c = a THEN 1 ELSE 2]

\* One client and a service that publishes anything.
Transcripts ==
  [clients |-> {a}, proposals |-> {"x"}, removable |-> {}, positions |-> 3,
   policies |-> 3, forks |-> 0, floor |-> 1, faulty |-> TRUE]

\* Two clients and a restore from a backup.
Forks ==
  [clients |-> {a, b}, proposals |-> {}, removable |-> {}, positions |-> 3,
   policies |-> 1, forks |-> 1, floor |-> 1, faulty |-> FALSE]

\* A member that is removed again, and purged history.
Removal ==
  [clients |-> {b}, proposals |-> {"x"}, removable |-> {b}, positions |-> 4,
   policies |-> 1, forks |-> 0, floor |-> 3, faulty |-> FALSE]

MCInstances == {Transcripts, Forks, Removal}
=============================================================================
