---------------------------- MODULE CommandStream ----------------------------
(* What the session layer promises the simulation.  The dispatcher is handed *)
(* a stream of commands; each was issued by the client that opened the       *)
(* session it names, and the sequence numbers of one session only grow, so   *)
(* that no command is applied twice and none after a later one.  Commands    *)
(* may be lost: PROTOCOL.md asks for no more.                                *)
EXTENDS Naturals, Sequences, SequencesExt

CONSTANTS
  Client,     \* addresses commands are sent from
  SessionId,
  NoClient    \* the owner of a session that is not open

VARIABLES
  owner,      \* owner[s]: the client that opened session s
  issued,     \* the commands clients have sent
  log         \* the commands handed to the dispatcher, in this order

streamVars == <<owner, issued, log>>

\* Of two commands of one session the earlier has the lower number.
InOrder(s) ==
  \A i, j \in DOMAIN s :
    i < j /\ s[i].session = s[j].session => s[i].sequence < s[j].sequence

StreamInit ==
  /\ owner = [s \in SessionId |-> NoClient]
  /\ issued = {}
  /\ log = << >>

Open(s, c) ==
  /\ owner[s] = NoClient
  /\ owner' = [owner EXCEPT ![s] = c]
  /\ UNCHANGED <<issued, log>>

Issue ==
  /\ issued \subseteq issued'
  /\ UNCHANGED <<owner, log>>

Apply ==
  /\ IsPrefix(log, log')
  /\ InOrder(log')
  /\ \A i \in DOMAIN log' : /\ log'[i] \in issued
                            /\ log'[i].from = owner[log'[i].session]
  /\ UNCHANGED <<owner, issued>>

StreamNext == (\E s \in SessionId, c \in Client : Open(s, c)) \/ Issue \/ Apply

StreamSpec == StreamInit /\ [][StreamNext]_streamVars
=============================================================================
