------------------------------- MODULE Session -------------------------------
(***************************************************************************)
(* Sessions between clients and the authoritative server: the handshake,   *)
(* the packets a server reads between two ticks, and the tick that hands    *)
(* the buffered commands to the simulation, carries out its directives,     *)
(* drops silent sessions and removes those the anti-cheat provider names.   *)
(*                                                                         *)
(* Sources: game-protocol/src/{session,server,threaded,client}.rs, and the  *)
(* role registry of anti-cheat/src/admin.rs.  Both servers are here: server  *)
(* is "single" (AuthoritativeServer, whose transport answers one remote     *)
(* address) or "threaded" (which answers the address a packet came from).   *)
(*                                                                         *)
(* The network is UDP: a packet, once sent, may arrive any number of times, *)
(* never, and in any order, so packets are never taken out of the network.  *)
(* That also covers the threaded server's queue between its ingress thread  *)
(* and its simulation thread, and the socket buffers.  An address stands    *)
(* for a client and the id of a session for the token issued with it.       *)
(*                                                                         *)
(* Left out: the world itself, snapshots and pongs, the counters of refused *)
(* commands, player and faction ids, trust levels, codec errors and send    *)
(* errors.                                                                  *)
(***************************************************************************)
EXTENDS Naturals, Sequences, FiniteSets, SequencesExt

CONSTANTS
  Client,           \* clients; each has its own address
  NoClient,
  Outdated,         \* sets of clients that may speak another protocol version
  RequiresManifest, \* ServerPolicy::requires_manifest
  Operation,        \* Operation[c]: the commands that client c may send
  Servers,          \* kinds of server to consider
  Timeout,          \* timeout_ticks
  MaxSessions,      \* bound on the handshakes a server answers
  MaxSequence       \* MaxSequence[c]: bound on the commands and pings of client c

VARIABLES
  server,      \* "single" or "threaded"
  outdated,    \* the clients that speak another protocol version
  client,      \* client[c]: GameClientNet
  session,     \* session[s]: Session; "None" if there is no such entry
  nextSession, \* next_session_id
  role,        \* role[s]: AdminRegistry
  buffer,      \* command_buffer, in the order of arrival
  log,         \* the commands handed to apply_command so far
  remote,      \* remote_addr of the single server's transport
  up, down     \* packets sent to the server, and to clients

vars == <<server, outdated, client, session, nextSession, role, buffer, log, remote, up, down>>

SessionId == 1..MaxSessions
NoSession == 0
Roles == {"Player", "Moderator", "Host"}

ASSUME SessionAssumption ==
  /\ Timeout \in Nat /\ MaxSessions \in Nat /\ MaxSequence \in [Client -> Nat]
  /\ NoClient \notin Client
  /\ Servers \subseteq {"single", "threaded"} /\ Outdated \subseteq SUBSET Client
  /\ \A c \in Client : \A op \in Operation[c] :
       /\ op.op \in {"play", "manifest", "kick", "role"}
       /\ op.op = "manifest" => op.valid \in BOOLEAN
       /\ op.op = "role" => op.role \in Roles

\* A session is silent for at most Timeout ticks before it is dropped.
Silence == 0..Timeout + 1

NoEntry == [state |-> "None", peer |-> NoClient, last |-> 0, silent |-> 0, verified |-> FALSE]
-----------------------------------------------------------------------------
(* The client.                                                             *)

IsConnected(c) == client[c].state = "Active"

Connect(c) ==
  /\ client[c].state # "Closed"
  /\ up' = up \cup {[type |-> "Hello", from |-> c]}
  /\ client' = [client EXCEPT ![c].state = "Connecting"]
  /\ UNCHANGED <<server, outdated, session, nextSession, role, buffer, log, remote, down>>

\* Commands, pings and goodbyes are numbered by one counter.
UseSequence(c) ==
  /\ client[c].next <= MaxSequence[c]
  /\ client' = [client EXCEPT ![c].next = @ + 1]

SendCommand(c, op) ==
  /\ IsConnected(c)
  /\ UseSequence(c)
  /\ up' = up \cup {[type |-> "Command", from |-> c, session |-> client[c].session,
                     token |-> client[c].token, sequence |-> client[c].next, command |-> op]}
  /\ UNCHANGED <<server, outdated, session, nextSession, role, buffer, log, remote, down>>

Ping(c) ==
  /\ client[c].state # "Closed"
  /\ UseSequence(c)
  /\ up' = up \cup {[type |-> "Ping", from |-> c, session |-> client[c].session]}
  /\ UNCHANGED <<server, outdated, session, nextSession, role, buffer, log, remote, down>>

\* The transport is closed for good: reconnecting takes a new client.
Disconnect(c) ==
  /\ client[c].state # "Closed"
  /\ up' = IF IsConnected(c)
             THEN up \cup {[type |-> "Bye", from |-> c, session |-> client[c].session]}
             ELSE up
  /\ client' = [client EXCEPT ![c].state = "Closed",
                              ![c].next = IF IsConnected(c) THEN @ + 1 ELSE @]
  /\ UNCHANGED <<server, outdated, session, nextSession, role, buffer, log, remote, down>>

\* Fault: a new session starts its numbers anew.
AfterWelcomeAnew(c, m) ==
  [c EXCEPT !.state = "Active", !.session = m.session, !.token = m.session, !.next = 1]

\* An answer is believed whenever it comes, also if the client is connected.
AfterWelcome(c, m) ==
  [c EXCEPT !.state = "Active", !.session = m.session, !.token = m.session]

Poll(m) ==
  /\ m \in down
  /\ client[m.to].state # "Closed"
  /\ client' = [client EXCEPT ![m.to] =
                  IF m.type = "Welcome" THEN AfterWelcome(@, m)
                                        ELSE [@ EXCEPT !.state = "Disconnected"]]
  /\ UNCHANGED <<server, outdated, session, nextSession, role, buffer, log, remote, up, down>>
-----------------------------------------------------------------------------
(* The server, between two ticks: one packet.                              *)

\* The address of the first packet is the only one a single server answers.
LearnRemote(c) ==
  remote' = IF server = "single" /\ remote = NoClient THEN c ELSE remote

Destination(c) == IF server = "threaded" THEN c ELSE remote'

HandleHello(m) ==
  /\ m.type = "Hello"
  /\ \/ /\ m.from \in outdated
        /\ down' = down \cup {[type |-> "Refusal", to |-> Destination(m.from)]}
        /\ UNCHANGED <<session, nextSession>>
     \/ /\ m.from \notin outdated
        /\ nextSession \in SessionId
        /\ nextSession' = nextSession + 1
        /\ \/ /\ session' = [session EXCEPT ![nextSession] =
                   [NoEntry EXCEPT !.state = "Active", !.peer = m.from]]
              /\ down' = down \cup {[type |-> "Welcome", to |-> Destination(m.from),
                                     session |-> nextSession]}
           \/ \* the anti-cheat provider refuses the connection
              /\ down' = down \cup {[type |-> "Refusal", to |-> Destination(m.from)]}
              /\ UNCHANGED session
  /\ UNCHANGED <<role, buffer>>

\* The entries stay: a session that ends is marked, not forgotten.
EndEach(table, S) ==
  [s \in SessionId |-> IF s \in S /\ table[s].state # "None"
                         THEN [table[s] EXCEPT !.state = "Disconnected"] ELSE table[s]]

HandleBye(m) ==
  /\ m.type = "Bye"
  /\ session' = EndEach(session, {m.session})
  /\ role' = [s \in SessionId |-> IF s = m.session THEN "Player" ELSE role[s]]
  /\ UNCHANGED <<nextSession, buffer, down>>

\* A ping needs no token: it names a session and refreshes its heartbeat.
HandlePing(m) ==
  /\ m.type = "Ping"
  /\ session' = IF m.session \in SessionId
                  THEN [session EXCEPT ![m.session].silent = 0] ELSE session
  /\ UNCHANGED <<nextSession, role, buffer, down>>

\* bind_command_packet: the token and the address must be the session's.
Bound(m) ==
  /\ m.session \in SessionId
  /\ session[m.session].state # "None"
  /\ m.token = m.session
  /\ m.from = session[m.session].peer

\* Fault: a moderator may do what a host may.
AllowsModerators(r, op) ==
  CASE op.op \in {"kick", "role"} -> r \in {"Moderator", "Host"}
    [] OTHER -> TRUE

\* Host stands for ServerOwner too: no command needs what that adds.
Allows(r, op) ==
  CASE op.op = "kick" -> r \in {"Moderator", "Host"}
    [] op.op = "role" -> r = "Host"
    [] OTHER -> TRUE

\* Evicted for its manifest or by verdict; the threaded server keeps the role.
RolesWithout(s) == IF server = "single" THEN [role EXCEPT ![s] = "Player"] ELSE role

\* What a bound command with a fresh number does to its session s.
Submit(m, s) ==
  LET heard == [session EXCEPT ![s].silent = 0, ![s].last = m.sequence]
      refused == \/ ~Allows(role[s], m.command)
                 \/ RequiresManifest /\ ~session[s].verified
  IN \/ /\ m.command.op = "manifest"
        /\ m.command.valid   \* both the policy and the provider accept it
        /\ session' = [heard EXCEPT ![s].verified = TRUE]
        /\ UNCHANGED <<role, buffer>>
     \/ /\ m.command.op = "manifest"
        /\ ~m.command.valid
        /\ session' = EndEach(heard, {s})
        /\ role' = RolesWithout(s)
        /\ UNCHANGED buffer
     \/ /\ m.command.op # "manifest"
        /\ session' = heard
        /\ UNCHANGED <<role, buffer>>   \* refused here or by the provider
     \/ /\ m.command.op # "manifest"
        /\ ~refused
        /\ session' = heard
        /\ buffer' = Append(buffer, m)
        /\ UNCHANGED role
     \/ /\ m.command.op # "manifest"
        /\ ~refused
        /\ session' = EndEach(heard, {s})   \* the provider's verdict is Kick
        /\ role' = RolesWithout(s)
        /\ UNCHANGED buffer

\* Fault: off by one.
IsFreshOrLast(m, s) == m.sequence >= session[s].last

\* validate_and_advance_sequence: repeated and overtaken commands are dropped.
IsFresh(m, s) == m.sequence > session[s].last

HandleCommand(m) ==
  /\ m.type = "Command"
  /\ IF Bound(m)
       THEN IF IsFresh(m, m.session)
              THEN Submit(m, m.session)
              ELSE /\ session' = [session EXCEPT ![m.session].silent = 0]
                   /\ UNCHANGED <<role, buffer>>
       ELSE UNCHANGED <<session, role, buffer>>
  /\ UNCHANGED <<nextSession, down>>

HandleInbound(m) ==
  /\ m \in up
  /\ LearnRemote(m.from)
  /\ HandleHello(m) \/ HandleBye(m) \/ HandlePing(m) \/ HandleCommand(m)
  /\ UNCHANGED <<server, outdated, client, log, up>>
-----------------------------------------------------------------------------
(* The server: one tick.                                                   *)

\* drain_ordered sorts by session and sequence number, equal keys as they came.
\* This is a strict order, so that p below takes every entry once.
Precedes(i, j) ==
  LET a == buffer[i] b == buffer[j]
  IN \/ a.session < b.session
     \/ a.session = b.session /\ a.sequence < b.sequence
     \/ a.session = b.session /\ a.sequence = b.sequence /\ i < j

Drained ==
  {[i \in DOMAIN buffer |-> buffer[p[i]]] :
     p \in {q \in [DOMAIN buffer -> DOMAIN buffer] :
              \A i, j \in DOMAIN buffer : i < j => Precedes(q[i], q[j])}}

\* The commands of a batch whose directives are about session s: any role will
\* do here, the exact permission was checked when the command was read.
About(batch, s) ==
  {i \in DOMAIN batch : /\ batch[i].command.op \in {"kick", "role"}
                        /\ batch[i].command.target = s
                        /\ role[batch[i].session] # "Player"}

Kicked(batch) == {s \in SessionId : \E i \in About(batch, s) : batch[i].command.op = "kick"}

\* Directives are carried out in turn: the last one decides the role r of s.
Directed(batch, s, r) ==
  \/ About(batch, s) = {} /\ r = role[s]
  \/ \E i \in About(batch, s) :
       /\ \A j \in About(batch, s) : j <= i
       /\ r = IF batch[i].command.op = "role" THEN batch[i].command.role ELSE "Player"

\* Ticks since the last heartbeat, counted as far as they matter.
Quiet(s) ==
  IF session[s].state = "None" \/ session[s].silent > Timeout
    THEN session[s].silent ELSE session[s].silent + 1

\* removed: the sessions the anti-cheat provider wants removed.
Tick(removed) ==
  \E batch \in Drained, directed \in [SessionId -> Roles] :
    LET timedOut == {s \in SessionId :
                       /\ session[s].state # "None"
                       /\ Quiet(s) > Timeout
                       /\ \/ server = "threaded"
                          \/ session[s].state # "Disconnected" /\ s \notin Kicked(batch)}
        gone == Kicked(batch) \cup timedOut \cup removed
    IN /\ \A s \in SessionId : Directed(batch, s, directed[s])
       /\ log' = log \o batch
       /\ buffer' = << >>
       /\ session' = EndEach([s \in SessionId |-> [session[s] EXCEPT !.silent = Quiet(s)]], gone)
       /\ role' = [s \in SessionId |->
                     IF s \in timedOut \cup removed THEN "Player" ELSE directed[s]]
       /\ UNCHANGED <<server, outdated, client, nextSession, remote, up, down>>

\* set_admin_role: the program that embeds a single server names its staff,
\* between two calls of step_tick, each of which leaves the buffer empty.
SetAdminRole(s, r) ==
  /\ server = "single"
  /\ buffer = << >>
  /\ session[s].state = "Active"
  /\ role' = [role EXCEPT ![s] = r]
  /\ UNCHANGED <<server, outdated, client, session, nextSession, buffer, log, remote, up, down>>
-----------------------------------------------------------------------------
Init ==
  /\ server \in Servers
  /\ outdated \in Outdated
  /\ client = [c \in Client |->
       [state |-> "Connecting", session |-> NoSession, token |-> NoSession, next |-> 1]]
  /\ session = [s \in SessionId |-> NoEntry]
  /\ nextSession = 1
  /\ role = [s \in SessionId |-> "Player"]
  /\ buffer = << >>
  /\ log = << >>
  /\ remote = NoClient
  /\ up = {} /\ down = {}

ClientNext ==
  \/ \E c \in Client : Connect(c) \/ Ping(c) \/ Disconnect(c)
  \/ \E c \in Client : \E op \in Operation[c] : SendCommand(c, op)
  \/ \E m \in down : Poll(m)

ServerNext ==
  \/ \E m \in up : HandleInbound(m)
  \/ \E removed \in SUBSET SessionId : Tick(removed)
  \/ \E s \in SessionId, r \in Roles : SetAdminRole(s, r)

Next == ClientNext \/ ServerNext

Spec == Init /\ [][Next]_vars
-----------------------------------------------------------------------------
Name == SessionId \cup {NoSession}

Agent ==
  [state : {"Connecting", "Active", "Disconnected", "Closed"},
   session : Name, token : Name, next : Nat \ {0}]

Entry ==
  [state : {"None", "Active", "Disconnected"}, peer : Client \cup {NoClient},
   last : Nat, silent : Silence, verified : BOOLEAN]

\* Exactly the entries that a handshake created have an address.
IsTable(t) ==
  /\ t \in [SessionId -> Entry]
  /\ \A s \in SessionId : t[s].state = "None" <=> t[s].peer = NoClient

UpPacket ==
  [type : {"Hello"}, from : Client]
    \cup [type : {"Ping", "Bye"}, from : Client, session : Name]
    \cup [type : {"Command"}, from : Client, session : Name, token : Name,
          sequence : Nat \ {0}, command : UNION {Operation[c] : c \in Client}]

DownPacket ==
  [type : {"Refusal"}, to : Client] \cup [type : {"Welcome"}, to : Client, session : SessionId]

TypeOK ==
  /\ server \in {"single", "threaded"} /\ outdated \subseteq Client
  /\ client \in [Client -> Agent]
  /\ IsTable(session)
  /\ nextSession \in 1..MaxSessions + 1
  /\ role \in [SessionId -> Roles]
  /\ buffer \in Seq(up) /\ log \in Seq(up)
  /\ remote \in Client \cup {NoClient}
  /\ up \subseteq UpPacket /\ down \subseteq DownPacket

(* Whatever the network and the two servers do, the simulation is handed a   *)
(* command stream: of every session only what its client sent, in the order  *)
(* of the numbers, nothing twice (PROTOCOL.md, "Command Sequence &           *)
(* Monotonicity Guarantees").                                                *)
Stream == INSTANCE CommandStream WITH
  owner <- [s \in SessionId |-> session[s].peer],
  issued <- {m \in up : m.type = "Command"}

ImplementsCommandStream == Stream!StreamSpec

(* A connected client can always be heard: the next number it will use is    *)
(* above the last one its session accepted, through repeated handshakes,     *)
(* late answers and lost packets; and the threaded server never leaves it    *)
(* with the session of another client.                                       *)
NeverMuted ==
  \A c \in Client : client[c].state = "Active" =>
    LET s == client[c].session
    IN /\ server = "threaded" => session[s].peer = c
       /\ session[s].peer = c => client[c].next > session[s].last

(* A tick gives a session a role only if a host is there at that tick: a     *)
(* command that was allowed when it was read and whose sender has left       *)
(* since, or that slipped by the check, promotes nobody.                     *)
HostsPromote ==
  [][/\ buffer' # buffer
     /\ \E s \in SessionId : role'[s] \notin {role[s], "Player"}
     => \E h \in SessionId : role[h] = "Host"]_vars

(* PROTOCOL.md has the server clean up a session that disconnects, and keep  *)
(* a sequence number "for each active session": the commands of a session    *)
(* that has ended are not taken any more.                                    *)
EndedSessionsAreMute ==
  [][Len(buffer') > Len(buffer) =>
       session[buffer'[Len(buffer')].session].state = "Active"]_vars
=============================================================================
