----------------------------- MODULE ServerProofs -----------------------------
(***************************************************************************)
(* Proofs about the servers. Session: both servers implement the command   *)
(* stream, for every set of clients, bound on sessions, timeout and policy,*)
(* over the lossy network. Threads: for any workers, jobs and panics of    *)
(* the pool, no job is run twice, and none is lost while a worker is left. *)
(* Regions: an entity is in one region, whatever is created and            *)
(* transferred, and no message outlives the interval of the warm regions.  *)
(***************************************************************************)
EXTENDS Session, Threads, Regions, SequenceTheorems, TLAPS

(* The three ways in which the servers change an entry of the table.         *)
LEMMA EndEachKeeps ==
  ASSUME NEW t, IsTable(t), NEW S
  PROVE  /\ IsTable(EndEach(t, S))
         /\ \A s \in SessionId : /\ EndEach(t, S)[s].peer = t[s].peer
                                 /\ EndEach(t, S)[s].last = t[s].last
<1>1. ASSUME NEW s \in SessionId, NEW e, e = EndEach(t, S)[s]
      PROVE  /\ e \in Entry /\ e.peer = t[s].peer /\ e.last = t[s].last
             /\ e.state = "None" <=> t[s].state = "None"
  BY <1>1 DEF EndEach, IsTable, Entry
<1>2. EndEach(t, S) \in [SessionId -> Entry]
  BY <1>1 DEF EndEach
<1> QED BY <1>1, <1>2 DEF IsTable

LEMMA Replaced ==
  ASSUME NEW t, IsTable(t), NEW s \in SessionId, NEW e \in Entry,
         e.state = "None" <=> e.peer = NoClient
  PROVE  IsTable([t EXCEPT ![s] = e])
  BY DEF IsTable

LEMMA HeardKeeps ==
  ASSUME NEW t, IsTable(t), NEW s \in SessionId, NEW q \in Nat
  PROVE  /\ IsTable([t EXCEPT ![s].silent = 0])
         /\ IsTable([t EXCEPT ![s].silent = 0, ![s].last = q])
         /\ IsTable([t EXCEPT ![s].verified = TRUE])
<1>1. 0 \in Silence
  BY SessionAssumption DEF Silence
<1>2. [t[s] EXCEPT !.silent = 0] \in Entry
  BY <1>1 DEF IsTable, Entry
<1>3. [t[s] EXCEPT !.silent = 0, !.last = q] \in Entry
  BY <1>1, Zenon DEF IsTable, Entry
<1>4. [t[s] EXCEPT !.verified = TRUE] \in Entry
  BY Zenon DEF IsTable, Entry
<1> QED BY <1>2, <1>3, <1>4 DEF IsTable, Entry

(* Appending keeps a sequence over the packets; so does widening them.       *)
LEMMA MorePackets ==
  ASSUME NEW A, NEW B, A \subseteq B, NEW q \in Seq(A)
  PROVE  q \in Seq(B)
  OBVIOUS

(* What a tick drains is a rearrangement of the buffer, in order.            *)
LEMMA DrainedOrdered ==
  ASSUME buffer \in Seq(up), NEW batch \in Drained
  PROVE  /\ batch \in Seq(up)
         /\ \A i \in DOMAIN batch : \E k \in DOMAIN buffer : batch[i] = buffer[k]
         /\ \A i, j \in DOMAIN batch : i < j =>
              \E k, l \in DOMAIN buffer :
                batch[i] = buffer[k] /\ batch[j] = buffer[l] /\ Precedes(k, l)
<1>1. PICK p \in [DOMAIN buffer -> DOMAIN buffer] :
        /\ \A i, j \in DOMAIN buffer : i < j => Precedes(p[i], p[j])
        /\ batch = [i \in DOMAIN buffer |-> buffer[p[i]]]
  BY Zenon DEF Drained
<1>3. batch \in Seq(up) /\ DOMAIN batch = DOMAIN buffer
  BY <1>1
<1> QED BY <1>1, <1>3

-----------------------------------------------------------------------------
LEMMA TypeInit == Init => TypeOK
<1> SUFFICES ASSUME Init PROVE TypeOK
  OBVIOUS
<1>1. client \in [Client -> Agent]
  BY DEF Init, Agent, Name
<1>2. IsTable(session)
  <2>1. 0 \in Silence
    BY SessionAssumption DEF Silence
  <2>2. NoEntry \in Entry /\ NoEntry.state = "None" /\ NoEntry.peer = NoClient
    BY <2>1 DEF NoEntry, Entry
  <2> QED BY <2>2 DEF Init, IsTable
<1>3. server \in {"single", "threaded"} /\ outdated \subseteq Client /\ nextSession \in 1..MaxSessions + 1
  BY SessionAssumption DEF Init
<1>4. role \in [SessionId -> Roles]
  BY DEF Init, Roles
<1>5. remote \in Client \cup {NoClient} /\ up \subseteq UpPacket /\ down \subseteq DownPacket
  BY DEF Init
<1>6. buffer \in Seq(up) /\ log \in Seq(up)
  BY DEF Init
<1> QED BY <1>1, <1>2, <1>3, <1>4, <1>5, <1>6 DEF TypeOK

LEMMA NumberTaken ==
  ASSUME client \in [Client -> Agent], NEW c \in Client, UseSequence(c)
  PROVE  client' \in [Client -> Agent]
<1> DEFINE n == client[c].next + 1
           a == [client[c] EXCEPT !.next = n]
<1>1. client[c] \in Agent
  OBVIOUS
<1>2. n \in Nat \ {0}
  BY <1>1 DEF Agent
<1>3. a \in Agent
  <2> HIDE DEF n
  <2> QED BY <1>1, <1>2 DEF Agent
<1>4. client' = [client EXCEPT ![c] = a]
  BY DEF UseSequence
<1> HIDE DEF a
<1> QED BY <1>3, <1>4

LEMMA NextGrows ==
  ASSUME client \in [Client -> Agent], NEW c \in Client, UseSequence(c), NEW d \in Client
  PROVE  /\ client'[d].state = client[d].state /\ client'[d].session = client[d].session
         /\ client'[d].next = IF d = c THEN client[d].next + 1 ELSE client[d].next
         /\ client'[d].next >= client[d].next
<1> DEFINE n == client[c].next + 1
<1>1. client[c] \in Agent /\ client[d] \in Agent /\ n \in Nat /\ n >= client[c].next
  BY DEF Agent
<1>2. client[d].next \in Nat
  BY <1>1 DEF Agent
<1>3. client' = [client EXCEPT ![c].next = n]
  BY DEF UseSequence
<1>4. CASE d # c
  BY <1>1, <1>2, <1>3, <1>4
<1>5. CASE d = c
  <2> HIDE DEF n
  <2>1. /\ client'[d].state = client[d].state /\ client'[d].session = client[d].session
        /\ client'[d].next = n
    BY <1>1, <1>3, <1>5 DEF Agent
  <2> QED BY <1>1, <1>5, <2>1 DEF n
<1> QED BY <1>4, <1>5

(* Both handlers of packets and the clients keep every table well formed.    *)
LEMMA TypeClient ==
  ASSUME TypeOK, ClientNext
  PROVE  TypeOK'
<1>a. \A c \in Client : client[c] \in Agent
  BY DEF TypeOK
<1>1. ASSUME NEW c \in Client, Connect(c) PROVE TypeOK'
  <2> DEFINE m == [type |-> "Hello", from |-> c]
  <2>1. m \in UpPacket
    BY DEF UpPacket
  <2>2. client' \in [Client -> Agent]
    BY <1>1, <1>a, Zenon DEF Connect, TypeOK, Agent
  <2> QED BY <1>1, <2>1, <2>2, MorePackets DEF Connect, TypeOK
<1>2. ASSUME NEW c \in Client, Ping(c) PROVE TypeOK'
  <2> DEFINE m == [type |-> "Ping", from |-> c, session |-> client[c].session]
  <2>1. m \in UpPacket
    BY <1>a DEF UpPacket, Agent
  <2>2. client' \in [Client -> Agent]
    BY <1>2, NumberTaken DEF Ping, TypeOK
  <2> QED BY <1>2, <2>1, <2>2, MorePackets DEF Ping, TypeOK
<1>3. ASSUME NEW c \in Client, Disconnect(c) PROVE TypeOK'
  <2> DEFINE m == [type |-> "Bye", from |-> c, session |-> client[c].session]
  <2>1. m \in UpPacket
    BY <1>a DEF UpPacket, Agent
  <2>2. client' \in [Client -> Agent]
    <3> DEFINE n == IF IsConnected(c) THEN client[c].next + 1 ELSE client[c].next
               a == [client[c] EXCEPT !.state = "Closed", !.next = n]
    <3>1. n \in Nat \ {0}
      BY <1>a DEF Agent
    <3> HIDE DEF n
    <3>2. a \in Agent
      BY <1>a, <3>1, Zenon DEF Agent
    <3>3. client' = [client EXCEPT ![c] = a]
      BY <1>3, Zenon DEF Disconnect, n
    <3> HIDE DEF a
    <3> QED BY <3>2, <3>3 DEF TypeOK
  <2> QED BY <1>3, <2>1, <2>2, MorePackets DEF Disconnect, TypeOK
<1>4. ASSUME NEW c \in Client, NEW op \in Operation[c], SendCommand(c, op) PROVE TypeOK'
  <2> DEFINE m == [type |-> "Command", from |-> c, session |-> client[c].session,
                   token |-> client[c].token, sequence |-> client[c].next, command |-> op]
  <2>1. m \in UpPacket
    BY <1>a DEF UpPacket, Agent
  <2>2. client' \in [Client -> Agent]
    BY <1>4, NumberTaken DEF SendCommand, TypeOK
  <2> QED BY <1>4, <2>1, <2>2, MorePackets DEF SendCommand, TypeOK
<1>5. ASSUME NEW m \in down, Poll(m) PROVE TypeOK'
  <2>1. m.to \in Client /\ (m.type = "Welcome" => m.session \in Name)
    BY DEF TypeOK, DownPacket, Name
  <2>2. client' \in [Client -> Agent]
    <3> DEFINE a == IF m.type = "Welcome" THEN AfterWelcome(client[m.to], m)
                                          ELSE [client[m.to] EXCEPT !.state = "Disconnected"]
    <3>1. a \in Agent
      <4>1. client[m.to] \in Agent
        BY <1>a, <2>1
      <4> QED BY <2>1, <4>1, Zenon DEF AfterWelcome, Agent
    <3>2. client' = [client EXCEPT ![m.to] = a]
      BY <1>5 DEF Poll
    <3> HIDE DEF a
    <3> QED BY <3>1, <3>2, Zenon DEF TypeOK
  <2> QED BY <1>5, <2>2 DEF Poll, TypeOK
<1> QED BY <1>1, <1>2, <1>3, <1>4, <1>5 DEF ClientNext

LEMMA TypeInbound ==
  ASSUME TypeOK, NEW m \in up, HandleInbound(m)
  PROVE  TypeOK'
<1>1. m.from \in Client /\ m \in UpPacket
  BY DEF TypeOK, UpPacket
<1>2. remote' \in Client \cup {NoClient} /\ Destination(m.from) \in Client
  BY <1>1 DEF HandleInbound, LearnRemote, Destination, TypeOK
<1>3. /\ UNCHANGED <<server, outdated, client, log, up>>
  BY DEF HandleInbound
<1>4. CASE HandleHello(m)
  <2>1. down' \subseteq DownPacket
    BY <1>1, <1>2, <1>4 DEF HandleHello, DownPacket, TypeOK
  <2>2. IsTable(session')
        /\ nextSession' \in 1..MaxSessions + 1
    <3>1. nextSession' \in 1..MaxSessions + 1
      BY <1>4, SessionAssumption DEF HandleHello, SessionId, TypeOK
    <3>2. CASE session' = session
      BY <3>1, <3>2 DEF TypeOK
    <3>3. CASE /\ nextSession \in SessionId
               /\ session' = [session EXCEPT ![nextSession] =
                    [NoEntry EXCEPT !.state = "Active", !.peer = m.from]]
      <4> DEFINE e == [NoEntry EXCEPT !.state = "Active", !.peer = m.from]
      <4>1. 0 \in Silence
        BY SessionAssumption DEF Silence
      <4>2. e \in Entry /\ e.state = "Active" /\ e.peer = m.from /\ m.from # NoClient
        BY <1>1, <4>1, SessionAssumption, Zenon DEF NoEntry, Entry
      <4> QED BY <3>1, <3>3, <4>2, Replaced, Zenon DEF TypeOK
    <3> QED BY <1>4, <3>2, <3>3 DEF HandleHello
  <2> QED BY <1>2, <1>3, <1>4, <2>1, <2>2 DEF HandleHello, TypeOK
<1>5. CASE HandleBye(m)
  <2>1. IsTable(session')
    BY <1>5, EndEachKeeps DEF HandleBye, TypeOK
  <2> QED BY <1>2, <1>3, <1>5, <2>1 DEF HandleBye, TypeOK, Roles
<1>6. CASE HandlePing(m)
  <2>1. IsTable(session')
    BY <1>6, HeardKeeps, Zenon DEF HandlePing, TypeOK
  <2> QED BY <1>2, <1>3, <1>6, <2>1 DEF HandlePing, TypeOK
<1>7. CASE HandleCommand(m)
  <2>1. m.type = "Command" /\ m.sequence \in Nat
    BY <1>1, <1>7 DEF HandleCommand, UpPacket
  <2>2. ASSUME Bound(m), Submit(m, m.session) PROVE TypeOK'
    <3> DEFINE heard == [session EXCEPT ![m.session].silent = 0, ![m.session].last = m.sequence]
    <3>1. m.session \in SessionId
      BY <2>2 DEF Bound
    <3>2. IsTable(heard)
      BY <2>1, <3>1, HeardKeeps, Zenon DEF TypeOK
    <3>3. \/ session' = heard
          \/ session' = [heard EXCEPT ![m.session].verified = TRUE]
          \/ session' = EndEach(heard, {m.session})
      BY <2>2 DEF Submit
    <3>4. IsTable(session')
      BY <3>1, <3>2, <3>3, EndEachKeeps, HeardKeeps
    <3>5. role' \in [SessionId -> Roles]
      BY <2>2, <3>1 DEF Submit, RolesWithout, TypeOK, Roles
    <3>6. buffer' \in Seq(up)
      <4>1. buffer' = buffer \/ buffer' = Append(buffer, m)
        BY <2>2 DEF Submit
      <4>2. buffer \in Seq(up)
        BY DEF TypeOK
      <4> QED BY <4>1, <4>2
    <3> QED BY <1>2, <1>3, <1>7, <3>4, <3>5, <3>6 DEF HandleCommand, TypeOK
  <2>3. ASSUME Bound(m), ~IsFresh(m, m.session) PROVE TypeOK'
    <3>1. IsTable(session')
      <4>1. m.session \in SessionId /\ session' = [session EXCEPT ![m.session].silent = 0]
        BY <1>7, <2>3 DEF HandleCommand, Bound
      <4>2. IsTable(session) /\ 0 \in Nat
        BY DEF TypeOK
      <4> QED BY <4>1, <4>2, HeardKeeps, Zenon
    <3> QED BY <1>2, <1>3, <1>7, <2>3, <3>1 DEF HandleCommand, TypeOK
  <2>4. ASSUME ~Bound(m) PROVE TypeOK'
    BY <1>2, <1>3, <1>7, <2>4 DEF HandleCommand, TypeOK
  <2> QED BY <1>7, <2>2, <2>3, <2>4 DEF HandleCommand
<1> QED BY <1>4, <1>5, <1>6, <1>7 DEF HandleInbound

LEMMA AgedKeeps ==
  ASSUME TypeOK
  PROVE  IsTable([s \in SessionId |-> [session[s] EXCEPT !.silent = Quiet(s)]])
<1> DEFINE aged == [s \in SessionId |-> [session[s] EXCEPT !.silent = Quiet(s)]]
<1>1. ASSUME NEW s \in SessionId PROVE Quiet(s) \in Silence
    BY SessionAssumption DEF Quiet, Silence, TypeOK, IsTable, Entry
<1>2. ASSUME NEW s \in SessionId, NEW e, e = aged[s]
        PROVE  e \in Entry /\ e.state = session[s].state /\ e.peer = session[s].peer
    BY <1>1, <1>2, Zenon DEF TypeOK, IsTable, Entry
<1> QED BY <1>2 DEF TypeOK, IsTable

LEMMA TypeTick ==
  ASSUME TypeOK, NEW removed, Tick(removed)
  PROVE  TypeOK'
<1> DEFINE aged == [s \in SessionId |-> [session[s] EXCEPT !.silent = Quiet(s)]]
<1>1. PICK batch, gone :
        /\ batch \in Drained
        /\ log' = log \o batch
        /\ buffer' = << >>
        /\ session' = EndEach(aged, gone)
        /\ UNCHANGED <<server, outdated, client, nextSession, remote, up, down>>
  BY Zenon DEF Tick
<1>2. role' \in [SessionId -> Roles]
  <2>1. PICK d \in [SessionId -> Roles] : \E S :
          role' = [s \in SessionId |-> IF s \in S THEN "Player" ELSE d[s]]
    BY Zenon DEF Tick
  <2> QED BY <2>1 DEF Roles
<1>3. batch \in Seq(up)
  BY <1>1, DrainedOrdered DEF TypeOK
<1>4. IsTable(aged)
  BY AgedKeeps
<1>5. IsTable(session')
  BY <1>1, <1>4, EndEachKeeps DEF TypeOK
<1>6. log' \in Seq(up') /\ buffer' \in Seq(up')
  BY <1>1, <1>3 DEF TypeOK
<1> QED BY <1>1, <1>2, <1>5, <1>6 DEF TypeOK

(* Every table of both servers stays well formed; in particular an entry of  *)
(* the session table has an address exactly if a handshake created it.       *)
THEOREM SessionTypes == Spec => []TypeOK
<1>1. TypeOK /\ [Next]_vars => TypeOK'
  <2> SUFFICES ASSUME TypeOK, [Next]_vars PROVE TypeOK'
    OBVIOUS
  <2>1. CASE ClientNext
    BY <2>1, TypeClient
  <2>2. CASE ServerNext
    <3>1. ASSUME NEW s \in SessionId, NEW r \in Roles, SetAdminRole(s, r) PROVE TypeOK'
      BY <3>1 DEF SetAdminRole, TypeOK
    <3> QED BY <2>2, <3>1, TypeInbound, TypeTick DEF ServerNext
  <2>3. CASE UNCHANGED vars
    BY <2>3 DEF vars, TypeOK
  <2> QED BY <2>1, <2>2, <2>3 DEF Next
<1> QED BY <1>1, TypeInit, PTL DEF Spec
-----------------------------------------------------------------------------
(* The stream.  A received command was sent by the client that opened its    *)
(* session and is not above the last number of that session; sessions that   *)
(* were not opened yet have no owner; the numbers of a session only grow,    *)
(* from those applied, over those buffered, to those still to come.          *)
Received(m) ==
  /\ m \in up /\ m.type = "Command"
  /\ m.session \in SessionId
  /\ m.from = session[m.session].peer
  /\ m.sequence <= session[m.session].last

Below(q, r) ==
  \A i \in DOMAIN q, j \in DOMAIN r :
    q[i].session = r[j].session => q[i].sequence < r[j].sequence

StreamInv ==
  /\ \A s \in SessionId : s >= nextSession => session[s].peer = NoClient
  /\ \A i \in DOMAIN log : Received(log[i])
  /\ \A i \in DOMAIN buffer : Received(buffer[i])
  /\ Stream!InOrder(log) /\ Stream!InOrder(buffer)
  /\ Below(log, buffer)

(* A step that keeps the owners, the numbers growing and the packets sent    *)
(* keeps what was received.                                                  *)
LEMMA StaysReceived ==
  ASSUME TypeOK, TypeOK', up \subseteq up', NEW m, Received(m),
         \A s \in SessionId : session[s].peer # NoClient =>
            /\ session'[s].peer = session[s].peer
            /\ session'[s].last >= session[s].last
  PROVE  Received(m)'
<1>1. m.from \in Client /\ m.sequence \in Nat /\ m.from # NoClient
  <2>1. m \in UpPacket /\ m.type = "Command"
    BY DEF Received, TypeOK
  <2>2. m.from \in Client /\ m.sequence \in Nat
    BY <2>1 DEF UpPacket
  <2> QED BY <2>2, SessionAssumption
<1>2. session[m.session].last \in Nat /\ session'[m.session].last \in Nat
  BY DEF Received, TypeOK, IsTable, Entry
<1> QED BY <1>1, <1>2 DEF Received

(* Whatever one packet does, an open session keeps its owner and its last    *)
(* number does not fall.                                                     *)
LEMMA InboundKeepsOwners ==
  ASSUME TypeOK, StreamInv, NEW m \in up, HandleInbound(m)
  PROVE  \A s \in SessionId : session[s].peer # NoClient =>
            /\ session'[s].peer = session[s].peer
            /\ session'[s].last >= session[s].last
<1> SUFFICES ASSUME NEW s \in SessionId, session[s].peer # NoClient
             PROVE  /\ session'[s].peer = session[s].peer
                    /\ session'[s].last >= session[s].last
  OBVIOUS
<1>1. IsTable(session) /\ session \in [SessionId -> Entry] /\ session[s].last \in Nat
  BY DEF TypeOK, IsTable, Entry
<1>2. CASE HandleHello(m)
  <2>1. s # nextSession
    <3>1. s >= nextSession => session[s].peer = NoClient
      BY DEF StreamInv
    <3>2. s \in Nat
      BY SessionAssumption DEF SessionId
    <3> QED BY <3>1, <3>2
  <2> QED BY <1>1, <1>2, <2>1 DEF HandleHello
<1>3. CASE HandleBye(m)
  BY <1>1, <1>3, EndEachKeeps DEF HandleBye
<1>4. CASE HandlePing(m)
  <2>1. session' = session \/ session' = [session EXCEPT ![m.session].silent = 0]
    BY <1>4 DEF HandlePing
  <2> QED BY <1>1, <2>1 DEF Entry
<1>5. CASE HandleCommand(m)
  <2> DEFINE heard == [session EXCEPT ![m.session].silent = 0, ![m.session].last = m.sequence]
  <2>1. m.sequence \in Nat
    BY <1>5 DEF HandleCommand, TypeOK, UpPacket
  <2>2. \/ session' = session
        \/ session' = [session EXCEPT ![m.session].silent = 0]
        \/ /\ Bound(m) /\ IsFresh(m, m.session)
           /\ \/ session' = heard
              \/ session' = [heard EXCEPT ![m.session].verified = TRUE]
              \/ session' = EndEach(heard, {m.session})
    BY <1>5 DEF HandleCommand, Submit
  <2>3. CASE session' = session \/ session' = [session EXCEPT ![m.session].silent = 0]
    BY <1>1, <2>3 DEF Entry
  <2>4. CASE Bound(m) /\ IsFresh(m, m.session)
    <3>1. /\ heard[s].peer = session[s].peer
          /\ heard[s].last >= session[s].last
      BY <1>1, <2>1, <2>4 DEF IsFresh, Entry
    <3>2. IsTable(heard)
      BY <1>1, <2>1, <2>4, HeardKeeps, Zenon DEF Bound
    <3>3. heard[s] \in Entry
      BY <3>2 DEF IsTable
    <3> HIDE DEF heard
    <3>4. CASE session' = [heard EXCEPT ![m.session].verified = TRUE]
      BY <3>1, <3>2, <3>3, <3>4 DEF IsTable, Entry
    <3>5. CASE session' = EndEach(heard, {m.session})
      BY <3>1, <3>2, <3>5, EndEachKeeps
    <3> QED BY <2>2, <2>3, <3>1, <3>4, <3>5
  <2> QED BY <2>2, <2>3, <2>4
<1> QED BY <1>2, <1>3, <1>4, <1>5 DEF HandleInbound

(* Only a handshake gives a session an owner.                                *)
LEMMA OthersKeepPeers ==
  ASSUME TypeOK, NEW m \in up, HandleBye(m) \/ HandlePing(m) \/ HandleCommand(m),
         NEW s \in SessionId
  PROVE  session'[s].peer = session[s].peer
<1>1. IsTable(session) /\ session \in [SessionId -> Entry] /\ session[s] \in Entry
  BY DEF TypeOK, IsTable
<1>2. CASE HandleBye(m)
  BY <1>1, <1>2, EndEachKeeps DEF HandleBye
<1>3. CASE HandlePing(m)
  BY <1>1, <1>3 DEF HandlePing, Entry
<1>4. CASE HandleCommand(m)
  <2> DEFINE heard == [session EXCEPT ![m.session].silent = 0, ![m.session].last = m.sequence]
  <2>1. m.sequence \in Nat
    BY <1>4, Zenon DEF HandleCommand, TypeOK, UpPacket
  <2>2. \/ session' = session
        \/ session' = [session EXCEPT ![m.session].silent = 0]
        \/ Bound(m) /\ session' = heard
        \/ Bound(m) /\ session' = [heard EXCEPT ![m.session].verified = TRUE]
        \/ Bound(m) /\ session' = EndEach(heard, {m.session})
    BY <1>4 DEF HandleCommand, Submit
  <2>3. CASE session' = session \/ session' = [session EXCEPT ![m.session].silent = 0]
    BY <1>1, <2>3 DEF Entry
  <2>4. CASE Bound(m)
    <3>1. heard[s].peer = session[s].peer
      BY <1>1 DEF Entry
    <3>2. IsTable(heard)
      BY <1>1, <2>1, <2>4, HeardKeeps, Zenon DEF Bound
    <3> HIDE DEF heard
    <3>3. CASE session' = [heard EXCEPT ![m.session].verified = TRUE]
      BY <3>1, <3>2, <3>3 DEF IsTable, Entry
    <3>4. CASE session' = EndEach(heard, {m.session})
      BY <3>1, <3>2, <3>4, EndEachKeeps
    <3> QED BY <2>2, <2>3, <3>1, <3>3, <3>4
  <2> QED BY <2>2, <2>3, <2>4
<1> QED BY <1>2, <1>3, <1>4

LEMMA TickKeepsOwners ==
  ASSUME TypeOK, NEW removed, Tick(removed), NEW s \in SessionId
  PROVE  session'[s].peer = session[s].peer /\ session'[s].last = session[s].last
<1> DEFINE aged == [t \in SessionId |-> [session[t] EXCEPT !.silent = Quiet(t)]]
<1>1. PICK gone : session' = EndEach(aged, gone)
  BY Zenon DEF Tick
<1>2. session[s] \in Entry
  BY DEF TypeOK, IsTable
<1>3. aged[s].peer = session[s].peer /\ aged[s].last = session[s].last
  BY <1>2 DEF Entry
<1>4. IsTable(aged)
  BY AgedKeeps
<1> QED BY <1>1, <1>3, <1>4, EndEachKeeps
LEMMA Concatenated ==
  ASSUME NEW S, NEW q \in Seq(S), NEW r \in Seq(S),
         Stream!InOrder(q), Stream!InOrder(r), Below(q, r)
  PROVE  Stream!InOrder(q \o r)
<1> SUFFICES ASSUME NEW i \in DOMAIN (q \o r), NEW j \in DOMAIN (q \o r), i < j,
                    (q \o r)[i].session = (q \o r)[j].session
             PROVE  (q \o r)[i].sequence < (q \o r)[j].sequence
  BY Zenon DEF Stream!InOrder
<1>1. i \in 1..Len(q) + Len(r) /\ j \in 1..Len(q) + Len(r) /\ Len(q) \in Nat /\ Len(r) \in Nat
  BY ConcatProperties
<1>2. CASE j <= Len(q)
  <2>1. i \in DOMAIN q /\ j \in DOMAIN q
    BY <1>1, <1>2
  <2>2. (q \o r)[i] = q[i] /\ (q \o r)[j] = q[j]
    BY <1>1, <1>2, ConcatProperties
  <2> QED BY <2>1, <2>2 DEF Stream!InOrder
<1>3. CASE i <= Len(q) /\ j > Len(q)
  <2>1. i \in DOMAIN q /\ j - Len(q) \in DOMAIN r
    BY <1>1, <1>3
  <2>2. (q \o r)[i] = q[i] /\ (q \o r)[j] = r[j - Len(q)]
    BY <1>1, <1>3, ConcatProperties
  <2> QED BY <2>1, <2>2 DEF Below
<1>4. CASE i > Len(q)
  <2>1. i - Len(q) \in DOMAIN r /\ j - Len(q) \in DOMAIN r /\ i - Len(q) < j - Len(q)
    BY <1>1, <1>4
  <2>2. (q \o r)[i] = r[i - Len(q)] /\ (q \o r)[j] = r[j - Len(q)]
    BY <1>1, <1>4, ConcatProperties
  <2> QED BY <2>1, <2>2 DEF Stream!InOrder
<1> QED BY <1>1, <1>2, <1>3, <1>4

(* The stream invariant over the three kinds of steps.                       *)
LEMMA StreamStable ==
  ASSUME TypeOK, TypeOK', StreamInv, up \subseteq up',
         nextSession' = nextSession, session' = session,
         buffer' = buffer, log' = log
  PROVE  StreamInv'
<1> QED BY DEF StreamInv, Below, Stream!InOrder, Received

LEMMA StreamInbound ==
  ASSUME TypeOK, TypeOK', StreamInv, NEW m \in up, HandleInbound(m)
  PROVE  StreamInv'
<1>0. up' = up /\ log' = log
  BY DEF HandleInbound
<1>1. \A n : Received(n) => Received(n)'
  BY <1>0, StaysReceived, InboundKeepsOwners
<1>2. \A s \in SessionId : s >= nextSession' => session'[s].peer = NoClient
  <2>1. CASE HandleHello(m)
    <3>1. nextSession \in Nat /\ nextSession' \in {nextSession, nextSession + 1}
      BY <2>1, SessionAssumption DEF HandleHello, TypeOK
    <3>2. CASE session' = session
      BY <3>1, <3>2 DEF StreamInv, SessionId
    <3>3. CASE nextSession' = nextSession + 1
      <4> DEFINE e == [NoEntry EXCEPT !.state = "Active", !.peer = m.from]
      <4>1. session' = session \/ session' = [session EXCEPT ![nextSession] = e]
        BY <2>1 DEF HandleHello
      <4> HIDE DEF e
      <4>2. session \in [SessionId -> Entry]
        BY DEF TypeOK, IsTable
      <4> SUFFICES ASSUME NEW s \in SessionId, s >= nextSession'
                   PROVE  session'[s].peer = NoClient
        OBVIOUS
      <4>3. s \in Int /\ s # nextSession /\ s >= nextSession
        BY <3>1, <3>3, SessionAssumption DEF SessionId
      <4>4. session'[s] = session[s]
        BY <4>1, <4>2, <4>3
      <4> QED BY <4>3, <4>4 DEF StreamInv
    <3> QED BY <2>1, <3>2, <3>3 DEF HandleHello
  <2>2. CASE HandleBye(m) \/ HandlePing(m) \/ HandleCommand(m)
    <3>1. nextSession' = nextSession
      BY <2>2 DEF HandleBye, HandlePing, HandleCommand
    <3>2. ASSUME NEW s \in SessionId, session[s].peer = NoClient
          PROVE  session'[s].peer = NoClient
      BY <2>2, <3>2, OthersKeepPeers
    <3> QED BY <3>1, <3>2 DEF StreamInv
  <2> QED BY <2>1, <2>2 DEF HandleInbound
<1>3. CASE buffer' = buffer
  BY <1>0, <1>1, <1>2, <1>3 DEF StreamInv, Below, Stream!InOrder
<1>4. CASE buffer' # buffer
  <2>1. /\ HandleCommand(m) /\ Bound(m) /\ IsFresh(m, m.session)
        /\ session' = [session EXCEPT ![m.session].silent = 0, ![m.session].last = m.sequence]
        /\ buffer' = Append(buffer, m)
    BY <1>4 DEF HandleInbound, HandleHello, HandleBye, HandlePing, HandleCommand, Submit
  <2>2. buffer \in Seq(up) /\ log \in Seq(up) /\ m.sequence \in Nat /\ m.session \in SessionId
    BY <2>1, Zenon DEF TypeOK, UpPacket, HandleCommand, Bound
  <2>3. session[m.session] \in Entry /\ session \in [SessionId -> Entry]
    BY <2>2 DEF TypeOK, IsTable
  <2>4. session'[m.session].peer = session[m.session].peer /\ session'[m.session].last = m.sequence
    BY <2>1, <2>2, <2>3 DEF Entry
  <2>5. Received(m)'
    BY <1>0, <2>1, <2>2, <2>4 DEF Received, HandleCommand, Bound
  <2>6. \A n : Received(n) /\ n.session = m.session => n.sequence < m.sequence
    <3> SUFFICES ASSUME NEW n, Received(n), n.session = m.session
                 PROVE  n.sequence < m.sequence
      OBVIOUS
    <3>1. n.sequence \in Nat /\ session[m.session].last \in Nat
      BY <2>3, Zenon DEF Received, TypeOK, UpPacket, Entry
    <3> QED BY <2>1, <2>2, <3>1 DEF Received, IsFresh
  <2>7. /\ Len(buffer) \in Nat /\ DOMAIN buffer = 1..Len(buffer)
        /\ DOMAIN buffer' = 1..Len(buffer) + 1
        /\ buffer'[Len(buffer) + 1] = m
        /\ \A i \in 1..Len(buffer) : buffer'[i] = buffer[i]
    BY <2>1, <2>2
  <2>8. \A i \in DOMAIN buffer' : \E n : n = buffer'[i] /\ Received(n)'
    <3>1. \A i \in 1..Len(buffer) : Received(buffer[i])
      BY <2>7 DEF StreamInv
    <3> QED BY <1>1, <2>5, <2>7, <3>1
  <2>9. Stream!InOrder(buffer')
    <3> SUFFICES ASSUME NEW i \in DOMAIN buffer', NEW j \in DOMAIN buffer', i < j,
                        buffer'[i].session = buffer'[j].session
                 PROVE  buffer'[i].sequence < buffer'[j].sequence
      BY DEF Stream!InOrder
    <3>1. CASE j = Len(buffer) + 1
      BY <2>6, <2>7, <3>1 DEF StreamInv
    <3>2. CASE j # Len(buffer) + 1
      BY <2>7, <3>2 DEF StreamInv, Stream!InOrder
    <3> QED BY <3>1, <3>2
  <2>10. Below(log, buffer')
    <3> SUFFICES ASSUME NEW i \in DOMAIN log, NEW j \in DOMAIN buffer',
                        log[i].session = buffer'[j].session
                 PROVE  log[i].sequence < buffer'[j].sequence
      BY DEF Below
    <3>1. CASE j = Len(buffer) + 1
      BY <2>6, <2>7, <3>1 DEF StreamInv
    <3>2. CASE j # Len(buffer) + 1
      BY <2>7, <3>2 DEF StreamInv, Below
    <3> QED BY <3>1, <3>2
  <2>11. \A i \in DOMAIN log' : \E n : n = log'[i] /\ Received(n)'
    BY <1>0, <1>1 DEF StreamInv
  <2>12. Stream!InOrder(log') /\ Below(log', buffer')
    BY <1>0, <2>10 DEF StreamInv
  <2> QED BY <1>2, <2>8, <2>9, <2>11, <2>12 DEF StreamInv, Received, Below, Stream!InOrder
<1> QED BY <1>3, <1>4

(* A tick hands over the buffer: an arrangement in which the numbers of a    *)
(* session still grow, above all those applied before.                       *)
LEMMA TickBatch ==
  ASSUME TypeOK, StreamInv, NEW batch \in Drained
  PROVE  /\ batch \in Seq(up)
         /\ \A i \in DOMAIN batch : Received(batch[i])
         /\ Stream!InOrder(log \o batch)
<1>1. buffer \in Seq(up) /\ log \in Seq(up)
  BY DEF TypeOK
<1>2. batch \in Seq(up)
  BY <1>1, DrainedOrdered
<1>3. Below(log, batch)
  BY <1>1, DrainedOrdered DEF StreamInv, Below
<1>4. Stream!InOrder(batch)
  <2> SUFFICES ASSUME NEW i \in DOMAIN batch, NEW j \in DOMAIN batch, i < j,
                      batch[i].session = batch[j].session
               PROVE  batch[i].sequence < batch[j].sequence
    BY DEF Stream!InOrder
  <2>1. PICK k \in DOMAIN buffer, l \in DOMAIN buffer :
          batch[i] = buffer[k] /\ batch[j] = buffer[l] /\ Precedes(k, l)
    BY <1>1, DrainedOrdered
  <2>2. \A n : Received(n) => n.session \in Nat /\ n.sequence \in Nat
    <3> SUFFICES ASSUME NEW n, Received(n) PROVE n.session \in Nat /\ n.sequence \in Nat
      OBVIOUS
    <3>1. n.session \in Nat
      BY SessionAssumption DEF Received, SessionId
    <3>2. n.sequence \in Nat
      BY DEF Received, TypeOK, UpPacket
    <3> QED BY <3>1, <3>2
  <2>3. buffer[k].session = buffer[l].session /\ k < l => buffer[k].sequence < buffer[l].sequence
    BY DEF StreamInv, Stream!InOrder
  <2>4. Received(buffer[k]) /\ Received(buffer[l])
    BY DEF StreamInv
  <2> QED BY <2>1, <2>2, <2>3, <2>4 DEF Precedes
<1>5. \A i \in DOMAIN batch : Received(batch[i])
  BY <1>1, DrainedOrdered DEF StreamInv
<1>6. Stream!InOrder(log \o batch)
  BY <1>1, <1>2, <1>3, <1>4, Concatenated DEF StreamInv
<1> QED BY <1>2, <1>5, <1>6

LEMMA StreamTick ==
  ASSUME TypeOK, TypeOK', StreamInv, NEW removed, Tick(removed)
  PROVE  StreamInv'
<1>1. PICK batch \in Drained :
        /\ log' = log \o batch
        /\ buffer' = << >>
        /\ UNCHANGED <<nextSession, up>>
  BY Zenon DEF Tick
<1>2. \A n : Received(n) => Received(n)'
  <2>1. \A s \in SessionId : session[s].last \in Nat
    BY DEF TypeOK, IsTable, Entry
  <2> QED BY <1>1, <2>1, StaysReceived, TickKeepsOwners
<1>3. \A s \in SessionId : s >= nextSession' => session'[s].peer = NoClient
  BY <1>1, TickKeepsOwners DEF StreamInv
<1>4. log \in Seq(up) /\ batch \in Seq(up) /\ \A i \in DOMAIN batch : Received(batch[i])
  BY TickBatch DEF TypeOK
<1>5. \A i \in DOMAIN log' : \E n : n = log'[i] /\ Received(n)'
  <2> SUFFICES ASSUME NEW i \in DOMAIN log' PROVE Received(log'[i])
    BY <1>2
  <2>1. i \in 1..Len(log) + Len(batch) /\ Len(log) \in Nat /\ Len(batch) \in Nat
    BY <1>1, <1>4, ConcatProperties
  <2>2. CASE i <= Len(log)
    BY <1>1, <1>4, <2>1, <2>2, ConcatProperties DEF StreamInv
  <2>3. CASE i > Len(log)
    <3>1. i - Len(log) \in DOMAIN batch /\ log'[i] = batch[i - Len(log)]
      BY <1>1, <1>4, <2>1, <2>3, ConcatProperties
    <3> QED BY <1>4, <3>1
  <2> QED BY <2>1, <2>2, <2>3
<1>6. Stream!InOrder(log')
  BY <1>1, TickBatch
<1>7. DOMAIN buffer' = {}
  BY <1>1
<1> QED BY <1>3, <1>5, <1>6, <1>7 DEF StreamInv, Received, Below, Stream!InOrder
LEMMA StreamStep ==
  ASSUME TypeOK, TypeOK', StreamInv, [Next]_vars
  PROVE  StreamInv'
<1>1. CASE ClientNext
  BY <1>1, StreamStable, Zenon DEF ClientNext, Connect, Ping, Disconnect, SendCommand, Poll
<1>2. CASE ServerNext
  <2>1. ASSUME NEW s \in SessionId, NEW r \in Roles, SetAdminRole(s, r) PROVE StreamInv'
    BY <2>1, StreamStable DEF SetAdminRole
  <2> QED BY <1>2, <2>1, StreamInbound, StreamTick DEF ServerNext
<1>3. CASE UNCHANGED vars
  BY <1>3, StreamStable DEF vars
<1> QED BY <1>1, <1>2, <1>3 DEF Next

LEMMA StreamInitially == Init => StreamInv
<1> SUFFICES ASSUME Init PROVE StreamInv
  OBVIOUS
<1>1. DOMAIN log = {} /\ DOMAIN buffer = {}
  BY DEF Init
<1>2. \A s \in SessionId : session[s].peer = NoClient
  BY DEF Init, NoEntry
<1> QED BY <1>1, <1>2 DEF StreamInv, Below, Stream!InOrder

(* Each step of the servers and clients is one of the stream, or none.       *)
LEMMA StepRefines ==
  ASSUME TypeOK, TypeOK', StreamInv, StreamInv', [Next]_vars
  PROVE  [Stream!StreamNext]_(Stream!streamVars)
<1> DEFINE peers == [s \in SessionId |-> session[s].peer]
           issued == {m \in up : m.type = "Command"}
<1>1. ASSUME up \subseteq up', log' = log, \A s \in SessionId : session'[s].peer = session[s].peer
      PROVE  Stream!Issue
  <2>1. issued \subseteq issued' /\ peers' = peers
    BY <1>1
  <2> QED BY <1>1, <2>1 DEF Stream!Issue
<1>2. CASE ClientNext
  <2>1. up \subseteq up' /\ log' = log /\ session' = session
    BY <1>2, Zenon DEF ClientNext, Connect, Ping, Disconnect, SendCommand, Poll
  <2> QED BY <1>1, <2>1 DEF Stream!StreamNext
<1>3. ASSUME NEW m \in up, HandleInbound(m) PROVE [Stream!StreamNext]_(Stream!streamVars)
  <2>1. up' = up /\ log' = log
    BY <1>3 DEF HandleInbound
  <2>2. CASE HandleBye(m) \/ HandlePing(m) \/ HandleCommand(m)
    <3>1. \A s \in SessionId : session'[s].peer = session[s].peer
      BY <2>2, OthersKeepPeers
    <3> QED BY <1>1, <2>1, <3>1 DEF Stream!StreamNext
  <2>3. CASE HandleHello(m) /\ session' = session
    BY <1>1, <2>1, <2>3 DEF Stream!StreamNext
  <2>4. CASE HandleHello(m) /\ session' # session
    <3> DEFINE e == [NoEntry EXCEPT !.state = "Active", !.peer = m.from]
    <3>1. nextSession \in SessionId /\ session' = [session EXCEPT ![nextSession] = e]
      BY <2>4 DEF HandleHello
    <3>2. e.peer = m.from
      BY DEF NoEntry
    <3>3. m.from \in Client
      BY DEF TypeOK, UpPacket
    <3>4. session \in [SessionId -> Entry] /\ session[nextSession].peer = NoClient
      BY <3>1, SessionAssumption DEF StreamInv, TypeOK, IsTable, SessionId
    <3> HIDE DEF e
    <3>5. peers' = [peers EXCEPT ![nextSession] = m.from]
      BY <3>1, <3>2, <3>4, Zenon
    <3>6. peers[nextSession] = NoClient /\ issued' = issued
      BY <2>1, <3>1, <3>4
    <3>7. Stream!Open(nextSession, m.from)
      BY <2>1, <3>5, <3>6 DEF Stream!Open
    <3> QED BY <3>1, <3>3, <3>7 DEF Stream!StreamNext
  <2> QED BY <1>3, <2>2, <2>3, <2>4 DEF HandleInbound
<1>4. ASSUME NEW removed, Tick(removed) PROVE Stream!Apply
  <2>1. PICK batch \in Drained : log' = log \o batch /\ up' = up
    BY <1>4, Zenon DEF Tick
  <2>2. peers' = peers /\ issued' = issued
    BY <1>4, <2>1, TickKeepsOwners
  <2>3. log \in Seq(up) /\ batch \in Seq(up)
    BY TickBatch DEF TypeOK
  <2>4. Stream!IsPrefix(log, log')
    <3>1. Len(log') = Len(log) + Len(batch) /\ Len(log) \in Nat /\ Len(batch) \in Nat
      BY <2>1, <2>3, ConcatProperties
    <3>2. \A i \in 1..Len(log) : log'[i] = log[i]
      BY <2>1, <2>3, <3>1, ConcatProperties
    <3>3. SubSeq(log', 1, Len(log)) = [i \in 1..Len(log) |-> log'[i]]
      BY <3>1
    <3>4. SubSeq(log, 1, Len(log)) = [i \in 1..Len(log) |-> log[i]]
      BY <3>1
    <3> QED BY <3>1, <3>2, <3>3, <3>4 DEF Stream!IsPrefix
  <2>5. Stream!InOrder(log')
    BY DEF StreamInv
  <2>6. \A i \in DOMAIN log' : log'[i] \in issued /\ log'[i].from = peers[log'[i].session]
    <3>1. \A i \in DOMAIN log' : /\ log'[i] \in up' /\ log'[i].type = "Command"
                                 /\ log'[i].session \in SessionId
                                 /\ log'[i].from = session'[log'[i].session].peer
      BY DEF StreamInv, Received
    <3> QED BY <1>4, <2>1, <3>1, TickKeepsOwners
  <2> QED BY <2>2, <2>4, <2>5, <2>6 DEF Stream!Apply
<1>5. ASSUME NEW s \in SessionId, NEW r \in Roles, SetAdminRole(s, r) PROVE Stream!StreamNext
  BY <1>1, <1>5 DEF SetAdminRole, Stream!StreamNext
<1>6. CASE UNCHANGED vars
  BY <1>1, <1>6 DEF vars, Stream!StreamNext
<1>7. CASE ServerNext
  BY <1>3, <1>4, <1>5, <1>7 DEF ServerNext, Stream!StreamNext
<1> QED BY <1>2, <1>6, <1>7 DEF Next

(* Both servers implement the command stream over the lossy network: what a  *)
(* tick hands to the simulation are commands their clients sent, in the      *)
(* order of their numbers, none of them twice.                               *)
THEOREM SessionImplementsStream == Spec => ImplementsCommandStream
<1>1. Init => Stream!StreamInit
  <2> SUFFICES ASSUME Init PROVE Stream!StreamInit
    OBVIOUS
  <2>1. [s \in SessionId |-> session[s].peer] = [s \in SessionId |-> NoClient]
    BY DEF Init, NoEntry
  <2>2. log = << >> /\ {m \in up : m.type = "Command"} = {}
    BY DEF Init
  <2> QED BY <2>1, <2>2 DEF Stream!StreamInit
<1>2. TypeOK /\ TypeOK' /\ StreamInv /\ [Next]_vars => StreamInv'
  BY StreamStep
<1>3. TypeOK /\ TypeOK' /\ StreamInv /\ StreamInv' /\ [Next]_vars
        => [Stream!StreamNext]_(Stream!streamVars)
  BY StepRefines
<1> QED BY <1>1, <1>2, <1>3, SessionTypes, StreamInitially, PTL
        DEF Spec, ImplementsCommandStream, Stream!StreamSpec
-----------------------------------------------------------------------------
(* Roles.  A buffered promotion was read from a host; between two ticks a    *)
(* role is only ever lost, so that its sender is the host still, or a player *)
(* whose directive the tick drops.                                           *)
RoleInv ==
  \A i \in DOMAIN buffer :
    buffer[i].command.op = "role" => role[buffer[i].session] \in {"Host", "Player"}

LEMMA RolesOnlyLost ==
  ASSUME TypeOK, NEW m \in up, HandleInbound(m), NEW s \in SessionId
  PROVE  role'[s] \in {role[s], "Player"}
<1>1. \/ role' = role
      \/ role' = [t \in SessionId |-> IF t = m.session THEN "Player" ELSE role[t]]
      \/ role' = [role EXCEPT ![m.session] = "Player"]
  BY DEF HandleInbound, HandleHello, HandleBye, HandlePing, HandleCommand, Submit, RolesWithout
<1> QED BY <1>1 DEF TypeOK

LEMMA RoleInbound ==
  ASSUME TypeOK, StreamInv, RoleInv, NEW m \in up, HandleInbound(m)
  PROVE  RoleInv'
<1>1. CASE buffer' = buffer
  BY <1>1, RolesOnlyLost DEF RoleInv, StreamInv, Received
<1>2. CASE buffer' # buffer
  <2>1. /\ HandleCommand(m) /\ Bound(m) /\ Allows(role[m.session], m.command)
        /\ role' = role /\ buffer' = Append(buffer, m)
    BY <1>2 DEF HandleInbound, HandleHello, HandleBye, HandlePing, HandleCommand, Submit
  <2>2. /\ Len(buffer) \in Nat /\ DOMAIN buffer = 1..Len(buffer)
        /\ DOMAIN buffer' = 1..Len(buffer) + 1
        /\ buffer'[Len(buffer) + 1] = m
        /\ \A i \in 1..Len(buffer) : buffer'[i] = buffer[i]
    BY <2>1 DEF TypeOK
  <2>3. m.command.op = "role" => role[m.session] = "Host"
    BY <2>1 DEF Allows
  <2> QED BY <2>1, <2>2, <2>3 DEF RoleInv
<1> QED BY <1>1, <1>2

LEMMA RoleStep ==
  ASSUME TypeOK, StreamInv, RoleInv, [Next]_vars
  PROVE  RoleInv'
<1>1. CASE ClientNext \/ UNCHANGED vars
  BY <1>1, Zenon DEF ClientNext, Connect, Ping, Disconnect, SendCommand, Poll, vars, RoleInv
<1>2. CASE ServerNext
  <2>1. ASSUME NEW removed, Tick(removed) PROVE RoleInv'
    <3>1. DOMAIN buffer' = {}
      BY <2>1 DEF Tick
    <3> QED BY <3>1 DEF RoleInv
  <2>2. ASSUME NEW s \in SessionId, NEW r \in Roles, SetAdminRole(s, r) PROVE RoleInv'
    <3>1. DOMAIN buffer' = {}
      BY <2>2 DEF SetAdminRole
    <3> QED BY <3>1 DEF RoleInv
  <2> QED BY <1>2, <2>1, <2>2, RoleInbound DEF ServerNext
<1> QED BY <1>1, <1>2 DEF Next

(* Only a tick at which the host is there gives anybody a role, whatever the *)
(* order in which commands, directives, goodbyes and evictions meet.         *)
THEOREM SessionHostsPromote == Spec => HostsPromote
<1> DEFINE Promoted == /\ buffer' # buffer
                       /\ \E s \in SessionId : role'[s] \notin {role[s], "Player"}
           Hosted == \E h \in SessionId : role[h] = "Host"
<1>1. Init => RoleInv
  <2> SUFFICES ASSUME Init PROVE RoleInv
    OBVIOUS
  <2>1. DOMAIN buffer = {}
    BY DEF Init
  <2> QED BY <2>1 DEF RoleInv
<1>2. TypeOK /\ StreamInv /\ RoleInv /\ [Next]_vars => RoleInv'
  BY RoleStep
<1>3. TypeOK /\ StreamInv /\ RoleInv /\ [Next]_vars => (Promoted => Hosted)
  <2> SUFFICES ASSUME TypeOK, StreamInv, RoleInv, [Next]_vars, buffer' # buffer,
                      NEW s \in SessionId, role'[s] \notin {role[s], "Player"}
               PROVE  Hosted
    OBVIOUS
  <2>1. PICK removed : Tick(removed)
    <3>1. \A m \in up : ~HandleInbound(m)
      BY RolesOnlyLost
    <3>2. ~ClientNext
      BY Zenon DEF ClientNext, Connect, Ping, Disconnect, SendCommand, Poll
    <3>3. \A t \in SessionId, r \in Roles : ~SetAdminRole(t, r)
      BY DEF SetAdminRole
    <3> QED BY <3>1, <3>2, <3>3 DEF Next, ServerNext, vars
  <2>2. PICK batch \in Drained, directed \in [SessionId -> Roles] :
          /\ Directed(batch, s, directed[s])
          /\ \E S : role' = [t \in SessionId |-> IF t \in S THEN "Player" ELSE directed[t]]
    BY <2>1, Zenon DEF Tick
  <2>3. directed[s] \notin {role[s], "Player"}
    BY <2>2
  <2>4. PICK i \in About(batch, s) : batch[i].command.op = "role"
    BY <2>2, <2>3 DEF Directed
  <2>5. i \in DOMAIN batch /\ role[batch[i].session] # "Player"
    BY <2>4 DEF About
  <2>6. PICK k \in DOMAIN buffer : batch[i] = buffer[k]
    BY <2>5, DrainedOrdered DEF TypeOK
  <2>7. role[buffer[k].session] = "Host" /\ buffer[k].session \in SessionId
    BY <2>4, <2>5, <2>6 DEF RoleInv, StreamInv, Received
  <2> QED BY <2>7
<1>4. TypeOK /\ TypeOK' /\ StreamInv /\ [Next]_vars => StreamInv'
  BY StreamStep
<1> QED BY <1>1, <1>2, <1>3, <1>4, SessionTypes, StreamInitially, PTL DEF Spec, HostsPromote
-----------------------------------------------------------------------------
(* Numbers.  A client is ahead of every command it ever sent, hence of every *)
(* session it opened; and the threaded server's welcomes reach the client    *)
(* that asked.                                                               *)
MuteInv ==
  /\ \A m \in up : m.type = "Command" => m.sequence < client[m.from].next
  /\ \A s \in SessionId, c \in Client :
       session[s].peer = c => session[s].last < client[c].next
  /\ \A c \in Client : client[c].state = "Active" => client[c].session \in SessionId
  /\ server = "threaded" =>
       /\ \A m \in down : m.type = "Welcome" => session[m.session].peer = m.to
       /\ \A c \in Client : client[c].state = "Active" => session[client[c].session].peer = c

LEMMA MuteClient ==
  ASSUME TypeOK, TypeOK', MuteInv, ClientNext
  PROVE  MuteInv'
<1>1. session' = session /\ server' = server /\ down' = down
  BY Zenon DEF ClientNext, Connect, Ping, Disconnect, SendCommand, Poll
<1>2. \A c \in Client : client[c] \in Agent /\ client'[c] \in Agent
  BY DEF TypeOK
<1>3. \A c \in Client : client[c].next \in Nat /\ client'[c].next \in Nat
  BY <1>2 DEF Agent
<1>4. \A c \in Client : client'[c].next >= client[c].next
  <2>1. ASSUME NEW c \in Client, Connect(c) \/ Disconnect(c)
        PROVE  \A d \in Client : client'[d].next >= client[d].next
    <3>1. PICK n \in {client[c].next, client[c].next + 1}, st \in {"Connecting", "Closed"} :
            client' = [client EXCEPT ![c].state = st, ![c].next = n]
      <4>1. CASE Connect(c)
        <5>1. client' = [client EXCEPT ![c].state = "Connecting", ![c].next = client[c].next]
          <6>1. PICK a : a = client[c]
            OBVIOUS
          <6>2. a = [a EXCEPT !.next = a.next]
            BY <1>2, <6>1 DEF Agent
          <6>3. [a EXCEPT !.state = "Connecting"] = [a EXCEPT !.state = "Connecting", !.next = a.next]
            BY <1>2, <6>1, Zenon DEF Agent
          <6> QED BY <1>2, <4>1, <6>1, <6>3, Zenon DEF Connect, TypeOK
        <5> QED BY <5>1
      <4>2. CASE Disconnect(c)
        BY <4>2, Zenon DEF Disconnect
      <4> QED BY <2>1, <4>1, <4>2
    <3> QED BY <1>2, <1>3, <3>1 DEF Agent, TypeOK
  <2>2. ASSUME NEW c \in Client, UseSequence(c)
        PROVE  \A d \in Client : client'[d].next >= client[d].next
    BY <1>2, <2>2, NextGrows DEF TypeOK
  <2>3. ASSUME NEW m \in down, Poll(m)
        PROVE  \A d \in Client : client'[d].next = client[d].next
    BY <1>2, <2>3 DEF Poll, AfterWelcome, TypeOK, Agent
  <2> QED BY <1>3, <2>1, <2>2, <2>3 DEF ClientNext, Ping, SendCommand
<1>5. \A m \in up' : m.type = "Command" => m.sequence < client'[m.from].next
  <2>1. ASSUME NEW m \in up, m.type = "Command" PROVE m.sequence < client'[m.from].next
    <3>1. m.from \in Client /\ m.sequence \in Nat /\ m.sequence < client[m.from].next
      BY <2>1, Zenon DEF MuteInv, TypeOK, UpPacket
    <3> QED BY <1>3, <1>4, <3>1
  <2>2. ASSUME NEW c \in Client, NEW op \in Operation[c], SendCommand(c, op)
        PROVE  \A m \in up' \ up : m.sequence < client'[m.from].next
    <3>1. \A m \in up' \ up : m.from = c /\ m.sequence = client[c].next
      BY <2>2 DEF SendCommand
    <3>2. client'[c].next = client[c].next + 1
      BY <1>2, <2>2, NextGrows DEF SendCommand, TypeOK
    <3> QED BY <1>3, <3>1, <3>2
  <2>3. ASSUME NEW c \in Client, Connect(c) \/ Ping(c) \/ Disconnect(c)
        PROVE  \A m \in up' \ up : m.type # "Command"
    BY <2>3 DEF Connect, Ping, Disconnect
  <2>4. ASSUME NEW m \in down, Poll(m) PROVE up' = up
    BY <2>4 DEF Poll
  <2> QED BY <2>1, <2>2, <2>3, <2>4 DEF ClientNext
<1>6. \A s \in SessionId, c \in Client :
        session'[s].peer = c => session'[s].last < client'[c].next
  <2>1. \A s \in SessionId : session[s].last \in Nat
    BY DEF TypeOK, IsTable, Entry
  <2> QED BY <1>1, <1>3, <1>4, <2>1 DEF MuteInv
<1>7. ASSUME NEW c \in Client, client'[c].state = "Active"
      PROVE  \/ client[c].state = "Active" /\ client'[c].session = client[c].session
             \/ \E m \in down : /\ m.type = "Welcome" /\ m.to = c
                              /\ client'[c].session = m.session
  <2>1. ASSUME NEW d \in Client, Connect(d) \/ Disconnect(d)
        PROVE  client[c].state = "Active" /\ client'[c].session = client[c].session
    <3>1. \A b \in Client \ {d} : client'[b] = client[b]
      BY <2>1 DEF Connect, Disconnect, TypeOK
    <3>2. client'[d].state # "Active"
      BY <1>2, <2>1 DEF Connect, Disconnect, TypeOK, Agent
    <3> QED BY <1>7, <3>1, <3>2
  <2>2. ASSUME NEW d \in Client, UseSequence(d)
        PROVE  client[c].state = "Active" /\ client'[c].session = client[c].session
    BY <1>2, <1>7, <2>2, NextGrows DEF TypeOK
  <2>3. ASSUME NEW m \in down, Poll(m), m.to # c PROVE client'[c] = client[c]
    BY <2>3 DEF Poll, TypeOK
  <2>4. ASSUME NEW m \in down, Poll(m), m.to = c
        PROVE  m.type = "Welcome" /\ client'[c].session = m.session
    BY <1>2, <1>7, <2>4 DEF Poll, AfterWelcome, TypeOK, Agent
  <2> QED BY <1>7, <2>1, <2>2, <2>3, <2>4 DEF ClientNext, Ping, SendCommand
<1>8. \A c \in Client : client'[c].state = "Active" => client'[c].session \in SessionId
  <2>1. \A m \in down : m.type = "Welcome" => m.session \in SessionId
    BY DEF TypeOK, DownPacket
  <2>2. \A c \in Client : client[c].state = "Active" => client[c].session \in SessionId
    BY DEF MuteInv
  <2> QED BY <1>7, <2>1, <2>2, Zenon
<1>9. server = "threaded" =>
        \A c \in Client : client'[c].state = "Active" => session[client'[c].session].peer = c
  BY <1>7 DEF MuteInv
<1> QED BY <1>1, <1>5, <1>6, <1>8, <1>9 DEF MuteInv
(* What one packet does to the numbers and owners of the sessions.           *)
LEMMA InboundNumbers ==
  ASSUME TypeOK, NEW m \in up, HandleInbound(m), NEW s \in SessionId
  PROVE  \/ session'[s].peer = session[s].peer /\ session'[s].last = session[s].last
         \/ session'[s].peer = m.from /\ session'[s].last = 0
         \/ /\ m.type = "Command" /\ session'[s].peer = m.from
            /\ session'[s].last = m.sequence
<1>1. IsTable(session) /\ session \in [SessionId -> Entry] /\ session[s] \in Entry
  BY DEF TypeOK, IsTable
<1>2. CASE HandleHello(m)
  <2> DEFINE e == [NoEntry EXCEPT !.state = "Active", !.peer = m.from]
  <2>1. session' = session \/ session' = [session EXCEPT ![nextSession] = e]
    BY <1>2 DEF HandleHello
  <2>2. e.peer = m.from /\ e.last = 0
    BY DEF NoEntry
  <2> HIDE DEF e
  <2> QED BY <1>1, <2>1, <2>2
<1>3. CASE HandleBye(m)
  BY <1>1, <1>3, EndEachKeeps DEF HandleBye
<1>4. CASE HandlePing(m)
  BY <1>1, <1>4 DEF HandlePing, Entry
<1>5. CASE HandleCommand(m)
  <2> DEFINE heard == [session EXCEPT ![m.session].silent = 0, ![m.session].last = m.sequence]
  <2>1. m.type = "Command" /\ m.sequence \in Nat
    BY <1>5 DEF HandleCommand, TypeOK, UpPacket
  <2>2. \/ session' = session
        \/ session' = [session EXCEPT ![m.session].silent = 0]
        \/ Bound(m) /\ session' = heard
        \/ Bound(m) /\ session' = [heard EXCEPT ![m.session].verified = TRUE]
        \/ Bound(m) /\ session' = EndEach(heard, {m.session})
    BY <1>5 DEF HandleCommand, Submit
  <2>3. CASE session' = session \/ session' = [session EXCEPT ![m.session].silent = 0]
    BY <1>1, <2>3 DEF Entry
  <2>4. CASE Bound(m)
    <3>1. /\ heard[s].peer = session[s].peer
          /\ heard[s].last = IF s = m.session THEN m.sequence ELSE session[s].last
          /\ s = m.session => session[s].peer = m.from
      BY <1>1, <2>4 DEF Entry, Bound
    <3>2. IsTable(heard)
      BY <1>1, <2>1, <2>4, HeardKeeps, Zenon DEF Bound
    <3> HIDE DEF heard
    <3>3. CASE session' = [heard EXCEPT ![m.session].verified = TRUE]
      BY <2>1, <3>1, <3>2, <3>3 DEF IsTable, Entry
    <3>4. CASE session' = EndEach(heard, {m.session})
      BY <2>1, <3>1, <3>2, <3>4, EndEachKeeps
    <3> QED BY <2>1, <2>2, <2>3, <3>1, <3>3, <3>4
  <2> QED BY <2>2, <2>3, <2>4
<1> QED BY <1>2, <1>3, <1>4, <1>5 DEF HandleInbound

LEMMA MuteInbound ==
  ASSUME TypeOK, TypeOK', StreamInv, MuteInv, NEW m \in up, HandleInbound(m)
  PROVE  MuteInv'
<1>1. up' = up /\ client' = client /\ server' = server
  BY DEF HandleInbound
<1>2. m.from \in Client /\ client[m.from].next \in Nat \ {0}
  BY Zenon DEF TypeOK, UpPacket, Agent
<1>3. \A s \in SessionId, c \in Client :
        session'[s].peer = c => session'[s].last < client[c].next
  BY <1>2, InboundNumbers DEF MuteInv
<1>4. ASSUME NEW n \in down' \ down, n.type = "Welcome", server = "threaded"
      PROVE  session'[n.session].peer = n.to
  <2> DEFINE e == [NoEntry EXCEPT !.state = "Active", !.peer = m.from]
  <2>1. HandleHello(m)
    BY <1>4 DEF HandleInbound, HandleBye, HandlePing, HandleCommand
  <2>2. /\ nextSession \in SessionId /\ session' = [session EXCEPT ![nextSession] = e]
        /\ n = [type |-> "Welcome", to |-> m.from, session |-> nextSession]
    BY <1>4, <2>1 DEF HandleHello, Destination
  <2>3. e.peer = m.from
    BY DEF NoEntry
  <2>4. session \in [SessionId -> Entry]
    BY DEF TypeOK, IsTable
  <2> HIDE DEF e
  <2> QED BY <2>2, <2>3, <2>4
<1>5. \A s \in SessionId, c \in Client : session[s].peer = c => session'[s].peer = c
  BY SessionAssumption, InboundKeepsOwners
<1>6. ASSUME server = "threaded"
      PROVE  \A n \in down' : n.type = "Welcome" => session'[n.session].peer = n.to
  <2>1. ASSUME NEW n \in down, n.type = "Welcome" PROVE session'[n.session].peer = n.to
    <3>1. n.session \in SessionId /\ n.to \in Client
      BY <2>1 DEF TypeOK, DownPacket
    <3> QED BY <1>5, <1>6, <2>1, <3>1 DEF MuteInv
  <2> QED BY <1>4, <1>6, <2>1
<1>7. ASSUME server = "threaded", NEW c \in Client, client[c].state = "Active"
      PROVE  session'[client[c].session].peer = c
  BY <1>5, <1>7 DEF MuteInv
<1> QED BY <1>1, <1>3, <1>6, <1>7 DEF MuteInv

LEMMA MuteStep ==
  ASSUME TypeOK, TypeOK', StreamInv, MuteInv, [Next]_vars
  PROVE  MuteInv'
<1>1. ASSUME NEW removed, Tick(removed) PROVE MuteInv'
  <2>1. up' = up /\ client' = client /\ server' = server /\ down' = down
    BY <1>1 DEF Tick
  <2>2. \A s \in SessionId : session'[s].peer = session[s].peer /\ session'[s].last = session[s].last
    BY <1>1, TickKeepsOwners
  <2>3. \A n \in down : n.type = "Welcome" => n.session \in SessionId
    BY DEF TypeOK, DownPacket
  <2> QED BY <2>1, <2>2, <2>3 DEF MuteInv
<1>2. ASSUME NEW s \in SessionId, NEW r \in Roles, SetAdminRole(s, r) PROVE MuteInv'
  BY <1>2 DEF SetAdminRole, MuteInv
<1>3. CASE UNCHANGED vars
  BY <1>3 DEF vars, MuteInv
<1>4. CASE ServerNext
  BY <1>1, <1>2, <1>4, MuteInbound DEF ServerNext
<1> QED BY <1>3, <1>4, MuteClient DEF Next

(* A client that believes itself connected can be heard: repeated handshakes *)
(* and late or repeated answers never set it back to numbers its session has *)
(* used, and never hand it a session of another client's (threaded server).  *)
THEOREM SessionNeverMuted == Spec => []NeverMuted
<1>1. Init /\ TypeOK => MuteInv
  <2> SUFFICES ASSUME Init, TypeOK PROVE MuteInv
    OBVIOUS
  <2>1. up = {} /\ down = {}
    BY DEF Init
  <2>2. \A c \in Client : client[c].state # "Active"
    BY DEF Init
  <2>3. \A s \in SessionId, c \in Client : session[s].peer # c
    BY SessionAssumption DEF Init, NoEntry
  <2> QED BY <2>1, <2>2, <2>3 DEF MuteInv
<1>2. TypeOK /\ TypeOK' /\ StreamInv /\ MuteInv /\ [Next]_vars => MuteInv'
  BY MuteStep
<1>3. TypeOK /\ MuteInv => NeverMuted
  <2> SUFFICES ASSUME TypeOK, MuteInv, NEW c \in Client, client[c].state = "Active"
               PROVE  LET s == client[c].session
                      IN /\ server = "threaded" => session[s].peer = c
                         /\ session[s].peer = c => client[c].next > session[s].last
    BY DEF NeverMuted
  <2>1. client[c].session \in SessionId /\ client[c].next \in Nat
    BY DEF MuteInv, TypeOK, Agent
  <2>2. session[client[c].session].last \in Nat
    BY <2>1 DEF TypeOK, IsTable, Entry
  <2> QED BY <2>1, <2>2 DEF MuteInv
<1>4. TypeOK /\ TypeOK' /\ StreamInv /\ [Next]_vars => StreamInv'
  BY StreamStep
<1> QED BY <1>1, <1>2, <1>3, <1>4, SessionTypes, StreamInitially, PTL DEF Spec

-----------------------------------------------------------------------------
(* The pool of threads.                                                    *)

ThreadNames == {"rx", "tx", "sim", "owner"}
Places == {"test", "poll", "wait", "drain", "ended",
           "serving", "ingress", "egress", "sim", "dropping", "closing", "gone"}
WorkerStates == {"locking", "receiving", "running", "ended", "dead"}

PoolTypes ==
  /\ at \in [ThreadNames -> Places]
  /\ worker \in [PoolThread -> [at : WorkerStates, job : PoolJob \cup {NoJob}]]
  /\ jobQueue \in Seq(PoolJob) /\ finished \in Seq(PoolJob)
  /\ sender \in BOOLEAN /\ handed \in SUBSET PoolJob

Has(w, job) == worker[w].at = "running" /\ worker[w].job = job

(* Only jobs that were handed in are waiting, running or finished ...      *)
FromOwner ==
  /\ \A i \in DOMAIN finished : finished[i] \in handed
  /\ \A k \in DOMAIN jobQueue : jobQueue[k] \in handed
  /\ \A w \in PoolThread : worker[w].at = "running" => worker[w].job \in handed

(* ... each of them in one place ...                                       *)
Apart ==
  /\ \A i, k \in DOMAIN finished : finished[i] = finished[k] => i = k
  /\ \A i, k \in DOMAIN jobQueue : jobQueue[i] = jobQueue[k] => i = k
  /\ \A v, w \in PoolThread, job \in handed : Has(v, job) /\ Has(w, job) => v = w
  /\ \A i \in DOMAIN finished, k \in DOMAIN jobQueue : finished[i] # jobQueue[k]
  /\ \A i \in DOMAIN finished, w \in PoolThread : ~Has(w, finished[i])
  /\ \A k \in DOMAIN jobQueue, w \in PoolThread : ~Has(w, jobQueue[k])

(* ... and none is lost while a worker is not dead.                        *)
Kept ==
  (\E w \in PoolThread : worker[w].at # "dead") =>
    \A job \in handed :
      \/ \E i \in DOMAIN finished : finished[i] = job
      \/ \E k \in DOMAIN jobQueue : jobQueue[k] = job
      \/ \E w \in PoolThread : Has(w, job)

(* A worker that leaves has seen an empty queue that nobody can fill.      *)
LastLook == (\E w \in PoolThread : worker[w].at = "ended") => ~sender /\ jobQueue = << >>

(* The owner is back only when nobody works.                               *)
Joined == at["owner"] = "gone" => \A w \in PoolThread : worker[w].at \in Over

PoolInv == PoolTypes /\ FromOwner /\ Apart /\ Kept /\ LastLook /\ Joined

-----------------------------------------------------------------------------
LEMMA PoolInitially == ThreadsInit => PoolInv
  <1> SUFFICES ASSUME ThreadsInit PROVE PoolInv
    OBVIOUS
  <1> USE DEF ThreadsInit
  <1>1. PoolTypes
    BY DEF PoolTypes, ThreadNames, Places, WorkerStates
  <1>2. FromOwner /\ Apart /\ Kept /\ LastLook /\ Joined
    BY DEF FromOwner, Apart, Kept, LastLook, Joined, Has
  <1> QED
    BY <1>1, <1>2 DEF PoolInv

LEMMA PoolAnswers == PoolInv => JobsDone
  <1> SUFFICES ASSUME PoolInv, at["owner"] = "gone", \E w \in PoolThread : worker[w].at = "ended",
                      NEW job \in handed
               PROVE  \E i \in DOMAIN finished :
                        finished[i] = job /\ \A k \in DOMAIN finished \ {i} : finished[k] # job
    BY DEF JobsDone
  <1>1. jobQueue = << >> /\ \A w \in PoolThread : ~Has(w, job)
    BY DEF PoolInv, LastLook, Joined, Over, Has
  <1>2. PICK i \in DOMAIN finished : finished[i] = job
    BY <1>1 DEF PoolInv, Kept
  <1> QED
    BY <1>2 DEF PoolInv, Apart

(* Steps of the network threads leave the pool and the owner alone.        *)
LEMMA NetworkKeeps ==
  ASSUME PoolInv, UNCHANGED poolvars,
         at' \in [ThreadNames -> Places], at'["owner"] = at["owner"]
  PROVE  PoolInv'
  <1>1. PoolTypes'
    BY DEF PoolInv, PoolTypes, poolvars
  <1> QED
    BY <1>1 DEF PoolInv, FromOwner, Apart, Kept, LastLook, Joined, Has, poolvars

LEMMA NetworkMoves ==
  ASSUME PoolTypes, Ingress \/ Egress \/ Simulate
  PROVE  at' \in [ThreadNames -> Places] /\ at'["owner"] = at["owner"]
  <1>1. CASE Ingress
    BY <1>1 DEF PoolTypes, ThreadNames, Places, Ingress, Moves
  <1>2. CASE Egress
    BY <1>2 DEF PoolTypes, ThreadNames, Places, Egress, Moves
  <1>3. CASE Simulate
    BY <1>3 DEF PoolTypes, ThreadNames, Places, Simulate, Drain, Moves
  <1> QED
    BY <1>1, <1>2, <1>3

(* The owner's steps.                                                      *)
LEMMA OwnerKeeps ==
  ASSUME PoolInv, UNCHANGED <<worker, jobQueue, handed, finished>>, sender' \in {sender, FALSE},
         NEW to \in Places, at' = [at EXCEPT !["owner"] = to], to = "gone" => AliveWorkers = {}
  PROVE  PoolInv'
  <1>1. at' \in [ThreadNames -> Places] /\ at'["owner"] = to
    BY DEF PoolInv, PoolTypes, ThreadNames
  <1>2. PoolTypes'
    BY <1>1, Zenon DEF PoolInv, PoolTypes
  <1>3. Joined'
    BY <1>1 DEF Joined, AliveWorkers
  <1>4. LastLook'
    BY Zenon DEF PoolInv, PoolTypes, LastLook
  <1>5. FromOwner' /\ Apart' /\ Kept'
    BY DEF PoolInv, FromOwner, Apart, Kept, Has
  <1> QED
    BY <1>2, <1>3, <1>4, <1>5 DEF PoolInv

(* The workers' steps.                                                     *)
LEMMA ExecuteKeeps ==
  ASSUME PoolInv, NEW job \in PoolJob, Execute(job)
  PROVE  PoolInv'
  <1>1. /\ PoolTypes /\ FromOwner /\ Apart /\ Kept /\ LastLook /\ Joined
        /\ at' = at /\ worker' = worker /\ sender' = sender /\ finished' = finished
        /\ sender = TRUE /\ handed' = handed \cup {job} /\ job \notin handed
    BY DEF PoolInv, Execute, netvars, PoolTypes
  <1>2. \A w \in PoolThread : worker[w].at # "ended"
    BY <1>1 DEF LastLook
  <1>3. CASE AliveWorkers = {}
    <2>1. \A w \in PoolThread : worker[w].at = "dead"
      BY <1>2, <1>3 DEF AliveWorkers, Over
    <2>2. jobQueue' = jobQueue
      BY <1>3 DEF Execute
    <2> QED
      BY <1>1, <2>1, <2>2 DEF PoolInv, PoolTypes, FromOwner, Apart, Kept, LastLook, Joined, Has
  <1>4. CASE AliveWorkers # {}
    <2>1. jobQueue' = Append(jobQueue, job) /\ jobQueue \in Seq(PoolJob)
      BY <1>1, <1>4 DEF Execute, PoolTypes
    <2>2. /\ DOMAIN jobQueue' = 1 .. Len(jobQueue) + 1 /\ DOMAIN jobQueue = 1 .. Len(jobQueue)
          /\ Len(jobQueue) \in Nat /\ jobQueue'[Len(jobQueue) + 1] = job
          /\ \A k \in DOMAIN jobQueue : jobQueue'[k] = jobQueue[k]
          /\ jobQueue' \in Seq(PoolJob)
      BY <2>1
    <2>3. PoolTypes'
      BY <1>1, <2>2 DEF PoolTypes
    <2>4. FromOwner'
      BY <1>1, <2>2 DEF FromOwner
    <2>5. Apart'
      BY <1>1, <2>2 DEF Apart, FromOwner, Has
    <2>6. Kept'
      BY <1>1, <2>2 DEF Kept, Has
    <2>7. LastLook' /\ Joined'
      BY <1>1, <1>2 DEF LastLook, Joined
    <2> QED
      BY <2>3, <2>4, <2>5, <2>6, <2>7 DEF PoolInv
  <1> QED
    BY <1>3, <1>4

LEMMA TakeLockKeeps ==
  ASSUME PoolInv, NEW w \in PoolThread, TakeLock(w)
  PROVE  PoolInv'
  <1>1. /\ PoolTypes /\ FromOwner /\ Apart /\ Kept /\ LastLook /\ Joined
        /\ UNCHANGED <<at, jobQueue, sender, handed, finished>>
        /\ worker[w].at = "locking"
        /\ worker' = [worker EXCEPT ![w] = [at |-> "receiving", job |-> NoJob]]
    BY DEF PoolInv, TakeLock, Works, netvars
  <1>2. /\ worker' \in [PoolThread -> [at : WorkerStates, job : PoolJob \cup {NoJob}]]
        /\ worker'[w].at = "receiving" /\ \A v \in PoolThread : v # w => worker'[v] = worker[v]
    BY <1>1 DEF PoolTypes, WorkerStates
  <1>3. PoolTypes' /\ FromOwner'
    BY <1>1, <1>2 DEF PoolTypes, FromOwner
  <1>4. Apart' /\ Kept'
    BY <1>1, <1>2 DEF Apart, Kept, Has
  <1>5. LastLook' /\ Joined'
    BY <1>1, <1>2 DEF LastLook, Joined, Over
  <1> QED
    BY <1>3, <1>4, <1>5 DEF PoolInv

LEMMA ReceiveKeeps ==
  ASSUME PoolInv, NEW w \in PoolThread, Receive(w)
  PROVE  PoolInv'
  <1>1. /\ PoolTypes /\ FromOwner /\ Apart /\ Kept /\ LastLook /\ Joined
        /\ UNCHANGED <<at, sender, handed, finished>>
        /\ worker[w].at = "receiving"
    BY DEF PoolInv, Receive, Works, netvars
  <1>2. CASE /\ jobQueue # << >> /\ jobQueue' = Tail(jobQueue)
             /\ worker' = [worker EXCEPT ![w] = [at |-> "running", job |-> Head(jobQueue)]]
    <2> DEFINE job == Head(jobQueue)
    <2>1. /\ jobQueue' \in Seq(PoolJob) /\ Len(jobQueue) \in Nat \ {0}
          /\ DOMAIN jobQueue = 1 .. Len(jobQueue) /\ DOMAIN jobQueue' = 1 .. Len(jobQueue) - 1
          /\ job = jobQueue[1] /\ job \in PoolJob
          /\ \A k \in DOMAIN jobQueue' : jobQueue'[k] = jobQueue[k + 1]
      BY <1>1, <1>2 DEF PoolTypes
    <2> HIDE DEF job
    <2>2. /\ worker' \in [PoolThread -> [at : WorkerStates, job : PoolJob \cup {NoJob}]]
          /\ worker'[w] = [at |-> "running", job |-> job]
          /\ \A v \in PoolThread : v # w => worker'[v] = worker[v]
      BY <1>1, <1>2, <2>1 DEF PoolTypes, WorkerStates, job
    <2>3. PoolTypes'
      BY <1>1, <2>1, <2>2 DEF PoolTypes
    <2>4. FromOwner'
      BY <1>1, <2>1, <2>2 DEF FromOwner
    <2>5. \A v \in PoolThread, j \in handed : Has(v, j)' <=> IF v = w THEN j = job ELSE Has(v, j)
      BY <2>2 DEF Has
    <2>6. 1 \in DOMAIN jobQueue /\ job \in handed
          /\ \A k \in DOMAIN jobQueue' : k + 1 \in DOMAIN jobQueue /\ k + 1 # 1
      BY <1>1, <2>1 DEF FromOwner
    <2>7. Apart'
      BY <1>1, <2>1, <2>4, <2>5, <2>6 DEF Apart, FromOwner
    <2>8. Kept'
      <3>1. SUFFICES ASSUME NEW j \in handed
                     PROVE  \/ \E i \in DOMAIN finished : finished[i] = j
                            \/ \E k \in DOMAIN jobQueue' : jobQueue'[k] = j
                            \/ \E u \in PoolThread : Has(u, j)'
        BY <1>1 DEF Kept
      <3>2. \/ \E i \in DOMAIN finished : finished[i] = j
            \/ \E k \in DOMAIN jobQueue : jobQueue[k] = j
            \/ \E u \in PoolThread : Has(u, j)
        BY <1>1 DEF Kept
      <3>3. CASE \E k \in DOMAIN jobQueue : jobQueue[k] = j
        <4>1. PICK k \in DOMAIN jobQueue : jobQueue[k] = j
          BY <3>3
        <4>2. CASE k = 1
          BY <2>1, <2>5, <4>1, <4>2
        <4>3. CASE k # 1
          <5>1. k - 1 \in DOMAIN jobQueue' /\ jobQueue'[k - 1] = jobQueue[k]
            BY <2>1, <4>3
          <5> QED
            BY <4>1, <5>1
        <4> QED
          BY <4>2, <4>3
      <3>4. CASE \E u \in PoolThread : Has(u, j)
        <4>1. ~Has(w, j)
          BY <1>1 DEF Has
        <4> QED
          BY <2>5, <3>4, <4>1
      <3> QED
        BY <3>2, <3>3, <3>4
    <2>9. LastLook' /\ Joined'
      BY <1>1, <1>2, <2>2 DEF LastLook, Joined, Over
    <2> QED
      BY <2>3, <2>4, <2>7, <2>8, <2>9 DEF PoolInv
  <1>3. CASE /\ jobQueue = << >> /\ ~sender /\ jobQueue' = jobQueue
             /\ worker' = [worker EXCEPT ![w] = [at |-> "ended", job |-> NoJob]]
    <2>1. /\ worker' \in [PoolThread -> [at : WorkerStates, job : PoolJob \cup {NoJob}]]
          /\ worker'[w].at = "ended" /\ \A v \in PoolThread : v # w => worker'[v] = worker[v]
      BY <1>1, <1>3 DEF PoolTypes, WorkerStates
    <2>2. PoolTypes' /\ FromOwner'
      BY <1>1, <1>3, <2>1 DEF PoolTypes, FromOwner
    <2>3. Apart' /\ Kept'
      BY <1>1, <1>3, <2>1 DEF Apart, Kept, Has
    <2>4. LastLook' /\ Joined'
      BY <1>1, <1>3, <2>1 DEF LastLook, Joined, Over
    <2> QED
      BY <2>2, <2>3, <2>4 DEF PoolInv
  <1> QED
    BY <1>2, <1>3 DEF Receive, Works

LEMMA RunJobKeeps ==
  ASSUME PoolInv, NEW w \in PoolThread, RunJob(w)
  PROVE  PoolInv'
  <1> DEFINE job == worker[w].job
             next == IF job \in Panicking THEN "dead" ELSE "locking"
             dropped == job \in Panicking /\ AliveWorkers = {w}
  <1>1. /\ PoolTypes /\ FromOwner /\ Apart /\ Kept /\ LastLook /\ Joined
        /\ UNCHANGED <<at, sender, handed>> /\ worker[w].at = "running"
        /\ finished' = Append(finished, job)
        /\ worker' = [worker EXCEPT ![w] = [at |-> next, job |-> NoJob]]
        /\ jobQueue' = IF dropped THEN << >> ELSE jobQueue
    BY DEF PoolInv, RunJob, Works, netvars
  <1>2. job \in handed /\ job \in PoolJob /\ Has(w, job)
    BY <1>1 DEF FromOwner, PoolTypes, Has
  <1>3. /\ finished' \in Seq(PoolJob) /\ Len(finished) \in Nat
        /\ DOMAIN finished = 1 .. Len(finished) /\ DOMAIN finished' = 1 .. Len(finished) + 1
        /\ finished'[Len(finished) + 1] = job
        /\ \A i \in DOMAIN finished : finished'[i] = finished[i]
    BY <1>1, <1>2 DEF PoolTypes
  <1>4. /\ worker' \in [PoolThread -> [at : WorkerStates, job : PoolJob \cup {NoJob}]]
        /\ worker'[w].at = next /\ next \in {"dead", "locking"}
        /\ \A v \in PoolThread : v # w => worker'[v] = worker[v]
    BY <1>1 DEF PoolTypes, WorkerStates
  <1>5. \A v \in PoolThread, j \in handed : Has(v, j)' <=> v # w /\ Has(v, j)
    BY <1>4 DEF Has
  <1>6. dropped => \A v \in PoolThread : v # w => worker[v].at \in Over
    BY DEF AliveWorkers
  <1>7. dropped => next = "dead"
    OBVIOUS
  <1> HIDE DEF job, next, dropped
  <1>8. PoolTypes'
    BY <1>1, <1>3, <1>4 DEF PoolTypes
  <1>9. FromOwner'
    BY <1>1, <1>2, <1>3, <1>4 DEF FromOwner
  <1>10. Apart'
    <2>1. \A k \in DOMAIN jobQueue' : k \in DOMAIN jobQueue /\ jobQueue'[k] = jobQueue[k]
      BY <1>1
    <2>2. \A i \in DOMAIN finished : finished[i] # job
      BY <1>1, <1>2 DEF Apart
    <2>3. \A k \in DOMAIN jobQueue : jobQueue[k] # job
      BY <1>1, <1>2 DEF Apart
    <2>4. \A v \in PoolThread : v # w => ~Has(v, job)
      BY <1>1, <1>2 DEF Apart
    <2>5. \A i, k \in DOMAIN finished' : finished'[i] = finished'[k] => i = k
      BY <1>1, <1>3, <2>2 DEF Apart
    <2>6. \A i \in DOMAIN finished', k \in DOMAIN jobQueue' : finished'[i] # jobQueue'[k]
      BY <1>1, <1>3, <2>1, <2>3 DEF Apart
    <2>7. \A i \in DOMAIN finished', v \in PoolThread : ~Has(v, finished[i])'
      BY <1>1, <1>2, <1>3, <1>5, <1>9, <2>4 DEF Apart, FromOwner
    <2>8. \A k \in DOMAIN jobQueue', v \in PoolThread : ~Has(v, jobQueue[k])'
      BY <1>1, <1>5, <1>9, <2>1 DEF Apart, FromOwner
    <2>9. \A u, v \in PoolThread, j \in handed : Has(u, j)' /\ Has(v, j)' => u = v
      BY <1>1, <1>5 DEF Apart
    <2>10. \A i, k \in DOMAIN jobQueue' : jobQueue'[i] = jobQueue'[k] => i = k
      BY <1>1, <2>1 DEF Apart
    <2> QED
      BY <1>1, <2>5, <2>6, <2>7, <2>8, <2>9, <2>10 DEF Apart
  <1>11. Kept'
    <2>1. CASE dropped
      <3>1. SUFFICES ASSUME NEW v \in PoolThread, worker'[v].at # "dead", NEW j \in handed
                     PROVE  (\E i \in DOMAIN finished' : finished'[i] = j)
        BY <1>1 DEF Kept
      <3>2. v # w /\ worker[v].at = "ended"
        BY <1>4, <1>6, <1>7, <2>1, <3>1 DEF Over
      <3>3. jobQueue = << >>
        BY <1>1, <3>2 DEF LastLook
      <3>4. (\E i \in DOMAIN finished : finished[i] = j) \/ (\E u \in PoolThread : Has(u, j))
        BY <1>1, <3>2, <3>3 DEF Kept
      <3>5. \A u \in PoolThread : Has(u, j) => u = w
        BY <1>6, <2>1 DEF Has, Over
      <3>6. Has(w, j) => j = job
        BY DEF Has, job
      <3> QED
        BY <1>3, <3>4, <3>5, <3>6
    <2>2. CASE ~dropped
      <3>1. SUFFICES ASSUME NEW j \in handed
                     PROVE  \/ \E i \in DOMAIN finished' : finished'[i] = j
                            \/ \E k \in DOMAIN jobQueue' : jobQueue'[k] = j
                            \/ \E u \in PoolThread : Has(u, j)'
        BY <1>1 DEF Kept
      <3>2. \/ \E i \in DOMAIN finished : finished[i] = j
            \/ \E k \in DOMAIN jobQueue : jobQueue[k] = j
            \/ \E u \in PoolThread : Has(u, j)
        BY <1>1 DEF Kept
      <3>3. Has(w, j) => j = job
        BY DEF Has, job
      <3> QED
        BY <1>1, <1>3, <1>5, <2>2, <3>2, <3>3
    <2> QED
      BY <2>1, <2>2
  <1>12. LastLook' /\ Joined'
    BY <1>1, <1>4 DEF LastLook, Joined, Over
  <1> QED
    BY <1>8, <1>9, <1>10, <1>11, <1>12 DEF PoolInv

-----------------------------------------------------------------------------
LEMMA PoolInductive == PoolInv /\ [ThreadsNext]_threadvars => PoolInv'
  <1> SUFFICES ASSUME PoolInv, [ThreadsNext]_threadvars PROVE PoolInv'
    OBVIOUS
  <1>1. at \in [ThreadNames -> Places]
    BY DEF PoolInv, PoolTypes
  <1>2. CASE Arrive \/ Stop \/ UNCHANGED threadvars
    BY <1>1, <1>2, NetworkKeeps DEF Arrive, Stop, threadvars, netvars
  <1>3. CASE Ingress \/ Egress \/ Simulate
    <2>1. UNCHANGED poolvars
      BY <1>3 DEF Ingress, Egress, Simulate, Drain
    <2> QED
      BY <1>3, <2>1, NetworkKeeps, NetworkMoves DEF PoolInv
  <1>4. ASSUME NEW w \in PoolThread, WorkerRuns(w) PROVE PoolInv'
    BY <1>4, TakeLockKeeps, ReceiveKeeps, RunJobKeeps DEF WorkerRuns
  <1>5. ASSUME NEW job \in PoolJob, Execute(job) PROVE PoolInv'
    BY <1>5, ExecuteKeeps
  <1>6. CASE Leave
    BY <1>6, OwnerKeeps DEF Leave, Moves, poolvars, Places
  <1>7. CASE JoinNext
    <2>1. PICK step \in DOMAIN Joins :
            Moves("owner", step, Joins[step].after) /\ UNCHANGED poolvars
      BY <1>7 DEF JoinNext
    <2>2. Joins[step].after \in {"egress", "sim", "dropping"}
      BY DEF Joins, Waits
    <2> QED
      BY <2>1, <2>2, OwnerKeeps, Zenon DEF Moves, poolvars, Places
  <1>8. CASE ClosePool
    BY <1>8, OwnerKeeps, Zenon DEF ClosePool, Moves, Places
  <1>9. CASE PoolJoined
    BY <1>9, OwnerKeeps DEF PoolJoined, Moves, poolvars, Places
  <1> QED
    BY <1>2, <1>3, <1>4, <1>5, <1>6, <1>7, <1>8, <1>9 DEF ThreadsNext, OwnerWaits

(* Unless panics took every worker, every job handed in has run by the     *)
(* time the owner is back, once (threaded.rs:46-125).                      *)
THEOREM StopLosesNoJob == ThreadsSpec => []JobsDone
  <1> QED
    BY PoolInitially, PoolInductive, PoolAnswers, PTL DEF ThreadsSpec

-----------------------------------------------------------------------------
(* Regions.                                                                *)

States == {"None", "Hot", "Warm", "Cold"}
Home == RegionId \cup {NullRegion}
Factions == Party \cup {NullParty}
regionvars == <<mapvars, mailvars, clockvars>>

MapTypes ==
  /\ entity \in Seq([faction : Factions, region : Home])
  /\ Len(entity) <= MaxEntities
  /\ place \in [EntityIds -> Home]
  /\ region \in [RegionId -> [state : States, members : SUBSET EntityIds]]
  /\ since \in [RegionId -> Nat]

(* What the agreement rests on: entities that were not made yet are nowhere. *)
Unmade ==
  \A e \in EntityIds : e > Len(entity) =>
    place[e] = NullRegion /\ \A r \in RegionId : e \notin region[r].members

(* RegionsAgree, region by region.                                         *)
Placed ==
  \A e \in DOMAIN entity :
    /\ entity[e].region = place[e]
    /\ \A r \in RegionId : e \in region[r].members <=> r = place[e]

MapInv == MapTypes /\ Unmade /\ Placed

-----------------------------------------------------------------------------
(* Where entities are.                                                     *)

LEMMA PlacedAgree == MapInv => RegionsAgree
  <1> SUFFICES ASSUME MapInv, NEW e \in DOMAIN entity
               PROVE  /\ entity[e].region = place[e]
                      /\ {r \in RegionId : e \in region[r].members} = {place[e]} \ {NullRegion}
    BY DEF RegionsAgree
  <1>1. entity[e].region = place[e] /\ \A r \in RegionId : e \in region[r].members <=> r = place[e]
    BY DEF MapInv, Placed
  <1>2. place[e] \in Home
    BY RegionsAssumption DEF MapInv, MapTypes, EntityIds
  <1>3. {r \in RegionId : e \in region[r].members} = {r \in RegionId : r = place[e]}
    BY <1>1
  <1>4. {r \in RegionId : r = place[e]} = {place[e]} \ {NullRegion}
    BY <1>2, RegionsAssumption DEF Home
  <1> QED
    BY <1>1, <1>3, <1>4

LEMMA MapInitially == RegionsInit => MapInv
  <1> SUFFICES ASSUME RegionsInit PROVE MapInv
    OBVIOUS
  <1> USE RegionsAssumption DEF RegionsInit, EntityIds
  <1>1. MapTypes
    BY DEF MapTypes, States, Home
  <1>2. Unmade /\ Placed
    BY DEF Unmade, Placed
  <1> QED
    BY <1>1, <1>2 DEF MapInv

(* Listing an entity in a region, and in no other.                         *)
Lists(e, r) ==
  /\ region' \in [RegionId -> [state : States, members : SUBSET EntityIds]]
  /\ \A q \in RegionId, d \in EntityIds :
       d \in region'[q].members <=> IF d = e THEN q = r ELSE d \in region[q].members
  /\ place' \in [EntityIds -> Home]
  /\ \A d \in EntityIds : place'[d] = IF d = e THEN r ELSE place[d]

LEMMA CreateEntityKeeps ==
  ASSUME MapInv, tick \in Nat, NEW f \in Factions, NEW r \in Home, CreateEntity(f, r)
  PROVE  MapInv'
  <1> DEFINE new == Len(entity) + 1
  <1>1. MapTypes /\ Unmade /\ Placed
    BY DEF MapInv
  <1>2. /\ new \in EntityIds /\ Len(entity') = new
        /\ entity' \in Seq([faction : Factions, region : Home])
        /\ entity'[new].region = r
        /\ DOMAIN entity' = 1 .. new /\ DOMAIN entity = 1 .. (new - 1)
        /\ \A e \in DOMAIN entity : e # new /\ e \in EntityIds /\ entity'[e] = entity[e]
    BY <1>1, RegionsAssumption DEF CreateEntity, MapTypes, EntityIds
  <1>3. CASE r = NullRegion
    <2>1. UNCHANGED <<place, region, since>>
      BY <1>3 DEF CreateEntity
    <2>2. MapTypes'
      BY <1>1, <1>2, <2>1, RegionsAssumption DEF MapTypes, EntityIds
    <2>3. place[new] = NullRegion /\ \A q \in RegionId : new \notin region[q].members
      BY <1>1, <1>2 DEF Unmade, MapTypes
    <2>4. Placed'
      BY <1>1, <1>2, <1>3, <2>1, <2>3, RegionsAssumption DEF Placed
    <2>5. Unmade'
      BY <1>1, <1>2, <2>1, RegionsAssumption DEF Unmade, MapTypes, EntityIds
    <2> QED
      BY <2>2, <2>4, <2>5 DEF MapInv
  <1>4. CASE r # NullRegion
    <2> r \in RegionId
      BY <1>4 DEF Home
    <2>1. AssignEntity(new, r) /\ since' = IF r \in OnMap THEN since ELSE [since EXCEPT ![r] = tick]
      BY <1>4 DEF CreateEntity
    <2>2. /\ region' \in [RegionId -> [state : States, members : SUBSET EntityIds]]
          /\ \A q \in RegionId : region'[q].members
               = IF q = r THEN region[q].members \cup {new} ELSE region[q].members \ {new}
      BY <1>1, <1>2, <2>1, Zenon DEF AssignEntity, MapTypes, OnMap, States
    <2>3. place' \in [EntityIds -> Home] /\ \A d \in EntityIds : place'[d] = IF d = new THEN r ELSE place[d]
      BY <1>1, <1>2, <2>1 DEF AssignEntity, MapTypes, Home
    <2>4. Lists(new, r)
      BY <2>2, <2>3, Zenon DEF Lists
    <2>5. since' \in [RegionId -> Nat]
      BY <1>1, <2>1 DEF MapTypes
    <2>6. MapTypes'
      BY <1>2, <2>2, <2>3, <2>5, RegionsAssumption DEF MapTypes, EntityIds
    <2>7. new \in EntityIds /\ Len(entity') = new /\ \A d \in DOMAIN entity : d \in EntityIds /\ d # new
      BY <1>2
    <2>8. ASSUME NEW d \in DOMAIN entity' PROVE d = new \/ (d \in DOMAIN entity /\ entity'[d] = entity[d])
      <3>1. new \in Nat /\ d \in 1 .. new
        BY <1>1, <1>2 DEF MapTypes
      <3> HIDE DEF new
      <3>2. d = new \/ d \in 1 .. (new - 1)
        BY <3>1
      <3>3. 1 .. (new - 1) = DOMAIN entity
        BY <1>2
      <3>4. \A c \in DOMAIN entity : entity'[c] = entity[c]
        BY <1>2
      <3> QED
        BY <3>2, <3>3, <3>4, Zenon
    <2>9. Placed'
      <3>1. ASSUME NEW d \in DOMAIN entity', NEW q \in RegionId
            PROVE  entity'[d].region = place'[d] /\ (d \in region'[q].members <=> q = place'[d])
        <4>1. CASE d = new
          BY <1>2, <2>4, <2>7, <4>1 DEF Lists
        <4>2. CASE d # new
          BY <1>1, <2>4, <2>7, <2>8, <4>2 DEF Placed, Lists
        <4> QED
          BY <4>1, <4>2
      <3> QED
        BY <3>1 DEF Placed
    <2>10. ASSUME NEW d \in EntityIds, d > Len(entity'), NEW q \in RegionId
           PROVE  place'[d] = NullRegion /\ d \notin region'[q].members
      <3>1. d > Len(entity) /\ d # new
        BY <1>1, <1>2, <2>7, <2>10 DEF EntityIds, MapTypes
      <3> QED
        BY <1>1, <2>4, <3>1 DEF Unmade, Lists
    <2>11. Unmade'
      BY <2>10 DEF Unmade
    <2> QED
      BY <2>6, <2>9, <2>11 DEF MapInv
  <1> QED
    BY <1>3, <1>4

LEMMA TransferEntityKeeps ==
  ASSUME MapInv, NEW f, NEW e \in DOMAIN entity, NEW r \in RegionId, TransferEntity(f, e, r)
  PROVE  MapInv'
  <1>1. MapTypes /\ Unmade /\ Placed
    BY DEF MapInv
  <1>2. e \in EntityIds /\ \A d \in DOMAIN entity : d \in EntityIds
    BY <1>1, RegionsAssumption DEF MapTypes, EntityIds
  <1>3. /\ entity' \in Seq([faction : Factions, region : Home]) /\ Len(entity') = Len(entity)
        /\ DOMAIN entity' = DOMAIN entity
        /\ entity'[e].region = r /\ \A d \in DOMAIN entity : d # e => entity'[d] = entity[d]
    <2> DEFINE Entities == [faction : Factions, region : Home]
    <2>1. entity \in Seq(Entities) /\ r \in Home
      BY <1>1 DEF MapTypes, Home
    <2>2. entity[e] \in Entities
      <3> HIDE DEF Entities
      <3> QED
        BY <2>1
    <2>3. entity' = [entity EXCEPT ![e] = [entity[e] EXCEPT !.region = r]]
      BY DEF TransferEntity
    <2>4. [entity[e] EXCEPT !.region = r] \in Entities /\ [entity[e] EXCEPT !.region = r].region = r
      BY <2>1, <2>2
    <2> HIDE DEF Entities
    <2>5. entity' \in Seq(Entities) /\ Len(entity') = Len(entity) /\ DOMAIN entity' = DOMAIN entity
      BY <2>1, <2>3, <2>4
    <2>6. entity'[e].region = r
      BY <2>1, <2>3, <2>4, Zenon
    <2>7. \A d \in DOMAIN entity : d # e => entity'[d] = entity[d]
      BY <2>1, <2>3
    <2> QED
      BY <2>5, <2>6, <2>7 DEF Entities
  <1>4. /\ region' \in [RegionId -> [state : States, members : SUBSET EntityIds]]
        /\ \A q \in RegionId : region'[q].members
             = IF q = r THEN region[q].members \cup {e} ELSE region[q].members \ {e}
    BY <1>1, <1>2, Zenon DEF TransferEntity, MapTypes
  <1>5. place' \in [EntityIds -> Home] /\ \A d \in EntityIds : place'[d] = IF d = e THEN r ELSE place[d]
    BY <1>1, <1>2 DEF TransferEntity, MapTypes, Home
  <1>6. Lists(e, r)
    BY <1>4, <1>5, Zenon DEF Lists
  <1>7. MapTypes'
    <2>1. Len(entity') <= MaxEntities
      BY <1>1, <1>3 DEF MapTypes
    <2>2. since' \in [RegionId -> Nat]
      BY <1>1 DEF MapTypes, TransferEntity
    <2> QED
      BY <1>3, <1>4, <1>5, <2>1, <2>2, Zenon DEF MapTypes
  <1>8. Placed'
    <2> SUFFICES ASSUME NEW d \in DOMAIN entity'
                 PROVE  /\ entity'[d].region = place'[d]
                        /\ \A q \in RegionId : d \in region'[q].members <=> q = place'[d]
      BY DEF Placed
    <2>1. CASE d = e
      BY <1>2, <1>3, <1>6, <2>1 DEF Lists
    <2>2. CASE d # e
      BY <1>1, <1>2, <1>3, <1>6, <2>2 DEF Placed, Lists
    <2> QED
      BY <2>1, <2>2
  <1>9. Unmade'
    BY <1>1, <1>3, <1>6 DEF Unmade, Lists, MapTypes, EntityIds
  <1> QED
    BY <1>7, <1>8, <1>9 DEF MapInv

LEMMA SetRegionStateKeeps ==
  ASSUME MapInv, NEW r \in RegionId, NEW state \in States, SetRegionState(r, state)
  PROVE  MapInv'
  <1>1. MapTypes /\ Unmade /\ Placed
    BY DEF MapInv
  <1>2. /\ region' \in [RegionId -> [state : States, members : SUBSET EntityIds]]
        /\ \A q \in RegionId : region'[q].members = region[q].members
    BY <1>1 DEF SetRegionState, MapTypes
  <1>3. MapTypes'
    BY <1>1, <1>2, Zenon DEF MapTypes, SetRegionState, EntityIds
  <1>4. Unmade' /\ Placed'
    BY <1>1, <1>2 DEF Unmade, Placed, SetRegionState, EntityIds
  <1> QED
    BY <1>3, <1>4 DEF MapInv

-----------------------------------------------------------------------------
(* How long messages wait.                                                 *)

Policies == {"Reject", "DropOldest"}

MailTypes ==
  /\ mail \in [RegionId -> Seq(Nat)]
  /\ limit \in [RegionId -> [capacity : Nat \ {0}, policy : Policies]]
  /\ region \in [RegionId -> [state : States, members : SUBSET EntityIds]]
  /\ since \in [RegionId -> Nat]
  /\ tick \in Nat

(* Since when a message counts as waiting.                                 *)
Start(t, r) == IF t < since[r] THEN since[r] ELSE t

(* A region that is on the map has read its mail at the last multiple of   *)
(* the interval: whatever state it was in, it ran then.                    *)
ReadAtInterval ==
  \A r \in OnMap : \A i \in DOMAIN mail[r] :
    tick - Start(mail[r][i], r) <= tick % MediumInterval

MailInv == MailTypes /\ ReadAtInterval

(* Counting on past an interval's end, or not.                             *)
LEMMA NextMultiple ==
  ASSUME NEW a \in Int, NEW b \in Int, NEW m \in Nat, a < b
  PROVE  m * b >= m * a + m
  <1> DEFINE k == b - a - 1
  <1>1. k \in Nat /\ b = a + 1 + k
    OBVIOUS
  <1> HIDE DEF k
  <1>2. m * (a + 1 + k) = m * a + m + m * k
    BY <1>1
  <1>3. m * k \in Nat /\ m * a \in Int
    BY <1>1
  <1> QED
    BY <1>1, <1>2, <1>3

LEMMA NextRemainder ==
  ASSUME NEW n \in Nat, NEW m \in Nat, m > 0, (n + 1) % m # 0
  PROVE  (n + 1) % m = (n % m) + 1
  <1> DEFINE p == n \div m
             q == (n + 1) \div m
             r == n % m
             s == (n + 1) % m
  <1>1. p \in Int /\ r \in Int /\ n = m * p + r /\ 0 <= r /\ r < m
    OBVIOUS
  <1>2. q \in Int /\ s \in Int /\ n + 1 = m * q + s /\ 0 <= s /\ s < m
    OBVIOUS
  <1>3. s # 0
    OBVIOUS
  <1> HIDE DEF p, q, r, s
  <1>4. m * p \in Int /\ m * q \in Int
    BY <1>1, <1>2
  <1>5. CASE p < q
    <2>1. m * q >= m * p + m
      BY <1>1, <1>2, <1>5, NextMultiple
    <2> QED
      BY <1>1, <1>2, <1>3, <1>4, <2>1
  <1>6. CASE q < p
    <2>1. m * p >= m * q + m
      BY <1>1, <1>2, <1>6, NextMultiple
    <2> QED
      BY <1>1, <1>2, <1>4, <2>1
  <1>7. CASE p = q
    <2>1. s = r + 1
      BY <1>1, <1>2, <1>4, <1>7
    <2> QED
      BY <2>1 DEF r, s
  <1> QED
    BY <1>1, <1>2, <1>5, <1>6, <1>7

LEMMA MailFresh == MailInv => NoMessageGoesStale
  <1> SUFFICES ASSUME MailInv, NEW r \in OnMap, NEW i \in DOMAIN mail[r]
               PROVE  tick - Start(mail[r][i], r) < MediumInterval
    BY DEF NoMessageGoesStale, Start
  <1>1. tick % MediumInterval \in 0 .. (MediumInterval - 1)
    BY RegionsAssumption DEF MailInv, MailTypes
  <1>2. tick - Start(mail[r][i], r) <= tick % MediumInterval
    BY DEF MailInv, ReadAtInterval
  <1>3. Start(mail[r][i], r) \in Nat /\ tick \in Nat
    BY DEF MailInv, MailTypes, Start, OnMap
  <1> QED
    BY <1>1, <1>2, <1>3, RegionsAssumption

LEMMA MailInitially == RegionsInit => MailInv
  <1> SUFFICES ASSUME RegionsInit PROVE MailInv
    OBVIOUS
  <1>1. MailTypes
    BY RegionsAssumption DEF RegionsInit, MailTypes, States, Policies
  <1>2. ReadAtInterval
    BY DEF RegionsInit, ReadAtInterval, OnMap
  <1> QED
    BY <1>1, <1>2 DEF MailInv

(* Whoever changes the map, regions keep their mail; those that come onto  *)
(* it start to count now.                                                  *)
LEMMA MapKeepsMail ==
  ASSUME MailInv, UNCHANGED <<mailvars, clockvars>>,
         region' \in [RegionId -> [state : States, members : SUBSET EntityIds]],
         since' \in [RegionId -> Nat],
         \A r \in OnMap' : (r \in OnMap /\ since'[r] = since[r]) \/ since'[r] = tick
  PROVE  MailInv'
  <1>1. mail' = mail /\ limit' = limit /\ tick' = tick
    BY DEF mailvars, clockvars
  <1>2. MailTypes /\ ReadAtInterval
    BY DEF MailInv
  <1>3. MailTypes'
    BY <1>1, <1>2 DEF MailTypes, EntityIds
  <1>4. ASSUME NEW r \in OnMap', NEW i \in DOMAIN mail[r]
        PROVE  tick - Start(mail[r][i], r)' <= tick % MediumInterval
    <2>1. r \in RegionId /\ tick \in Nat /\ mail[r][i] \in Nat
      BY <1>2, <1>4 DEF MailTypes, OnMap
    <2>2. CASE r \in OnMap /\ since'[r] = since[r]
      BY <1>1, <1>2, <2>2 DEF ReadAtInterval, Start
    <2>3. CASE since'[r] = tick
      <3>1. Start(mail[r][i], r)' >= tick /\ Start(mail[r][i], r)' \in Nat
        BY <1>1, <2>1, <2>3 DEF Start
      <3>2. tick % MediumInterval \in 0 .. (MediumInterval - 1)
        BY <2>1, RegionsAssumption
      <3> QED
        BY <2>1, <3>1, <3>2, RegionsAssumption
    <2> QED
      BY <2>2, <2>3
  <1>5. ReadAtInterval'
    BY <1>1, <1>4 DEF ReadAtInterval, Start
  <1> QED
    BY <1>3, <1>5 DEF MailInv

LEMMA SendKeeps ==
  ASSUME MailInv, NEW to \in RegionId, Send(to), UNCHANGED <<mapvars, clockvars>>
  PROVE  MailInv'
  <1>1. MailTypes /\ ReadAtInterval /\ region' = region /\ since' = since /\ tick' = tick
    BY DEF MailInv, mapvars, clockvars
  <1>2. CASE mail' = mail
    BY <1>1, <1>2 DEF Send, MailInv, MailTypes, ReadAtInterval, OnMap, Start, EntityIds
  <1>3. CASE ~(Full(to) /\ limit[to].policy = "Reject")
    <2> DEFINE kept == IF Full(to) THEN Tail(mail[to]) ELSE mail[to]
    <2>1. kept \in Seq(Nat) /\ \A i \in DOMAIN kept : \E k \in DOMAIN mail[to] : kept[i] = mail[to][k]
      <3>1. mail[to] \in Seq(Nat)
        BY <1>1 DEF MailTypes
      <3>2. CASE Full(to)
        <4>1. Len(mail[to]) > 0
          BY <1>1, <3>1, <3>2 DEF Full, MailTypes
        <4> QED
          BY <3>1, <3>2, <4>1
      <3> QED
        BY <3>1, <3>2
    <2>2. mail' = [mail EXCEPT ![to] = Append(kept, tick)]
      BY <1>3 DEF Send
    <2> HIDE DEF kept
    <2>3. mail'[to] = Append(kept, tick) /\ \A r \in RegionId : r # to => mail'[r] = mail[r]
      BY <1>1, <2>2 DEF MailTypes
    <2>4. MailTypes'
      <3>1. mail' \in [RegionId -> Seq(Nat)]
        BY <1>1, <2>1, <2>2 DEF MailTypes
      <3> QED
        BY <1>1, <3>1 DEF Send, MailTypes, EntityIds
    <2>5. ASSUME NEW r \in OnMap, NEW i \in DOMAIN mail'[r]
          PROVE  tick - Start(mail'[r][i], r) <= tick % MediumInterval
      <3>1. r \in RegionId /\ tick \in Nat /\ since[r] \in Nat
        BY <1>1 DEF MailTypes, OnMap
      <3>2. CASE r = to /\ i = Len(kept) + 1
        <4>1. mail'[r][i] = tick
          BY <2>1, <2>3, <3>2
        <4>2. tick % MediumInterval \in 0 .. (MediumInterval - 1)
          BY <3>1, RegionsAssumption
        <4>3. Start(tick, r) >= tick /\ Start(tick, r) \in Nat
          BY <3>1 DEF Start
        <4> QED
          BY <3>1, <4>1, <4>2, <4>3, RegionsAssumption
      <3>3. CASE r = to /\ i # Len(kept) + 1
        <4>1. i \in 1 .. Len(kept) + 1 /\ Len(kept) \in Nat
          BY <1>1, <2>1, <2>3, <3>3 DEF MailTypes
        <4>2. i \in DOMAIN kept /\ mail'[r][i] = kept[i]
          BY <2>1, <2>3, <3>3, <4>1
        <4> QED
          BY <1>1, <2>1, <3>3, <4>2 DEF ReadAtInterval
      <3>4. CASE r # to
        BY <1>1, <2>3, <3>1, <3>4 DEF ReadAtInterval
      <3> QED
        BY <3>2, <3>3, <3>4
    <2>6. ReadAtInterval'
      BY <1>1, <2>5 DEF ReadAtInterval, OnMap, Start
    <2> QED
      BY <2>4, <2>6 DEF MailInv
  <1> QED
    BY <1>2, <1>3 DEF Send

LEMMA SetRegionQueuePolicyKeeps ==
  ASSUME MailInv, NEW r \in RegionId, NEW c \in Nat \ {0}, NEW p \in Policies, SetRegionQueuePolicy(r, c, p),
         UNCHANGED <<mapvars, clockvars>>
  PROVE  MailInv'
  <1>1. MailTypes /\ ReadAtInterval /\ region' = region /\ since' = since /\ tick' = tick
    BY DEF MailInv, mapvars, clockvars
  <1>2. /\ mail' = [mail EXCEPT ![r] = << >>]
        /\ limit' = [limit EXCEPT ![r] = [capacity |-> c, policy |-> p]]
    BY DEF SetRegionQueuePolicy
  <1>3. MailTypes'
    <2>1. mail' \in [RegionId -> Seq(Nat)]
      BY <1>1, <1>2 DEF MailTypes
    <2>2. limit' \in [RegionId -> [capacity : Nat \ {0}, policy : Policies]]
      BY <1>1, <1>2 DEF MailTypes
    <2> QED
      BY <1>1, <2>1, <2>2 DEF MailTypes, EntityIds
  <1>4. ReadAtInterval'
    BY <1>1, <1>2 DEF MailTypes, ReadAtInterval, OnMap, Start
  <1> QED
    BY <1>3, <1>4 DEF MailInv

(* A tick at a multiple of the interval finds every region on the map with *)
(* something to read running; any other makes the messages one tick older. *)
LEMMA SchedulerTickKeeps == MailInv /\ SchedulerTick => MailInv'
  <1> SUFFICES ASSUME MailInv, SchedulerTick PROVE MailInv'
    OBVIOUS
  <1>1. /\ MailTypes /\ ReadAtInterval
        /\ region' = region /\ since' = since /\ limit' = limit /\ tick' = tick + 1
    BY DEF MailInv, SchedulerTick, mapvars
  <1>2. PICK woken :
          mail' = [r \in RegionId |-> IF Runs(r, tick + 1, woken) THEN << >> ELSE mail[r]]
    BY DEF SchedulerTick
  <1>3. MailTypes'
    BY <1>1, <1>2 DEF MailTypes, EntityIds
  <1>4. ASSUME NEW r \in OnMap, NEW i \in DOMAIN mail'[r]
        PROVE  (tick + 1) - Start(mail'[r][i], r) <= (tick + 1) % MediumInterval
    <2>1. r \in RegionId /\ tick \in Nat /\ region[r].state \in States \ {"None"}
      BY <1>1 DEF MailTypes, OnMap
    <2>2. ~Runs(r, tick + 1, woken) /\ mail'[r] = mail[r]
      BY <1>2, <2>1
    <2>3. mail[r] # << >> /\ mail[r][i] \in Nat /\ Start(mail[r][i], r) \in Nat
      BY <1>1, <2>1, <2>2 DEF MailTypes, Start
    <2>4. (tick + 1) % MediumInterval # 0
      BY <2>1, <2>2, <2>3 DEF Runs, States
    <2>5. (tick + 1) % MediumInterval = (tick % MediumInterval) + 1
      <3>1. MediumInterval \in Nat /\ MediumInterval > 0
        BY RegionsAssumption
      <3> QED
        BY <2>1, <2>4, <3>1, NextRemainder, Zenon
    <2>6. tick - Start(mail[r][i], r) <= tick % MediumInterval
      BY <1>1, <2>2 DEF ReadAtInterval
    <2>7. tick % MediumInterval \in Int
      BY <2>1, RegionsAssumption
    <2> QED
      BY <2>1, <2>2, <2>3, <2>5, <2>6, <2>7
  <1>5. ReadAtInterval'
    BY <1>1, <1>4 DEF ReadAtInterval, OnMap, Start
  <1> QED
    BY <1>3, <1>5 DEF MailInv

-----------------------------------------------------------------------------
(* Both.                                                                   *)

RegionsInv == MapInv /\ MailInv

LEMMA MapNextKeeps ==
  ASSUME RegionsInv, MapNext, UNCHANGED <<mailvars, clockvars>>
  PROVE  RegionsInv'
  <1>1. MapTypes /\ MailInv /\ tick \in Nat /\ tick' = tick
    BY DEF RegionsInv, MapInv, MailInv, MailTypes, clockvars
  <1>2. ASSUME MapInv', \A r \in OnMap' : (r \in OnMap /\ since'[r] = since[r]) \/ since'[r] = tick
        PROVE  RegionsInv'
    <2>1. /\ region' \in [RegionId -> [state : States, members : SUBSET EntityIds]]
          /\ since' \in [RegionId -> Nat]
      BY <1>2 DEF MapInv, MapTypes, EntityIds
    <2>2. MailInv'
      BY <1>1, <1>2, <2>1, MapKeepsMail
    <2> QED
      BY <1>2, <2>2 DEF RegionsInv
  <1>3. ASSUME NEW f \in Factions, NEW r \in Home, CreateEntity(f, r) PROVE RegionsInv'
    <2>1. MapInv'
      BY <1>1, <1>3, CreateEntityKeeps DEF RegionsInv
    <2>2. CASE r = NullRegion
      BY <1>2, <1>3, <2>1, <2>2 DEF CreateEntity, OnMap
    <2>3. CASE r # NullRegion
      <3>1. /\ since' = IF r \in OnMap THEN since ELSE [since EXCEPT ![r] = tick]
            /\ \A q \in RegionId : q # r => region'[q].state = region[q].state
        BY <1>1, <1>3, <2>3 DEF CreateEntity, AssignEntity, MapTypes
      <3>2. ASSUME NEW q \in OnMap' PROVE (q \in OnMap /\ since'[q] = since[q]) \/ since'[q] = tick
        BY <1>1, <3>1 DEF OnMap, MapTypes
      <3> QED
        BY <1>2, <2>1, <3>2
    <2> QED
      BY <2>2, <2>3
  <1>4. ASSUME NEW f, NEW e \in DOMAIN entity, NEW r \in RegionId, TransferEntity(f, e, r)
        PROVE  RegionsInv'
    <2>1. MapInv'
      BY <1>4, TransferEntityKeeps DEF RegionsInv
    <2>2. since' = since /\ \A q \in RegionId : region'[q].state = region[q].state
      BY <1>1, <1>4 DEF TransferEntity, MapTypes
    <2> QED
      BY <1>2, <2>1, <2>2 DEF OnMap
  <1>5. ASSUME NEW r \in RegionId, NEW state \in {"Hot", "Warm", "Cold"}, SetRegionState(r, state)
        PROVE  RegionsInv'
    <2>1. MapInv'
      BY <1>5, SetRegionStateKeeps DEF RegionsInv, States
    <2>2. since' = since /\ r \in OnMap /\ \A q \in RegionId : q # r => region'[q].state = region[q].state
      BY <1>1, <1>5 DEF SetRegionState, MapTypes
    <2> QED
      BY <1>2, <2>1, <2>2 DEF OnMap
  <1> QED
    BY <1>3, <1>4, <1>5 DEF MapNext, Factions, Home

LEMMA RegionsInductive == RegionsInv /\ [RegionsNext]_regionvars => RegionsInv'
  <1> SUFFICES ASSUME RegionsInv, [RegionsNext]_regionvars PROVE RegionsInv'
    OBVIOUS
  <1>1. ASSUME UNCHANGED mapvars PROVE MapInv'
    BY <1>1 DEF RegionsInv, MapInv, MapTypes, Unmade, Placed, mapvars, EntityIds
  <1>2. ASSUME UNCHANGED <<mapvars, mail, limit, tick>> PROVE MailInv'
    BY <1>2 DEF RegionsInv, MailInv, MailTypes, ReadAtInterval, Start, OnMap, mapvars, EntityIds
  <1>3. CASE MapNext /\ UNCHANGED <<mailvars, clockvars>>
    BY <1>3, MapNextKeeps
  <1>4. CASE MailNext /\ UNCHANGED <<mapvars, clockvars>>
    <2>1. MailInv'
      BY <1>4, SendKeeps, SetRegionQueuePolicyKeeps, RegionsAssumption DEF MailNext, RegionsInv, Policies
    <2> QED
      BY <1>1, <1>4, <2>1 DEF RegionsInv
  <1>5. CASE (\E r \in RegionId, due \in tick + 1 .. tick + 2 : ScheduleWakeup(due, r))
             /\ UNCHANGED <<mapvars, mailvars>>
    BY <1>1, <1>2, <1>5 DEF RegionsInv, ScheduleWakeup, mailvars
  <1>6. CASE SchedulerTick
    <2>1. UNCHANGED mapvars /\ MailInv'
      BY <1>6, SchedulerTickKeeps, Zenon DEF SchedulerTick, RegionsInv
    <2> QED
      BY <1>1, <2>1 DEF RegionsInv
  <1>7. CASE UNCHANGED regionvars
    BY <1>1, <1>2, <1>7 DEF RegionsInv, regionvars, mailvars, clockvars
  <1> QED
    BY <1>3, <1>4, <1>5, <1>6, <1>7 DEF RegionsNext

LEMMA RegionsInvariant == RegionsSpec => []RegionsInv
  <1>1. RegionsInit => RegionsInv
    BY MapInitially, MailInitially DEF RegionsInv
  <1> QED
    BY <1>1, RegionsInductive, PTL DEF RegionsSpec, regionvars

(* An entity stays in the one region its record names, whoever is made and *)
(* moved (region.rs:318-358, world.rs:273-328).                            *)
THEOREM EntitiesKeepOneHome == RegionsSpec => []RegionsAgree
  <1>1. RegionsInv => RegionsAgree
    BY PlacedAgree DEF RegionsInv
  <1> QED
    BY <1>1, RegionsInvariant, PTL

(* No message waits for an interval of the warm regions, however long the  *)
(* interval and whatever states its region goes through                    *)
(* (scheduler.rs:230-288).                                                 *)
THEOREM MailIsRead == RegionsSpec => []NoMessageGoesStale
  <1>1. RegionsInv => NoMessageGoesStale
    BY MailFresh DEF RegionsInv
  <1> QED
    BY <1>1, RegionsInvariant, PTL
=============================================================================
