-------------------------------- MODULE Wire --------------------------------
(***************************************************************************)
(* One direction of a transport (game-protocol/transport.rs): the loopback *)
(* of a single process hands whole packets through a channel, UDP hands    *)
(* their bytes to a network that may lose, repeat, reorder or damage them. *)
(* The two halves are those of split(); an end that was not split closes   *)
(* both of its own, one in each direction.                                 *)
(***************************************************************************)
EXTENDS Codec, FiniteSets

CONSTANTS
  Packets,    \* what may be posted
  MaxSent,    \* bound: packets posted in a behaviour
  MaxFaults,  \* bound: faults of the network in a behaviour
  Foreign     \* bound: numbers of commands that a peer of another build sends

VARIABLES
  medium,     \* "Loopback" or "Udp"
  channel,    \* the packets, or datagrams, under way
  connected,  \* per half, its flag `connected`
  attached,   \* the sender still holds the channel's end, or its peer's address
  posted, got,  \* history: what send and recv returned without an error
  faults      \* counts the faults of the network

wirevars == <<medium, channel, connected, attached, posted, got, faults>>

WireInit ==
  /\ medium \in {"Loopback", "Udp"}
  /\ channel = <<>>
  /\ connected = [half \in {"sender", "receiver"} |-> TRUE]
  /\ attached = TRUE
  /\ posted = <<>> /\ got = <<>>
  /\ faults = 0

SendPacket(p) ==
  /\ Len(posted) < MaxSent
  /\ connected["sender"] /\ attached
  /\ channel' = Append(channel, IF medium = "Udp" THEN EncodePacket(p) ELSE p)
  /\ posted' = Append(posted, p)
  /\ UNCHANGED <<medium, connected, attached, got, faults>>

(* try_recv on the loopback: the next packet, or the end of the channel    *)
(* once the sender has dropped it and nothing is left.                     *)
ReceiveLoopback ==
  /\ medium = "Loopback" /\ connected["receiver"]
  /\ \/ /\ channel # <<>>
        /\ got' = Append(got, Head(channel))
        /\ channel' = Tail(channel)
        /\ UNCHANGED connected
     \/ /\ channel = <<>> /\ ~attached
        /\ connected' = [connected EXCEPT !["receiver"] = FALSE]
        /\ UNCHANGED <<got, channel>>
  /\ UNCHANGED <<medium, attached, posted, faults>>

(* recv_from on the socket: a datagram that does not decode is an error,   *)
(* and is gone.                                                            *)
ReceiveDatagram ==
  /\ medium = "Udp" /\ connected["receiver"] /\ channel # <<>>
  /\ got' = got \o SetToSeq(DecodePacket(Head(channel)))
  /\ channel' = Tail(channel)
  /\ UNCHANGED <<medium, connected, attached, posted, faults>>

(* The sender drops its end of the channel, or forgets its peer.           *)
CloseSender ==
  /\ connected' = [connected EXCEPT !["sender"] = FALSE]
  /\ attached' = FALSE
  /\ UNCHANGED <<medium, channel, posted, got, faults>>

CloseReceiver ==
  /\ connected' = [connected EXCEPT !["receiver"] = FALSE]
  /\ UNCHANGED <<medium, channel, attached, posted, got, faults>>

(* The network between two sockets.                                        *)
Disturb ==
  /\ medium = "Udp" /\ faults < MaxFaults
  /\ \E i \in DOMAIN channel :
        \/ channel' = RemoveAt(channel, i)
        \/ channel' = Append(channel, channel[i])
        \/ channel' = Append(RemoveAt(channel, i), channel[i])
        \/ \E n \in 0..(Len(channel[i]) - 1) :
              channel' = [channel EXCEPT ![i] = SubSeq(@, 1, n)]
  /\ faults' = faults + 1
  /\ UNCHANGED <<medium, connected, attached, posted, got>>

(* A peer of another build sends a command whose number this one does not  *)
(* write: retired, or not yet assigned.  Header and envelope are 53 bytes. *)
ASSUME ForeignNumbers ==
  \A n \in Foreign, c \in DOMAIN CommandWritten : CommandWritten[c][1] # n

SendForeign(n) ==
  /\ medium = "Udp" /\ faults < MaxFaults
  /\ LET p == CHOOSE p \in Packets : p.payload.type = "Command"
     IN  channel' = Append(channel,
           SubSeq(EncodePacket(p), 1, 53) \o <<n>> \o [i \in 1..40 |-> 0])
  /\ faults' = faults + 1
  /\ UNCHANGED <<medium, connected, attached, posted, got>>

WireNext ==
  \/ \E p \in Packets : SendPacket(p)
  \/ ReceiveLoopback
  \/ ReceiveDatagram
  \/ CloseSender
  \/ CloseReceiver
  \/ Disturb
  \/ \E n \in Foreign : SendForeign(n)

WireSpec == WireInit /\ [][WireNext]_wirevars

(* Nothing comes out of the wire that was not put in.  The loopback keeps  *)
(* the order and loses nothing that was posted before the sender closed; a   *)
(* datagram that is under way whole decodes to its packet, and one that    *)
(* was cut, wherever, or that carries a command this build does not have,  *)
(* is refused and never read as another packet (decode_packet,             *)
(* decode_command; codec.rs:616 promises it for the retired numbers).      *)
PacketsSurvive ==
  IF medium = "Loopback"
  THEN /\ IsPrefix(got, posted)
       /\ connected["receiver"] => got \o channel = posted
  ELSE /\ ToSet(got) \subseteq ToSet(posted)
       /\ \A datagram \in ToSet(channel) :
             DecodePacket(datagram) = {p \in ToSet(posted) : EncodePacket(p) = datagram}
=============================================================================
