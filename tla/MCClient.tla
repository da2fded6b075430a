----------------------------- MODULE MCClient -------------------------------
(* A client at work: packets on the wire, the moves it reports, what it    *)
(* predicts, what it draws and what it builds; one of them goes on while   *)
(* the others stand still.                                                 *)
EXTENDS Wire, Movement, Prediction, Interpolation, Placement, TLC

-----------------------------------------------------------------------------
(* A play area with a wall and, clear of it and of the edges, a post.      *)
MCMinX == -30
MCMinZ == -12
MCObstacles == <<<<12, 14, -6, 6>>, <<-14, -12, 2, 4>>>>

-----------------------------------------------------------------------------
(* Every form of every packet and command, its fields filled with bytes    *)
(* that tell it, its place and its bytes apart.                            *)
Digits(i, w) == [j \in 1..w |-> (23 * i + j) % 256]

Simple(kind, i) ==
  CASE kind \in DOMAIN WidthOf -> {Digits(i, WidthOf[kind])}
    [] kind = "bool"      -> BOOLEAN
    [] kind = "action"    -> DOMAIN ActionCode
    [] kind = "structure" -> DOMAIN StructureCode
    [] kind = "target"    -> {<<>>, <<Digits(i, 8)>>}
    [] kind = "string"    -> {<<>>, <<65, 67, 69>>}
    [] kind = "reason"    -> {<<>>, <<<<>>>>, <<<<66, 68>>>>}

Filled(Values(_, _), layout) ==
  FoldLeft(LAMBDA set, i : {(layout[i][1] :> v) @@ f : f \in set, v \in Values(layout[i][2], i)},
           {<<>>}, [i \in 1..Len(layout) |-> i])

OrdersOf == UNION {{[type |-> t, fields |-> f] : f \in Filled(Simple, OrderWritten[t][2])}
                     : t \in DOMAIN OrderWritten}
InCommand(kind, i) == IF kind = "order" THEN OrdersOf ELSE Simple(kind, i)
CommandsOf == UNION {{[type |-> t, fields |-> f] : f \in Filled(InCommand, CommandWritten[t][2])}
                       : t \in DOMAIN CommandWritten}
Entities == {e \in Filled(Simple, EntityWritten) : e.active}
InPayload(kind, i) ==
  CASE kind = "command"  -> CommandsOf
    [] kind = "entities" -> {<<>>} \cup {<<e>> : e \in Entities} \cup {<<e, e>> : e \in Entities}
    [] kind = "ids"      -> {<<>>, <<Digits(i, 8)>>, <<Digits(i, 8), Digits(i + 1, 8)>>}
    [] OTHER             -> Simple(kind, i)
PacketType == [ClientHello |-> 1, ServerHello |-> 1, Disconnect |-> 1, Command |-> 2,
               Snapshot |-> 3, Delta |-> 4, Ping |-> 5, Pong |-> 6]

AllPackets ==
  UNION {{[header |-> [protocol_version |-> <<3, 0, 0, 0>>, session_id |-> Digits(7, 8),
                       sequence |-> Digits(8, 8), packet_type |-> <<PacketType[t]>>],
           payload |-> [type |-> t, fields |-> f]] : f \in Filled(InPayload, PayloadWritten[t][2])}
         : t \in DOMAIN PayloadWritten}

(* A datagram is one packet: each form is posted once on its own, and two of *)
(* them together with the ends closing at any moment.                      *)
Few == {p \in AllPackets : \/ p.payload.type = "Ping"
                           \/ /\ p.payload.type = "Command"
                              /\ p.payload.fields.command.type = "CancelLogisticsJob"}

MCForeign == {3, 6, 22, 255}

Offered ==
  IF posted = <<>> /\ medium = "Udp" /\ connected["receiver"] THEN AllPackets
  ELSE IF ToSet(posted) \subseteq Few THEN Few
  ELSE {}
WireScene ==
  \/ \E p \in Offered : SendPacket(p)
  \/ ReceiveLoopback \/ ReceiveDatagram \/ Disturb
  \/ ToSet(posted) \subseteq Few /\ (CloseSender \/ CloseReceiver \/ \E n \in Foreign : SendForeign(n))
WireSceneSpec == WireInit /\ [][WireScene]_wirevars

-----------------------------------------------------------------------------
(* Positions a client may report: near, far, behind the wall, beside it,   *)
(* inside it and outside the area.                                         *)
MCRequests == {<<x, z>> : x \in {-40, -13, 8, 12, 14, 20}, z \in {-10, 0, 2}} \cup {NoPosition}
MCSpawn == <<0, 0>>

-----------------------------------------------------------------------------
(* Sprinting at the wall, jumping back from it and letting go for a frame  *)
(* that is longer than any the code allows.                                *)
Key(way, sprint, jump, delta) == [way |-> way, sprint |-> sprint, jump |-> jump, delta |-> delta]
MCKeys == {Key(<<1, 0>>, TRUE, FALSE, 1), Key(<<-1, 0>>, FALSE, TRUE, 1), Key(<<0, 0>>, FALSE, FALSE, 9)}
MCEntry == <<0, 0>>
MCPushes == {<<-6, 0>>}

-----------------------------------------------------------------------------
(* A body that runs, stands and walks on while it turns past the turn's    *)
(* end, and one that starts late.                                          *)
On(position, velocity, yaw) == [position |-> position, velocity |-> velocity, yaw |-> yaw]
MCPaths ==
  {<<On(0, 3, 1), On(3, 3, 1), On(6, 3, 7), On(6, 0, 7), On(6, 0, 4), On(7, 1, 4), On(8, 1, 1)>>,
   <<On(0, 0, 0), On(0, 0, 4), On(0, 0, 0), On(4, 4, 3), On(8, 4, 6), On(9, 1, 2), On(9, 0, 5)>>}

-----------------------------------------------------------------------------
(* Sites: walls and turrets on and off the construction grid, near the     *)
(* edge and near an obstacle, one of them above the ground, and no client  *)
(* watches.  Ghost: one client builds by its ghost while another wall may  *)
(* come and go.                                                            *)
VARIABLE ground   \* which of the two goes on

MCHalfExtent == ("Wall" :> <<4, 1>>) @@ ("Turret" :> <<4, 4>>)
MCHeight == ("Wall" :> 10) @@ ("Turret" :> 12)
MCStands == {<<0, 0, 0>>, <<40, 0, 0>>}
MCRequested == {<<0, 0, 0>>, <<0, 0, 3>>, <<0, 0, 9>>, <<2, 40, 4>>, <<44, 0, -47>>}
MCTargets == {<<6, 4>>, <<46, 1>>, <<46, -47>>}
SceneOfGround ==
  \/ ground = "sites" /\ GroundChanges
  \/ ground = "ghost" /\ built[3] = NoSite /\ (ClientActs \/ RequestBuild("Wall", <<0, 0, 3>>, 0))
  \/ ground = "ghost" /\ \E i \in SiteId : Destroy(i)
(* Two of the four headings of the ghost: the others cover the same ground. *)
TwoHeadings == ground = "ghost" => placementGhost'.rotation \in {0, 90}
GroundInit ==
  /\ PlacementInit /\ ground \in {"sites", "ghost"}
  /\ ground = "ghost" => builder = <<0, 0, 0>>
GroundNext == SceneOfGround /\ TwoHeadings /\ UNCHANGED ground
GroundSpec == GroundInit /\ [][GroundNext]_<<placementvars, ground>>

-----------------------------------------------------------------------------
VARIABLE task   \* "wire", "move", "predict", "draw" or "build"

GroundVars == <<placementvars, ground>>

ClientInit ==
  /\ WireInit /\ MoveInit /\ PredictionInit /\ InterpolationInit /\ GroundInit
  /\ task \in {"wire", "move", "predict", "draw", "build"}
  /\ task # "wire" => medium = "Udp"
  /\ task # "draw" => path = CHOOSE p \in Paths : TRUE
  /\ task # "build" => ground = "ghost"
ClientNext ==
  /\ UNCHANGED task
  /\ \/ task = "wire" /\ WireScene /\ UNCHANGED <<movevars, predictionvars, interpolationvars, GroundVars>>
     \/ task = "move" /\ MoveNext /\ UNCHANGED <<wirevars, predictionvars, interpolationvars, GroundVars>>
     \/ task = "predict" /\ PredictionNext /\ UNCHANGED <<wirevars, movevars, interpolationvars, GroundVars>>
     \/ task = "draw" /\ InterpolationNext /\ UNCHANGED <<wirevars, movevars, predictionvars, GroundVars>>
     \/ task = "build" /\ GroundNext /\ UNCHANGED <<wirevars, movevars, predictionvars, interpolationvars>>
ClientVars == <<wirevars, movevars, predictionvars, interpolationvars, GroundVars, task>>
ClientSpec == ClientInit /\ [][ClientNext]_ClientVars
=============================================================================
