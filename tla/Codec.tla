-------------------------------- MODULE Codec --------------------------------
(***************************************************************************)
(* The byte layout of packets (game-protocol/codec.rs, packet.rs,          *)
(* snapshot.rs).  The code has every layout twice: encode_packet and       *)
(* encode_command write it, decode_packet and decode_command read it.      *)
(* Both are tables here, transcribed one by one: the writer's are indexed  *)
(* by what is written, the reader's by the number on the wire.  A layout   *)
(* is a sequence of <<field, kind>>.                                       *)
(*                                                                         *)
(* A number is the tuple of its bytes, little end first, as to_le_bytes    *)
(* makes them; a position is the bytes of its three coordinates; an        *)
(* Option is a sequence of at most one value.  A string is a sequence of   *)
(* ASCII codes.                                                            *)
(***************************************************************************)
EXTENDS Integers, SequencesExt

WidthOf == [u8 |-> 1, u16 |-> 2, u32 |-> 4, u64 |-> 8, f32 |-> 4, vec3 |-> 12]

(* No string and no list of the model is longer than three bytes count.    *)
LittleEndian(n, w) ==
  [i \in 1..w |-> IF i <= 3 THEN (n \div (256 ^ (i - 1))) % 256 ELSE 0]

NumberOf(bytes) ==
  FoldLeft(LAMBDA n, i : n + bytes[i] * (256 ^ (i - 1)), 0,
           [i \in 1..Len(bytes) |-> i])

-----------------------------------------------------------------------------
(* What is written.                                                        *)

ActionCode == [FireWeapon |-> 1, Reload |-> 2, UseItem |-> 3, Interact |-> 4,
               Attack |-> 5, MoveTo |-> 6, HoldPosition |-> 7, Return |-> 8]

StructureCode == [Mk1Stone |-> 1, Mk2Steel |-> 2, Mk3Composite |-> 3, Pylon |-> 4,
                  Depot |-> 5, Turret |-> 6, Fabricator |-> 7, Generator |-> 8,
                  Battery |-> 9, MiningDrill |-> 10, Refinery |-> 11,
                  ResearchFacility |-> 12]

(* encode_string: the length is cast to sixteen bits.                      *)
PutString(s) == LittleEndian(Len(s) % 65536, 2) \o s

PutPlain(kind, v) ==
  CASE kind \in DOMAIN WidthOf -> v
    [] kind = "bool"      -> <<IF v THEN 1 ELSE 0>>
    [] kind = "action"    -> <<ActionCode[v]>>
    [] kind = "structure" -> <<StructureCode[v]>>
    [] kind = "target"    -> IF v = <<>> THEN <<0>> ELSE <<1>> \o v[1]
    [] kind = "string"    -> PutString(v)
    [] kind = "reason"    -> IF v = <<>> THEN <<0>> ELSE <<1>> \o PutString(v[1])

PutAll(Put(_, _), layout, fields) ==
  FlattenSeq([i \in DOMAIN layout |-> Put(layout[i][2], fields[layout[i][1]])])

OrderWritten ==
  [Follow       |-> <<1, <<<<"target", "u64">>>>>>,
   Guard        |-> <<2, <<<<"position", "vec3">>>>>>,
   Attack       |-> <<3, <<<<"target", "u64">>>>>>,
   Move         |-> <<4, <<<<"position", "vec3">>>>>>,
   ReturnToBase |-> <<5, <<>>>>]

PutOrder(o) ==
  <<OrderWritten[o.type][1]>> \o PutAll(PutPlain, OrderWritten[o.type][2], o.fields)

PlayerWritten ==
  [Move            |-> <<1, <<<<"position", "vec3">>, <<"velocity", "vec3">>>>>>,
   Action          |-> <<2, <<<<"action_type", "action">>, <<"target", "target">>>>>>,
   RobotCommand    |-> <<4, <<<<"robot_id", "u64">>, <<"command_type", "order">>>>>>,
   RequestResource |-> <<5, <<<<"resource_id", "u16">>, <<"amount", "u32">>>>>>,
   TransferRegion  |-> <<7, <<<<"entity_id", "u64">>, <<"destination_region", "u32">>>>>>]

StructureWritten ==
  [BuildStructure |-> <<8, <<<<"kind", "structure">>, <<"position", "vec3">>,
                             <<"rotation_deg", "f32">>>>>>,
   DismantleStructure |-> <<9, <<<<"structure_id", "u64">>>>>>,
   RepairStructure |-> <<10, <<<<"structure_id", "u64">>,
                               <<"actor_entity", "target">>>>>>]

GoodsWritten ==
  [TransferResource  |-> <<11, <<<<"from_entity", "u64">>, <<"to_entity", "u64">>,
                                 <<"resource_id", "u16">>, <<"amount", "u32">>>>>>,
   ReserveResource   |-> <<12, <<<<"entity", "u64">>, <<"resource_id", "u16">>,
                                 <<"amount", "u32">>, <<"reservation_id", "u64">>>>>>,
   CommitTransfer    |-> <<13, <<<<"reservation_id", "u64">>, <<"from_entity", "u64">>,
                                 <<"to_entity", "u64">>>>>>,
   CancelReservation |-> <<14, <<<<"reservation_id", "u64">>,
                                 <<"from_entity", "u64">>>>>>,
   SetProductionRecipe |-> <<15, <<<<"structure_id", "u64">>, <<"recipe_id", "u32">>>>>>,
   SetExtractionTarget |-> <<16, <<<<"structure_id", "u64">>, <<"deposit_id", "u64">>>>>>]

LogisticsWritten ==
  [CreateLogisticsJob |-> <<17, <<<<"source", "u64">>, <<"destination", "u64">>,
                                  <<"resource_id", "u16">>, <<"amount", "u32">>,
                                  <<"priority", "u8">>>>>>,
   CancelLogisticsJob |-> <<18, <<<<"job_id", "u64">>>>>>,
   ClaimLogisticsJob  |-> <<19, <<<<"job_id", "u64">>, <<"worker_id", "u64">>>>>>,
   ExecuteLogisticsPickup  |-> <<20, <<<<"job_id", "u64">>, <<"worker_id", "u64">>>>>>,
   ExecuteLogisticsDropoff |-> <<21, <<<<"job_id", "u64">>, <<"worker_id", "u64">>>>>>]

SquadWritten ==
  [AssignEscort      |-> <<30, <<<<"player", "u32">>, <<"robot_id", "u64">>>>>>,
   ReleaseEscort     |-> <<31, <<<<"player", "u32">>, <<"robot_id", "u64">>>>>>,
   AssignSquadMember |-> <<32, <<<<"squad_id", "u32">>, <<"robot_id", "u64">>>>>>,
   RemoveSquadMember |-> <<33, <<<<"squad_id", "u32">>, <<"robot_id", "u64">>>>>>,
   SquadRegroup |-> <<34, <<<<"squad_id", "u32">>, <<"rally_position", "vec3">>>>>>,
   QueueResearch  |-> <<100, <<<<"tech_id", "u32">>>>>>,
   CancelResearch |-> <<101, <<<<"job_id", "u64">>>>>>,
   ReorderResearchQueue |-> <<102, <<<<"job_id", "u64">>, <<"new_index", "u16">>>>>>]

AdminWritten ==
  [SubmitClientManifest |-> <<160, <<<<"build_id", "string">>,
                                     <<"protocol_version", "u32">>,
                                     <<"content_hash", "u64">>,
                                     <<"official_build", "bool">>>>>>,
   AdminKickSession   |-> <<161, <<<<"target_session", "u64">>, <<"reason_code", "u8">>>>>>,
   AdminSetTrustLevel |-> <<162, <<<<"target_session", "u64">>, <<"trust_code", "u8">>>>>>,
   AdminGrantResource |-> <<163, <<<<"target_entity", "u64">>, <<"resource_id", "u16">>,
                                   <<"amount", "u32">>>>>>,
   AdminSetSessionRole |-> <<164, <<<<"target_session", "u64">>,
                                    <<"role_code", "u8">>>>>>]

CommandWritten == PlayerWritten @@ StructureWritten @@ GoodsWritten
                    @@ LogisticsWritten @@ SquadWritten @@ AdminWritten

PutCommandField(kind, v) == IF kind = "order" THEN PutOrder(v) ELSE PutPlain(kind, v)

PutCommand(c) ==
  <<CommandWritten[c.type][1]>>
    \o PutAll(PutCommandField, CommandWritten[c.type][2], c.fields)

EntityWritten == <<<<"id", "u64">>, <<"faction_id", "u32">>, <<"region_id", "u32">>,
                   <<"active", "bool">>, <<"flags", "u64">>>>

PutPayloadField(kind, v) ==
  CASE kind = "command"  -> PutCommand(v)
    [] kind = "entities" -> LittleEndian(Len(v), 4)
         \o FlattenSeq([i \in DOMAIN v |-> PutAll(PutPlain, EntityWritten, v[i])])
    [] kind = "ids"      -> LittleEndian(Len(v), 4) \o FlattenSeq(v)
    [] OTHER             -> PutPlain(kind, v)

HeaderLayout == <<<<"protocol_version", "u32">>, <<"session_id", "u64">>,
                  <<"sequence", "u64">>, <<"packet_type", "u8">>>>

(* The bytes before the fields are the sub-type of a handshake.            *)
PayloadWritten ==
  [ClientHello |-> <<<<1>>, <<<<"protocol_version", "u32">>, <<"client_name", "string">>>>>>,
   ServerHello |-> <<<<2>>, <<<<"accepted", "bool">>, <<"session_id", "u64">>,
                              <<"server_tick", "u64">>, <<"session_token", "u64">>,
                              <<"reject_reason", "reason">>>>>>,
   Disconnect  |-> <<<<3>>, <<<<"session_id", "u64">>, <<"reason", "string">>>>>>,
   Command     |-> <<<<>>, <<<<"session_id", "u64">>, <<"sequence", "u64">>,
                             <<"client_tick", "u64">>, <<"token", "u64">>,
                             <<"command", "command">>>>>>,
   Snapshot    |-> <<<<>>, <<<<"server_tick", "u64">>, <<"entities", "entities">>>>>>,
   Delta       |-> <<<<>>, <<<<"base_tick", "u64">>, <<"target_tick", "u64">>,
                             <<"updated_entities", "entities">>,
                             <<"removed_entities", "ids">>>>>>,
   Ping        |-> <<<<>>, <<<<"timestamp", "u64">>>>>>,
   Pong        |-> <<<<>>, <<<<"timestamp", "u64">>, <<"server_tick", "u64">>>>>>]

EncodePacket(p) ==
  PutAll(PutPlain, HeaderLayout, p.header)
    \o PayloadWritten[p.payload.type][1]
    \o PutAll(PutPayloadField, PayloadWritten[p.payload.type][2], p.payload.fields)

-----------------------------------------------------------------------------
(* What is read.  A read gives the place after it and the value; at a      *)
(* negative place nothing could be read.                                   *)

Unread == [at |-> -1, value |-> <<>>]
ReadAs(at, value) == [at |-> at, value |-> value]

(* Fault: the bound is strict, and the last byte can never be read.        *)
TakeStrictly(buf, at, w) ==
  IF at >= 0 /\ at + w < Len(buf) THEN ReadAs(at + w, SubSeq(buf, at + 1, at + w))
  ELSE Unread

Take(buf, at, w) ==
  IF at >= 0 /\ at + w <= Len(buf) THEN ReadAs(at + w, SubSeq(buf, at + 1, at + w))
  ELSE Unread

Coded(r, names) ==
  IF r.at >= 0 /\ r.value[1] \in DOMAIN names THEN ReadAs(r.at, names[r.value[1]])
  ELSE Unread

GetString(buf, at) ==
  LET len == Take(buf, at, 2)
  IN  IF len.at < 0 THEN Unread ELSE Take(buf, len.at, NumberOf(len.value))

(* An Option is a flag and, unless that is zero, a value.                  *)
Optional(flag, some) ==
  CASE flag.at < 0         -> Unread
    [] flag.value = <<0>>  -> ReadAs(flag.at, <<>>)
    [] OTHER               -> IF some.at < 0 THEN Unread ELSE ReadAs(some.at, <<some.value>>)

ActionRead == <<"FireWeapon", "Reload", "UseItem", "Interact", "Attack", "MoveTo",
                "HoldPosition", "Return">>

StructureRead == <<"Mk1Stone", "Mk2Steel", "Mk3Composite", "Pylon", "Depot", "Turret",
                   "Fabricator", "Generator", "Battery", "MiningDrill", "Refinery",
                   "ResearchFacility">>

GetPlain(kind, buf, at) ==
  CASE kind \in DOMAIN WidthOf -> Take(buf, at, WidthOf[kind])
    [] kind = "bool"      -> LET b == Take(buf, at, 1)
                             IN  IF b.at < 0 THEN Unread ELSE ReadAs(b.at, b.value # <<0>>)
    [] kind = "action"    -> Coded(Take(buf, at, 1), ActionRead)
    [] kind = "structure" -> Coded(Take(buf, at, 1), StructureRead)
    [] kind = "target"    -> Optional(Take(buf, at, 1), Take(buf, at + 1, 8))
    [] kind = "string"    -> GetString(buf, at)
    [] kind = "reason"    -> Optional(Take(buf, at, 1), GetString(buf, at + 1))

GetAll(Get(_, _, _), layout, buf, at) ==
  FoldLeft(LAMBDA r, field :
             LET g == Get(field[2], buf, r.at)
             IN  IF r.at < 0 \/ g.at < 0 THEN Unread
                 ELSE ReadAs(g.at, (field[1] :> g.value) @@ r.value),
           ReadAs(at, <<>>), layout)

(* One field of a chosen form: its fields are read after its number.       *)
OfForm(type, r) ==
  IF r.at < 0 THEN Unread ELSE ReadAs(r.at, [type |-> type, fields |-> r.value])

OrderRead == <<<<"Follow", <<<<"target", "u64">>>>>>,
               <<"Guard", <<<<"position", "vec3">>>>>>,
               <<"Attack", <<<<"target", "u64">>>>>>,
               <<"Move", <<<<"position", "vec3">>>>>>,
               <<"ReturnToBase", <<>>>>>>

GetOrder(buf, at) ==
  LET form == Coded(Take(buf, at, 1), OrderRead)
  IN  IF form.at < 0 THEN Unread
      ELSE OfForm(form.value[1], GetAll(GetPlain, form.value[2], buf, form.at))

(* Discriminants 3 and 6 are retired: no row reads them.                   *)
PlayerRead ==
  (1 :> <<"Move", <<<<"position", "vec3">>, <<"velocity", "vec3">>>>>>)
  @@ (2 :> <<"Action", <<<<"action_type", "action">>, <<"target", "target">>>>>>)
  @@ (4 :> <<"RobotCommand", <<<<"robot_id", "u64">>, <<"command_type", "order">>>>>>)
  @@ (5 :> <<"RequestResource", <<<<"resource_id", "u16">>, <<"amount", "u32">>>>>>)
  @@ (7 :> <<"TransferRegion", <<<<"entity_id", "u64">>,
                                 <<"destination_region", "u32">>>>>>)

StructureCommandRead ==
  (8 :> <<"BuildStructure", <<<<"kind", "structure">>, <<"position", "vec3">>,
                              <<"rotation_deg", "f32">>>>>>)
  @@ (9 :> <<"DismantleStructure", <<<<"structure_id", "u64">>>>>>)
  @@ (10 :> <<"RepairStructure", <<<<"structure_id", "u64">>,
                                   <<"actor_entity", "target">>>>>>)

GoodsRead ==
  (11 :> <<"TransferResource", <<<<"from_entity", "u64">>, <<"to_entity", "u64">>,
                                 <<"resource_id", "u16">>, <<"amount", "u32">>>>>>)
  @@ (12 :> <<"ReserveResource", <<<<"entity", "u64">>, <<"resource_id", "u16">>,
                                   <<"amount", "u32">>, <<"reservation_id", "u64">>>>>>)
  @@ (13 :> <<"CommitTransfer", <<<<"reservation_id", "u64">>, <<"from_entity", "u64">>,
                                  <<"to_entity", "u64">>>>>>)
  @@ (14 :> <<"CancelReservation", <<<<"reservation_id", "u64">>,
                                     <<"from_entity", "u64">>>>>>)
  @@ (15 :> <<"SetProductionRecipe", <<<<"structure_id", "u64">>,
                                       <<"recipe_id", "u32">>>>>>)
  @@ (16 :> <<"SetExtractionTarget", <<<<"structure_id", "u64">>,
                                       <<"deposit_id", "u64">>>>>>)

LogisticsRead ==
  (17 :> <<"CreateLogisticsJob", <<<<"source", "u64">>, <<"destination", "u64">>,
                                   <<"resource_id", "u16">>, <<"amount", "u32">>,
                                   <<"priority", "u8">>>>>>)
  @@ (18 :> <<"CancelLogisticsJob", <<<<"job_id", "u64">>>>>>)
  @@ (19 :> <<"ClaimLogisticsJob", <<<<"job_id", "u64">>, <<"worker_id", "u64">>>>>>)
  @@ (20 :> <<"ExecuteLogisticsPickup", <<<<"job_id", "u64">>, <<"worker_id", "u64">>>>>>)
  @@ (21 :> <<"ExecuteLogisticsDropoff", <<<<"job_id", "u64">>, <<"worker_id", "u64">>>>>>)

SquadRead ==
  (30 :> <<"AssignEscort", <<<<"player", "u32">>, <<"robot_id", "u64">>>>>>)
  @@ (31 :> <<"ReleaseEscort", <<<<"player", "u32">>, <<"robot_id", "u64">>>>>>)
  @@ (32 :> <<"AssignSquadMember", <<<<"squad_id", "u32">>, <<"robot_id", "u64">>>>>>)
  @@ (33 :> <<"RemoveSquadMember", <<<<"squad_id", "u32">>, <<"robot_id", "u64">>>>>>)
  @@ (34 :> <<"SquadRegroup", <<<<"squad_id", "u32">>, <<"rally_position", "vec3">>>>>>)
  @@ (100 :> <<"QueueResearch", <<<<"tech_id", "u32">>>>>>)
  @@ (101 :> <<"CancelResearch", <<<<"job_id", "u64">>>>>>)
  @@ (102 :> <<"ReorderResearchQueue", <<<<"job_id", "u64">>, <<"new_index", "u16">>>>>>)

AdminRead ==
  (160 :> <<"SubmitClientManifest", <<<<"build_id", "string">>,
                                      <<"protocol_version", "u32">>,
                                      <<"content_hash", "u64">>,
                                      <<"official_build", "bool">>>>>>)
  @@ (161 :> <<"AdminKickSession", <<<<"target_session", "u64">>,
                                     <<"reason_code", "u8">>>>>>)
  @@ (162 :> <<"AdminSetTrustLevel", <<<<"target_session", "u64">>,
                                       <<"trust_code", "u8">>>>>>)
  @@ (163 :> <<"AdminGrantResource", <<<<"target_entity", "u64">>,
                                       <<"resource_id", "u16">>, <<"amount", "u32">>>>>>)
  @@ (164 :> <<"AdminSetSessionRole", <<<<"target_session", "u64">>,
                                        <<"role_code", "u8">>>>>>)

CommandRead == PlayerRead @@ StructureCommandRead @@ GoodsRead @@ LogisticsRead
                 @@ SquadRead @@ AdminRead

GetCommandField(kind, buf, at) ==
  IF kind = "order" THEN GetOrder(buf, at) ELSE GetPlain(kind, buf, at)

GetCommand(buf, at) ==
  LET form == Coded(Take(buf, at, 1), CommandRead)
  IN  IF form.at < 0 THEN Unread
      ELSE OfForm(form.value[1], GetAll(GetCommandField, form.value[2], buf, form.at))

EntityRead == <<<<"id", "u64">>, <<"faction_id", "u32">>, <<"region_id", "u32">>,
                <<"active", "bool">>, <<"flags", "u64">>>>

(* A counted list: as many elements as the count in front of it says.      *)
GetList(Get(_, _), buf, at) ==
  LET count == Take(buf, at, 4)
  IN  IF count.at < 0 THEN Unread
      ELSE FoldLeft(LAMBDA r, i : LET g == Get(buf, r.at)
                                  IN  IF r.at < 0 \/ g.at < 0 THEN Unread
                                      ELSE ReadAs(g.at, Append(r.value, g.value)),
                    ReadAs(count.at, <<>>), [i \in 1..NumberOf(count.value) |-> i])

GetEntity(buf, at) == GetAll(GetPlain, EntityRead, buf, at)
GetId(buf, at) == Take(buf, at, 8)

GetPayloadField(kind, buf, at) ==
  CASE kind = "command"  -> GetCommand(buf, at)
    [] kind = "entities" -> GetList(GetEntity, buf, at)
    [] kind = "ids"      -> GetList(GetId, buf, at)
    [] OTHER             -> GetPlain(kind, buf, at)

HandshakeRead ==
  <<<<"ClientHello", <<<<"protocol_version", "u32">>, <<"client_name", "string">>>>>>,
    <<"ServerHello", <<<<"accepted", "bool">>, <<"session_id", "u64">>,
                       <<"server_tick", "u64">>, <<"session_token", "u64">>,
                       <<"reject_reason", "reason">>>>>>,
    <<"Disconnect", <<<<"session_id", "u64">>, <<"reason", "string">>>>>>>>

PayloadRead ==
  (2 :> <<"Command", <<<<"session_id", "u64">>, <<"sequence", "u64">>,
                       <<"client_tick", "u64">>, <<"token", "u64">>,
                       <<"command", "command">>>>>>)
  @@ (3 :> <<"Snapshot", <<<<"server_tick", "u64">>, <<"entities", "entities">>>>>>)
  @@ (4 :> <<"Delta", <<<<"base_tick", "u64">>, <<"target_tick", "u64">>,
                        <<"updated_entities", "entities">>,
                        <<"removed_entities", "ids">>>>>>)
  @@ (5 :> <<"Ping", <<<<"timestamp", "u64">>>>>>)
  @@ (6 :> <<"Pong", <<<<"timestamp", "u64">>, <<"server_tick", "u64">>>>>>)

(* The set of the packet that buf holds, or of none if it is refused.      *)
(* What follows the last field is not looked at.                           *)
DecodePacket(buf) ==
  LET header == GetAll(GetPlain, HeaderLayout, buf, 0)
      form   == IF header.at < 0 THEN Unread
                ELSE IF header.value.packet_type = <<1>>
                     THEN Coded(Take(buf, header.at, 1), HandshakeRead)
                     ELSE Coded(ReadAs(header.at, header.value.packet_type), PayloadRead)
      body   == IF form.at < 0 THEN Unread
                ELSE GetAll(GetPayloadField, form.value[2], buf, form.at)
  IN  IF body.at < 0 THEN {}
      ELSE {[header |-> header.value,
             payload |-> [type |-> form.value[1], fields |-> body.value]]}
=============================================================================
