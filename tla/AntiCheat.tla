----------------------------- MODULE AntiCheat -----------------------------
(***************************************************************************)
(* The heuristic anti-cheat provider and what the server does with its      *)
(* verdicts (src/crates/anti-cheat/src/{basic,trust,detectors,event,        *)
(* manifest}.rs and the handlers of game-protocol/src/server.rs).  Every    *)
(* command is compared with what the server knows: the last positions the   *)
(* session claimed, its rate, the ownership of what it names, balances, and *)
(* what its faction sees (Knowledge).  What the detectors find moves the    *)
(* session's trust; a banned session is to be gone by the end of the tick.  *)
(*                                                                         *)
(* Left out: the retained log, the counters of events and commands, the     *)
(* reasons given to operators, and the roles and packets of module Session. *)
(***************************************************************************)
EXTENDS Knowledge, Sequences, SequencesExt

CONSTANTS
  SessionId,       \* sessions
  PlaysFor,       \* the faction a session plays for
  ActorOf,         \* the avatar of a session
  ServerPolicy,    \* "LocalDev", "PrivateCustom" or "Official"
  Manifest, ServerManifest, AcceptedManifest,  \* builds; a server may pin one
  NoManifest,
  SuspicionWeight, \* by severity
  ProbationAfter, TrustedAfter, FlagThreshold, BanThreshold, Decay, BanOnCritical,
  MaxSpeed,        \* furthest in a tick, tolerance included
  MaxTeleport, MaxReach, MinFireInterval, MaxLead, MaxTransfer, FloodWindow, FloodLimit,
  MaxRotation,
  Balance,         \* available_resource: units in the container of an entity
  Ammo,            \* loaded_ammo, or the balance of ammunition
  OutOfBounds,     \* claimable positions beyond the bounds of the world
  Instruction      \* the commands clients may send

NotFinite == <<-9, -9>>   \* a position with a NaN or an infinity
NoTick == -1

Severity == {"Info", "Low", "Medium", "High", "Critical"}
TrustLevel == {"Untrusted", "Probationary", "Trusted", "Flagged", "Banned"}

ASSUME AntiCheatAssumption ==
  /\ SuspicionWeight \in [Severity -> Nat]
  /\ FlagThreshold \in Nat \ {0} /\ BanThreshold > FlagThreshold
  /\ \A n \in {ProbationAfter, TrustedAfter, Decay, MaxLead, FloodWindow, FloodLimit} : n \in Nat
  /\ BanOnCritical \in BOOLEAN

VARIABLES
  session,    \* "None", "Live" or "Ended"
  verified,   \* sessions whose manifest was accepted
  trust,      \* ClientTrustState of the sessions the provider knows
  telemetry,  \* SessionTelemetry of the same
  kicks,      \* pending_kicks
  forced      \* sessions whose level an operator has set

providervars == <<session, verified, trust, telemetry, kicks, forced>>

Registered == {s \in SessionId : trust[s].level # "None"}
NoTrust == [level |-> "None", score |-> 0, clean |-> 0, status |-> "Unknown"]
NewTrust == [level |-> "Untrusted", score |-> 0, clean |-> 0, status |-> "Clean"]

NewTelemetry(t) == [at |-> Nowhere, movedAt |-> t, firedAt |-> [e \in Unit \cup Commander |-> NoTick],
                    count |-> 0, window |-> t]

----------------------------------------------------------------------------
(* Trust *)

FromTrust(level) ==
  CASE level = "Flagged" -> "UnderReview" [] level = "Banned" -> "Banned" [] OTHER -> "Clean"

AtLevel(t, level) == IF level = t.level THEN t ELSE [t EXCEPT !.level = level, !.status = FromTrust(level)]

SeverityOf(kind) ==
  CASE kind \in {"TrustLevelChanged"} -> "Info"
    [] kind \in {"FutureDatedCommand", "ImpossibleMovement"} -> "Low"
    [] kind \in {"TeleportAttempt", "FireRateViolation", "CommandFloodDetected", "InvalidPlacement"} -> "Medium"
    [] kind \in {"AmmoInconsistency", "ImpossibleEconomyDelta", "UnauthorizedOrder",
                 "UnauthorizedStructureOrder", "HiddenTargetAttempt", "AdminPermissionDenied"} -> "High"
    [] OTHER -> "Critical"   \* NonFinitePosition, PositionOutOfBounds, and of manifests and bindings

RecordCleanCommand(t) ==
  LET clean == IF t.clean < TrustedAfter THEN t.clean + 1 ELSE t.clean   \* as far as it matters
      score == IF t.score > Decay THEN t.score - Decay ELSE 0
      after == [t EXCEPT !.clean = clean, !.score = score]
  IN CASE t.level = "Banned" -> t
       [] t.level = "Flagged" /\ score < FlagThreshold -> AtLevel(after, "Probationary")
       [] t.level = "Untrusted" /\ clean >= ProbationAfter -> AtLevel(after, "Probationary")
       [] t.level = "Probationary" /\ clean >= TrustedAfter -> AtLevel(after, "Trusted")
       [] OTHER -> after

Conclusive(severity) == severity = "Critical" /\ BanOnCritical

RecordViolation(t, severity) ==
  LET after == [t EXCEPT !.clean = 0, !.score = @ + SuspicionWeight[severity]]
      level == IF Conclusive(severity) \/ after.score >= BanThreshold THEN "Banned"
               ELSE IF after.score >= FlagThreshold THEN "Flagged"
               ELSE IF t.level = "Trusted" THEN "Probationary" ELSE t.level
  IN IF t.level = "Banned" THEN t ELSE AtLevel(after, level)

(* apply_finding: one after the other, and a ban is noted when it falls. *)
Violated(t, kinds) == FoldLeft(LAMBDA u, k : RecordViolation(u, SeverityOf(k)), t, kinds)

Noted(before, after) == before.level # "Banned" /\ after.level = "Banned"

Found(s, kinds) ==
  LET after == Violated(trust[s], kinds)
  IN IF s \in Registered
     THEN /\ trust' = [trust EXCEPT ![s] = after]
          /\ kicks' = IF Noted(trust[s], after) THEN kicks \cup {s} ELSE kicks
     ELSE UNCHANGED <<trust, kicks>>

----------------------------------------------------------------------------
(* Detectors: the sequence of anomalies each reports *)

If(suspect, kind) == IF suspect THEN <<kind>> ELSE << >>

Square(p, q) == (p[1] - q[1])^2 + (p[2] - q[2])^2

FutureDated(lead) == If(lead > MaxLead, "FutureDatedCommand")

(* The window restarts when it has run out, and counts this command. *)
Counted(m) ==
  IF now - m.window >= FloodWindow THEN [m EXCEPT !.window = now, !.count = 1]
  ELSE [m EXCEPT !.count = IF @ > FloodLimit THEN @ ELSE @ + 1]   \* as far as it matters

Flood(m) == If(m.count > FloodLimit, "CommandFloodDetected")

BadPosition(p) ==
  IF p = NotFinite THEN <<"NonFinitePosition">> ELSE If(p \in OutOfBounds, "PositionOutOfBounds")

ImpossibleMovement(m, to, speed) ==
  IF to = NotFinite THEN <<"NonFinitePosition">>
  ELSE If(to \in OutOfBounds, "PositionOutOfBounds")
         \o If(speed > MaxSpeed, "ImpossibleMovement")
         \o (IF m.at = Nowhere THEN << >>
             ELSE IF now = m.movedAt THEN If(Square(m.at, to) > MaxTeleport^2, "TeleportAttempt")
             ELSE If(Square(m.at, to) > (MaxSpeed * (now - m.movedAt))^2, "ImpossibleMovement"))

(* A position is remembered though it is refused, unless it is no number. *)
AfterMove(m, to) == IF to = NotFinite THEN m ELSE [m EXCEPT !.at = to, !.movedAt = now]

FireRateViolation(m, actor) ==
  If(m.firedAt[actor] # NoTick /\ now - m.firedAt[actor] < MinFireInterval, "FireRateViolation")

AfterFire(m, actor) == [m EXCEPT !.firedAt[actor] = now]

AmmoInconsistency(actor) == If(Ammo[actor] = 0, "AmmoInconsistency")

InvalidPlacement(m, at, rotation) ==
  IF at = NotFinite THEN <<"InvalidPlacement">>
  ELSE If(rotation > MaxRotation, "InvalidPlacement")
         \o If(at \in OutOfBounds, "InvalidPlacement")
         \o If(m.at # Nowhere /\ Square(m.at, at) > MaxReach^2, "InvalidPlacement")

ImpossibleEconomyDelta(e, amount) ==
  If(amount > MaxTransfer \/ amount > Balance[e], "ImpossibleEconomyDelta")

UnauthorizedOrder(s, e) == If(Allegiance[e] \notin {PlaysFor[s], Neutral}, "UnauthorizedOrder")

UnauthorizedStructureOrder(s, b) ==
  If(standing[b] # Gone /\ Owner[b] \notin {PlaysFor[s], Neutral}, "UnauthorizedStructureOrder")

HiddenTarget(s, e) ==
  If(Allegiance[e] # PlaysFor[s] /\ ~FactionKnowsEntity(PlaysFor[s], e), "HiddenTargetAttempt")
(* What the detectors that apply to an instruction report, in their order. *)
Specific(s, i, m) ==
  CASE i.type = "Move" -> ImpossibleMovement(m, i.to, i.speed)
    [] i.type = "Fire" -> FireRateViolation(m, ActorOf[s]) \o AmmoInconsistency(ActorOf[s]) \o HiddenTarget(s, i.target)
    [] i.type = "Attack" -> UnauthorizedOrder(s, i.robot) \o FireRateViolation(m, i.robot)
                              \o AmmoInconsistency(i.robot) \o HiddenTarget(s, i.target)
    [] i.type = "Follow" -> UnauthorizedOrder(s, i.robot) \o HiddenTarget(s, i.target)
    [] i.type = "SendRobot" -> UnauthorizedOrder(s, i.robot) \o BadPosition(i.to)
    [] i.type = "Regroup" -> BadPosition(i.to)
    [] i.type = "Build" -> InvalidPlacement(m, i.to, i.rotation)
    [] i.type = "Dismantle" -> UnauthorizedStructureOrder(s, i.structure)
    [] i.type = "Repair" -> UnauthorizedStructureOrder(s, i.structure) \o UnauthorizedOrder(s, i.robot)
    [] i.type = "Escort" -> UnauthorizedOrder(s, i.robot)
    [] i.type = "Transfer" -> UnauthorizedOrder(s, i.robot) \o UnauthorizedOrder(s, i.target)
                                \o ImpossibleEconomyDelta(i.robot, i.amount)
    [] OTHER -> << >>   \* research, cancelled jobs, administration

Remembered(s, i, m) ==
  CASE i.type = "Move" -> AfterMove(m, i.to)
    [] i.type = "Fire" -> AfterFire(m, ActorOf[s])
    [] i.type = "Attack" -> AfterFire(m, i.robot)
    [] OTHER -> m

Inspected(s, i, lead, m) == FutureDated(lead) \o Flood(m) \o Specific(s, i, m)

----------------------------------------------------------------------------
(* The server *)

(* disconnect_session: the entry stays, the provider forgets the session. *)
End(S) ==
  /\ session' = [s \in SessionId |-> IF s \in S /\ session[s] # "None" THEN "Ended" ELSE session[s]]
  /\ telemetry' = [s \in SessionId |-> IF s \in S THEN NewTelemetry(0) ELSE telemetry[s]]

Forgotten(of, S) == [s \in SessionId |-> IF s \in S THEN NoTrust ELSE of[s]]

Admit(s) ==
  /\ session[s] = "None"
  /\ session' = [session EXCEPT ![s] = "Live"]
  /\ trust' = [trust EXCEPT ![s] = NewTrust]
  /\ telemetry' = [telemetry EXCEPT ![s] = NewTelemetry(now)]
  /\ UNCHANGED <<verified, kicks, forced>>

Leave(s) ==
  /\ session[s] # "None"
  /\ End({s})
  /\ trust' = Forgotten(trust, {s})
  /\ kicks' = kicks \ {s}
  /\ UNCHANGED <<verified, forced>>

(* What a policy makes of the manifest of a client. *)
Accepts(m) ==
  CASE ServerPolicy = "LocalDev" -> TRUE
    [] ServerPolicy = "PrivateCustom" ->
         m.protocol = ServerManifest.protocol /\ AcceptedManifest \in {NoManifest, m}
    [] ServerPolicy = "Official" -> m.official /\ m = [ServerManifest EXCEPT !.official = TRUE]

SubmitManifest(s, m) ==
  /\ session[s] # "None"
  /\ \/ /\ s \in Registered /\ Accepts(m)
        /\ verified' = verified \cup {s}
        /\ UNCHANGED <<session, trust, telemetry, kicks, forced>>
     \/ ~(s \in Registered /\ Accepts(m)) /\ Leave(s)

(* A packet that does not prove it is the session's is held against it. *)
Misbound(s) ==
  /\ Found(s, <<"SessionBindingMismatch">>)
  /\ UNCHANGED <<session, verified, telemetry, forced>>

AdminDenied(s) ==
  /\ session[s] # "None"
  /\ Found(s, <<"AdminPermissionDenied">>)
  /\ UNCHANGED <<session, verified, telemetry, forced>>

(* A banned session is kicked at its next command; the others are judged by *)
(* what is found, and kicked if that bans them.                             *)
InspectCommand(s, i, lead) ==
  /\ s \in Registered
  /\ ServerPolicy # "Official" \/ s \in verified
  /\ \/ trust[s].level = "Banned" /\ Leave(s)
     \/ \E m \in {Counted(telemetry[s])} :
          \E kinds \in {Inspected(s, i, lead, m)} :
            \E after \in {IF kinds = << >> THEN RecordCleanCommand(trust[s]) ELSE Violated(trust[s], kinds)} :
              /\ trust[s].level # "Banned"
              /\ \/ after.level = "Banned" /\ Leave(s)
                 \/ /\ after.level # "Banned"
                    /\ trust' = [trust EXCEPT ![s] = after]
                    /\ telemetry' = [telemetry EXCEPT ![s] = Remembered(s, i, m)]
                    /\ UNCHANGED <<session, verified, kicks, forced>>

(* Fault: a ban by an operator is left to the next command. *)
OverrideQuietly(s, level) ==
  [trust |-> IF s \in Registered THEN [trust EXCEPT ![s] = AtLevel(@, level)] ELSE trust,
   kicks |-> kicks]

Override(s, level) ==
  [trust |-> IF s \in Registered THEN [trust EXCEPT ![s] = AtLevel(@, level)] ELSE trust,
   kicks |-> IF s \in Registered /\ Noted(trust[s], AtLevel(trust[s], level)) THEN kicks \cup {s} ELSE kicks]

Directives == {[trust |-> trust, kicks |-> kicks]} \cup {Override(s, level) : s \in SessionId, level \in TrustLevel}

(* One directive of an operator at most, the heartbeats that ran out, then  *)
(* the sessions the provider wants removed.                                 *)
ServerTick(silent) ==
  /\ KnowledgeStep
  /\ silent \subseteq {s \in SessionId : session[s] = "Live"}
  /\ \E directed \in Directives :
       \E kicked \in {{}} \cup {{s} : s \in SessionId} :
         LET gone == kicked \cup silent \cup directed.kicks
         IN /\ End(gone)
            /\ trust' = Forgotten(directed.trust, gone)
            /\ forced' = forced \cup {s \in SessionId : directed.trust[s] # trust[s]}
  /\ kicks' = {}
  /\ UNCHANGED verified

MatchInit ==
  /\ KnowledgeInit
  /\ session = [s \in SessionId |-> "None"]
  /\ verified = {} /\ kicks = {} /\ forced = {}
  /\ trust = [s \in SessionId |-> NoTrust]
  /\ telemetry = [s \in SessionId |-> NewTelemetry(0)]

PacketNext ==
  \E s \in SessionId :
    \/ Admit(s) \/ Leave(s) \/ Misbound(s) \/ AdminDenied(s)
    \/ \E m \in Manifest : SubmitManifest(s, m)
    \/ \E i \in Instruction, lead \in {0, MaxLead + 1} : InspectCommand(s, i, lead)

MatchNext ==
  \/ PacketNext /\ UNCHANGED <<worldvars, knowledgevars, settled>>
  \/ WorldMoves /\ UNCHANGED providervars
  \/ \E silent \in SUBSET SessionId : ServerTick(silent)

MatchSpec == MatchInit /\ [][MatchNext]_<<worldvars, knowledgevars, settled, providervars>>

----------------------------------------------------------------------------
(* Between two packets the standing of every session the provider knows is  *)
(* consistent: who is banned, by evidence or by an operator, is bound to be *)
(* removed by the end of this tick and is gone after it, however the ban    *)
(* came about and whatever came after it; and unless an operator had a      *)
(* hand in it the level follows from the score, and nobody is trusted whose *)
(* last offence is recent (trust.rs:184-243, basic.rs:147-182 and 451-473,  *)
(* server.rs:325-329).                                                      *)
StandingConsistent ==
  \A s \in Registered :
    /\ session[s] = "Live"
    /\ trust[s].status = FromTrust(trust[s].level)
    /\ trust[s].level = "Banned" => s \in kicks
    /\ s \notin forced =>
         /\ trust[s].level = "Flagged" => trust[s].score >= FlagThreshold
         /\ trust[s].level \notin {"Flagged", "Banned"} => trust[s].score < FlagThreshold
         /\ trust[s].level = "Trusted" => trust[s].clean >= TrustedAfter
=============================================================================
