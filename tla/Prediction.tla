----------------------------- MODULE Prediction -----------------------------
(***************************************************************************)
(* Client-side movement prediction (game-client/prediction.rs): each frame *)
(* steps the avatar at once and remembers its input; a server state is     *)
(* taken as the truth and the inputs it has not seen are run again on top  *)
(* of it.  The server that runs the inputs and the network between are     *)
(* external: inputs may be lost, the avatar may be pushed, and states      *)
(* arrive late, twice, out of order or never.  The counters kept for the   *)
(* display and the facing are left out.                                    *)
(***************************************************************************)
EXTENDS Terrain

CONSTANTS
  WalkSpeed, Acceleration, Deceleration, JumpVelocity, Gravity, \* MovementConfig
  MinDelta, MaxDelta,    \* the clamp on an input's delta_seconds
  HistoryCapacity,       \* PredictedController::history_capacity
  Keys,                  \* inputs: [way, sprint, jump, delta]
  Entry,                 \* initial_position
  Pushes,                \* displacements the server may impose
  MaxFrames              \* bound: frames of a behaviour

ASSUME PredictionAssumption ==
  /\ HistoryCapacity \in Nat \ {0} /\ MinDelta <= MaxDelta
  /\ Keys \subseteq [way : Int \X Int, sprint : BOOLEAN, jump : BOOLEAN, delta : Nat]

VARIABLES
  predicted,       \* predicted_state
  authoritative,   \* authoritative_state; its sequence is last_reconciled_seq
  history,         \* input_history
  typed,           \* every input of the match; next_input_seq is one more than their number
  served,          \* the state of the server's avatar
  acks,            \* the states the server has sent
  faithful         \* no input lost, no push, and no state taken out of order so far

predictionvars == <<predicted, authoritative, history, typed, served, acks, faithful>>

(* PlayerState::new.  Rise is the vertical component of the velocity.      *)
AtRest(p) ==
  [at |-> p, height |-> 0, velocity |-> <<0, 0>>, rise |-> 0, grounded |-> TRUE, sequence |-> 0]

SimulateMovementStep(state, input) ==
  LET dt     == Between(input.delta, MinDelta, MaxDelta)
      speed  == IF input.sprint THEN SprintSpeed ELSE WalkSpeed
      accel  == IF input.way = <<0, 0>> THEN Deceleration ELSE Acceleration
      target == <<input.way[1] * speed, input.way[2] * speed>>
      vel    == Towards(state.velocity, target, accel * dt)
      rise   == IF ~state.grounded THEN state.rise - Gravity * dt
                ELSE IF input.jump THEN JumpVelocity ELSE state.rise
      height == state.height + rise * dt
      lands  == height <= 0
  IN  [at       |-> ResolveMovement(<<state.at[1] + vel[1] * dt, state.at[2] + vel[2] * dt>>),
       height   |-> IF lands THEN 0 ELSE height,
       velocity |-> vel,
       rise     |-> IF lands THEN 0 ELSE rise,
       grounded |-> lands,
       sequence |-> input.sequence]

Replay(state, inputs) == FoldLeft(SimulateMovementStep, state, inputs)

(* At its capacity the history gives up its oldest input.                  *)
WithInput(input) ==
  Append(IF Len(history) >= HistoryCapacity THEN Tail(history) ELSE history, input)

StepPrediction(key) ==
  \E input \in {[sequence |-> Len(typed) + 1] @@ key} :
     /\ history' = WithInput(input)
     /\ predicted' = SimulateMovementStep(predicted, input)
     /\ typed' = Append(typed, input)
     /\ UNCHANGED <<authoritative, served, acks, faithful>>

(* Fault: the input the server has acknowledged is kept.                   *)
PendingFromAck(server) == SelectSeq(history, LAMBDA input : input.sequence >= server.sequence)

Pending(server) == SelectSeq(history, LAMBDA input : input.sequence > server.sequence)

ReconcileWithServer(server) ==
  /\ authoritative' = server
  /\ history' = Pending(server)
  /\ \E again \in {Replay(server, Pending(server))} :
       IF again.at = predicted.at /\ again.height = predicted.height
       THEN UNCHANGED predicted
       ELSE predicted' = again

ReceiveServerState(server) ==
  /\ ReconcileWithServer(server)
  /\ faithful' = (faithful /\ server.sequence >= authoritative.sequence)
  /\ UNCHANGED <<typed, served, acks>>

-----------------------------------------------------------------------------

(* The server runs the next input that reaches it and sends the result.    *)
ServerSteps ==
  \E k \in (served.sequence + 1)..Len(typed) :
     /\ served' = SimulateMovementStep(served, typed[k])
     /\ acks' = acks \cup {served'}
     /\ faithful' = (faithful /\ k = served.sequence + 1)
     /\ UNCHANGED <<predicted, authoritative, history, typed>>

(* At most one push: it is the first thing that goes wrong.                *)
ServerPushes(push) ==
  /\ faithful
  /\ served' = [served EXCEPT !.at = ResolveMovement(<<served.at[1] + push[1], served.at[2] + push[2]>>)]
  /\ faithful' = FALSE
  /\ UNCHANGED <<predicted, authoritative, history, typed, acks>>

Frame == Len(typed) < MaxFrames /\ \E key \in Keys : StepPrediction(key)

PredictionInit ==
  /\ predicted = AtRest(Entry) /\ authoritative = AtRest(Entry)
  /\ history = <<>> /\ typed = <<>>
  /\ served = AtRest(Entry) /\ acks = {} /\ faithful = TRUE
PredictionNext ==
  \/ Frame
  \/ ServerSteps
  \/ \E push \in Pushes : ServerPushes(push)
  \/ \E server \in acks : ReceiveServerState(server)
PredictionSpec == PredictionInit /\ [][PredictionNext]_predictionvars

(* A server state the client can build on: none newer was taken before it, *)
(* and the history still holds every input it has not seen.                *)
Usable(server) ==
  /\ server.sequence >= authoritative.sequence
  /\ \A i \in (server.sequence + 1)..Len(typed) : Contains(history, typed[i])

(* Whatever the network did before, a usable server state leaves the shown *)
(* avatar exactly where that state and every input typed since lead, and   *)
(* it moves nothing if the server has run what the client typed: an honest *)
(* server never makes the avatar jump (reconcile_with_server).             *)
PredictionTracks ==
  [][\A server \in acks : Usable(server) /\ ReceiveServerState(server) =>
       LET since == SubSeq(typed, server.sequence + 1, Len(typed))
       IN  /\ predicted'.at = Replay(server, since).at
           /\ predicted'.height = Replay(server, since).height
           /\ faithful => UNCHANGED predicted]_predictionvars
=============================================================================
