------------------------------- MODULE MCLive -------------------------------
(* What must come to an end: the queue of a dock, and the threads of a     *)
(* server that is stopped, with its network or its pool at work.  While    *)
(* the docks work the server is down; while it runs they lie idle, which   *)
(* no step of theirs would change.                                         *)
EXTENDS MCLogisticsDocks, Threads

VARIABLE live   \* "docks", "network" or "pool"

LiveVars == <<allVars, threadvars, live>>

ServerIsDown ==
  /\ running = FALSE /\ at = [rx |-> "ended", tx |-> "ended", sim |-> "ended", owner |-> "gone"]
  /\ arrived = 0 /\ socket = 0 /\ inbound = 0 /\ outbound = 0 /\ greeted = FALSE
  /\ worker = [w \in PoolThread |-> [at |-> "ended", job |-> NoJob]]
  /\ jobQueue = <<>> /\ sender = FALSE /\ handed = {} /\ finished = <<>>

LiveInit ==
  /\ DocksInit /\ live \in {"docks", "network", "pool"}
  /\ IF live = "docks" THEN ServerIsDown ELSE ThreadsInit
LiveNext ==
  \/ live = "docks" /\ UNCHANGED <<threadvars, live>> /\ DocksNext
  \/ /\ live # "docks" /\ UNCHANGED <<allVars, live>> /\ ThreadsNext
     /\ live = "network" => handed' = {}
     /\ live = "pool" => arrived' = 0 /\ (at'["owner"] = "serving" => running')

LiveSpec == LiveInit /\ [][LiveNext]_LiveVars /\ WF_allVars(live = "docks" /\ Step) /\ ThreadsFair
=============================================================================
