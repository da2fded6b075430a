------------------------------ MODULE Threads -------------------------------
(***************************************************************************)
(* The threads of game-protocol/threaded.rs: one takes datagrams from the  *)
(* socket, one runs the simulation, one sends what the simulation answers, *)
(* and a pool of workers runs jobs the owner of the handle gives it.  Here *)
(* a datagram is one of a number that wait; what a tick does with it is    *)
(* the subject of module Session.  The channels between the threads are    *)
(* closed by the end of the thread that holds their other end.             *)
(***************************************************************************)
EXTENDS Naturals, Sequences, FiniteSets

CONSTANTS
  PoolThread,      \* the workers, at least one (num_workers.max(1))
  PoolJob,         \* the jobs the owner may hand in
  Panicking,       \* those that panic
  MaxDatagrams,    \* how many datagrams ever arrive
  MaxWaiting       \* how many answers are told apart in the outbound channel

ASSUME PoolAssumption ==
  /\ PoolThread # {} /\ Panicking \subseteq PoolJob
  /\ MaxDatagrams \in Nat /\ MaxWaiting \in Nat

VARIABLES
  running,     \* the flag all threads share
  at,          \* where the threads "rx", "tx" and "sim" and the "owner" are
  arrived,     \* datagrams that have reached the socket so far
  socket,      \* datagrams in the socket
  inbound,     \* datagrams between ingress and simulation
  outbound,    \* answers and snapshots between simulation and egress
  greeted,     \* the simulation has a session to broadcast to
  worker,      \* [at, job] for each worker of the pool
  jobQueue,    \* jobs no worker has taken
  sender,      \* the pool still holds the sending end of its channel
  handed,      \* jobs handed in
  finished     \* jobs that were run to their end or their panic, in order

netvars == <<at, arrived, socket, inbound, outbound, greeted>>
poolvars == <<worker, jobQueue, sender, handed, finished>>
threadvars == <<running, netvars, poolvars>>

Over == {"ended", "dead"}
AtMostWaiting(n) == IF n > MaxWaiting THEN MaxWaiting ELSE n
Moves(thread, from, to) == at[thread] = from /\ at' = [at EXCEPT ![thread] = to]

-----------------------------------------------------------------------------
(* The network and the simulation.                                         *)

Arrive ==
  /\ arrived < MaxDatagrams /\ at["rx"] # "ended"
  /\ arrived' = arrived + 1 /\ socket' = socket + 1
  /\ UNCHANGED <<running, at, inbound, outbound, greeted, poolvars>>

(* Ingress looks at the flag only when the socket is empty, and leaves     *)
(* without closing the socket when the simulation went before it.          *)
Ingress ==
  \/ /\ at["rx"] = "test"
     /\ Moves("rx", "test", IF running THEN "poll" ELSE "ended")
     /\ UNCHANGED <<running, arrived, socket, inbound, outbound, greeted, poolvars>>
  \/ /\ socket = 0 /\ Moves("rx", "poll", "test")
     /\ UNCHANGED <<running, arrived, socket, inbound, outbound, greeted, poolvars>>
  \/ /\ socket > 0 /\ socket' = socket - 1
     /\ IF at["sim"] = "ended"
        THEN Moves("rx", "poll", "ended") /\ UNCHANGED inbound
        ELSE Moves("rx", "poll", "poll") /\ inbound' = inbound + 1
     /\ UNCHANGED <<running, arrived, outbound, greeted, poolvars>>

(* What egress has not sent when the flag falls is never sent.             *)
Egress ==
  \/ /\ at["tx"] = "test"
     /\ Moves("tx", "test", IF running THEN "wait" ELSE "ended")
     /\ UNCHANGED <<running, arrived, socket, inbound, outbound, greeted, poolvars>>
  \/ /\ outbound > 0 /\ Moves("tx", "wait", "test")
     /\ outbound' = outbound - 1
     /\ UNCHANGED <<running, arrived, socket, inbound, greeted, poolvars>>
  \/ /\ outbound = 0
     /\ Moves("tx", "wait", IF at["sim"] = "ended" THEN "ended" ELSE "test")
     /\ UNCHANGED <<running, arrived, socket, inbound, outbound, greeted, poolvars>>

Sends(n) == outbound' = IF at["tx"] = "ended" THEN outbound ELSE AtMostWaiting(outbound + n)

Drain ==
  /\ inbound > 0 /\ Moves("sim", "drain", "drain")
  /\ inbound' = inbound - 1
  /\ \E hello \in BOOLEAN, answers \in {0, 1} :
       /\ hello => answers = 1
       /\ greeted' = (greeted \/ hello) /\ Sends(answers)
  /\ UNCHANGED <<running, arrived, socket, poolvars>>

Broadcast == Sends(IF greeted THEN 1 ELSE 0)

(* The simulation empties its inbox, ticks and tells its sessions.         *)
Simulate ==
  \/ /\ at["sim"] = "test"
     /\ Moves("sim", "test", IF running THEN "drain" ELSE "ended")
     /\ inbound' = IF running THEN inbound ELSE 0
     /\ UNCHANGED <<running, arrived, socket, outbound, greeted, poolvars>>
  \/ Drain
  \/ /\ inbound = 0 /\ Moves("sim", "drain", "test")
     /\ Broadcast
     /\ UNCHANGED <<running, arrived, socket, inbound, greeted, poolvars>>

-----------------------------------------------------------------------------
(* The worker pool.                                                        *)

AliveWorkers == {w \in PoolThread : worker[w].at \notin Over}
NoJob == 0
Works(w, from, to, job) ==
  /\ worker[w].at = from
  /\ worker' = [worker EXCEPT ![w] = [at |-> to, job |-> job]]

(* The receiving end is behind a mutex: a worker waits for a job with the  *)
(* mutex in its hands and the others wait for the mutex.                   *)
TakeLock(w) ==
  /\ \A v \in PoolThread : worker[v].at # "receiving"
  /\ Works(w, "locking", "receiving", NoJob)
  /\ UNCHANGED <<running, netvars, jobQueue, sender, handed, finished>>

Receive(w) ==
  \/ /\ jobQueue # <<>> /\ Works(w, "receiving", "running", Head(jobQueue))
     /\ jobQueue' = Tail(jobQueue)
     /\ UNCHANGED <<running, netvars, sender, handed, finished>>
  \/ /\ jobQueue = <<>> /\ ~sender /\ Works(w, "receiving", "ended", NoJob)
     /\ UNCHANGED <<running, netvars, jobQueue, sender, handed, finished>>

(* A job that panics takes its worker along, and the last worker to go     *)
(* takes the jobs that still wait.                                         *)
RunJob(w) ==
  LET job == worker[w].job IN
  /\ Works(w, "running", IF job \in Panicking THEN "dead" ELSE "locking", NoJob)
  /\ finished' = Append(finished, job)
  /\ jobQueue' = IF job \in Panicking /\ AliveWorkers = {w} THEN <<>> ELSE jobQueue
  /\ UNCHANGED <<running, netvars, sender, handed>>

(* A pool without workers takes jobs and drops them.                       *)
Execute(job) ==
  /\ sender /\ at["owner"] = "serving" /\ job \notin handed
  /\ handed' = handed \cup {job}
  /\ jobQueue' = IF AliveWorkers = {} THEN jobQueue ELSE Append(jobQueue, job)
  /\ UNCHANGED <<running, netvars, worker, sender, finished>>

-----------------------------------------------------------------------------
(* The owner of the handle.                                                *)

Stop ==
  /\ running /\ at["owner"] = "serving" /\ running' = FALSE
  /\ UNCHANGED <<netvars, poolvars>>

(* Join waits for ingress, egress and simulation in turn and then drops    *)
(* the handle; a handle may also be dropped without waiting for anyone.    *)
Waits(after, thread) == [after |-> after, thread |-> thread]
Joins == [ingress |-> Waits("egress", "rx"), egress |-> Waits("sim", "tx"), sim |-> Waits("dropping", "sim")]
Leave ==
  /\ Moves("owner", "serving", "ingress") \/ Moves("owner", "serving", "dropping")
  /\ running' = FALSE
  /\ UNCHANGED <<arrived, socket, inbound, outbound, greeted, poolvars>>
JoinNext ==
  \E step \in DOMAIN Joins :
    /\ at[Joins[step].thread] = "ended"
    /\ Moves("owner", step, Joins[step].after)
    /\ UNCHANGED <<running, arrived, socket, inbound, outbound, greeted, poolvars>>

(* Fault: the pool waits for its workers with the sender still in hand.    *)
ClosePoolInHand ==
  /\ Moves("owner", "dropping", "closing")
  /\ UNCHANGED <<running, arrived, socket, inbound, outbound, greeted, poolvars>>

(* Dropping the handle drops the pool, which drops its sender first.       *)
ClosePool ==
  /\ Moves("owner", "dropping", "closing")
  /\ sender' = FALSE
  /\ UNCHANGED <<running, arrived, socket, inbound, outbound, greeted,
                 worker, jobQueue, handed, finished>>
PoolJoined ==
  /\ AliveWorkers = {} /\ Moves("owner", "closing", "gone")
  /\ UNCHANGED <<running, arrived, socket, inbound, outbound, greeted, poolvars>>

-----------------------------------------------------------------------------
ThreadsInit ==
  /\ running = TRUE
  /\ at = [rx |-> "test", tx |-> "test", sim |-> "test", owner |-> "serving"]
  /\ arrived = 0 /\ socket = 0 /\ inbound = 0 /\ outbound = 0 /\ greeted = FALSE
  /\ worker = [w \in PoolThread |-> [at |-> "locking", job |-> NoJob]]
  /\ jobQueue = <<>> /\ sender = TRUE /\ handed = {} /\ finished = <<>>

WorkerRuns(w) == TakeLock(w) \/ Receive(w) \/ RunJob(w)
OwnerWaits == JoinNext \/ ClosePool \/ PoolJoined
ThreadsNext ==
  \/ Arrive \/ Ingress \/ Egress \/ Simulate
  \/ \E w \in PoolThread : WorkerRuns(w)
  \/ \E job \in PoolJob : Execute(job)
  \/ Stop \/ Leave \/ OwnerWaits

(* Every thread that can go on is scheduled again; whether anything        *)
(* arrives, is handed in or is stopped is up to others.                    *)
ThreadsFair ==
  /\ WF_threadvars(Ingress) /\ WF_threadvars(Egress) /\ WF_threadvars(Simulate)
  /\ \A w \in PoolThread : WF_threadvars(WorkerRuns(w))
  /\ WF_threadvars(OwnerWaits)
ThreadsSpec == ThreadsInit /\ [][ThreadsNext]_threadvars /\ ThreadsFair

-----------------------------------------------------------------------------
(* Unless panics took every worker, the jobs that were handed in have run  *)
(* when the owner comes back, each once (threaded.rs:46-125).              *)
JobsDone ==
  at["owner"] = "gone" /\ (\E w \in PoolThread : worker[w].at = "ended") =>
    \A job \in handed : \E i \in DOMAIN finished :
      finished[i] = job /\ \A k \in DOMAIN finished \ {i} : finished[k] # job

(* "Wait for all server threads ... to exit cleanly" (threaded.rs:220) and *)
(* "join all worker threads cleanly" (threaded.rs:117): however the flag   *)
(* falls between the steps of the others, every thread ends and the owner  *)
(* comes back, with the jobs done.                                         *)
StopIsClean ==
  /\ ~running ~> \A t \in {"rx", "tx", "sim"} : at[t] = "ended"
  /\ at["owner"] # "serving" ~> at["owner"] = "gone"
  /\ []JobsDone
=============================================================================
