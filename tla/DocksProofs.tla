----------------------------- MODULE DocksProofs -----------------------------
(***************************************************************************)
(* Proofs about LogisticsDocks, for every line of docks, every number of   *)
(* haulers, jobs and ticks: vessels stand in line once, a dock serves one  *)
(* of its own, and whatever a tick of the docks does with jobs that other  *)
(* commands change meanwhile, the books of the job board stay balanced.    *)
(* Last, what both jobs and clients do to goods of a faction, from the     *)
(* sums of LogisticsProofs.  The last section is about the other place     *)
(* only one can take, the ground of a structure: however sites are asked   *)
(* for and given up, two that stand share none of it.  The code tests the  *)
(* cells of a site, the wall grid and the boxes of structures at its       *)
(* height; the cells alone would do, which is what the preview and the     *)
(* proof rely on (Placement).                                              *)
(***************************************************************************)
EXTENDS LogisticsDocks, LogisticsProofs, Placement

-----------------------------------------------------------------------------
(* The worlds a step of the simulation goes through.                       *)

Reached(w, n) == {x \in Worlds : Sound(x, n) /\ Later(w, x)}

Ticketed(w, s) == s.worker \in Worker /\ s.job \in DOMAIN w.jobs

(* A countdown that ends picks up, drops off, or finds its job changed and *)
(* does nothing; the world it leaves is sound, and no job is earlier in    *)
(* it.                                                                     *)
LEMMA TransactReaches ==
  ASSUME Endpoint \cap Worker = {}, NEW w \in Worlds, NEW n, NEW x \in Reached(w, n),
         NEW s, Ticketed(w, s)
  PROVE  Transact(x, s) \in Reached(w, n)
  <1>1. x \in Worlds /\ Sound(x, n) /\ Later(w, x)
    BY DEF Reached
  <1>2. s.worker \in Worker /\ s.job \in DOMAIN x.jobs
    BY <1>1 DEF Ticketed, Later
  <1>3. PICK v \in Worker, j \in DOMAIN x.jobs : v = s.worker /\ j = s.job
    BY <1>2
  <1>4. CASE Transact(x, s) = x
    BY <1>4
  <1>5. CASE CanPickup(x, j, v) /\ Transact(x, s) = AfterPickup(x, j, v)
    <2>1. PICK u : u = AfterPickup(x, j, v)
      OBVIOUS
    <2>2. Sound(u, n) /\ Restated(x.jobs, u.jobs, j, "InTransit") /\ x.jobs[j].status = "Claimed"
      BY <1>1, <1>5, <2>1, PickupSound
    <2>3. Later(x, u) /\ u \in Worlds
      BY <2>2, PickupLater DEF Sound
    <2>4. Later(w, u)
      BY <1>1, <2>3, LaterStill
    <2> QED
      BY <1>5, <2>1, <2>2, <2>3, <2>4 DEF Reached
  <1>6. CASE CanDropoff(x, j, v) /\ Transact(x, s) = AfterDropoff(x, j, v)
    <2>1. PICK u : u = AfterDropoff(x, j, v)
      OBVIOUS
    <2>2. Sound(u, n) /\ Restated(x.jobs, u.jobs, j, "Completed") /\ x.jobs[j].status = "InTransit"
      BY <1>1, <1>6, <2>1, DropoffSound
    <2>3. Later(x, u) /\ u \in Worlds
      BY <2>2, DropoffLater DEF Sound
    <2>4. Later(w, u)
      BY <1>1, <2>3, LaterStill
    <2> QED
      BY <1>6, <2>1, <2>2, <2>3, <2>4 DEF Reached
  <1> QED
    BY <1>3, <1>4, <1>5, <1>6, Zenon DEF Transact

Tickets(w, sessions) ==
  /\ Len(sessions) \in Nat
  /\ \A i \in 1 .. Len(sessions) : Ticketed(w, sessions[i])

(* So for a list of them, one after the other,                             *)
LEMMA SettledReaches ==
  ASSUME Endpoint \cap Worker = {}, NEW w \in Worlds, NEW n, NEW x \in Reached(w, n),
         NEW sessions, Tickets(w, sessions)
  PROVE  Settled(x, sessions) \in Reached(w, n)
  <1> DEFINE m == Len(sessions)
             A == Reached(w, n)
             Solves(g) == g = [i \in 0 .. m |-> IF i = 0 THEN x ELSE Transact(g[i - 1], sessions[i])]
             after == CHOOSE g : Solves(g)
             step == [p \in A \X (1 .. m) |-> Transact(p[1], sessions[p[2]])]
  <1>1. m \in Nat /\ \A i \in 1 .. m : Ticketed(w, sessions[i])
    BY DEF Tickets
  <1>2. Settled(x, sessions) = after[m]
    BY DEF Settled
  <1>3. \A y \in A, i \in 1 .. m : Transact(y, sessions[i]) \in A
    BY <1>1, TransactReaches
  <1> HIDE DEF m, A
  <1>4. step \in [A \X (1 .. m) -> A]
    BY <1>3
  <1>5. \A y \in A, i \in 1 .. m : step[<<y, i>>] = Transact(y, sessions[i])
    OBVIOUS
  <1>6. x \in A
    BY DEF A
  <1> HIDE DEF step
  <1>7. PICK g : Stepwise(g, m, x, step) /\ g \in [0 .. m -> A]
    BY <1>1, <1>4, <1>6, StepwiseExists, Zenon
  <1>8. ASSUME NEW i \in 0 .. m
        PROVE  g[i] = IF i = 0 THEN x ELSE Transact(g[i - 1], sessions[i])
    <2>1. g[i] = IF i = 0 THEN x ELSE step[<<g[i - 1], i>>]
      BY <1>7, Zenon DEF Stepwise
    <2>2. i # 0 => i - 1 \in 0 .. m /\ i \in 1 .. m
      BY <1>1
    <2>3. i # 0 => g[i - 1] \in A
      BY <1>7, <2>2
    <2> QED
      BY <1>5, <2>1, <2>2, <2>3
  <1>9. Solves(g)
    BY <1>7, <1>8
  <1>10. Solves(after)
    BY <1>9, Zenon
  <1> HIDE DEF after
  <1>11. after[0] = x
    BY <1>1, <1>10
  <1>12. \A i \in 1 .. m : after[i] = Transact(after[i - 1], sessions[i])
    BY <1>1, <1>10
  <1> HIDE DEF Solves
  <1> DEFINE S == {i \in Nat : i <= m => after[i] \in A}
  <1>13. 0 \in S
    BY <1>6, <1>11
  <1>14. ASSUME NEW i \in Nat, i \in S PROVE i + 1 \in S
    <2>1. CASE i + 1 <= m
      <3>1. i + 1 \in 1 .. m /\ (i + 1) - 1 = i /\ after[i] \in A
        BY <1>1, <1>14, <2>1
      <3>2. after[i + 1] = Transact(after[i], sessions[i + 1])
        BY <1>12, <3>1
      <3> QED
        BY <1>3, <3>1, <3>2
    <2> QED
      BY <2>1
  <1> HIDE DEF S
  <1>15. m \in S
    BY <1>1, <1>13, <1>14, NaturalInduction
  <1> QED
    BY <1>1, <1>2, <1>15 DEF S, A

AllTickets(w, worked) == \A d \in Docks : Tickets(w, worked[d])

(* for the lists of all docks, and for the journeys that end after them.   *)
LEMMA SettleReaches ==
  ASSUME Endpoint \cap Worker = {}, Sound(World, nextReservationId),
         NEW worked, AllTickets(World, worked),
         Len(transports) \in Nat, DOMAIN transports = 1 .. Len(transports),
         \A i \in 1 .. Len(transports) : transports[i].hauler \in Worker /\ transports[i].job \in DOMAIN jobs
  PROVE  Settle(worked) \in Reached(World, nextReservationId)
  <1> DEFINE n == nextReservationId
             m == Len(Dock)
             A == Reached(World, n)
             Solves(g) == g = [i \in 0 .. m |-> IF i = 0 THEN World ELSE Settled(g[i - 1], worked[Dock[i]])]
             docked == CHOOSE g : Solves(g)
             step == [p \in A \X (1 .. m) |-> Settled(p[1], worked[Dock[p[2]]])]
             Landing(t) == [worker |-> t.hauler, job |-> t.job, action |-> "Dropoff", left |-> t.left]
             landed == [i \in DOMAIN transports |-> Landing(transports[i])]
  <1>1. m \in Nat /\ \A i \in 1 .. m : Dock[i] \in Docks
    BY DockAssumption DEF Docks
  <1>2. Settle(worked) = Settled(docked[m], landed)
    BY DEF Settle
  <1>0. World \in Worlds /\ World \in A /\ World.jobs = jobs
    BY WorldNow, StaysSame DEF Sound, Reached
  <1>3. \A y \in A, i \in 1 .. m : Settled(y, worked[Dock[i]]) \in A
    <2> SUFFICES ASSUME NEW y \in A, NEW i \in 1 .. m PROVE Settled(y, worked[Dock[i]]) \in A
      OBVIOUS
    <2>0. PICK k : k = n
      OBVIOUS
    <2>1. PICK w \in Worlds : w = World
      BY <1>0
    <2>2. PICK sessions : sessions = worked[Dock[i]]
      OBVIOUS
    <2>3. Tickets(w, sessions) /\ y \in Reached(w, k)
      BY <1>1, <2>0, <2>1, <2>2 DEF AllTickets
    <2>4. Settled(y, sessions) \in Reached(w, k)
      BY <2>3, SettledReaches
    <2> QED
      BY <2>0, <2>1, <2>2, <2>4
  <1>l. Tickets(World, landed)
    <2>1. DOMAIN landed = 1 .. Len(transports) /\ Len(landed) = Len(transports)
      OBVIOUS
    <2>2. \A i \in 1 .. Len(transports) : Ticketed(World, landed[i])
      BY <1>0 DEF Ticketed
    <2> QED
      BY <2>1, <2>2 DEF Tickets
  <1> HIDE DEF m, A, landed
  <1>4. step \in [A \X (1 .. m) -> A]
    BY <1>3
  <1>5. \A y \in A, i \in 1 .. m : step[<<y, i>>] = Settled(y, worked[Dock[i]])
    OBVIOUS
  <1> HIDE DEF step
  <1>7. PICK g : Stepwise(g, m, World, step) /\ g \in [0 .. m -> A]
    BY <1>0, <1>1, <1>4, StepwiseExists, Zenon
  <1>8. ASSUME NEW i \in 0 .. m
        PROVE  g[i] = IF i = 0 THEN World ELSE Settled(g[i - 1], worked[Dock[i]])
    <2>1. g[i] = IF i = 0 THEN World ELSE step[<<g[i - 1], i>>]
      BY <1>7, Zenon DEF Stepwise
    <2>2. i # 0 => i - 1 \in 0 .. m /\ i \in 1 .. m
      BY <1>1
    <2>3. i # 0 => g[i - 1] \in A
      BY <1>7, <2>2
    <2> QED
      BY <1>5, <2>1, <2>2, <2>3
  <1>9. Solves(g)
    BY <1>7, <1>8
  <1>10. Solves(docked)
    BY <1>9, Zenon
  <1> HIDE DEF docked
  <1>11. docked[0] = World
    BY <1>1, <1>10
  <1>12. \A i \in 1 .. m : docked[i] = Settled(docked[i - 1], worked[Dock[i]])
    BY <1>1, <1>10
  <1> HIDE DEF Solves
  <1> DEFINE S == {i \in Nat : i <= m => docked[i] \in A}
  <1>13. 0 \in S
    BY <1>0, <1>11
  <1>14. ASSUME NEW i \in Nat, i \in S PROVE i + 1 \in S
    <2>1. CASE i + 1 <= m
      <3>1. i + 1 \in 1 .. m /\ (i + 1) - 1 = i /\ docked[i] \in A
        BY <1>1, <1>14, <2>1
      <3>2. docked[i + 1] = Settled(docked[i], worked[Dock[i + 1]])
        BY <1>12, <3>1
      <3> QED
        BY <1>3, <3>1, <3>2
    <2> QED
      BY <2>1
  <1> HIDE DEF S
  <1>15. m \in S
    BY <1>1, <1>13, <1>14, NaturalInduction, Zenon
  <1>16. docked[m] \in A
    BY <1>1, <1>15 DEF S
  <1>17. PICK w \in Worlds : w = World
    BY <1>0
  <1>18. PICK k, x : k = n /\ x = docked[m]
    OBVIOUS
  <1>19. x \in Reached(w, k) /\ Tickets(w, landed)
    BY <1>l, <1>16, <1>17, <1>18 DEF A
  <1>20. Settled(x, landed) \in Reached(w, k)
    BY <1>19, SettledReaches
  <1> QED
    BY <1>2, <1>17, <1>18, <1>20

-----------------------------------------------------------------------------
(* The line at a dock.                                                     *)

(* Sessions at dock d, those it has and those it may begin.                *)
AtDock(d) == Range(servicing[d]) \cup {SessionFor(v) : v \in {x \in Worker : ActiveJobs(x) # {}}}

Manned(s) == s = [worker |-> s.worker, job |-> s.job, left |-> s.left, action |-> s.action]

OneBerth(sessions) ==
  \A i, k \in DOMAIN sessions : sessions[i].worker = sessions[k].worker => i = k

(* The vessels of q behind place i are in no other place of the line.      *)
Behind(line, q, i) ==
  \A h \in i + 1 .. Len(q) :
    /\ \A a \in DOMAIN line.queue : line.queue[a] # q[h]
    /\ ~Serves(line.servicing, q[h])

LineGood(line, T, q, i) ==
  /\ line \in [queue : Seq(Worker), servicing : Seq(T)]
  /\ IsInjective(line.queue) /\ OneBerth(line.servicing)
  /\ \A a \in DOMAIN line.queue : ~Serves(line.servicing, line.queue[a])
  /\ Len(line.servicing) < Berths => line.queue = <<>>
  /\ Behind(line, q, i)

(* A vessel with work gets a session of its own.                           *)
LEMMA SessionMans ==
  ASSUME NEW v
  PROVE  SessionFor(v).worker = v /\ Manned(SessionFor(v))
  BY DEF SessionFor, Manned

(* One vessel leaves the queue: for a berth, or for want of a job.         *)
LEMMA ServedGood ==
  ASSUME NEW T, NEW q \in Seq(Worker), IsInjective(q), NEW i \in Nat, i + 1 <= Len(q),
         NEW line, LineGood(line, T, q, i),
         \A v \in Worker : ActiveJobs(v) # {} => SessionFor(v) \in T
  PROVE  LineGood(Served(line, q[i + 1]), T, q, i + 1)
  <1> DEFINE v == q[i + 1]
             new == Served(line, v)
  <1>1. v \in Worker /\ i + 1 \in 1 .. Len(q) /\ Len(q) \in Nat
    OBVIOUS
  <1>2. /\ line \in [queue : Seq(Worker), servicing : Seq(T)]
        /\ IsInjective(line.queue) /\ OneBerth(line.servicing)
        /\ \A a \in DOMAIN line.queue : ~Serves(line.servicing, line.queue[a])
        /\ Len(line.servicing) < Berths => line.queue = <<>>
        /\ Behind(line, q, i)
    BY DEF LineGood
  <1>3. line.queue \in Seq(Worker) /\ line.servicing \in Seq(T) /\ Len(line.servicing) \in Nat
    BY <1>2
  <1>4. (\A a \in DOMAIN line.queue : line.queue[a] # v) /\ ~Serves(line.servicing, v)
    BY <1>1, <1>2 DEF Behind
  <1>5. \A h \in (i + 1) + 1 .. Len(q) : h \in i + 1 .. Len(q) /\ h \in DOMAIN q /\ q[h] # v
    BY <1>1 DEF IsInjective
  <1>6. Behind(line, q, i + 1)
    BY <1>2, <1>5 DEF Behind
  <1> HIDE DEF v
  <1>7. CASE Len(line.servicing) >= Berths
    <2>1. PICK longer : longer = Append(line.queue, v)
      BY Zenon
    <2>2. /\ longer \in Seq(Worker) /\ DOMAIN longer = DOMAIN line.queue \cup {Len(line.queue) + 1}
          /\ longer[Len(line.queue) + 1] = v /\ Len(line.queue) + 1 \notin DOMAIN line.queue
          /\ \A a \in DOMAIN line.queue : longer[a] = line.queue[a]
      BY <1>1, <1>3, <2>1
    <2>3. new = [line EXCEPT !.queue = Append(@, v)]
      BY <1>7 DEF Served
    <2>4. /\ new \in [queue : Seq(Worker), servicing : Seq(T)]
          /\ new.queue = longer /\ new.servicing = line.servicing
      BY <1>2, <2>1, <2>2, <2>3, Zenon
    <2> HIDE DEF new
    <2>5. IsInjective(longer)
      BY <1>2, <1>4, <2>2 DEF IsInjective
    <2>6. \A a \in DOMAIN longer : ~Serves(line.servicing, longer[a])
      BY <1>2, <1>4, <2>2
    <2>7. Behind(new, q, i + 1)
      BY <1>5, <1>6, <2>2, <2>4 DEF Behind
    <2>8. ~(Len(new.servicing) < Berths)
      BY <1>3, <1>7, <2>4, DockAssumption
    <2>9. LineGood(new, T, q, i + 1)
      BY <1>2, <2>4, <2>5, <2>6, <2>7, <2>8 DEF LineGood
    <2> QED
      BY <2>9 DEF new, v
  <1>8. CASE Len(line.servicing) < Berths /\ ActiveJobs(v) = {}
    <2>1. new = line
      BY <1>3, <1>8, DockAssumption DEF Served
    <2> QED
      BY <1>2, <1>6, <2>1 DEF LineGood, v
  <1>9. CASE Len(line.servicing) < Berths /\ ActiveJobs(v) # {}
    <2>1. PICK s \in T : s = SessionFor(v)
      BY <1>1, <1>9
    <2>2. s.worker = v
      BY <2>1, SessionMans
    <2>3. PICK longer : longer = Append(line.servicing, s)
      BY Zenon
    <2>4. /\ longer \in Seq(T) /\ DOMAIN longer = DOMAIN line.servicing \cup {Len(line.servicing) + 1}
          /\ longer[Len(line.servicing) + 1] = s /\ Len(line.servicing) + 1 \notin DOMAIN line.servicing
          /\ \A a \in DOMAIN line.servicing : longer[a] = line.servicing[a]
      BY <1>3, <2>3
    <2>5. new = [line EXCEPT !.servicing = Append(@, s)]
      BY <1>3, <1>9, <2>1, DockAssumption DEF Served
    <2>6. /\ new \in [queue : Seq(Worker), servicing : Seq(T)]
          /\ new.servicing = longer /\ new.queue = line.queue
      BY <1>2, <2>3, <2>4, <2>5, Zenon
    <2> HIDE DEF new
    <2>7. OneBerth(longer)
      BY <1>2, <1>4, <2>2, <2>4 DEF OneBerth, Serves
    <2>8. line.queue = <<>>
      BY <1>2, <1>9
    <2>9. Behind(new, q, i + 1)
      <3>1. \A x : Serves(longer, x) => Serves(line.servicing, x) \/ x = v
        BY <2>2, <2>4 DEF Serves
      <3> QED
        BY <1>5, <1>6, <2>6, <3>1 DEF Behind
    <2>10. LineGood(new, T, q, i + 1)
      BY <1>2, <2>6, <2>7, <2>8, <2>9 DEF LineGood
    <2> QED
      BY <2>10 DEF new, v
  <1> QED
    BY <1>3, <1>7, <1>8, <1>9, DockAssumption

(* What a list of sessions is when only their workers matter.              *)
IsList(s) == s \in Seq(Range(s))

(* admit_from_queue: the line that is left is the one there was, without   *)
(* those that were served, and no berth is left free while a vessel waits. *)
LEMMA AdmitGood ==
  ASSUME NEW d \in Docks, queue[d] \in Seq(Worker), IsInjective(queue[d]),
         IsList(servicing[d]), OneBerth(servicing[d]),
         \A a \in DOMAIN queue[d] : ~Serves(servicing[d], queue[d][a])
  PROVE  LineGood(Admit(d), AtDock(d), queue[d], Len(queue[d]))
  <1> DEFINE q == queue[d]
             m == Len(q)
             T == AtDock(d)
             A == [queue : Seq(Worker), servicing : Seq(T)]
             base == [queue |-> <<>>, servicing |-> servicing[d]]
             Solves(g) == g = [i \in 0 .. m |-> IF i = 0 THEN base ELSE Served(g[i - 1], q[i])]
             line == CHOOSE g : Solves(g)
             step == [p \in A \X (1 .. m) |-> Served(p[1], q[p[2]])]
  <1>1. m \in Nat /\ q \in Seq(Worker) /\ IsInjective(q) /\ \A i \in 1 .. m : q[i] \in Worker
    OBVIOUS
  <1>2. Admit(d) = line[m]
    BY DEF Admit
  <1>3. \A v \in Worker : ActiveJobs(v) # {} => SessionFor(v) \in T
    BY DEF AtDock
  <1>4. base \in A
    BY DEF IsList, AtDock
  <1>5. LineGood(base, T, q, 0)
    <2>1. Behind(base, q, 0)
      BY DEF Behind
    <2>2. base.queue = <<>> /\ IsInjective(<<>>) /\ base.servicing = servicing[d]
      BY DEF IsInjective
    <2> QED
      BY <1>4, <2>1, <2>2 DEF LineGood
  <1> HIDE DEF base, T, m
  <1>6. \A y \in A, i \in 1 .. m : Served(y, q[i]) \in A
    <2> SUFFICES ASSUME NEW y \in A, NEW i \in 1 .. m PROVE Served(y, q[i]) \in A
      OBVIOUS
    <2>1. PICK v \in Worker : v = q[i]
      BY <1>1
    <2>2. Append(y.queue, v) \in Seq(Worker)
      OBVIOUS
    <2>3. ActiveJobs(v) # {} => Append(y.servicing, SessionFor(v)) \in Seq(T)
      BY <1>3
    <2>4. [y EXCEPT !.queue = Append(@, v)] \in A
      BY <2>2, Zenon
    <2>5. ActiveJobs(v) # {} => [y EXCEPT !.servicing = Append(@, SessionFor(v))] \in A
      BY <2>3, Zenon
    <2> QED
      BY <2>1, <2>4, <2>5 DEF Served
  <1> HIDE DEF A, q
  <1>7. step \in [A \X (1 .. m) -> A]
    BY <1>6
  <1>8. \A y \in A, i \in 1 .. m : step[<<y, i>>] = Served(y, q[i])
    OBVIOUS
  <1> HIDE DEF step
  <1>9. PICK g : Stepwise(g, m, base, step) /\ g \in [0 .. m -> A]
    BY <1>1, <1>4, <1>7, StepwiseExists, Zenon
  <1>10. ASSUME NEW i \in 0 .. m
         PROVE  g[i] = IF i = 0 THEN base ELSE Served(g[i - 1], q[i])
    <2>1. g[i] = IF i = 0 THEN base ELSE step[<<g[i - 1], i>>]
      BY <1>9, Zenon DEF Stepwise
    <2>2. i # 0 => i - 1 \in 0 .. m /\ i \in 1 .. m
      BY <1>1
    <2>3. i # 0 => g[i - 1] \in A
      BY <1>9, <2>2
    <2> QED
      BY <1>8, <2>1, <2>2, <2>3
  <1>11. Solves(g)
    BY <1>9, <1>10
  <1>12. Solves(line)
    BY <1>11, Zenon
  <1> HIDE DEF line
  <1>13. line[0] = base
    BY <1>1, <1>12
  <1>14. \A i \in 1 .. m : line[i] = Served(line[i - 1], q[i])
    BY <1>1, <1>12
  <1> HIDE DEF Solves
  <1> DEFINE S == {i \in Nat : i <= m => LineGood(line[i], T, q, i)}
  <1>15. 0 \in S
    BY <1>5, <1>13
  <1>16. ASSUME NEW i \in Nat, i \in S PROVE i + 1 \in S
    <2>1. CASE i + 1 <= m
      <3>1. i + 1 \in 1 .. m /\ (i + 1) - 1 = i /\ LineGood(line[i], T, q, i)
        BY <1>1, <1>16, <2>1
      <3>2. line[i + 1] = Served(line[i], q[i + 1])
        BY <1>14, <3>1
      <3>3. i + 1 <= Len(q)
        BY <2>1 DEF m
      <3>4. LineGood(Served(line[i], q[i + 1]), T, q, i + 1)
        BY <1>1, <1>3, <3>1, <3>3, ServedGood
      <3> QED
        BY <3>2, <3>4
    <2> QED
      BY <2>1
  <1> HIDE DEF S
  <1>17. m \in S
    BY <1>1, <1>15, <1>16, NaturalInduction
  <1> QED
    BY <1>1, <1>2, <1>17 DEF S, m, q, T

(* What is left of a list is made of its entries, in their order.          *)
Left(kept, s, i) ==
  /\ kept \in Seq(Range(s))
  /\ \A a \in DOMAIN kept : \E h \in 1 .. i : kept[a] = s[h]
  /\ OneBerth(s) => OneBerth(kept)

(* Underway drops the countdowns that have ended, and only those.          *)
LEMMA UnderwayLeft ==
  ASSUME NEW s, IsList(s)
  PROVE  Left(Underway(s), s, Len(s))
  <1> DEFINE m == Len(s)
             A == Seq(Range(s))
             Stays(k, i) == IF s[i].left > 0 THEN Append(k, s[i]) ELSE k
             Solves(g) == g = [i \in 0 .. m |-> IF i = 0 THEN <<>>
                                 ELSE IF s[i].left > 0 THEN Append(g[i - 1], s[i]) ELSE g[i - 1]]
             kept == CHOOSE g : Solves(g)
             step == [p \in A \X (1 .. m) |-> Stays(p[1], p[2])]
  <1>1. m \in Nat /\ DOMAIN s = 1 .. m /\ \A i \in 1 .. m : s[i] \in Range(s)
    BY DEF IsList, Range
  <1>2. Underway(s) = kept[m]
    BY DEF Underway
  <1>3. \A y \in A, i \in 1 .. m : Stays(y, i) \in A
    BY <1>1
  <1>4. <<>> \in A
    OBVIOUS
  <1> HIDE DEF A, m, Stays
  <1>7. step \in [A \X (1 .. m) -> A]
    BY <1>3
  <1>8. \A y \in A, i \in 1 .. m : step[<<y, i>>] = Stays(y, i)
    OBVIOUS
  <1> HIDE DEF step
  <1>9. PICK g : Stepwise(g, m, <<>>, step) /\ g \in [0 .. m -> A]
    BY <1>1, <1>4, <1>7, StepwiseExists, Zenon
  <1>10. ASSUME NEW i \in 0 .. m
         PROVE  g[i] = IF i = 0 THEN <<>>
                       ELSE IF s[i].left > 0 THEN Append(g[i - 1], s[i]) ELSE g[i - 1]
    <2>1. g[i] = IF i = 0 THEN <<>> ELSE step[<<g[i - 1], i>>]
      BY <1>9, Zenon DEF Stepwise
    <2>2. i # 0 => i - 1 \in 0 .. m /\ i \in 1 .. m
      BY <1>1
    <2>3. i # 0 => g[i - 1] \in A
      BY <1>9, <2>2
    <2>4. i # 0 => g[i] = Stays(g[i - 1], i)
      BY <1>8, <2>1, <2>2, <2>3
    <2> QED
      BY <2>1, <2>4 DEF Stays
  <1>11. Solves(g)
    BY <1>9, <1>10, Zenon
  <1>12. Solves(kept)
    BY <1>11, Zenon
  <1> HIDE DEF kept
  <1>13. kept[0] = <<>>
    BY <1>1, <1>12
  <1>14. ASSUME NEW i \in 1 .. m
         PROVE  kept[i] = IF s[i].left > 0 THEN Append(kept[i - 1], s[i]) ELSE kept[i - 1]
    <2>1. i \in 0 .. m /\ i # 0
      BY <1>1
    <2>2. kept[i] = IF i = 0 THEN <<>>
                    ELSE IF s[i].left > 0 THEN Append(kept[i - 1], s[i]) ELSE kept[i - 1]
      BY <1>12, <2>1, Zenon
    <2> QED
      BY <2>1, <2>2
  <1> HIDE DEF Solves
  <1> DEFINE S == {i \in Nat : i <= m => Left(kept[i], s, i)}
  <1>15. 0 \in S
    <2>1. <<>> \in Seq(Range(s)) /\ DOMAIN <<>> = {}
      OBVIOUS
    <2>2. Left(<<>>, s, 0)
      BY <2>1 DEF Left, OneBerth
    <2> QED
      BY <1>13, <2>2
  <1>16. ASSUME NEW i \in Nat, i \in S PROVE i + 1 \in S
    <2> SUFFICES ASSUME i + 1 <= m PROVE Left(kept[i + 1], s, i + 1)
      OBVIOUS
    <2>1. i + 1 \in 1 .. m /\ (i + 1) - 1 = i /\ Left(kept[i], s, i)
      BY <1>1, <1>16
    <2>2. PICK x \in Range(s) : x = s[i + 1]
      BY <1>1, <2>1
    <2>3. kept[i + 1] = IF x.left > 0 THEN Append(kept[i], x) ELSE kept[i]
      BY <1>14, <2>1, <2>2
    <2>4. PICK k \in Seq(Range(s)) : k = kept[i]
      BY <2>1 DEF Left
    <2>5. /\ \A a \in DOMAIN k : \E h \in 1 .. i : k[a] = s[h]
          /\ OneBerth(s) => OneBerth(k)
      BY <2>1, <2>4 DEF Left
    <2>6. \A h \in 1 .. i : h \in 1 .. i + 1 /\ h # i + 1 /\ h \in DOMAIN s
      BY <1>1, <2>1
    <2>7. CASE kept[i + 1] = k
      BY <2>5, <2>6, <2>7 DEF Left
    <2>8. CASE kept[i + 1] = Append(k, x)
      <3>1. PICK longer : longer = Append(k, x)
        BY Zenon
      <3>2. /\ longer \in Seq(Range(s)) /\ DOMAIN longer = DOMAIN k \cup {Len(k) + 1}
            /\ longer[Len(k) + 1] = x /\ Len(k) + 1 \notin DOMAIN k
            /\ \A a \in DOMAIN k : longer[a] = k[a]
        BY <3>1
      <3>3. \A a \in DOMAIN longer : \E h \in 1 .. i + 1 : longer[a] = s[h]
        BY <2>1, <2>2, <2>5, <2>6, <3>2
      <3>4. ASSUME OneBerth(s) PROVE OneBerth(longer)
        <4>1. \A a \in DOMAIN k : k[a].worker # x.worker
          BY <1>1, <2>1, <2>2, <2>5, <2>6, <3>4, Zenon DEF OneBerth
        <4> QED
          BY <2>5, <3>2, <3>4, <4>1 DEF OneBerth
      <3> QED
        BY <2>8, <3>1, <3>2, <3>3, <3>4 DEF Left
    <2> QED
      BY <2>3, <2>4, <2>7, <2>8
  <1> HIDE DEF S
  <1>17. m \in S
    BY <1>1, <1>15, <1>16, NaturalInduction
  <1> QED
    BY <1>1, <1>2, <1>17 DEF S, m

LEMMA LeftIsList ==
  ASSUME NEW s, IsList(s), NEW kept, Left(kept, s, Len(s))
  PROVE  /\ IsList(kept)
         /\ \A a \in DOMAIN kept : \E h \in DOMAIN s : kept[a] = s[h]
  <1>1. Len(s) \in Nat /\ DOMAIN s = 1 .. Len(s)
    BY DEF IsList
  <1>2. kept \in Seq(Range(s))
    BY DEF Left
  <1>3. kept \in Seq(Range(kept))
    <2>1. kept \in [1 .. Len(kept) -> Range(s)] /\ Len(kept) \in Nat
      BY <1>2
    <2>2. kept \in [1 .. Len(kept) -> Range(kept)]
      BY <2>1 DEF Range
    <2> QED
      BY <2>1, <2>2
  <1> QED
    BY <1>1, <1>3 DEF IsList, Left

-----------------------------------------------------------------------------
(* A tick of work at a dock.                                               *)

Work(sessions) == [i \in DOMAIN sessions |-> Worked(sessions[i])]

(* Working on the sessions of a dock changes nobody's place.               *)
LEMMA WorkKeeps ==
  ASSUME NEW s, s \in Seq(Range(s)), \A i \in DOMAIN s : Manned(s[i])
  PROVE  /\ IsList(Work(s)) /\ DOMAIN Work(s) = DOMAIN s /\ Len(Work(s)) = Len(s)
         /\ \A i \in DOMAIN s : /\ Manned(Work(s)[i]) /\ Work(s)[i].worker = s[i].worker
                                /\ Work(s)[i].job = s[i].job
  <1>1. DOMAIN s = 1 .. Len(s) /\ Len(s) \in Nat
    OBVIOUS
  <1>2. DOMAIN Work(s) = 1 .. Len(s) /\ Len(Work(s)) = Len(s)
    BY <1>1 DEF Work
  <1>3. Work(s) \in [1 .. Len(s) -> Range(Work(s))]
    BY <1>1, <1>2 DEF Work, Range
  <1>4. IsList(Work(s))
    BY <1>1, <1>3 DEF IsList
  <1>5. ASSUME NEW i \in DOMAIN s
        PROVE  /\ Manned(Work(s)[i]) /\ Work(s)[i].worker = s[i].worker
               /\ Work(s)[i].job = s[i].job
    <2>1. PICK x, n : x = s[i] /\ n = IF x.left > Rate THEN x.left - Rate ELSE 0
      OBVIOUS
    <2>2. Work(s)[i] = [x EXCEPT !.left = n]
      BY <2>1 DEF Work, Worked
    <2>3. x = [worker |-> x.worker, job |-> x.job, left |-> x.left, action |-> x.action]
      BY <2>1 DEF Manned
    <2>4. [x EXCEPT !.left = n] = [worker |-> x.worker, job |-> x.job, left |-> n, action |-> x.action]
      BY <2>3
    <2> QED
      BY <2>1, <2>2, <2>4 DEF Manned
  <1> QED
    BY <1>1, <1>2, <1>4, <1>5

(* The berths of a dock after a tick.                                      *)
LEMMA BerthsAfter ==
  ASSUME NEW s, s \in Seq(Range(s)), \A i \in DOMAIN s : Manned(s[i]), OneBerth(s)
  PROVE  /\ IsList(Underway(Work(s))) /\ OneBerth(Underway(Work(s)))
         /\ \A a \in DOMAIN Underway(Work(s)) :
              /\ Manned(Underway(Work(s))[a])
              /\ \E i \in DOMAIN s : /\ Underway(Work(s))[a].worker = s[i].worker
                                     /\ Underway(Work(s))[a].job = s[i].job
  <1> DEFINE t == Work(s)
             u == Underway(t)
  <1>1. /\ IsList(t) /\ DOMAIN t = DOMAIN s
        /\ \A i \in DOMAIN s : Manned(t[i]) /\ t[i].worker = s[i].worker /\ t[i].job = s[i].job
    BY WorkKeeps
  <1>2. OneBerth(t)
    BY <1>1 DEF OneBerth
  <1> HIDE DEF t, u
  <1>3. Left(u, t, Len(t))
    BY <1>1, UnderwayLeft DEF u
  <1>4. IsList(u) /\ \A a \in DOMAIN u : \E h \in DOMAIN t : u[a] = t[h]
    BY <1>1, <1>3, LeftIsList
  <1>5. OneBerth(u)
    BY <1>2, <1>3 DEF Left
  <1>6. ASSUME NEW a \in DOMAIN u
        PROVE  Manned(u[a]) /\ \E i \in DOMAIN s : u[a].worker = s[i].worker /\ u[a].job = s[i].job
    BY <1>1, <1>4
  <1> QED
    BY <1>4, <1>5, <1>6 DEF u, t

DockGood(q, s) ==
  /\ q \in Seq(Worker) /\ IsInjective(q)
  /\ IsList(s) /\ OneBerth(s) /\ \A i \in DOMAIN s : Manned(s[i])
  /\ \A a \in DOMAIN q : ~Serves(s, q[a])

DocksGood ==
  /\ DOMAIN queue = Docks /\ queue = [d \in Docks |-> queue[d]]
  /\ DOMAIN servicing = Docks /\ servicing = [d \in Docks |-> servicing[d]]
  /\ \A d \in Docks : DockGood(queue[d], servicing[d])
  /\ NeverStalled

(* A line in order is what QueuesSound asks for.                           *)
LEMMA DocksSay ==
  ASSUME DocksGood
  PROVE  QueuesSound
  BY DEF DocksGood, DockGood, OneBerth, QueuesSound, OnePlacePerDock

LEMMA DocksInitGood ==
  ASSUME DocksInit
  PROVE  DocksGood
  <1>1. /\ queue = [d \in Docks |-> <<>>] /\ servicing = [d \in Docks |-> <<>>]
        /\ stalled = [d \in Docks |-> 0]
    BY DEF DocksInit
  <1>2. DockGood(<<>>, <<>>)
    BY DEF DockGood, IsInjective, IsList, OneBerth
  <1> QED
    BY <1>1, <1>2 DEF DocksGood, NeverStalled

(* What a step does to each dock.                                          *)
StepAt(d) ==
  /\ queue'[d] = Admit(d).queue
  /\ servicing'[d] = Underway(Work(Admit(d).servicing))
  /\ stalled'[d] = IF Admit(d).queue # <<>> /\ Admit(d).servicing = <<>> THEN stalled[d] + 1 ELSE 0

(* What Step writes into the queue and the berths of each dock.            *)
LEMMA StepDoes ==
  ASSUME Step
  PROVE  /\ DOMAIN queue' = Docks /\ queue' = [d \in Docks |-> queue'[d]]
         /\ DOMAIN servicing' = Docks /\ servicing' = [d \in Docks |-> servicing'[d]]
         /\ \A d \in Docks : StepAt(d)
  <1>1. PICK admitted : admitted = [d \in Docks |-> Admit(d)]
    BY Zenon
  <1>2. PICK worked : worked = [d \in Docks |-> [i \in DOMAIN admitted[d].servicing |->
                                          Worked(admitted[d].servicing[i])]]
    BY Zenon
  <1>3. /\ queue' = [d \in Docks |-> admitted[d].queue]
        /\ servicing' = [d \in Docks |-> Underway(worked[d])]
        /\ stalled' = [d \in Docks |->
                          IF admitted[d].queue # <<>> /\ admitted[d].servicing = <<>>
                          THEN stalled[d] + 1 ELSE 0]
    BY <1>1, <1>2 DEF Step
  <1>4. \A d \in Docks : admitted[d] = Admit(d) /\ worked[d] = Work(Admit(d).servicing)
    BY <1>1, <1>2 DEF Work
  <1> QED
    BY <1>3, <1>4 DEF StepAt

(* The line of one dock after a step.                                      *)
LEMMA LineAfter ==
  ASSUME DocksGood, NEW d \in Docks
  PROVE  LineGood(Admit(d), AtDock(d), queue[d], Len(queue[d]))
  <1>1. DockGood(queue[d], servicing[d])
    BY DEF DocksGood
  <1>2. /\ queue[d] \in Seq(Worker) /\ IsInjective(queue[d])
        /\ IsList(servicing[d]) /\ OneBerth(servicing[d])
        /\ \A a \in DOMAIN queue[d] : ~Serves(servicing[d], queue[d][a])
    BY <1>1 DEF DockGood
  <1> QED
    BY <1>2, AdmitGood

LEMMA AdmittedList ==
  ASSUME DocksGood, NEW d \in Docks, NEW s, s = Admit(d).servicing
  PROVE  /\ s \in Seq(Range(s)) /\ OneBerth(s) /\ \A i \in DOMAIN s : Manned(s[i])
         /\ \A i \in DOMAIN s : s[i] \in AtDock(d)
  <1>1. Admit(d) \in [queue : Seq(Worker), servicing : Seq(AtDock(d))] /\ OneBerth(Admit(d).servicing)
    BY LineAfter DEF LineGood
  <1>2. s \in Seq(AtDock(d)) /\ OneBerth(s)
    BY <1>1
  <1>3. \A i \in DOMAIN s : s[i] \in AtDock(d)
    BY <1>2
  <1>4. s \in Seq(Range(s))
    <2>1. s \in [1 .. Len(s) -> AtDock(d)] /\ Len(s) \in Nat
      BY <1>2
    <2>2. s \in [1 .. Len(s) -> Range(s)]
      BY <2>1 DEF Range
    <2> QED
      BY <2>1, <2>2
  <1>5. \A i \in DOMAIN servicing[d] : Manned(servicing[d][i])
    BY DEF DocksGood, DockGood
  <1>6. \A x \in AtDock(d) : Manned(x)
    BY <1>5, SessionMans DEF AtDock, Range
  <1> QED
    BY <1>2, <1>3, <1>4, <1>6

(* A step keeps every line in order; so does a vessel that joins it.       *)
LEMMA StepKeepsDocks ==
  ASSUME DocksGood, Step
  PROVE  DocksGood'
  <1>1. /\ DOMAIN queue' = Docks /\ queue' = [d \in Docks |-> queue'[d]]
        /\ DOMAIN servicing' = Docks /\ servicing' = [d \in Docks |-> servicing'[d]]
        /\ \A d \in Docks : StepAt(d)
    BY StepDoes
  <1>2. ASSUME NEW d \in Docks
        PROVE  DockGood(queue'[d], servicing'[d]) /\ stalled'[d] = 0
    <2>1. PICK line, s : line = Admit(d) /\ s = line.servicing
      OBVIOUS
    <2>2. /\ s \in Seq(Range(s)) /\ OneBerth(s) /\ \A i \in DOMAIN s : Manned(s[i])
      BY <2>1, AdmittedList, Zenon
    <2>3. LineGood(line, AtDock(d), queue[d], Len(queue[d]))
      BY <2>1, LineAfter
    <2>4. /\ line.queue \in Seq(Worker) /\ IsInjective(line.queue)
          /\ \A a \in DOMAIN line.queue : ~Serves(s, line.queue[a])
          /\ Len(s) < Berths => line.queue = <<>>
      BY <2>1, <2>3 DEF LineGood
    <2>5. PICK after : after = Underway(Work(s))
      OBVIOUS
    <2>6. /\ queue'[d] = line.queue /\ servicing'[d] = after
          /\ stalled'[d] = IF line.queue # <<>> /\ s = <<>> THEN stalled[d] + 1 ELSE 0
      BY <1>1, <2>1, <2>5 DEF StepAt
    <2>7. /\ IsList(after) /\ OneBerth(after)
          /\ \A a \in DOMAIN after : Manned(after[a]) /\ \E i \in DOMAIN s : after[a].worker = s[i].worker
      BY <2>2, <2>5, BerthsAfter
    <2>8. \A x : Serves(after, x) => Serves(s, x)
      BY <2>7 DEF Serves
    <2>9. s = <<>> => line.queue = <<>>
      BY <2>4, DockAssumption
    <2> QED
      BY <2>4, <2>6, <2>7, <2>8, <2>9 DEF DockGood
  <1> QED
    BY <1>1, <1>2 DEF DocksGood, NeverStalled

LEMMA EnqueueKeepsDocks ==
  ASSUME DocksGood, NEW d \in Docks, NEW v \in Worker, EnqueueVessel(d, v)
  PROVE  DocksGood'
  <1>1. /\ ~Contains(queue[d], v) /\ ~Serves(servicing[d], v)
        /\ queue' = [queue EXCEPT ![d] = Append(@, v)]
        /\ servicing' = servicing /\ stalled' = stalled
    BY DEF EnqueueVessel
  <1>2. /\ DOMAIN queue = Docks /\ queue = [x \in Docks |-> queue[x]]
        /\ DOMAIN servicing = Docks /\ servicing = [x \in Docks |-> servicing[x]]
        /\ \A x \in Docks : DockGood(queue[x], servicing[x])
        /\ NeverStalled
    BY DEF DocksGood
  <1>0. PICK s : s = servicing[d]
    OBVIOUS
  <1>3. PICK q \in Seq(Worker) : q = queue[d]
    BY <1>2 DEF DockGood
  <1>4. PICK longer : longer = Append(q, v)
    BY Zenon
  <1>5. /\ longer \in Seq(Worker) /\ DOMAIN longer = DOMAIN q \cup {Len(q) + 1}
        /\ longer[Len(q) + 1] = v /\ Len(q) + 1 \notin DOMAIN q
        /\ \A a \in DOMAIN q : longer[a] = q[a]
    BY <1>4
  <1>6. \A a \in DOMAIN q : q[a] # v
    BY <1>1, <1>0, <1>3 DEF Contains
  <1>7. DockGood(q, s)
    BY <1>2, <1>0, <1>3
  <1>8. DockGood(longer, s)
    BY <1>1, <1>0, <1>3, <1>5, <1>6, <1>7 DEF DockGood, IsInjective
  <1>9. \A x \in Docks : queue'[x] = IF x = d THEN longer ELSE queue[x]
    BY <1>1, <1>2, <1>0, <1>3, <1>4
  <1>10. \A x \in Docks : DockGood(queue'[x], servicing'[x])
    BY <1>1, <1>2, <1>0, <1>3, <1>8, <1>9
  <1>11. DOMAIN queue' = Docks /\ queue' = [x \in Docks |-> queue'[x]]
    BY <1>1, <1>2, Zenon
  <1> QED
    BY <1>1, <1>2, <1>10, <1>11 DEF DocksGood, NeverStalled

(* Whatever else happens, the docks stay in order: this needs nothing of   *)
(* the jobs.                                                               *)
LEMMA DocksStepGood ==
  ASSUME DocksGood, [DocksNext]_allVars
  PROVE  DocksGood'
  <1>1. CASE Step
    BY <1>1, StepKeepsDocks
  <1>2. CASE UNCHANGED <<queue, servicing, stalled>>
    BY <1>2 DEF DocksGood, NeverStalled
  <1>3. ASSUME NEW v \in Worker, NEW d \in Docks, EnqueueVessel(d, v) PROVE DocksGood'
    BY <1>3, EnqueueKeepsDocks
  <1>4. ASSUME NEW v \in Worker, NEW j, NEW n, Depart(j, v, n) PROVE DocksGood'
    BY <1>2, <1>4 DEF Depart
  <1> QED
    BY <1>1, <1>2, <1>3, <1>4 DEF DocksNext, allVars, dockVars

(* No vessel stands twice in the line of a dock, in its queue and its      *)
(* berths together, and no queue is left waiting at an idle dock: for      *)
(* every line of docks, every length of the queues and every order in      *)
(* which vessels arrive and jobs come and go (enqueue_vessel and step,     *)
(* logistics.rs:166, 824-976).                                             *)
THEOREM QueuesStaySound == DocksSpec => []QueuesSound
  <1>1. DocksInit => DocksGood
    BY DocksInitGood
  <1>2. DocksGood /\ [DocksNext]_allVars => DocksGood'
    BY DocksStepGood
  <1>3. DocksGood => QueuesSound
    BY DocksSay
  <1> QED
    BY <1>1, <1>2, <1>3, PTL DEF DocksSpec

(* Sessions and journeys are those of a worker and of a job there is.      *)
Travels(t) ==
  /\ t = [hauler |-> t.hauler, job |-> t.job, left |-> t.left]
  /\ t.hauler \in Worker /\ t.job \in DOMAIN jobs

Tracked ==
  /\ \A d \in Docks : \A i \in DOMAIN servicing[d] : Ticketed(World, servicing[d][i])
  /\ IsList(transports) /\ \A i \in DOMAIN transports : Travels(transports[i])

DocksInv == DocksGood /\ Sound(World, nextReservationId) /\ Tracked

(* The job a vessel is admitted for is one there is.                       *)
LEMMA OldestJob ==
  ASSUME Sound(World, nextReservationId), NEW v, ActiveJobs(v) # {}
  PROVE  SessionFor(v).job \in DOMAIN jobs
  <1>1. jobs \in Seq(JobRecord)
    BY WorldNow
  <1>2. ActiveJobs(v) \subseteq DOMAIN jobs /\ DOMAIN jobs \subseteq Nat
    BY <1>1 DEF ActiveJobs
  <1>3. PICK T : T = ActiveJobs(v)
    OBVIOUS
  <1>4. PICK x \in T : \A y \in T : x <= y
    BY <1>2, <1>3, LeastNatural
  <1>5. Min(T) \in T
    BY <1>4 DEF Min
  <1> QED
    BY <1>2, <1>3, <1>5 DEF SessionFor

(* So the sessions that begin carry such a job.                            *)
LEMMA AdmittedTickets ==
  ASSUME DocksInv, NEW d \in Docks, NEW s, s = Admit(d).servicing
  PROVE  Tickets(World, Work(s))
  <1>1. /\ s \in Seq(Range(s)) /\ \A i \in DOMAIN s : Manned(s[i])
        /\ \A i \in DOMAIN s : s[i] \in AtDock(d)
    BY AdmittedList, Zenon DEF DocksInv
  <1>2. \A x \in AtDock(d) : Ticketed(World, x)
    <2>1. ASSUME NEW v \in Worker, ActiveJobs(v) # {} PROVE Ticketed(World, SessionFor(v))
      BY <2>1, SessionMans, OldestJob, WorldNow DEF Ticketed, DocksInv
    <2>2. \A x \in Range(servicing[d]) : Ticketed(World, x)
      BY DEF DocksInv, Tracked, Range
    <2> QED
      BY <2>1, <2>2 DEF AtDock
  <1>3. DOMAIN s = 1 .. Len(s) /\ Len(s) \in Nat
    BY <1>1
  <1>4. /\ Len(Work(s)) = Len(s)
        /\ \A i \in DOMAIN s : Work(s)[i].worker = s[i].worker /\ Work(s)[i].job = s[i].job
    BY <1>1, WorkKeeps
  <1> QED
    BY <1>1, <1>2, <1>3, <1>4 DEF Tickets, Ticketed

(* One step, however many countdowns end in it, leaves a sound world.      *)
LEMMA StepReaches ==
  ASSUME DocksInv, Endpoint \cap Worker = {}, Step
  PROVE  /\ Sound(World', nextReservationId') /\ Later(World, World')
         /\ nextReservationId' = nextReservationId
  <1>1. PICK admitted \in {[d \in Docks |-> Admit(d)]} :
          \E worked \in {[d \in Docks |-> [i \in DOMAIN admitted[d].servicing |->
                                          Worked(admitted[d].servicing[i])]]} :
            \E w \in {Settle(worked)} : Becomes(w)
    BY Zenon DEF Step
  <1>2. PICK worked \in {[d \in Docks |-> [i \in DOMAIN admitted[d].servicing |->
                                          Worked(admitted[d].servicing[i])]]} :
          \E w \in {Settle(worked)} : Becomes(w)
    BY <1>1
  <1>3. Becomes(Settle(worked)) /\ nextReservationId' = nextReservationId
    <2>1. nextReservationId' = nextReservationId
      BY DEF Step
    <2>2. PICK w \in {Settle(worked)} : Becomes(w)
      BY <1>2
    <2>3. w = Settle(worked)
      OBVIOUS
    <2> QED
      BY <2>1, <2>2, <2>3
  <1>4. \A d \in Docks : worked[d] = Work(Admit(d).servicing)
    BY <1>1, <1>2 DEF Work
  <1>5. AllTickets(World, worked)
    <2> SUFFICES ASSUME NEW d \in Docks PROVE Tickets(World, worked[d])
      BY DEF AllTickets
    <2>1. PICK s : s = Admit(d).servicing
      OBVIOUS
    <2> QED
      BY <1>4, <2>1, AdmittedTickets
  <1>6. /\ Len(transports) \in Nat /\ DOMAIN transports = 1 .. Len(transports)
        /\ \A i \in 1 .. Len(transports) : transports[i].hauler \in Worker /\ transports[i].job \in DOMAIN jobs
    BY DEF DocksInv, Tracked, IsList, Travels
  <1>7. Settle(worked) \in Reached(World, nextReservationId)
    BY <1>5, <1>6, SettleReaches DEF DocksInv
  <1>8. PICK w, u, n : w = World /\ u = Settle(worked) /\ n = nextReservationId
    OBVIOUS
  <1>9. u \in Worlds /\ Sound(u, n) /\ Later(w, u) /\ Becomes(u)
    BY <1>3, <1>7, <1>8 DEF Reached
  <1>10. World' = u
    BY <1>9, BecomesWorld
  <1> QED
    BY <1>3, <1>8, <1>9, <1>10

(* The countdowns that run on are again those of a worker and a job.       *)
LEMMA StepTracks ==
  ASSUME DocksInv, Endpoint \cap Worker = {}, Step
  PROVE  Tracked'
  <1>1. Later(World, World')
    BY StepReaches
  <1>2. World.jobs = jobs /\ World'.jobs = jobs'
    BY WorldNow DEF DocksInv
  <1>3. \A j \in DOMAIN jobs : j \in DOMAIN jobs'
    BY <1>1, <1>2 DEF Later
  <1>4. ASSUME NEW d \in Docks, NEW a \in DOMAIN servicing'[d]
        PROVE  Ticketed(World', servicing'[d][a])
    <2>1. PICK s, after : s = Admit(d).servicing /\ after = Underway(Work(s))
      OBVIOUS
    <2>2. servicing'[d] = after
      BY <2>1, StepDoes DEF StepAt
    <2>3. /\ s \in Seq(Range(s)) /\ OneBerth(s) /\ \A i \in DOMAIN s : Manned(s[i])
      BY <2>1, AdmittedList, Zenon DEF DocksInv
    <2>4. PICK i \in DOMAIN s : after[a].worker = s[i].worker /\ after[a].job = s[i].job
      BY <1>4, <2>1, <2>2, <2>3, BerthsAfter
    <2>5. /\ Tickets(World, Work(s)) /\ Len(Work(s)) = Len(s)
          /\ Work(s)[i].worker = s[i].worker /\ Work(s)[i].job = s[i].job
      BY <2>1, <2>3, AdmittedTickets, WorkKeeps
    <2>6. i \in 1 .. Len(s)
      BY <2>3
    <2>7. Work(s)[i].worker \in Worker /\ Work(s)[i].job \in DOMAIN jobs
      BY <1>2, <2>5, <2>6 DEF Tickets, Ticketed
    <2> QED
      BY <1>2, <1>3, <2>2, <2>4, <2>5, <2>7 DEF Ticketed
  <1>5. PICK rest : rest = Underway(transports)
    OBVIOUS
  <1>6. IsList(transports) /\ \A i \in DOMAIN transports : Travels(transports[i])
    BY DEF DocksInv, Tracked
  <1>7. IsList(rest) /\ \A a \in DOMAIN rest : \E h \in DOMAIN transports : rest[a] = transports[h]
    BY <1>5, <1>6, UnderwayLeft, LeftIsList
  <1>8. transports' = [i \in DOMAIN rest |-> [rest[i] EXCEPT !.left = @ - 1]]
    BY <1>5 DEF Step
  <1>9. IsList(transports')
    <2>1. DOMAIN transports' = 1 .. Len(rest) /\ Len(rest) \in Nat
      BY <1>7, <1>8 DEF IsList
    <2>2. transports' = [i \in 1 .. Len(rest) |-> transports'[i]]
      BY <1>8, <2>1
    <2>3. transports' \in [1 .. Len(rest) -> Range(transports')]
      BY <2>1, <2>2 DEF Range
    <2> QED
      BY <2>1, <2>3 DEF IsList
  <1>10. ASSUME NEW a \in DOMAIN transports'
         PROVE  /\ transports'[a] = [hauler |-> transports'[a].hauler, job |-> transports'[a].job,
                                     left |-> transports'[a].left]
                /\ transports'[a].hauler \in Worker /\ transports'[a].job \in DOMAIN jobs'
    <2>1. PICK t, n : t = rest[a] /\ n = t.left - 1
      OBVIOUS
    <2>2. transports'[a] = [t EXCEPT !.left = n] /\ a \in DOMAIN rest
      BY <1>8, <2>1
    <2>3. t = [hauler |-> t.hauler, job |-> t.job, left |-> t.left] /\ t.hauler \in Worker /\ t.job \in DOMAIN jobs
      BY <1>6, <1>7, <2>1, <2>2 DEF Travels
    <2>4. [t EXCEPT !.left = n] = [hauler |-> t.hauler, job |-> t.job, left |-> n]
      BY <2>3
    <2> QED
      BY <1>3, <2>2, <2>3, <2>4
  <1> QED
    BY <1>4, <1>9, <1>10 DEF Tracked, Travels

(* Every step of the docks, and every command between two steps, keeps it. *)
LEMMA DocksStepInv ==
  ASSUME DocksInv, WorkerLimit = 1, Endpoint \cap Worker = {}, [DocksNext]_allVars
  PROVE  DocksInv' /\ Later(World, World')
  <1>1. DocksGood'
    BY DocksStepGood DEF DocksInv
  <1>2. World.jobs = jobs /\ World'.jobs = jobs' /\ jobs \in Seq(JobRecord)
    BY WorldNow DEF DocksInv
  <1>3. CASE Step
    BY <1>1, <1>3, StepReaches, StepTracks DEF DocksInv
  <1>4. CASE UNCHANGED vars
    <2>1. World' = World /\ nextReservationId' = nextReservationId /\ jobs' = jobs
      BY <1>4 DEF vars, jobVars, ledgerVars, World
    <2>2. Sound(World', nextReservationId') /\ Later(World, World')
      <3>1. PICK w : w = World
        OBVIOUS
      <3>2. Later(w, w)
        BY StaysSame
      <3> QED
        BY <2>1, <3>1, <3>2 DEF DocksInv
    <2>3. CASE servicing' = servicing /\ transports' = transports
      <3>1. Tracked'
        BY <2>1, <2>3 DEF DocksInv, Tracked, Travels
      <3> QED
        BY <1>1, <2>2, <3>1 DEF DocksInv
    <2>4. CASE \E v \in Worker : \E j \in DOMAIN jobs, n \in 0 .. MaxJourney : Depart(j, v, n)
      <3>1. PICK v \in Worker, j \in DOMAIN jobs, n \in 0 .. MaxJourney : Depart(j, v, n)
        BY <2>4
      <3>2. PICK t : t = [hauler |-> v, job |-> j, left |-> n]
        BY Zenon
      <3>3. transports' = Append(transports, t) /\ servicing' = servicing
        BY <3>1, <3>2 DEF Depart
      <3>4. IsList(transports) /\ \A i \in DOMAIN transports : Travels(transports[i])
        BY DEF DocksInv, Tracked
      <3>5. PICK S : S = Range(transports) \cup {t}
        BY Zenon
      <3>6. transports \in Seq(S) /\ t \in S
        BY <3>4, <3>5 DEF IsList
      <3>7. /\ transports' \in Seq(S) /\ DOMAIN transports' = DOMAIN transports \cup {Len(transports) + 1}
            /\ transports'[Len(transports) + 1] = t
            /\ \A a \in DOMAIN transports : transports'[a] = transports[a]
        BY <3>3, <3>6
      <3>8. IsList(transports')
        <4>1. transports' \in [1 .. Len(transports') -> S] /\ Len(transports') \in Nat
          BY <3>7
        <4>2. transports' \in [1 .. Len(transports') -> Range(transports')]
          BY <4>1 DEF Range
        <4> QED
          BY <4>1, <4>2 DEF IsList
      <3>9. Travels(t)
        BY <3>1, <3>2 DEF Travels
      <3>10. \A a \in DOMAIN transports' : Travels(transports'[a])
        BY <3>4, <3>7, <3>9
      <3>11. Tracked'
        BY <2>1, <3>3, <3>8, <3>10 DEF DocksInv, Tracked, Travels
      <3> QED
        BY <1>1, <2>2, <3>11 DEF DocksInv
    <2> QED
      <3>1. Step \/ (servicing' = servicing /\ transports' = transports)
                 \/ \E v \in Worker : \E j \in DOMAIN jobs, n \in 0 .. MaxJourney : Depart(j, v, n)
        BY DEF DocksNext, allVars, dockVars, EnqueueVessel
      <3> QED
        BY <1>3, <2>3, <2>4, <3>1
  <1>5. CASE JobNext /\ UNCHANGED dockVars
    <2>1. Sound(World', nextReservationId') /\ Later(World, World')
      BY <1>5, JobStep DEF DocksInv
    <2>2. \A j \in DOMAIN jobs : j \in DOMAIN jobs'
      BY <1>2, <2>1 DEF Later
    <2>3. servicing' = servicing /\ transports' = transports
      BY <1>5 DEF dockVars
    <2>4. Tracked'
      BY <1>2, <2>2, <2>3 DEF DocksInv, Tracked, Travels, Ticketed
    <2> QED
      BY <1>1, <2>1, <2>4 DEF DocksInv
  <1>6. Step \/ (JobNext /\ UNCHANGED dockVars) \/ UNCHANGED vars
    BY Zenon DEF DocksNext, EnqueueVessel, Depart, allVars
  <1> QED
    BY <1>3, <1>4, <1>5, <1>6

LEMMA DocksInvInit ==
  ASSUME DocksInit
  PROVE  DocksInv
  <1>1. DocksGood /\ Sound(World, nextReservationId)
    BY DocksInitGood, InitSound DEF DocksInit
  <1>2. Tracked
    <2>1. servicing = [d \in Docks |-> <<>>] /\ transports = <<>>
      BY DEF DocksInit
    <2> QED
      BY <2>1 DEF Tracked, IsList
  <1> QED
    BY <1>1, <1>2 DEF DocksInv

(* With one worker per job, and endpoints that are not haulers' buffers:   *)
(* however the countdowns of docks and journeys interleave with claims,    *)
(* pickups, dropoffs and cancellations of the same jobs, goods are neither *)
(* duplicated nor lost, the cargo of jobs in transit is aboard, the        *)
(* counters count, and locks and claims match one to one                   *)
(* (logistics.rs:561-822, 824-976).                                        *)
THEOREM BooksStayBalanced ==
  ASSUME WorkerLimit = 1, Endpoint \cap Worker = {}
  PROVE  DocksSpec => [](NoOrphanLock /\ BooksBalance /\ ClaimedGoodsLocked /\ ClaimsDisjoint)
  <1>1. DocksInit => DocksInv
    BY DocksInvInit
  <1>2. DocksInv /\ [DocksNext]_allVars => DocksInv'
    BY DocksStepInv
  <1>3. DocksInv => NoOrphanLock /\ BooksBalance /\ ClaimedGoodsLocked /\ ClaimsDisjoint
    BY SoundSays DEF DocksInv
  <1> QED
    BY <1>1, <1>2, <1>3, PTL DEF DocksSpec

(* In any step a job stays what it is or goes on to a later state,         *)
(* although a step may end several sessions and journeys of one job that   *)
(* began when it was in another state: so goods enter a destination for a  *)
(* job only once.                                                          *)
THEOREM JobsOnlyAdvance ==
  ASSUME WorkerLimit = 1, Endpoint \cap Worker = {}
  PROVE  DocksSpec => JobsAdvance
  <1>1. DocksInit => DocksInv
    BY DocksInvInit
  <1>2. DocksInv /\ [DocksNext]_allVars => DocksInv'
    BY DocksStepInv
  <1>3. ASSUME DocksInv, [DocksNext]_allVars
        PROVE  [\A j \in DOMAIN jobs :
                  \/ jobs'[j] = jobs[j]
                  \/ Rank[jobs'[j].status] > Rank[jobs[j].status]]_allVars
    <2>1. Later(World, World') /\ World.jobs = jobs /\ World'.jobs = jobs'
      BY <1>3, DocksStepInv, WorldNow DEF DocksInv
    <2> QED
      BY <2>1 DEF Later
  <1> QED
    BY <1>1, <1>2, <1>3, PTL DEF DocksSpec, JobsAdvance

-----------------------------------------------------------------------------
(* Goods and borders.                                                      *)

Mine(f) == {c \in Container : Owner[c] = f}
Loads(q, f) == [c \in Mine(f) |-> Load(q, c)]
Worth(q, f) == Total(Loads(q, f), Mine(f))

LEMMA LoadWritten ==
  ASSUME NEW q \in Totals, NEW c \in Container, NEW r \in Resource, NEW v \in Nat,
         NEW p, Written(p, q, c, r, v), NEW x \in Container
  PROVE  /\ Load(q, x) \in Nat /\ Load(p, x) \in Nat
         /\ Load(p, x) = IF x = c THEN Load(q, x) - q[c][r] + v ELSE Load(q, x)
  <1>1. IsFiniteSet(Resource)
    BY PlaceAssumption
  <1>2. q[x] \in [Resource -> Nat] /\ p[x] \in [Resource -> Nat]
    BY DEF Totals, Written
  <1>3. Load(q, x) = SumOf(q[x], Resource) /\ Load(p, x) = SumOf(p[x], Resource)
    BY TotalIsSum DEF Load
  <1>4. Load(q, x) \in Nat /\ Load(p, x) \in Nat
    BY <1>1, <1>2, <1>3, SumIsNat
  <1>5. CASE x = c
    <2>1. Alike(q[x], p[x], Resource, r) /\ p[x][r] = v
      BY <1>2, <1>5 DEF Written, Alike
    <2>2. SumOf(p[x], Resource) = SumOf(q[x], Resource) - q[x][r] + p[x][r]
      BY <1>1, <2>1, SumChanges
    <2> QED
      BY <1>3, <1>4, <1>5, <2>1, <2>2
  <1>6. CASE x # c
    <2>1. \A y \in Resource : p[x][y] = q[x][y]
      BY <1>6 DEF Written
    <2>2. p[x] = q[x]
      BY <1>2, <2>1
    <2> QED
      BY <1>3, <1>4, <1>6, <2>2
  <1> QED
    BY <1>5, <1>6

(* Writing a cell changes what its owner has by the difference, and what   *)
(* anybody else has by nothing.                                            *)
LEMMA WorthWritten ==
  ASSUME NEW q \in Totals, NEW c \in Container, NEW r \in Resource, NEW v \in Nat,
         NEW p, Written(p, q, c, r, v), NEW f
  PROVE  /\ Worth(q, f) \in Nat /\ Worth(p, f) \in Nat
         /\ Worth(p, f) = IF Owner[c] = f THEN Worth(q, f) - q[c][r] + v ELSE Worth(q, f)
  <1> DEFINE M == Mine(f)
             a == Loads(q, f)
             b == Loads(p, f)
  <1>1. IsFiniteSet(M) /\ M \subseteq Container
    BY PlaceAssumption, FS_Subset DEF Mine
  <1>2. \A x \in Container : /\ Load(q, x) \in Nat /\ Load(p, x) \in Nat
                             /\ Load(p, x) = IF x = c THEN Load(q, x) - q[c][r] + v ELSE Load(q, x)
    BY LoadWritten
  <1>3. a \in [M -> Nat] /\ b \in [M -> Nat] /\ \A x \in M : a[x] = Load(q, x) /\ b[x] = Load(p, x)
    BY <1>1, <1>2 DEF Loads
  <1>4. Worth(q, f) = SumOf(a, M) /\ Worth(p, f) = SumOf(b, M)
    BY TotalIsSum DEF Worth
  <1>5. Worth(q, f) \in Nat /\ Worth(p, f) \in Nat
    BY <1>1, <1>3, <1>4, SumIsNat
  <1>6. c \in M <=> Owner[c] = f
    BY DEF Mine
  <1> HIDE DEF M, a, b
  <1>7. CASE c \in M
    <2>1. \A y \in M : y # c => a[y] = b[y]
      BY <1>1, <1>2, <1>3
    <2>2. Alike(a, b, M, c)
      BY <1>3, <1>7, <2>1 DEF Alike
    <2>3. SumOf(b, M) = SumOf(a, M) - a[c] + b[c]
      BY <1>1, <2>2, SumChanges
    <2>4. b[c] = a[c] - q[c][r] + v /\ a[c] \in Nat /\ b[c] \in Nat /\ q[c][r] \in Nat
      BY <1>2, <1>3, <1>7 DEF Totals
    <2> QED
      BY <1>4, <1>5, <1>6, <1>7, <2>3, <2>4
  <1>8. CASE c \notin M
    <2>1. \A x \in M : a[x] = b[x]
      BY <1>1, <1>2, <1>3, <1>8
    <2>2. a = b
      BY <1>3, <2>1
    <2> QED
      BY <1>4, <1>5, <1>6, <1>8, <2>2
  <1> QED
    BY <1>7, <1>8

LEMMA WorthIsNat ==
  ASSUME NEW q \in Totals, NEW f
  PROVE  Worth(q, f) \in Nat
  <1> DEFINE M == Mine(f)
             a == Loads(q, f)
  <1>1. IsFiniteSet(M) /\ IsFiniteSet(Resource) /\ M \subseteq Container
    BY PlaceAssumption, FS_Subset DEF Mine
  <1>2. \A x \in Container : q[x] \in [Resource -> Nat]
    BY DEF Totals
  <1>3. \A x \in Container : Load(q, x) \in Nat
    BY <1>1, <1>2, TotalIsSum, SumIsNat DEF Load
  <1>4. a \in [M -> Nat]
    BY <1>1, <1>3 DEF Loads
  <1>5. SumOf(a, M) \in Nat
    BY <1>1, <1>4, SumIsNat
  <1> QED
    BY <1>5, TotalIsSum DEF Worth

(* Goods that leave one container for another of the same owner stay his.  *)
LEMMA MovedAtHome ==
  ASSUME NEW q \in Totals, NEW c \in Container, NEW d \in Container, Owner[c] = Owner[d],
         NEW r \in Resource, NEW n \in Nat, n <= q[c][r], NEW f
  PROVE  Worth(Moved(q, c, d, r, n), f) <= Worth(q, f)
  <1>1. PICK p, s : p = [q EXCEPT ![c][r] = @ - n] /\ s = [p EXCEPT ![d][r] = @ + n]
    BY Zenon
  <1>2. Moved(q, c, d, r, n) = s
    BY <1>1 DEF Moved
  <1>3. Written(p, q, c, r, q[c][r] - n) /\ Written(s, p, d, r, p[d][r] + n)
    BY <1>1, MoveWrites, Zenon
  <1>4. p \in Totals /\ q[c][r] \in Nat /\ p[d][r] \in Nat
    BY <1>3 DEF Totals, Written
  <1>5. PICK left, more \in Nat : left = q[c][r] - n /\ more = p[d][r] + n
    <2>1. q[c][r] - n \in Nat /\ p[d][r] + n \in Nat
      BY <1>4
    <2> QED BY <2>1, Zenon
  <1>6. Written(p, q, c, r, left) /\ Written(s, p, d, r, more)
    BY <1>3, <1>5
  <1>7. /\ Worth(q, f) \in Nat /\ Worth(p, f) \in Nat
        /\ Worth(p, f) = IF Owner[c] = f THEN Worth(q, f) - q[c][r] + left ELSE Worth(q, f)
    BY <1>6, WorthWritten
  <1>8. /\ Worth(s, f) \in Nat
        /\ Worth(s, f) = IF Owner[d] = f THEN Worth(p, f) - p[d][r] + more ELSE Worth(p, f)
    BY <1>4, <1>6, WorthWritten
  <1> QED
    BY <1>2, <1>4, <1>5, <1>7, <1>8

AtHome == \A f \in Actor : Worth(qty', f) <= Worth(qty, f)

LEMMA TransferAtHome ==
  ASSUME LedgerTypeOK, NeverOverReserved,
         NEW c \in Container, NEW d \in Container, Owner[c] = Owner[d],
         NEW r \in Resource, NEW n \in Nat, Transfer(c, d, r, n)
  PROVE  AtHome
  <1>1. /\ c # d /\ n <= qty[c][r] - reserved[c][r] /\ reserved[c][r] \in Nat /\ qty[c][r] \in Nat
        /\ qty' = Moved(qty, c, d, r, n) /\ qty \in Totals
    BY Zenon DEF Transfer, Available, LedgerTypeOK, Moved, Totals
  <1>2. n <= qty[c][r]
    BY <1>1
  <1> QED
    BY <1>1, <1>2, MovedAtHome DEF AtHome

LEMMA DeliverAtHome ==
  ASSUME LedgerTypeOK, NeverOverReserved,
         NEW c \in Container, NEW d \in Container, Owner[c] = Owner[d],
         NEW id, Deliver(c, id, d)
  PROVE  AtHome
  <1> DEFINE r == held[c][id].resource
             n == held[c][id].amount
  <1>1. held[c][id] \in Holding
    BY DEF LedgerTypeOK, IsHoldings, Deliver
  <1>2. r \in Resource /\ n \in Nat
    BY <1>1 DEF Holding
  <1>3. n <= reserved[c][r] /\ qty' = Moved(qty, c, d, r, n) /\ qty \in Totals
    BY DEF Deliver, Moved, LedgerTypeOK, Totals
  <1> HIDE DEF r, n
  <1>4. n <= qty[c][r]
    BY <1>2, <1>3 DEF NeverOverReserved, LedgerTypeOK
  <1> QED
    BY <1>2, <1>3, <1>4, MovedAtHome DEF AtHome

LEMMA ConsumeAtHome ==
  ASSUME LedgerTypeOK, NeverOverReserved,
         NEW c \in Container, NEW id, Consume(c, id)
  PROVE  AtHome
  <1> DEFINE r == held[c][id].resource
             n == held[c][id].amount
  <1>1. held[c][id] \in Holding
    BY DEF LedgerTypeOK, IsHoldings, Consume
  <1>2. r \in Resource /\ n \in Nat
    BY <1>1 DEF Holding
  <1>3. n <= reserved[c][r] /\ qty' = [qty EXCEPT ![c][r] = qty[c][r] - n] /\ qty \in Totals
    BY DEF Consume, LedgerTypeOK, Totals
  <1> HIDE DEF r, n
  <1>4. n <= qty[c][r] /\ qty[c][r] \in Nat
    BY <1>2, <1>3 DEF NeverOverReserved, LedgerTypeOK
  <1>5. PICK left \in Nat : left = qty[c][r] - n
    BY <1>2, <1>4
  <1>6. Written(qty', qty, c, r, left)
    BY <1>2, <1>3, <1>5 DEF Totals, Written
  <1>7. \A f : /\ Worth(qty, f) \in Nat
               /\ Worth(qty', f) = IF Owner[c] = f THEN Worth(qty, f) - qty[c][r] + left
                                   ELSE Worth(qty, f)
    BY <1>2, <1>3, <1>6, WorthWritten
  <1> QED
    BY <1>2, <1>4, <1>5, <1>7 DEF AtHome

LEMMA SameAtHome ==
  ASSUME LedgerTypeOK, UNCHANGED qty
  PROVE  AtHome
  BY WorthIsNat DEF AtHome, LedgerTypeOK, Totals

-----------------------------------------------------------------------------
(* Who may move what.                                                      *)

(* Every container has an owner and only owners act.                       *)
Bordered == NoFaction \notin Actor /\ \A c \in Container : Owner[c] # NoFaction

(* A job's ends belong to the faction that gave it.                        *)
Homely(s) ==
  \A j \in DOMAIN s : /\ s[j].owner \in Actor
                      /\ Owner[s[j].source] = s[j].owner
                      /\ Owner[s[j].destination] = s[j].owner

HomeInv == CoreInv /\ Homely(jobs)

LEMMA HandlersOwn ==
  ASSUME Bordered, NEW actor \in Actor, NEW j \in DOMAIN jobs, NEW v \in Worker,
         Homely(jobs), Accessible(actor, v), MayHandle(actor, jobs[j])
  PROVE  Owner[v] = Owner[jobs[j].source] /\ Owner[v] = Owner[jobs[j].destination]
  BY PlaceAssumption DEF Bordered, Homely, Accessible, MayHandle

LEMMA SameEnds ==
  ASSUME Homely(jobs), DOMAIN jobs' = DOMAIN jobs,
         \A j \in DOMAIN jobs : /\ jobs'[j].owner = jobs[j].owner
                                /\ jobs'[j].source = jobs[j].source
                                /\ jobs'[j].destination = jobs[j].destination
  PROVE  Homely(jobs')
  BY DEF Homely

(* Changing where a job stands does not change whose it is.                *)
LEMMA RestatedEnds ==
  ASSUME TypeOK, Homely(jobs), NEW j \in DOMAIN jobs, NEW st,
         jobs' = [jobs EXCEPT ![j].status = st]
  PROVE  Homely(jobs')
  <1>1. \A k \in DOMAIN jobs : jobs[k] \in JobRecord
    BY JobFields
  <1>2. DOMAIN jobs' = DOMAIN jobs
    OBVIOUS
  <1>3. \A k \in DOMAIN jobs : /\ jobs'[k].owner = jobs[k].owner
                               /\ jobs'[k].source = jobs[k].source
                               /\ jobs'[k].destination = jobs[k].destination
    BY <1>1 DEF JobRecord
  <1> QED
    BY <1>2, <1>3, SameEnds

LEMMA JobsKeepHome ==
  ASSUME Bordered, HomeInv, JobNext
  PROVE  Homely(jobs') /\ AtHome
  <1> USE DEF HomeInv, CoreInv, TypeOK
  <1>1. PICK actor \in Actor :
          \/ \E s, d \in Endpoint, r \in Resource, n \in Amount : CreateJob(actor, s, d, r, n)
          \/ \E j \in DOMAIN jobs :
               \/ CancelJob(actor, j)
               \/ \E v \in Worker : \/ ClaimJob(actor, j, v)
                                    \/ ExecutePickup(actor, j, v)
                                    \/ ExecuteDropoff(actor, j, v)
    BY DEF JobNext
  <1>2. ASSUME NEW s \in Endpoint, NEW d \in Endpoint, NEW r \in Resource, NEW n \in Amount,
               CreateJob(actor, s, d, r, n)
        PROVE  Homely(jobs') /\ AtHome
    <2> DEFINE job == [status |-> "Pending", owner |-> actor, source |-> s,
                       destination |-> d, resource |-> r, amount |-> n,
                       workers |-> <<>>, reservation |-> NoReservation]
    <2>1. Owner[s] = actor /\ Owner[d] = actor
      BY <1>2, PlaceAssumption DEF CreateJob, Accessible, Bordered
    <2>2. jobs' = Append(jobs, job) /\ UNCHANGED qty
      BY <1>2 DEF CreateJob, ledgerVars
    <2>3. job.owner = actor /\ job.source = s /\ job.destination = d
      OBVIOUS
    <2> HIDE DEF job
    <2>4. /\ DOMAIN jobs' = DOMAIN jobs \cup {Len(jobs) + 1} /\ jobs'[Len(jobs) + 1] = job
          /\ \A k \in DOMAIN jobs : jobs'[k] = jobs[k]
      BY <2>2
    <2>5. Homely(jobs')
      BY <2>1, <2>3, <2>4 DEF Homely
    <2> QED
      BY <2>2, <2>5, SameAtHome
  <1>3. ASSUME NEW j \in DOMAIN jobs, CancelJob(actor, j)
        PROVE  Homely(jobs') /\ AtHome
    <2>1. jobs' = [jobs EXCEPT ![j].status = "Cancelled"] /\ UNCHANGED qty
      BY <1>3 DEF CancelJob, Release, ledgerVars
    <2> QED
      BY <2>1, RestatedEnds, SameAtHome, Zenon
  <1>4. ASSUME NEW j \in DOMAIN jobs, NEW v \in Worker, ClaimJob(actor, j, v)
        PROVE  Homely(jobs') /\ AtHome
    <2>1. UNCHANGED qty
      BY <1>4 DEF ClaimJob, Hold, ledgerVars
    <2>2. \/ jobs' = jobs
          \/ jobs' = [jobs EXCEPT ![j].status = "Claimed", ![j].reservation = nextReservationId,
                                  ![j].workers = Append(@, v)]
      BY <1>4 DEF ClaimJob
    <2>3. nextReservationId \in ReservationId
      BY <1>4 DEF ClaimJob
    <2>4. CASE jobs' = jobs
      BY <2>1, <2>4, SameAtHome DEF Homely
    <2>5. jobs[j] \in JobRecord
      BY JobFields
    <2>6. CASE jobs' = [jobs EXCEPT ![j].status = "Claimed", ![j].reservation = nextReservationId,
                                    ![j].workers = Append(@, v)]
      <3>1. jobs' = [jobs EXCEPT ![j] = jobs'[j]]
        BY <2>3, <2>6, ClaimTypes, Zenon
      <3>2. jobs'[j] = [jobs[j] EXCEPT !.status = "Claimed", !.reservation = nextReservationId,
                                       !.workers = Append(@, v)]
        BY <2>3, <2>6, ClaimTypes, Zenon
      <3>3. PICK job : job = jobs'[j]
        OBVIOUS
      <3>4. jobs' = [jobs EXCEPT ![j] = job]
        BY <3>1, <3>3
      <3>5. job.owner = jobs[j].owner /\ job.source = jobs[j].source /\ job.destination = jobs[j].destination
        BY <2>5, <3>2, <3>3 DEF JobRecord
      <3>6. DOMAIN jobs' = DOMAIN jobs
        BY <3>4
      <3>7. \A k \in DOMAIN jobs : /\ jobs'[k].owner = jobs[k].owner
                                   /\ jobs'[k].source = jobs[k].source
                                   /\ jobs'[k].destination = jobs[k].destination
        BY <3>4, <3>5
      <3>8. Homely(jobs')
        BY <3>6, <3>7, SameEnds
      <3> QED
        BY <2>1, <3>8, SameAtHome
    <2> QED
      BY <2>2, <2>4, <2>6
  <1>5. ASSUME NEW j \in DOMAIN jobs, NEW v \in Worker, ExecutePickup(actor, j, v)
        PROVE  Homely(jobs') /\ AtHome
    <2>1. Owner[v] = Owner[jobs[j].source] /\ jobs[j].source \in Container /\ v \in Container
      BY <1>5, HandlersOwn, JobFields, PlaceAssumption DEF ExecutePickup
    <2>2. \/ /\ Deliver(jobs[j].source, jobs[j].reservation, v)
             /\ jobs' = [jobs EXCEPT ![j].status = "InTransit"]
          \/ Consume(jobs[j].source, jobs[j].reservation) /\ jobs' = jobs
      BY <1>5, PickupStep, Zenon DEF ExecutePickup
    <2>3. CASE Consume(jobs[j].source, jobs[j].reservation) /\ jobs' = jobs
      BY <2>1, <2>3, ConsumeAtHome
    <2>4. CASE Deliver(jobs[j].source, jobs[j].reservation, v) /\ jobs' = [jobs EXCEPT ![j].status = "InTransit"]
      <3>1. AtHome
        BY <2>1, <2>4, DeliverAtHome
      <3> QED
        BY <2>4, <3>1, RestatedEnds, Zenon
    <2> QED
      BY <2>2, <2>3, <2>4
  <1>6. ASSUME NEW j \in DOMAIN jobs, NEW v \in Worker, ExecuteDropoff(actor, j, v)
        PROVE  Homely(jobs') /\ AtHome
    <2>1. /\ Owner[v] = Owner[jobs[j].destination] /\ jobs[j].destination \in Container /\ v \in Container
          /\ jobs[j].resource \in Resource /\ jobs[j].amount \in Nat
      BY <1>6, HandlersOwn, JobFields, PlaceAssumption DEF ExecuteDropoff
    <2>2. /\ Transfer(v, jobs[j].destination, jobs[j].resource, jobs[j].amount) \/ UNCHANGED ledgerVars
          /\ jobs' = [jobs EXCEPT ![j].status = "Completed"]
      BY <1>6, DropoffStep DEF ExecuteDropoff
    <2>3. AtHome
      <3>1. CASE Transfer(v, jobs[j].destination, jobs[j].resource, jobs[j].amount)
        BY <2>1, <3>1, TransferAtHome
      <3>2. CASE UNCHANGED ledgerVars
        BY <3>2, SameAtHome DEF ledgerVars
      <3> QED
        BY <2>2, <3>1, <3>2
    <2> QED
      BY <2>2, <2>3, RestatedEnds, Zenon
  <1> QED
    BY <1>1, <1>2, <1>3, <1>4, <1>5, <1>6

LEMMA ClientsKeepHome ==
  ASSUME Bordered, HomeInv, ClientNext
  PROVE  AtHome
  <1> USE DEF HomeInv, CoreInv, TypeOK
  <1>1. PICK actor \in Actor, c \in Container :
          \/ \E d \in Container, r \in Resource, n \in Amount : ClientTransfer(actor, c, d, r, n)
          \/ \E id \in ReservationId, r \in Resource, n \in Amount : ClientReserve(actor, c, id, r, n)
          \/ \E id \in DOMAIN held[c] :
               \/ ClientCancel(actor, c, id)
               \/ \E d \in Container : ClientCommit(actor, c, id, d)
    BY DEF ClientNext
  <1>2. ASSUME NEW d \in Container, NEW r \in Resource, NEW n \in Amount, ClientTransfer(actor, c, d, r, n)
        PROVE  AtHome
    <2>1. Owner[c] = Owner[d] /\ n \in Nat
      BY <1>2 DEF ClientTransfer, Accessible, Bordered, Amount
    <2> QED
      BY <1>2, <2>1, TransferAtHome DEF ClientTransfer
  <1>3. ASSUME NEW id, NEW d \in Container, ClientCommit(actor, c, id, d)
        PROVE  AtHome
    <2>1. Owner[c] = Owner[d]
      BY <1>3 DEF ClientCommit, Accessible, Bordered
    <2> QED
      BY <1>3, <2>1, DeliverAtHome DEF ClientCommit
  <1>4. ASSUME UNCHANGED qty PROVE AtHome
    BY <1>4, SameAtHome
  <1> QED
    BY <1>1, <1>2, <1>3, <1>4, Zenon DEF ClientReserve, ClientCancel, Hold, Release

(* Where every container has an owner and only owners act: no sequence of  *)
(* jobs and commands, of any number of factions on the same board, makes   *)
(* one faction's goods another's, because a job's ends, its handlers and   *)
(* their buffers all belong to the faction that gave it                    *)
(* (logistics.rs:561-800).                                                 *)
THEOREM GoodsNeverCross ==
  ASSUME NoFaction \notin Actor, \A c \in Container : Owner[c] # NoFaction
  PROVE  Spec => GoodsStayHome
  <1>0. Bordered
    BY DEF Bordered
  <1>1. Init => HomeInv
    <2>1. Init => Homely(jobs)
      BY DEF Init, Homely
    <2> QED
      BY <2>1, CoreInit DEF HomeInv
  <1>2. HomeInv /\ [Next]_vars => HomeInv'
    <2> SUFFICES ASSUME HomeInv, [Next]_vars PROVE HomeInv'
      OBVIOUS
    <2>1. CASE JobNext
      BY <1>0, <2>1, JobsKeepHome, JobStepKeepsCore DEF HomeInv
    <2>2. CASE ClientNext /\ UNCHANGED jobVars
      BY <2>2, ClientStepKeepsCore DEF HomeInv, jobVars
    <2>3. CASE UNCHANGED vars
      BY <2>3 DEF vars, ledgerVars, jobVars, HomeInv, CoreInv, TypeOK, LedgerTypeOK, NeverOverReserved
    <2> QED
      BY <2>1, <2>2, <2>3 DEF Next
  <1>3. ASSUME HomeInv, [Next]_vars
        PROVE  [\A f \in Actor : Holds(f)' <= Holds(f)]_vars
    <2>1. AtHome \/ UNCHANGED vars
      BY <1>0, <1>3, JobsKeepHome, ClientsKeepHome DEF Next
    <2>2. \A f : Holds(f) = Worth(qty, f) /\ Holds(f)' = Worth(qty', f)
      BY DEF Holds, Worth, Loads, Mine, Load
    <2> QED
      BY <2>1, <2>2 DEF AtHome
  <1> QED
    BY <1>1, <1>2, <1>3, PTL DEF Spec, GoodsStayHome

-----------------------------------------------------------------------------
(* Structures on their ground.                                             *)

Point == Int \X Int \X Int
Degrees == 0 .. 359
StandingSites == [kind : Buildable, at : Point, rotation : Degrees, standing : {TRUE}]

PlacementTypes ==
  /\ built = [i \in SiteId |-> built[i]]
  /\ \A i \in SiteId : \/ built[i].standing = FALSE
                       \/ built[i].standing = TRUE /\ built[i] \in StandingSites
  /\ placementGhost \in [active : BOOLEAN, kind : Buildable, rotation : Degrees, at : Point,
                         status : {"Valid", "TooFarFromPlayer", "InvalidOutOfBounds",
                                   "BlockedByTerrain", "BlockedByStructure"}]

(* GroundApart, cell by cell.                                              *)
CellsHeld ==
  \A r : r \in reservedCells <=>
    \E i \in SiteId : built[i].standing /\ \E c \in Cells(FootprintOf(built[i])) :
      r = [cell |-> c, site |-> i]

(* The cells of two structures are disjoint; their ground is all the more. *)
CellsApart ==
  \A i, j \in SiteId : built[i].standing /\ built[j].standing /\ i # j =>
    \A c \in Cells(FootprintOf(built[i])) : c \notin Cells(FootprintOf(built[j]))

IsWall(i) == built[i].standing /\ built[i].kind = "Wall"

WallsMarked ==
  \A g : g \in wallGrid <=> \E i \in SiteId : IsWall(i) /\ g = ToGridCoords(built[i].at)

GroundInv == PlacementTypes /\ CellsHeld /\ CellsApart /\ WallsMarked

-----------------------------------------------------------------------------
(* Boxes and cells.                                                        *)

Box == Int \X Int \X Int \X Int
Upright(box) == box[1] <= box[2] /\ box[3] <= box[4]

LEMMA FootprintIsBox ==
  ASSUME NEW kind \in Buildable, NEW at \in Point, NEW rotation \in Degrees
  PROVE  Footprint(kind, at, rotation) \in Box /\ Upright(Footprint(kind, at, rotation))
  <1> DEFINE h == HalfExtents(kind, rotation)
  <1>1. h[1] \in Nat /\ h[2] \in Nat
    BY PlacementAssumption DEF HalfExtents
  <1>2. at[1] \in Int /\ at[2] \in Int /\ at[3] \in Int
    BY DEF Point
  <1> HIDE DEF h
  <1>3. Footprint(kind, at, rotation) = <<at[1] - h[1], at[1] + h[1], at[3] - h[2], at[3] + h[2]>>
    BY DEF Footprint, h
  <1> QED
    BY <1>1, <1>2, <1>3 DEF Box, Upright

LEMMA FloorBelow ==
  ASSUME NEW n \in Int
  PROVE  Floor(n) \in Int /\ Metre * Floor(n) <= n
  BY DEF Floor, Metre

LEMMA CeilAbove ==
  ASSUME NEW n \in Int
  PROVE  Ceil(n) \in Int /\ n <= Metre * Ceil(n)
  <1>1. Floor(-n) \in Int /\ Metre * Floor(-n) <= -n
    BY FloorBelow
  <1>2. Ceil(n) = -Floor(-n)
    BY DEF Ceil, Floor
  <1> QED
    BY <1>1, <1>2 DEF Metre

LEMMA StraddlesCell ==
  ASSUME NEW a \in Int, NEW b \in Int, NEW c \in Int, NEW d \in Int,
         a <= b, c <= d, a < d, c < b
  PROVE  \E n \in Int : n \in Floor(a) .. Ceil(b) /\ n \in Floor(c) .. Ceil(d)
  <1>1. Floor(a) \in Int /\ Floor(c) \in Int /\ Ceil(b) \in Int /\ Ceil(d) \in Int
    BY FloorBelow, CeilAbove
  <1>2. Floor(a) <= Ceil(b) /\ Floor(a) <= Ceil(d) /\ Floor(c) <= Ceil(b) /\ Floor(c) <= Ceil(d)
    <2>1. Metre * Floor(a) <= a /\ Metre * Floor(c) <= c /\ b <= Metre * Ceil(b) /\ d <= Metre * Ceil(d)
      BY FloorBelow, CeilAbove
    <2> QED
      BY <1>1, <2>1 DEF Metre
  <1>3. CASE Floor(a) <= Floor(c)
    BY <1>1, <1>2, <1>3
  <1>4. CASE Floor(c) <= Floor(a)
    BY <1>1, <1>2, <1>4
  <1> QED
    BY <1>1, <1>3, <1>4

(* Ground that is shared is shared with a cell.                            *)
LEMMA OverlapSharesCell ==
  ASSUME NEW a \in Box, NEW b \in Box, Upright(a), Upright(b), Overlap(a, b)
  PROVE  \E c : c \in Cells(a) /\ c \in Cells(b)
  <1>1. ASSUME NEW p \in Int, NEW q \in Int, NEW r \in Int, NEW s \in Int,
               p <= q, r <= s, p < s, r < q
        PROVE  \E n \in Int : n \in Floor(p) .. Ceil(q) /\ n \in Floor(r) .. Ceil(s)
    BY <1>1, StraddlesCell, Zenon
  <1>2. a[1] \in Int /\ a[2] \in Int /\ b[1] \in Int /\ b[2] \in Int
    BY DEF Box
  <1>3. a[3] \in Int /\ a[4] \in Int /\ b[3] \in Int /\ b[4] \in Int
    BY DEF Box
  <1>4. a[1] <= a[2] /\ b[1] <= b[2] /\ a[1] < b[2] /\ b[1] < a[2]
    BY <1>2 DEF Overlap, Upright
  <1>5. a[3] <= a[4] /\ b[3] <= b[4] /\ a[3] < b[4] /\ b[3] < a[4]
    BY <1>3 DEF Overlap, Upright
  <1>6. \E m \in Int : m \in Floor(a[1]) .. Ceil(a[2]) /\ m \in Floor(b[1]) .. Ceil(b[2])
    BY <1>1, <1>2, <1>4, Zenon
  <1>7. \E n \in Int : n \in Floor(a[3]) .. Ceil(a[4]) /\ n \in Floor(b[3]) .. Ceil(b[4])
    BY <1>1, <1>3, <1>5, Zenon
  <1>8. PICK m \in Int, n \in Int :
          /\ m \in Floor(a[1]) .. Ceil(a[2]) /\ m \in Floor(b[1]) .. Ceil(b[2])
          /\ n \in Floor(a[3]) .. Ceil(a[4]) /\ n \in Floor(b[3]) .. Ceil(b[4])
    BY <1>6, <1>7
  <1>9. <<m, n>> \in Cells(a) /\ <<m, n>> \in Cells(b)
    BY <1>8 DEF Cells
  <1> QED
    BY <1>9

-----------------------------------------------------------------------------
(* A wall holds the cell in the middle of its cell of the wall grid.       *)
LEMMA NearestHolds ==
  ASSUME NEW n \in Int, NEW h \in Nat \ {0}
  PROVE  2 * Nearest(n, 2 * Metre) \in Floor(n - h) .. Ceil(n + h)
  <1> DEFINE g == Nearest(n, 2 * Metre)
  <1>1. g \in Int /\ 8 * g - 4 <= n /\ n <= 8 * g + 4
    <2>1. CASE n < 0
      <3> DEFINE q == (-2 * n + 8) \div 16
      <3>1. q \in Int
        BY <2>1
      <3>2. 16 * q <= -2 * n + 8
        BY <2>1
      <3>3. -2 * n + 8 < 16 * q + 16
        BY <2>1
      <3>4. g = -q
        BY <2>1 DEF Nearest, Metre
      <3> HIDE DEF q, g
      <3> QED
        BY <3>1, <3>2, <3>3, <3>4
    <2>2. CASE n >= 0
      <3> DEFINE q == (2 * n + 8) \div 16
      <3>1. q \in Int
        BY <2>2
      <3>2. 16 * q <= 2 * n + 8
        BY <2>2
      <3>3. 2 * n + 8 < 16 * q + 16
        BY <2>2
      <3>4. g = q
        BY <2>2 DEF Nearest, Metre
      <3> HIDE DEF q, g
      <3> QED
        BY <3>1, <3>2, <3>3, <3>4
    <2> QED
      BY <2>1, <2>2
  <1> HIDE DEF g
  <1>2. Floor(n - h) \in Int /\ 4 * Floor(n - h) <= n - h
    BY FloorBelow DEF Metre
  <1>3. Ceil(n + h) \in Int /\ n + h <= 4 * Ceil(n + h)
    BY CeilAbove DEF Metre
  <1>4. Floor(n - h) <= 2 * g /\ 2 * g <= Ceil(n + h)
    BY <1>1, <1>2, <1>3
  <1> QED
    BY <1>1, <1>2, <1>3, <1>4 DEF g

LEMMA FootprintHolds ==
  ASSUME NEW kind \in Buildable, NEW at \in Point, NEW rotation \in Degrees
  PROVE  <<2 * ToGridCoords(at)[1], 2 * ToGridCoords(at)[2]>> \in Cells(Footprint(kind, at, rotation))
  <1> DEFINE h == HalfExtents(kind, rotation)
  <1>1. h[1] \in Nat \ {0} /\ h[2] \in Nat \ {0}
    BY PlacementAssumption DEF HalfExtents
  <1>2. at[1] \in Int /\ at[2] \in Int /\ at[3] \in Int
    BY DEF Point
  <1> HIDE DEF h
  <1>3. /\ 2 * Nearest(at[1], 2 * Metre) \in Floor(at[1] - h[1]) .. Ceil(at[1] + h[1])
        /\ 2 * Nearest(at[3], 2 * Metre) \in Floor(at[3] - h[2]) .. Ceil(at[3] + h[2])
    BY <1>1, <1>2, NearestHolds, Zenon
  <1>4. Footprint(kind, at, rotation) = <<at[1] - h[1], at[1] + h[1], at[3] - h[2], at[3] + h[2]>>
    BY DEF Footprint, h
  <1> QED
    BY <1>3, <1>4 DEF Cells, ToGridCoords

LEMMA WallsDiffer ==
  ASSUME PlacementTypes, CellsApart, NEW i \in SiteId, NEW j \in SiteId, i # j,
         built[i].standing, built[j].standing
  PROVE  ToGridCoords(built[i].at) # ToGridCoords(built[j].at)
  <1>1. ASSUME NEW k \in SiteId, built[k].standing
        PROVE  <<2 * ToGridCoords(built[k].at)[1], 2 * ToGridCoords(built[k].at)[2]>> \in Cells(FootprintOf(built[k]))
    BY <1>1, FootprintHolds, Zenon DEF PlacementTypes, StandingSites, FootprintOf
  <1> QED
    BY <1>1, Zenon DEF CellsApart

LEMMA GroundIsApart == GroundInv => SitesApart
  <1> SUFFICES ASSUME GroundInv PROVE SitesApart
    OBVIOUS
  <1>1. ASSUME NEW i \in SiteId, built[i].standing
        PROVE  FootprintOf(built[i]) \in Box /\ Upright(FootprintOf(built[i]))
    BY <1>1, FootprintIsBox, Zenon DEF GroundInv, PlacementTypes, StandingSites, FootprintOf
  <1>2. \A i, j \in StandingIn(built) : i # j => ~Overlap(FootprintOf(built[i]), FootprintOf(built[j]))
    BY <1>1, OverlapSharesCell DEF GroundInv, CellsApart, StandingIn
  <1>3. reservedCells =
          UNION {{[cell |-> c, site |-> i] : c \in Cells(FootprintOf(built[i]))} : i \in StandingIn(built)}
    BY DEF GroundInv, CellsHeld, StandingIn
  <1> DEFINE walls == {i \in StandingIn(built) : built[i].kind = "Wall"}
  <1>4. wallGrid = {ToGridCoords(built[i].at) : i \in walls}
    BY DEF GroundInv, WallsMarked, IsWall, StandingIn
  <1>5. \A i, j \in walls : i # j => ToGridCoords(built[i].at) # ToGridCoords(built[j].at)
    BY WallsDiffer DEF GroundInv, StandingIn
  <1> QED
    BY <1>2, <1>3, <1>4, <1>5 DEF SitesApart, GroundApart

(* The preview turns down less than the server: it looks at the same       *)
(* distance and bounds, and at the structures in four metres from the      *)
(* ground up, where a snapped site is.                                     *)
LEMMA PreviewIsCautious == PreviewCautious
  <1> SUFFICES ASSUME view = built, NEW target \in Targets, NEW kind \in Buildable,
                      TakesSite(kind, SnapToGrid(target), placementGhost.rotation)
               PROVE  Preview(kind, SnapToGrid(target), placementGhost.rotation, builder)
                        \in {"Valid", "BlockedByTerrain"}
    BY DEF PreviewCautious
  <1> DEFINE at == SnapToGrid(target)
             box == Footprint(kind, at, placementGhost.rotation)
  <1>1. at[2] = 0
    BY DEF SnapToGrid
  <1> HIDE DEF at
  <1>2. ~Beyond(at, builder) /\ ~OffBounds(box) /\ ~Blocked(box)
    BY <1>1 DEF TakesSite, Blocked, at
  <1> QED
    BY <1>2 DEF Preview, at

-----------------------------------------------------------------------------
LEMMA GroundInitially == PlacementInit => GroundInv
  <1> SUFFICES ASSUME PlacementInit PROVE GroundInv
    OBVIOUS
  <1>1. PlacementTypes
    BY PlacementAssumption DEF PlacementInit, PlacementTypes, NoSite, Degrees, Point
  <1>2. CellsHeld /\ CellsApart /\ WallsMarked
    BY DEF PlacementInit, CellsHeld, CellsApart, WallsMarked, IsWall, NoSite
  <1> QED
    BY <1>1, <1>2 DEF GroundInv

LEMMA RequestBuildKeeps ==
  ASSUME GroundInv, NEW kind \in Buildable, NEW at \in Point, NEW rotation \in Degrees,
         RequestBuild(kind, at, rotation)
  PROVE  GroundInv'
  <1> DEFINE new == [kind |-> kind, at |-> at, rotation |-> rotation, standing |-> TRUE]
             box == Footprint(kind, at, rotation)
  <1>1. PlacementTypes /\ CellsHeld /\ CellsApart /\ WallsMarked
    BY DEF GroundInv
  <1>2. PICK i \in SiteId :
          /\ built[i] = NoSite
          /\ TakesSite(kind, at, rotation)
          /\ built' = [built EXCEPT ![i] = new]
          /\ reservedCells' = reservedCells \cup {[cell |-> c, site |-> i] : c \in Cells(box)}
          /\ wallGrid' = IF kind = "Wall" THEN wallGrid \cup {ToGridCoords(at)} ELSE wallGrid
          /\ UNCHANGED placementGhost
    BY Zenon DEF RequestBuild
  <1>3. /\ new.standing = TRUE /\ new \in StandingSites /\ FootprintOf(new) = box
        /\ new.kind = kind /\ new.at = at
    BY DEF StandingSites, FootprintOf
  <1>4. built[i].standing = FALSE
    BY <1>2 DEF NoSite
  <1> HIDE DEF new
  <1>5. /\ built' = [j \in SiteId |-> built'[j]]
        /\ built'[i] = new /\ \A j \in SiteId : j # i => built'[j] = built[j]
    BY <1>1, <1>2 DEF PlacementTypes
  <1>6. PlacementTypes'
    BY <1>1, <1>2, <1>3, <1>5 DEF PlacementTypes
  <1>7. ASSUME NEW j \in SiteId, built[j].standing, NEW c, c \in Cells(FootprintOf(built[j])), c \in Cells(box)
        PROVE FALSE
    <2>1. [cell |-> c, site |-> j] \in reservedCells
      BY <1>1, <1>7 DEF CellsHeld
    <2>2. [cell |-> c, site |-> j].cell # c
      BY <1>2, <1>7, <2>1 DEF TakesSite
    <2> QED
      BY <2>2
  <1> HIDE DEF box
  <1>8. CellsApart'
    BY <1>1, <1>3, <1>5, <1>7 DEF CellsApart, FootprintOf
  <1>9. WallsMarked'
    <2>1. ASSUME NEW j \in SiteId
          PROVE  IsWall(j)' <=> IF j = i THEN kind = "Wall" ELSE IsWall(j)
      BY <1>3, <1>5 DEF IsWall
    <2>2. ASSUME NEW g PROVE g \in wallGrid' <=> \E j \in SiteId : IsWall(j)' /\ g = ToGridCoords(built'[j].at)
      <3>1. g \in wallGrid <=> \E j \in SiteId : IsWall(j) /\ g = ToGridCoords(built[j].at)
        BY <1>1 DEF WallsMarked
      <3>2. ~IsWall(i)
        BY <1>4 DEF IsWall
      <3> QED
        BY <1>2, <1>3, <1>5, <2>1, <3>1, <3>2
    <2> QED
      BY <2>2 DEF WallsMarked, IsWall, ToGridCoords
  <1>10. CellsHeld'
    <2>1. ASSUME NEW r
          PROVE r \in reservedCells' <=>
                  r \in reservedCells \/ \E c \in Cells(box) : r = [cell |-> c, site |-> i]
      BY <1>2
    <2>2. ASSUME NEW r, NEW j \in SiteId
          PROVE (built'[j].standing /\ \E c \in Cells(FootprintOf(built'[j])) : r = [cell |-> c, site |-> j])
                <=> IF j = i THEN \E c \in Cells(box) : r = [cell |-> c, site |-> i]
                    ELSE built[j].standing /\ \E c \in Cells(FootprintOf(built[j])) : r = [cell |-> c, site |-> j]
      BY <1>3, <1>5
    <2>3. \A r : r \in reservedCells <=>
            \E j \in SiteId \ {i} : built[j].standing /\ \E c \in Cells(FootprintOf(built[j])) :
               r = [cell |-> c, site |-> j]
      BY <1>1, <1>4 DEF CellsHeld
    <2>4. \A r : r \in reservedCells' <=>
            \E j \in SiteId : built'[j].standing /\ \E c \in Cells(FootprintOf(built'[j])) :
               r = [cell |-> c, site |-> j]
      BY <2>1, <2>2, <2>3
    <2> QED
      BY <2>4 DEF CellsHeld, FootprintOf
  <1> QED
    BY <1>6, <1>8, <1>9, <1>10 DEF GroundInv

(* Whatever stops standing gives up its cells, and those only.             *)
LEMMA GivesUp ==
  ASSUME GroundInv, NEW i \in SiteId, built[i].standing, NEW left, left.standing = FALSE,
         built' = [built EXCEPT ![i] = left], FreeGround(i), UNCHANGED placementGhost
  PROVE  GroundInv'
  <1>1. PlacementTypes /\ CellsHeld /\ CellsApart /\ WallsMarked /\ reservedCells' = {r \in reservedCells : r.site # i}
    BY DEF GroundInv, FreeGround
  <1>2. /\ built' = [j \in SiteId |-> built'[j]]
        /\ built'[i] = left /\ \A j \in SiteId : j # i => built'[j] = built[j]
    BY <1>1 DEF PlacementTypes
  <1>3. PlacementTypes'
    BY <1>1, <1>2 DEF PlacementTypes
  <1>4. CellsApart'
    BY <1>1, <1>2 DEF CellsApart, FootprintOf
  <1>5. ASSUME NEW r
        PROVE  r \in reservedCells' <=>
                 \E j \in SiteId : built'[j].standing /\ \E c \in Cells(FootprintOf(built'[j])) :
                   r = [cell |-> c, site |-> j]
    <2>1. r \in reservedCells <=>
            \E j \in SiteId : built[j].standing /\ \E c \in Cells(FootprintOf(built[j])) :
              r = [cell |-> c, site |-> j]
      BY <1>1 DEF CellsHeld
    <2>2. \A j, c : r = [cell |-> c, site |-> j] => r.site = j
      OBVIOUS
    <2> QED
      BY <1>1, <1>2, <2>1, <2>2
  <1>6. CellsHeld'
    BY <1>5 DEF CellsHeld, FootprintOf
  <1>7. ASSUME NEW g PROVE g \in wallGrid' <=> \E j \in SiteId : IsWall(j)' /\ g = ToGridCoords(built'[j].at)
    <2>1. g \in wallGrid <=> \E j \in SiteId : IsWall(j) /\ g = ToGridCoords(built[j].at)
      BY <1>1 DEF WallsMarked
    <2>2. \A j \in SiteId : IsWall(j)' <=> j # i /\ IsWall(j)
      BY <1>2 DEF IsWall
    <2>3. \A j \in SiteId : j # i /\ IsWall(j) => ToGridCoords(built[j].at) # ToGridCoords(built[i].at)
      BY <1>1, WallsDiffer DEF IsWall
    <2>4. wallGrid' = IF IsWall(i) THEN wallGrid \ {ToGridCoords(built[i].at)} ELSE wallGrid
      BY DEF FreeGround, IsWall
    <2> QED
      BY <1>2, <2>1, <2>2, <2>3, <2>4
  <1>8. WallsMarked'
    BY <1>7 DEF WallsMarked, IsWall, ToGridCoords
  <1> QED
    BY <1>3, <1>4, <1>6, <1>8 DEF GroundInv

(* A round number of metres is a number of quarters.                       *)
LEMMA NearestIsInt ==
  ASSUME NEW n \in Int
  PROVE  Nearest(n, 2 * Metre) \in Int
  <1>1. (2 * n + 8) \div 16 \in Int /\ (-2 * n + 8) \div 16 \in Int
    OBVIOUS
  <1> QED
    BY <1>1 DEF Nearest, Metre

LEMMA SnapIsPoint ==
  ASSUME NEW target \in Int \X Int
  PROVE  SnapToGrid(target) \in Point
  <1>1. Nearest(target[1], 2 * Metre) \in Int /\ Nearest(target[2], 2 * Metre) \in Int
    BY NearestIsInt
  <1> QED
    BY <1>1 DEF SnapToGrid, Point, Metre

LEMMA StepKeepsGround ==
  ASSUME GroundInv, [PlacementNext]_placementvars
  PROVE  GroundInv'
  <1>1. PlacementTypes /\ CellsHeld /\ CellsApart /\ WallsMarked
    BY DEF GroundInv
  <1>2. CASE UNCHANGED placementvars
    BY <1>1, <1>2 DEF placementvars, GroundInv, PlacementTypes, CellsHeld, CellsApart, WallsMarked, IsWall, FootprintOf
  <1>3. CASE UNCHANGED <<built, reservedCells, wallGrid, placementGhost>>
    BY <1>1, <1>3 DEF GroundInv, PlacementTypes, CellsHeld, CellsApart, WallsMarked, IsWall, FootprintOf
  <1>4. CASE GroundChanges
    <2>1. CASE \E kind \in Buildable, at \in Requested, rotation \in Rotations : RequestBuild(kind, at, rotation)
      <3>1. PICK kind \in Buildable, at \in Requested, rotation \in Rotations : RequestBuild(kind, at, rotation)
        BY <2>1
      <3>2. at \in Point /\ rotation \in Degrees
        BY PlacementAssumption DEF Point, Degrees
      <3> QED
        BY <3>1, <3>2, RequestBuildKeeps
    <2>2. CASE \E i \in SiteId : Destroy(i)
      <3>1. PICK i \in SiteId : Destroy(i)
        BY <2>2
      <3> DEFINE left == [built[i] EXCEPT !.standing = FALSE]
      <3>2. built[i] \in StandingSites
        BY <1>1, <3>1 DEF Destroy, PlacementTypes
      <3>3. left.standing = FALSE
        BY <3>2 DEF StandingSites
      <3>4. built[i].standing /\ built' = [built EXCEPT ![i] = left] /\ FreeGround(i) /\ UNCHANGED placementGhost
        BY <3>1 DEF Destroy
      <3> HIDE DEF left
      <3> QED
        BY <3>3, <3>4, GivesUp, Zenon
    <2>3. CASE \E i \in SiteId : RemoveStructure(i)
      <3>1. PICK i \in SiteId : RemoveStructure(i)
        BY <2>3
      <3> DEFINE left == [NoSite EXCEPT !.kind = "Gone"]
      <3>2. left.standing = FALSE
        BY DEF NoSite
      <3>3. built[i].standing /\ built' = [built EXCEPT ![i] = left] /\ FreeGround(i) /\ UNCHANGED placementGhost
        BY <3>1 DEF RemoveStructure
      <3> HIDE DEF left
      <3> QED
        BY <3>2, <3>3, GivesUp, Zenon
    <2>4. CASE \E to \in Stands : Walk(to)
      BY <1>3, <2>4 DEF Walk
    <2> QED
      BY <1>4, <2>1, <2>2, <2>3, <2>4 DEF GroundChanges
  <1>5. CASE ClientActs
    <2>1. ASSUME placementGhost' \in [active : BOOLEAN, kind : Buildable, rotation : Degrees, at : Point,
                    status : {"Valid", "TooFarFromPlayer", "InvalidOutOfBounds",
                              "BlockedByTerrain", "BlockedByStructure"}],
                 UNCHANGED <<built, reservedCells, wallGrid>>
          PROVE GroundInv'
      BY <1>1, <2>1 DEF GroundInv, PlacementTypes, CellsHeld, CellsApart, WallsMarked, IsWall, FootprintOf
    <2>2. CASE \E target \in Targets, from \in Stands : UpdatePreview(target, from)
      <3>1. PICK target \in Targets, from \in Stands : UpdatePreview(target, from)
        BY <2>2
      <3>2. SnapToGrid(target) \in Point
        BY SnapIsPoint, PlacementAssumption
      <3>3. Preview(placementGhost.kind, SnapToGrid(target), placementGhost.rotation, from) \in
              {"Valid", "TooFarFromPlayer", "InvalidOutOfBounds", "BlockedByTerrain", "BlockedByStructure"}
        BY DEF Preview
      <3> QED
        BY <1>1, <2>1, <3>1, <3>2, <3>3, Zenon DEF UpdatePreview, PlacementTypes
    <2>3. CASE \E kind \in Buildable : Activate(kind)
      BY <1>1, <2>1, <2>3, Zenon DEF Activate, Handle, PlacementTypes
    <2>4. CASE Deactivate
      BY <1>1, <2>1, <2>4, Zenon DEF Deactivate, Handle, PlacementTypes
    <2>5. CASE RotateClockwise
      <3>1. (placementGhost.rotation + 90) % 360 \in Degrees
        BY <1>1 DEF PlacementTypes, Degrees
      <3> QED
        BY <1>1, <2>1, <2>5, <3>1 DEF RotateClockwise, Handle, PlacementTypes
    <2>6. CASE CreateBuildCommand
      <3>1. placementGhost.kind \in Buildable /\ placementGhost.at \in Point /\ placementGhost.rotation \in Degrees
        BY <1>1 DEF PlacementTypes
      <3> QED
        BY <2>6, <3>1, RequestBuildKeeps DEF CreateBuildCommand
    <2>7. CASE RefreshView
      BY <1>3, <2>7 DEF RefreshView
    <2> QED
      BY <1>5, <2>2, <2>3, <2>4, <2>5, <2>6, <2>7 DEF ClientActs
  <1> QED
    BY <1>2, <1>4, <1>5 DEF PlacementNext

-----------------------------------------------------------------------------
(* Two structures that stand never share ground, the registry holds        *)
(* exactly the cells they cover and the wall grid has one cell for each    *)
(* wall that stands, however sites are requested, destroyed and dismantled; *)
(* and a preview never refuses what the server would take (request_build,  *)
(* remove_structure, apply_damage against update_preview).                 *)
THEOREM SitesStayApart == PlacementSpec => []PlacementAgrees
  <1>1. GroundInv /\ [PlacementNext]_placementvars => GroundInv'
    BY StepKeepsGround
  <1>2. GroundInv => PlacementAgrees
    BY GroundIsApart, PreviewIsCautious DEF PlacementAgrees
  <1> QED
    BY <1>1, <1>2, GroundInitially, PTL DEF PlacementSpec
=============================================================================
