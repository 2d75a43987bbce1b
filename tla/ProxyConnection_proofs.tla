----------------------- MODULE ProxyConnection_proofs -----------------------
(***************************************************************************)
(* For any number of tasks, daemons, deaths and failures: no daemon is     *)
(* started beside another (OneDaemon), a stopped one is not started again  *)
(* before a restart (StoppedStaysStopped), and an orderly stop does not    *)
(* show as a crash (OrderlyStopIsNoCrash).                                 *)
(***************************************************************************)
EXTENDS ProxyConnection, TLAPS

Gated == {"reprobe", "polling", "reached"}

\* The ways a step of a caller moves it, kept together for the proofs below.
Moving(c) == Check(c) \/ TerminateProbes(c) \/ TerminateUndone(c) \/ RestartWaits(c)
Arriving(c) == Probe(c) \/ ReprobeFinds(c) \/ PollFinds(c)
Storing(c) ==
  ReprobeLost(c) \/ SpawnFails(c) \/ PollGivesUp(c) \/ GoLive(c) \/ ArmStop(c) \/ RestartStops(c)
Ending(c) == InVain(c) \/ AwaitClosed(c)
Requesting(c) == AskShutdown(c) \/ AskRestart(c)

\* What Go and its users do to the caller, for use in the proofs.
LEMMA GoTypes ==
  ASSUME LinkTypes, NEW c \in Callers, NEW at \in {"idle", "check", "probe", "queueing",
         "polling", "connected", "asking", "vain", "awaiting", "undone", "rstop", "rwait", "configure"},
         Go(c, at)
  PROVE  /\ op' \in [Callers -> Ops] /\ seen' \in [Callers -> States]
         /\ client' \in [Callers -> Daemons \cup {None}]
         /\ pc' \in [Callers -> {"idle", "check", "probe", "queueing", "reprobe",
               "polling", "reached", "connected", "asking", "vain", "awaiting",
               "undone", "tprobe", "rstop", "rwait", "configure"}]
         /\ pc'[c] = at /\ \A e \in Callers : e # c => pc'[e] = pc[e] /\ seen'[e] = seen[e]
  BY DEF LinkTypes, Go, Ops, States

\* The callers keep their types.
LEMMA LinkStep == TypeOK /\ [Next]_vars => LinkTypes'
<1> SUFFICES ASSUME TypeOK, [Next]_vars PROVE LinkTypes'
  OBVIOUS
<1>0. LinkTypes
  BY DEF TypeOK
<1>1. CASE UNCHANGED links
  BY <1>0, <1>1 DEF LinkTypes, links
<1>2. ASSUME NEW c \in Callers, Call(c) PROVE LinkTypes'
  <2>1. PICK o \in Ops : /\ pc' = [pc EXCEPT ![c] = FirstLoad(o)]
                         /\ op' = [op EXCEPT ![c] = IF FirstLoad(o) = "idle" THEN "use" ELSE o]
    BY <1>2 DEF Call
  <2>2. FirstLoad(o) \in {"tprobe", "check", "configure", "idle", "probe"}
    BY DEF FirstLoad
  <2>3. QED
    BY <1>0, <1>2, <2>1, <2>2 DEF Call, LinkTypes, Ops
<1>3. ASSUME NEW c \in Callers, Moving(c) \/ Probe(c) \/ TakeGate(c) PROVE LinkTypes'
  <2>1. Failed(c) \in {"undone", "idle"}
    BY DEF Failed
  <2>2. CASE Check(c) \/ RestartWaits(c) \/ Probe(c)
    BY <1>0, <2>1, <2>2, GoTypes DEF Check, RestartWaits, Probe, Moves, Reach, LinkTypes, States
  <2>3. CASE TerminateProbes(c) \/ TerminateUndone(c)
    BY <1>0, <2>3, GoTypes
    DEF TerminateProbes, TerminateUndone, Moves, Done, Stores, Released, LinkTypes, States
  <2>4. CASE TakeGate(c)
    BY <1>0, <2>1, <2>4, GoTypes DEF TakeGate, LinkTypes
  <2>5. QED
    BY <1>3, <2>2, <2>3, <2>4 DEF Moving
<1>4. ASSUME NEW c \in Callers, ReprobeFinds(c) \/ PollFinds(c) PROVE LinkTypes'
  BY <1>0, <1>4 DEF ReprobeFinds, PollFinds, Reach, LinkTypes, States
<1>5. ASSUME NEW c \in Callers, Storing(c) \/ Ending(c) PROVE LinkTypes'
  <2>1. Failed(c) \in {"undone", "idle"}
    BY DEF Failed
  <2>2. \E new \in States, at \in {"idle", "undone", "connected", "asking", "rwait"} : Stores(c, new, at)
    BY <1>0, <1>5, <2>1 DEF Storing, Ending, ReprobeLost, SpawnFails, PollGivesUp, GoLive, ArmStop,
       RestartStops, InVain, AwaitClosed, Done, Armed, LinkTypes, States
  <2>3. QED
    BY <1>0, <2>2, GoTypes DEF Stores, Released, LinkTypes
<1>6. ASSUME NEW c \in Callers, Spawn(c) \/ Requesting(c) PROVE LinkTypes'
  BY <1>0, <1>6, GoTypes DEF Spawn, Requesting, AskShutdown, AskRestart, Ask, LinkTypes
<1>7. ASSUME NEW c \in Callers, Configure(c) PROVE LinkTypes'
  BY <1>0, <1>7 DEF Configure, LinkTypes, States, Ops
<1>8. ASSUME NEW d \in Daemons, DaemonStep(d) PROVE LinkTypes'
  <2>1. CASE WatcherStores(d)
    BY <1>0, <2>1 DEF WatcherStores, LinkTypes, States
  <2>2. CASE StreamCloses(d)
    BY <1>0, <2>2 DEF StreamCloses, LinkTypes, States
  <2>3. CASE ~WatcherStores(d) /\ ~StreamCloses(d)
    BY <1>1, <1>8, <2>3 DEF DaemonStep, Listen, CloseSocket, Exit, Die, WatcherLoads, Process
  <2>4. QED
    BY <2>1, <2>2, <2>3
<1>9. CASE UNCHANGED vars
  BY <1>1, <1>9 DEF vars
<1>10. QED
  BY <1>2, <1>3, <1>4, <1>5, <1>6, <1>7, <1>8, <1>9
  DEF Next, CallerStep, Connecting, Stopping, Restarting, Moving, Storing, Ending, Requesting

\* The daemons keep their types.
LEMMA WorldStep == TypeOK /\ [Next]_vars => WorldTypes'
<1> SUFFICES ASSUME TypeOK, [Next]_vars PROVE WorldTypes'
  OBVIOUS
<1>0. WorldTypes
  BY DEF TypeOK
<1>1. CASE UNCHANGED world
  BY <1>0, <1>1 DEF WorldTypes, world
<1>2. ASSUME NEW c \in Callers, Call(c) \/ Moving(c) \/ Arriving(c) \/ TakeGate(c) PROVE WorldTypes'
  BY <1>1, <1>2 DEF Call, Moving, Check, TerminateProbes, TerminateUndone, RestartWaits, Arriving,
     Probe, ReprobeFinds, PollFinds, TakeGate, Reach, Moves, Done, Stores
<1>3. ASSUME NEW c \in Callers, Storing(c) \/ Ending(c) \/ Configure(c) PROVE WorldTypes'
  BY <1>1, <1>3 DEF Storing, Ending, ReprobeLost, SpawnFails, PollGivesUp, GoLive, ArmStop,
     RestartStops, InVain, AwaitClosed, Done, Stores, Configure
<1>4. ASSUME NEW c \in Callers, Spawn(c) \/ Requesting(c) PROVE WorldTypes'
  BY <1>0, <1>4 DEF Spawn, Requesting, AskShutdown, AskRestart, Ask, WorldTypes, world
<1>5. ASSUME NEW d \in Daemons, DaemonStep(d) PROVE WorldTypes'
  BY <1>0, <1>5 DEF DaemonStep, Listen, CloseSocket, Exit, Die, WatcherLoads, WatcherStores, StreamCloses, Process, world,
     WorldTypes
<1>6. CASE UNCHANGED vars
  BY <1>1, <1>6 DEF vars
<1>7. QED
  BY <1>2, <1>3, <1>4, <1>5, <1>6
  DEF Next, CallerStep, Connecting, Stopping, Restarting, Moving, Arriving, Storing, Ending, Requesting

\* The counts and the histories keep their types.
LEMMA HistoryStep == TypeOK /\ [Next]_vars => HistoryTypes'
<1> SUFFICES ASSUME TypeOK, [Next]_vars PROVE HistoryTypes'
  OBVIOUS
<1> USE BoundsAssumption DEF HistoryTypes
<1>0. HistoryTypes
  BY DEF TypeOK
<1>1. CASE UNCHANGED <<calls, incidents, history>>
  BY <1>0, <1>1 DEF history
<1>2. ASSUME NEW c \in Callers, Call(c) PROVE HistoryTypes'
  BY <1>0, <1>2 DEF Call
<1>3. ASSUME NEW c \in Callers, Moving(c) \/ TakeGate(c) \/ Arriving(c) PROVE HistoryTypes'
  <2>1. UNCHANGED <<calls, incidents, excused>> /\ stopped' \in BOOLEAN
    BY <1>0, <1>3 DEF Moving, Check, TerminateProbes, TerminateUndone, RestartWaits, TakeGate, Arriving,
       Probe, ReprobeFinds, PollFinds, Reach, Moves, Done, Stores, history
  <2>2. raced' \in {raced, {}, raced \cup ({gate} \cap Callers)} /\ givenUp' \in {givenUp, Left}
    BY <1>3 DEF Moving, Check, TerminateProbes, TerminateUndone, RestartWaits, TakeGate, Arriving,
       Probe, ReprobeFinds, PollFinds, Reach, Moves, Done, Stores, history
  <2>3. QED
    BY <1>0, <2>1, <2>2 DEF Left
<1>4. ASSUME NEW c \in Callers, Storing(c) \/ Ending(c) PROVE HistoryTypes'
  <2>1. calls' = calls /\ (incidents' = incidents \/ (incidents < MaxIncidents /\ incidents' = incidents + 1))
    BY <1>4 DEF Storing, Ending, ReprobeLost, SpawnFails, PollGivesUp, GoLive, ArmStop,
       RestartStops, InVain, AwaitClosed, Done, Stores, FailsFor, Incident
  <2>2. excused' \in BOOLEAN /\ stopped' \in BOOLEAN
    BY <1>0, <1>4 DEF Storing, Ending, ReprobeLost, SpawnFails, PollGivesUp, GoLive, ArmStop,
       RestartStops, InVain, AwaitClosed, Done, Stores, history
  <2>3. raced' \in {raced, {}, raced \cup ({gate} \cap Callers)} /\ givenUp' \in {givenUp, Left}
    BY <1>4 DEF Storing, Ending, ReprobeLost, SpawnFails, PollGivesUp, GoLive, ArmStop,
       RestartStops, InVain, AwaitClosed, Done, Stores, history
  <2>4. QED
    BY <1>0, <2>1, <2>2, <2>3 DEF Left
<1>5. ASSUME NEW c \in Callers, Spawn(c) \/ Requesting(c) \/ Configure(c) PROVE HistoryTypes'
  <2>1. calls' = calls /\ (incidents' = incidents \/ (incidents < MaxIncidents /\ incidents' = incidents + 1))
    BY <1>5 DEF Spawn, Requesting, AskShutdown, AskRestart, Ask, Configure, FailsFor, Incident
  <2>2. excused' \in BOOLEAN /\ stopped' \in BOOLEAN
    BY <1>0, <1>5 DEF Spawn, Requesting, AskShutdown, AskRestart, Ask, Configure, Overtaken, history
  <2>3. raced' \in {raced, {}} /\ givenUp' = givenUp
    BY <1>5 DEF Spawn, Requesting, AskShutdown, AskRestart, Ask, Configure, history
  <2>4. QED
    BY <1>0, <2>1, <2>2, <2>3
<1>6. ASSUME NEW d \in Daemons, DaemonStep(d) PROVE HistoryTypes'
  <2>1. calls' = calls /\ (incidents' = incidents \/ (incidents < MaxIncidents /\ incidents' = incidents + 1))
    BY <1>6 DEF DaemonStep, Listen, CloseSocket, Exit, Die, WatcherLoads, WatcherStores, StreamCloses, Process, world, Incident
  <2>2. excused' \in BOOLEAN /\ stopped' = stopped /\ raced' = raced
    BY <1>0, <1>6 DEF DaemonStep, Listen, CloseSocket, Exit, Die, WatcherLoads, WatcherStores, StreamCloses, Process, world, history
  <2>3. givenUp' \in {givenUp, givenUp \ {d}}
    BY <1>6 DEF DaemonStep, Listen, CloseSocket, Exit, Die, WatcherLoads, WatcherStores, StreamCloses, Process, world, history
  <2>4. QED
    BY <1>0, <2>1, <2>2, <2>3
<1>7. CASE UNCHANGED vars
  BY <1>1, <1>7 DEF vars
<1>8. QED
  BY <1>2, <1>3, <1>4, <1>5, <1>6, <1>7
  DEF Next, CallerStep, Connecting, Stopping, Restarting, Moving, Arriving, Storing, Ending, Requesting

\* Who is behind the gate holds it until it has reached a daemon, and a caller
\* that has reached one knows which.
GateHeld ==
  /\ gate # None => pc[gate] \in Gated
  /\ \A c \in Callers : pc[c] \in {"reprobe", "polling"} => gate = c
  /\ \A c \in Callers : pc[c] = "reached" => client[c] \in Daemons

\* Every step keeps that.
LEMMA GateStep == TypeOK /\ GateHeld /\ [Next]_vars => GateHeld'
<1> SUFFICES ASSUME TypeOK, GateHeld, [Next]_vars PROVE GateHeld'
  OBVIOUS
<1> USE CallersAssumption DEF GateHeld, Gated
<1>0. LinkTypes
  BY DEF TypeOK
<1>1. CASE UNCHANGED <<gate, pc, client>>
  BY <1>1
<1>2. ASSUME NEW c \in Callers, Call(c) PROVE GateHeld'
  <2>1. PICK o \in Ops : pc' = [pc EXCEPT ![c] = FirstLoad(o)]
    BY <1>2 DEF Call
  <2>2. FirstLoad(o) \notin Gated /\ pc[c] = "idle" /\ UNCHANGED <<gate, client>>
    BY <1>2 DEF Call, FirstLoad
  <2>3. QED
    BY <1>0, <2>1, <2>2 DEF LinkTypes
<1>3. ASSUME NEW c \in Callers, pc[c] \notin Gated, pc'[c] \notin Gated, UNCHANGED gate,
             \A e \in Callers : e # c => pc'[e] = pc[e] /\ client'[e] = client[e]
      PROVE  GateHeld'
  BY <1>0, <1>3 DEF LinkTypes
<1>4. ASSUME NEW c \in Callers, pc'[c] \notin Gated, gate' = Released(c),
             \A e \in Callers : e # c => pc'[e] = pc[e] /\ client'[e] = client[e]
      PROVE  GateHeld'
  BY <1>0, <1>4 DEF LinkTypes, Released
<1>5. ASSUME NEW c \in Callers, NEW at \in {"idle", "check", "probe", "queueing", "connected", "asking",
             "vain", "awaiting", "undone", "rstop", "rwait", "configure"}, Go(c, at)
      PROVE  pc'[c] = at /\ at \notin Gated /\ \A e \in Callers : e # c => pc'[e] = pc[e] /\ client'[e] = client[e]
  BY <1>0, <1>5 DEF Go, LinkTypes
<1>6. ASSUME NEW c \in Callers, Moving(c) PROVE GateHeld'
  <2>1. \E at \in {"idle", "undone", "probe", "check", "configure"} : Go(c, at)
    BY <1>6 DEF Moving, Check, TerminateProbes, TerminateUndone, RestartWaits, Moves, Done, Stores, Failed
  <2>2. (gate' = gate /\ pc[c] \notin Gated) \/ gate' = Released(c)
    BY <1>6 DEF Moving, Check, TerminateProbes, TerminateUndone, RestartWaits, Moves, Done, Stores
  <2>3. QED
    BY <1>3, <1>4, <1>5, <2>1, <2>2
<1>7. ASSUME NEW c \in Callers, Arriving(c) PROVE GateHeld'
  <2>1. CASE Reach(c)
    <3>1. pc'[c] = "reached" /\ client'[c] \in Daemons /\ UNCHANGED gate
      BY <1>0, <2>1 DEF Reach, LinkTypes
    <3>2. \A e \in Callers : e # c => pc'[e] = pc[e] /\ client'[e] = client[e]
      BY <1>0, <2>1 DEF Reach, LinkTypes
    <3>3. QED
      BY <1>0, <3>1, <3>2 DEF LinkTypes
  <2>2. CASE ~Reach(c)
    <3>1. pc[c] = "probe" /\ Go(c, "queueing") /\ UNCHANGED gate
      BY <1>7, <2>2 DEF Arriving, Probe, ReprobeFinds, PollFinds, Moves
    <3>2. QED
      BY <1>3, <1>5, <3>1
  <2>3. QED
    BY <2>1, <2>2
<1>8. ASSUME NEW c \in Callers, TakeGate(c) PROVE GateHeld'
  <2>1. CASE StillWanted
    BY <1>0, <1>8, <2>1 DEF TakeGate, GateFree, LinkTypes
  <2>2. CASE ~StillWanted
    <3>1. pc[c] = "queueing" /\ UNCHANGED gate /\ \E at \in {"idle", "undone"} : Go(c, at)
      BY <1>8, <2>2 DEF TakeGate, Failed
    <3>2. QED
      BY <1>3, <1>5, <3>1
  <2>3. QED
    BY <2>1, <2>2
<1>9. ASSUME NEW c \in Callers, Storing(c) \/ Ending(c) PROVE GateHeld'
  <2>1. gate' = Released(c) /\ \E at \in {"idle", "undone", "connected", "asking", "rwait"} : Go(c, at)
    BY <1>9 DEF Storing, Ending, ReprobeLost, SpawnFails, PollGivesUp, GoLive, ArmStop,
       RestartStops, InVain, AwaitClosed, Done, Stores, Failed
  <2>2. QED
    BY <1>4, <1>5, <2>1
<1>10. ASSUME NEW c \in Callers, Spawn(c) PROVE GateHeld'
  <2>1. pc[c] = "reprobe" /\ Go(c, "polling") /\ UNCHANGED gate
    BY <1>10 DEF Spawn
  <2>2. gate = c /\ pc' = [pc EXCEPT ![c] = "polling"] /\ \A e \in Callers : e # c => client'[e] = client[e]
    BY <1>0, <2>1 DEF Go, LinkTypes
  <2>3. QED
    BY <1>0, <2>1, <2>2 DEF LinkTypes
<1>11. ASSUME NEW c \in Callers, Requesting(c) PROVE GateHeld'
  <2>1. /\ pc[c] \in {"asking", "connected"} /\ UNCHANGED gate
        /\ \E at \in {"awaiting", "vain", "rstop", "idle"} : Go(c, at)
    BY <1>11 DEF Requesting, AskShutdown, AskRestart, Ask
  <2>2. QED
    BY <1>3, <1>5, <2>1
<1>12. ASSUME NEW c \in Callers, Configure(c) PROVE GateHeld'
  <2>1. pc[c] = "configure" /\ pc'[c] = "check" /\ UNCHANGED gate
    BY <1>0, <1>12 DEF Configure, LinkTypes
  <2>2. \A e \in Callers : e # c => pc'[e] = pc[e] /\ client'[e] = client[e]
    BY <1>0, <1>12 DEF Configure, LinkTypes
  <2>3. QED
    BY <1>3, <2>1, <2>2
<1>13. ASSUME NEW d \in Daemons, DaemonStep(d) PROVE GateHeld'
  BY <1>1, <1>13 DEF DaemonStep, Listen, CloseSocket, Exit, Die, WatcherLoads, WatcherStores, StreamCloses, Process, world, links
<1>14. CASE UNCHANGED vars
  BY <1>1, <1>14 DEF vars, links
<1>15. QED
  BY <1>2, <1>6, <1>7, <1>8, <1>9, <1>10, <1>11, <1>12, <1>13, <1>14
  DEF Next, CallerStep, Connecting, Stopping, Restarting, Moving, Arriving, Storing, Ending, Requesting

\* The types, and who holds the gate.
TypeInv == TypeOK /\ GateHeld

\* Every step keeps the variables of ProxyConnection in their types.
LEMMA TypeStep == TypeInv /\ [Next]_vars => TypeInv'
  BY LinkStep, WorldStep, HistoryStep, GateStep DEF TypeInv, TypeOK, GateHeld, Gated

\* The connection starts with everything in its type.
LEMMA TypeInit == Init => TypeInv
<1> SUFFICES ASSUME Init PROVE TypeInv
  OBVIOUS
<1>1. LinkTypes /\ GateHeld
  BY DEF Init, LinkTypes, States, Ops, GateHeld, Gated
<1>2. WorldTypes
  BY DEF Init, WorldTypes
<1>3. HistoryTypes
  <2>1. calls \in 0 .. MaxCalls /\ incidents \in 0 .. MaxIncidents
    BY BoundsAssumption DEF Init
  <2>2. excused \in BOOLEAN /\ stopped \in BOOLEAN /\ raced \subseteq Callers /\ givenUp \subseteq Daemons
    BY DEF Init
  <2>3. QED
    BY <2>1, <2>2 DEF HistoryTypes
<1>4. QED
  BY <1>1, <1>2, <1>3 DEF TypeInv, TypeOK, GateHeld, Gated

\* The variables of ProxyConnection keep their types.
THEOREM TypeCorrect == Spec => []TypeOK
<1>1. TypeInv => TypeOK
  BY DEF TypeInv
<1>2. QED
  BY <1>1, TypeInit, TypeStep, PTL DEF Spec

------------------------------------------------------------------------------
\* A daemon on its way up has somebody waiting for it behind the gate, unless he
\* has left: what OneDaemon lacks to be inductive.
Up(d) == proc[d] \in {"starting", "listening", "closing"}
AwaitedInv ==
  /\ \A d \in Daemons : proc[d] = "starting" /\ d \notin givenUp => \E c \in Callers : pc[c] = "polling"
  /\ OneDaemon

\* Nothing but Spawn, PollFinds and PollGivesUp can touch AwaitedInv among the
\* steps of a caller.
LEMMA CallerAwaited ==
  ASSUME TypeInv, AwaitedInv, NEW c \in Callers, pc[c] # "polling", givenUp' = givenUp,
         \A e \in Callers : e # c => pc'[e] = pc[e],
         \A d \in Daemons : proc'[d] = proc[d] \/ (proc'[d] = "closing" /\ Up(d))
  PROVE  AwaitedInv'
  BY DEF AwaitedInv, OneDaemon, Up

\* Every step keeps AwaitedInv.
LEMMA AwaitedStep == TypeInv /\ AwaitedInv /\ [Next]_vars => AwaitedInv'
<1> SUFFICES ASSUME TypeInv, AwaitedInv, [Next]_vars PROVE AwaitedInv'
  OBVIOUS
<1>0. LinkTypes /\ WorldTypes /\ GateHeld
  BY DEF TypeInv, TypeOK
<1>1. ASSUME NEW c \in Callers, Call(c) PROVE AwaitedInv'
  <2>1. pc[c] = "idle" /\ UNCHANGED <<proc, givenUp>> /\ \E o \in Ops : pc' = [pc EXCEPT ![c] = FirstLoad(o)]
    BY <1>1 DEF Call, world
  <2>2. \A e \in Callers : e # c => pc'[e] = pc[e]
    BY <1>0, <2>1 DEF LinkTypes
  <2>3. QED
    BY <2>1, <2>2, CallerAwaited
<1>2. ASSUME NEW c \in Callers, pc[c] # "polling", givenUp' = givenUp, UNCHANGED proc, NEW at, Go(c, at)
      PROVE  AwaitedInv'
  BY <1>0, <1>2, CallerAwaited DEF Go, LinkTypes
<1>3. ASSUME NEW c \in Callers, Moving(c) PROVE AwaitedInv'
  BY <1>2, <1>3 DEF Moving, Check, TerminateProbes, TerminateUndone, RestartWaits, Moves, Done, Stores,
     world, history
<1>4. ASSUME NEW c \in Callers, Probe(c) \/ ReprobeFinds(c) PROVE AwaitedInv'
  <2>1. pc[c] # "polling" /\ UNCHANGED <<proc, givenUp>> /\ \E at : pc' = [pc EXCEPT ![c] = at]
    BY <1>4 DEF Probe, ReprobeFinds, Reach, Moves, Go, world, history
  <2>2. \A e \in Callers : e # c => pc'[e] = pc[e]
    BY <1>0, <2>1 DEF LinkTypes
  <2>3. QED
    BY <2>1, <2>2, CallerAwaited
<1>5. ASSUME NEW c \in Callers, PollFinds(c) \/ PollGivesUp(c) PROVE AwaitedInv'
  <2>1. givenUp' = Left /\ UNCHANGED proc
    BY <1>5 DEF PollFinds, PollGivesUp, Reach, Stores, world
  <2>2. QED
    BY <2>1 DEF AwaitedInv, OneDaemon, Left
<1>6. ASSUME NEW c \in Callers, TakeGate(c) PROVE AwaitedInv'
  <2>1. pc[c] = "queueing" /\ UNCHANGED <<proc, givenUp>> /\ \E at : pc' = [pc EXCEPT ![c] = at]
    BY <1>6 DEF TakeGate, Go, world, history
  <2>2. \A e \in Callers : e # c => pc'[e] = pc[e]
    BY <1>0, <2>1 DEF LinkTypes
  <2>3. QED
    BY <2>1, <2>2, CallerAwaited
<1>7. ASSUME NEW c \in Callers, Storing(c) \/ Ending(c), ~PollGivesUp(c) PROVE AwaitedInv'
  <2>1. pc[c] # "polling" /\ UNCHANGED <<proc, givenUp>> /\ \E at : Go(c, at)
    BY <1>7 DEF Storing, Ending, ReprobeLost, SpawnFails, GoLive, ArmStop,
       RestartStops, InVain, AwaitClosed, Done, Stores, world, history
  <2>2. QED
    BY <1>2, <2>1
<1>8. ASSUME NEW c \in Callers, Spawn(c) PROVE AwaitedInv'
  <2>1. pc[c] = "reprobe" /\ ~Answered /\ gate = c /\ givenUp' = givenUp
    BY <1>0, <1>8 DEF Spawn, GateHeld, history
  <2>2. pc'[c] = "polling"
    BY <1>0, <1>8 DEF Spawn, Go, LinkTypes
  <2>3. \A e \in Callers : pc[e] # "polling"
    BY <1>0, <2>1 DEF GateHeld
  <2>4. \A d \in Daemons : Up(d) => d \in givenUp
    BY <1>0, <2>1, <2>3 DEF AwaitedInv, Up, Answered, Answering
  <2>5. PICK d \in Daemons : proc' = [proc EXCEPT ![d] = "starting"]
    BY <1>8 DEF Spawn
  <2>6. \A e \in Daemons : e # d => proc'[e] = proc[e]
    BY <1>0, <2>5 DEF WorldTypes
  <2>7. QED
    BY <2>1, <2>2, <2>4, <2>6 DEF AwaitedInv, OneDaemon, Up
<1>9. ASSUME NEW c \in Callers, Requesting(c) PROVE AwaitedInv'
  <2>1. pc[c] # "polling" /\ givenUp' = givenUp /\ \E at : Go(c, at)
    BY <1>9 DEF Requesting, AskShutdown, AskRestart, Ask, history
  <2>2. \A e \in Callers : e # c => pc'[e] = pc[e]
    BY <1>0, <2>1 DEF Go, LinkTypes
  <2>3. UNCHANGED proc \/ (Answering(client[c]) /\ proc' = [proc EXCEPT ![client[c]] = "closing"])
    BY <1>9 DEF Requesting, AskShutdown, AskRestart, Ask, world
  <2>4. \A d \in Daemons : proc'[d] = proc[d] \/ (proc'[d] = "closing" /\ Up(d))
    BY <1>0, <2>3 DEF WorldTypes, Answering, Up
  <2>5. QED
    BY <2>1, <2>2, <2>4, CallerAwaited
<1>10. ASSUME NEW c \in Callers, Configure(c) PROVE AwaitedInv'
  <2>1. pc[c] = "configure" /\ UNCHANGED <<proc, givenUp>> /\ pc' = [pc EXCEPT ![c] = "check"]
    BY <1>10 DEF Configure, world
  <2>2. \A e \in Callers : e # c => pc'[e] = pc[e]
    BY <1>0, <2>1 DEF LinkTypes
  <2>3. QED
    BY <2>1, <2>2, CallerAwaited
<1>11. ASSUME NEW d \in Daemons, DaemonStep(d) PROVE AwaitedInv'
  <2>1. pc' = pc
    BY <1>11 DEF DaemonStep, Listen, CloseSocket, Exit, Die, WatcherLoads, WatcherStores, StreamCloses, Process, world, links
  <2>2. \/ UNCHANGED <<proc, givenUp>>
        \/ proc' = [proc EXCEPT ![d] = "dead"] /\ givenUp' = givenUp \ {d}
        \/ proc' = [proc EXCEPT ![d] = "closed"] /\ givenUp' = givenUp
        \/ proc[d] = "starting" /\ proc' = [proc EXCEPT ![d] = "listening"] /\ givenUp' = givenUp
    BY <1>11 DEF DaemonStep, Listen, CloseSocket, Exit, Die, WatcherLoads, WatcherStores, StreamCloses, Process, world,
       links, history
  <2>3. \A e \in Daemons : e # d => proc'[e] = proc[e] /\ (e \in givenUp' <=> e \in givenUp)
    BY <1>0, <2>2 DEF WorldTypes
  <2>4. UNCHANGED <<proc, givenUp>> \/ ~Up(d)' \/
        (proc[d] = "starting" /\ proc'[d] = "listening" /\ givenUp' = givenUp)
    BY <1>0, <2>2 DEF WorldTypes, Up
  <2>5. QED
    BY <2>1, <2>3, <2>4 DEF AwaitedInv, OneDaemon, Up
<1>12. CASE UNCHANGED vars
  BY <1>12 DEF vars, links, world, history, AwaitedInv, OneDaemon
<1>13. QED
  BY <1>1, <1>3, <1>4, <1>5, <1>6, <1>7, <1>8, <1>9, <1>10, <1>11, <1>12
  DEF Next, CallerStep, Connecting, Stopping, Restarting, Moving, Storing, Ending, Requesting

\* OneDaemon, for any number of tasks, daemons and failures: the gate and the
\* probe behind it keep a second daemon from being started beside a first.
THEOREM OneDaemonHolds == Spec => []OneDaemon
<1>1. ASSUME Init PROVE AwaitedInv
  BY <1>1 DEF Init, AwaitedInv, OneDaemon
<1>2. AwaitedInv => OneDaemon
  BY DEF AwaitedInv
<1>3. QED
  BY <1>1, <1>2, TypeInit, TypeStep, AwaitedStep, PTL DEF Spec

------------------------------------------------------------------------------
\* After a stop the state is never Cold, and who read it Cold behind the gate was
\* there when the stop was done.
StopInv ==
  /\ stopped => state # "Cold"
  /\ \A c \in Callers : pc[c] = "reprobe" => seen[c] \notin Refusing
  /\ stopped => \A c \in Callers : pc[c] = "reprobe" /\ seen[c] = "Cold" => c \in raced

\* What a step does to who is behind the gate, where a caller moves by Go.
LEMMA GoStop ==
  ASSUME TypeInv, StopInv, NEW c \in Callers, NEW at, at # "reprobe", Go(c, at),
         stopped' => state' # "Cold",
         \/ stopped' = stopped /\ raced' = raced
         \/ stopped' = FALSE
         \/ raced' = raced \cup ({gate} \cap Callers)
  PROVE  StopInv'
<1>1. LinkTypes /\ GateHeld
  BY DEF TypeInv, TypeOK
<1>2. pc'[c] = at /\ \A e \in Callers : e # c => pc'[e] = pc[e] /\ seen'[e] = seen[e]
  BY <1>1 DEF Go, LinkTypes
<1>3. \A e \in Callers : pc'[e] = "reprobe" => pc[e] = "reprobe" /\ seen'[e] = seen[e] /\ e = gate
  BY <1>1, <1>2 DEF GateHeld
<1>4. \A e \in Callers : pc'[e] = "reprobe" => seen'[e] \notin Refusing
  BY <1>3 DEF StopInv
<1>5. ASSUME stopped', NEW e \in Callers, pc'[e] = "reprobe", seen'[e] = "Cold" PROVE e \in raced'
  BY <1>3, <1>5 DEF StopInv
<1>6. QED
  BY <1>4, <1>5 DEF StopInv

\* Every step keeps StopInv, and a stopped daemon is only started by such a caller.
LEMMA StopStep ==
  TypeInv /\ StopInv /\ [Next]_vars =>
    /\ StopInv'
    /\ \A d \in Daemons : proc[d] = "unborn" /\ proc'[d] = "starting" => ~stopped \/ gate \in raced
<1> SUFFICES ASSUME TypeInv, StopInv, [Next]_vars
             PROVE  /\ StopInv'
                    /\ ~(\A d \in Daemons : proc[d] = "unborn" => proc'[d] # "starting")
                         => ~stopped \/ gate \in raced
  OBVIOUS
<1> DEFINE Starts == ~(\A d \in Daemons : proc[d] = "unborn" => proc'[d] # "starting")
<1>0. LinkTypes /\ WorldTypes /\ GateHeld
  BY DEF TypeInv, TypeOK
<1>1. ASSUME UNCHANGED proc PROVE ~Starts
  BY <1>1
<1>2. ASSUME NEW c \in Callers, Call(c) PROVE StopInv' /\ ~Starts
  <2>1. pc[c] = "idle" /\ UNCHANGED <<proc, state, stopped, seen>> /\ raced' = raced \ {c}
        /\ \E o \in Ops : pc' = [pc EXCEPT ![c] = FirstLoad(o)]
    BY <1>2 DEF Call, world
  <2>2. pc'[c] # "reprobe" /\ \A e \in Callers : e # c => pc'[e] = pc[e]
    BY <1>0, <2>1 DEF LinkTypes, FirstLoad
  <2>3. QED
    BY <1>1, <2>1, <2>2 DEF StopInv
<1>3. ASSUME NEW c \in Callers, Moving(c) \/ Ending(c) PROVE StopInv' /\ ~Starts
  <2>1. UNCHANGED proc
    BY <1>3 DEF Moving, Ending, Check, TerminateProbes, TerminateUndone, RestartWaits, InVain,
       AwaitClosed, Moves, Done, Stores, world
  <2>2. \E at \in {"idle", "undone", "probe", "check", "configure"} : Go(c, at)
    BY <1>3 DEF Moving, Ending, Check, TerminateProbes, TerminateUndone, RestartWaits, InVain,
       AwaitClosed, Moves, Done, Stores, Failed
  <2>3. \/ UNCHANGED <<stopped, raced, state>>
        \/ state' = "Live" /\ UNCHANGED <<stopped, raced>>
        \/ \E new \in States : Done(c, new)
    BY <1>0, <1>3 DEF Moving, Ending, Check, TerminateProbes, TerminateUndone, RestartWaits, InVain,
       AwaitClosed, Moves, Stores, history, LinkTypes, States
  <2>4. \/ stopped' = stopped /\ raced' = raced
        \/ stopped' = FALSE
        \/ raced' = raced \cup ({gate} \cap Callers)
    BY <2>3 DEF Done
  <2>5. stopped' => state' # "Cold"
    BY <2>3 DEF Done, Stores, StopInv
  <2>6. QED
    BY <1>1, <2>1, <2>2, <2>4, <2>5, GoStop
<1>4. ASSUME NEW c \in Callers, Arriving(c) PROVE StopInv' /\ ~Starts
  <2>1. UNCHANGED <<proc, state, stopped, raced>> /\ \E at \in {"reached", "queueing"} :
          pc' = [pc EXCEPT ![c] = at] /\ seen' = [seen EXCEPT ![c] = "Cold"]
    BY <1>4 DEF Arriving, Probe, ReprobeFinds, PollFinds, Reach, Moves, Go, world, history
  <2>2. pc'[c] # "reprobe" /\ \A e \in Callers : e # c => pc'[e] = pc[e] /\ seen'[e] = seen[e]
    BY <1>0, <2>1 DEF LinkTypes
  <2>3. QED
    BY <1>1, <2>1, <2>2 DEF StopInv
<1>5. ASSUME NEW c \in Callers, TakeGate(c) PROVE StopInv' /\ ~Starts
  <2>1. UNCHANGED <<proc, state, stopped, raced>>
    BY <1>5 DEF TakeGate, world, history
  <2>2. CASE StillWanted
    <3>1. pc'[c] = "reprobe" /\ seen'[c] = state /\ state \notin Refusing
          /\ \A e \in Callers : e # c => pc'[e] = pc[e] /\ seen'[e] = seen[e]
      BY <1>0, <1>5, <2>2 DEF TakeGate, LinkTypes, StillWanted
    <3>2. QED
      BY <1>1, <2>1, <3>1 DEF StopInv
  <2>3. CASE ~StillWanted
    <3>1. \E at \in {"idle", "undone"} : Go(c, at)
      BY <1>5, <2>3 DEF TakeGate, Failed
    <3>2. stopped' => state' # "Cold"
      BY <2>1 DEF StopInv
    <3>3. QED
      BY <1>1, <2>1, <3>1, <3>2, GoStop
  <2>4. QED
    BY <2>2, <2>3
<1>6. ASSUME NEW c \in Callers, Storing(c) PROVE StopInv' /\ ~Starts
  <2>1. UNCHANGED <<proc, stopped, raced>>
        /\ \E at \in {"idle", "undone", "connected", "asking", "rwait"} : Go(c, at)
    BY <1>6 DEF Storing, ReprobeLost, SpawnFails, PollGivesUp, GoLive, ArmStop, RestartStops,
       Stores, Failed, world, history
  <2>2. state' \in {state, "Crashed", "Live", "Stopped"}
    BY <1>6 DEF Storing, ReprobeLost, SpawnFails, PollGivesUp, GoLive, ArmStop, RestartStops,
       Stores, Armed
  <2>3. stopped' => state' # "Cold"
    BY <2>1, <2>2 DEF StopInv
  <2>4. QED
    BY <1>1, <2>1, <2>3, GoStop
<1>7. ASSUME NEW c \in Callers, Spawn(c) PROVE StopInv' /\ (~stopped \/ gate \in raced)
  <2>1. pc[c] = "reprobe" /\ seen[c] # "Live" /\ gate = c /\ UNCHANGED <<state, stopped, raced>>
        /\ Go(c, "polling")
    BY <1>0, <1>7 DEF Spawn, GateHeld, history
  <2>2. seen[c] = "Cold"
    BY <1>0, <2>1 DEF StopInv, LinkTypes, States, Refusing
  <2>3. stopped' => state' # "Cold"
    BY <2>1 DEF StopInv
  <2>4. QED
    BY <2>1, <2>2, <2>3, GoStop DEF StopInv
<1>8. ASSUME NEW c \in Callers, Requesting(c) PROVE StopInv' /\ ~Starts
  <2>1. UNCHANGED <<state, stopped, raced>> /\ \E at \in {"awaiting", "vain", "rstop", "idle"} : Go(c, at)
    BY <1>8 DEF Requesting, AskShutdown, AskRestart, Ask, history
  <2>2. UNCHANGED proc \/ proc' = [proc EXCEPT ![client[c]] = "closing"]
    BY <1>8 DEF Requesting, AskShutdown, AskRestart, Ask, world
  <2>3. ~Starts
    BY <1>0, <2>2 DEF WorldTypes
  <2>4. stopped' => state' # "Cold"
    BY <2>1 DEF StopInv
  <2>5. QED
    BY <2>1, <2>3, <2>4, GoStop
<1>9. ASSUME NEW c \in Callers, Configure(c) PROVE StopInv' /\ ~Starts
  <2>1. stopped' = FALSE /\ UNCHANGED <<proc, seen>> /\ pc' = [pc EXCEPT ![c] = "check"]
    BY <1>9 DEF Configure, world
  <2>2. pc'[c] # "reprobe" /\ \A e \in Callers : e # c => pc'[e] = pc[e]
    BY <1>0, <2>1 DEF LinkTypes
  <2>3. QED
    BY <1>1, <2>1, <2>2 DEF StopInv
<1>10. ASSUME NEW d \in Daemons, DaemonStep(d) PROVE StopInv' /\ ~Starts
  <2>1. UNCHANGED <<pc, seen, stopped, raced>> /\ state' \in {state, "Stopped", "Crashed"}
    BY <1>10 DEF DaemonStep, Listen, CloseSocket, Exit, Die, WatcherLoads, WatcherStores, StreamCloses, Process, world,
       links, history
  <2>2. UNCHANGED proc \/ \E at \in {"dead", "listening", "closed"} : proc' = [proc EXCEPT ![d] = at]
    BY <1>10 DEF DaemonStep, Listen, CloseSocket, Exit, Die, WatcherLoads, WatcherStores, StreamCloses, Process, world
  <2>3. ~Starts
    BY <1>0, <2>2 DEF WorldTypes
  <2>4. StopInv'
    BY <2>1 DEF StopInv
  <2>5. QED
    BY <2>3, <2>4
<1>11. ASSUME UNCHANGED vars PROVE StopInv' /\ ~Starts
  BY <1>11 DEF vars, links, world, history, StopInv
<1>12. QED
  BY <1>2, <1>3, <1>4, <1>5, <1>6, <1>7, <1>8, <1>9, <1>10, <1>11
  DEF Next, CallerStep, Connecting, Stopping, Restarting, Moving, Arriving, Storing, Ending, Requesting

\* StoppedStaysStopped: after a stop nobody starts a daemon but who was behind the
\* gate when it was done, until a restart.
THEOREM StoppedStaysStoppedHolds == Spec => StoppedStaysStopped
<1>1. ASSUME Init PROVE StopInv
  BY <1>1 DEF Init, StopInv
<1>2. TypeInv /\ StopInv /\ [Next]_vars =>
        [\A d \in Daemons :
           proc[d] = "unborn" /\ proc'[d] = "starting" => ~stopped \/ gate \in raced]_vars
  BY StopStep
<1>3. TypeInv /\ StopInv /\ [Next]_vars => StopInv'
  BY StopStep
<1>4. QED
  BY <1>1, <1>2, <1>3, TypeInit, TypeStep, PTL DEF Spec, StoppedStaysStopped

------------------------------------------------------------------------------
\* Where the state is Live a daemon listens, and where it is not Stopped none is
\* being asked to go, unless there was a reason to take for a crash.
CrashInv ==
  /\ OrderlyStopIsNoCrash
  /\ state = "Live" => excused \/ \E d \in Daemons : proc[d] = "listening"
  /\ state # "Stopped" /\ ((\E c \in Callers : pc[c] \in {"asking", "awaiting"}) \/ \E d \in Daemons : proc[d] = "closing")
       => excused

\* Once there is a reason, only a restart forgets it.
LEMMA ExcusedEnough == ASSUME excused' PROVE CrashInv'
  BY DEF CrashInv, OrderlyStopIsNoCrash

\* A step that asks nobody to go and leaves the listening daemons alone.
LEMMA QuietStep ==
  ASSUME CrashInv, excused => excused', UNCHANGED proc,
         state' = state \/ state' = "Stopped",
         \A c \in Callers : pc'[c] \in {"asking", "awaiting"} => pc[c] \in {"asking", "awaiting"} \/ state' = "Stopped"
  PROVE  CrashInv'
  BY DEF CrashInv, OrderlyStopIsNoCrash

\* Every step keeps CrashInv.
LEMMA CrashStep == TypeInv /\ CrashInv /\ [Next]_vars => CrashInv'
<1> SUFFICES ASSUME TypeInv, CrashInv, [Next]_vars, ~excused' PROVE CrashInv'
  BY ExcusedEnough
<1>0. LinkTypes /\ WorldTypes /\ GateHeld
  BY DEF TypeInv, TypeOK
<1>1. ASSUME NEW c \in Callers, Call(c) PROVE CrashInv'
  <2>1. UNCHANGED <<proc, state, excused>> /\ \E o \in Ops : pc' = [pc EXCEPT ![c] = FirstLoad(o)]
    BY <1>1 DEF Call, world
  <2>2. \A e \in Callers : pc'[e] \in {"asking", "awaiting"} => pc[e] \in {"asking", "awaiting"}
    BY <1>0, <2>1 DEF LinkTypes, FirstLoad
  <2>3. QED
    BY <2>1, <2>2, QuietStep
<1>2. ASSUME NEW c \in Callers, NEW at, at \notin {"asking", "awaiting"}, pc' = [pc EXCEPT ![c] = at]
      PROVE  \A e \in Callers : pc'[e] \in {"asking", "awaiting"} => e # c /\ pc[e] \in {"asking", "awaiting"}
  BY <1>0, <1>2 DEF LinkTypes
<1>3. ASSUME NEW c \in Callers, Moving(c) \/ Arriving(c) \/ AwaitClosed(c) \/ RestartStops(c)
      PROVE  CrashInv'
  <2>1. UNCHANGED <<proc, excused>> /\ state' \in {state, "Stopped"}
    BY <1>3 DEF Moving, Check, TerminateProbes, TerminateUndone, RestartWaits, Arriving, Probe,
       ReprobeFinds, PollFinds, AwaitClosed, RestartStops, Reach, Moves, Done, Stores, world, history
  <2>2. \E at : at \notin {"asking", "awaiting"} /\ pc' = [pc EXCEPT ![c] = at]
    BY <1>3 DEF Moving, Check, TerminateProbes, TerminateUndone, RestartWaits, Arriving, Probe,
       ReprobeFinds, PollFinds, AwaitClosed, RestartStops, Reach, Moves, Done, Stores, Go, Failed
  <2>3. QED
    BY <1>2, <2>1, <2>2, QuietStep
<1>4. ASSUME NEW c \in Callers, TakeGate(c) PROVE CrashInv'
  <2>1. UNCHANGED <<proc, excused, state>> /\ \E at : at \notin {"asking", "awaiting"} /\ pc' = [pc EXCEPT ![c] = at]
    BY <1>4 DEF TakeGate, Go, Failed, world, history
  <2>2. QED
    BY <1>2, <2>1, QuietStep
<1>5. ASSUME NEW c \in Callers, ReprobeLost(c) PROVE CrashInv'
  <2>1. state = "Live" /\ ~Answered /\ ~excused
    BY <1>5 DEF ReprobeLost
  <2>2. QED
    BY <2>1 DEF CrashInv, Answered, Answering
<1>6. ASSUME NEW c \in Callers, SpawnFails(c) PROVE CrashInv'
  <2>1. Stores(c, state, Failed(c)) /\ UNCHANGED excused
    BY <1>6 DEF SpawnFails
  <2>2. UNCHANGED <<proc, state>> /\ pc' = [pc EXCEPT ![c] = Failed(c)]
    BY <2>1 DEF Stores, Go, world
  <2>3. Failed(c) \notin {"asking", "awaiting"}
    BY DEF Failed
  <2>4. QED
    BY <1>2, <2>1, <2>2, <2>3, QuietStep
<1>7. ASSUME NEW c \in Callers, GoLive(c) PROVE CrashInv'
  <2>1. /\ ~excused /\ state \notin Refusing /\ proc[client[c]] = "listening"
        /\ pc[c] = "reached" /\ state' = "Live" /\ UNCHANGED proc
    BY <1>7 DEF GoLive, Stores, world
  <2>2. client[c] \in Daemons
    BY <1>0, <2>1 DEF GateHeld
  <2>3. \E at : at \notin {"asking", "awaiting"} /\ pc' = [pc EXCEPT ![c] = at]
    BY <1>7 DEF GoLive, Stores, Go
  <2>4. QED
    BY <1>2, <2>1, <2>2, <2>3 DEF CrashInv, OrderlyStopIsNoCrash, Refusing
<1>8. ASSUME NEW c \in Callers, ArmStop(c) PROVE CrashInv'
  <2>1. state' = "Stopped"
    BY <1>8 DEF ArmStop, Stores, Armed
  <2>2. QED
    BY <2>1 DEF CrashInv, OrderlyStopIsNoCrash
<1>9. ASSUME NEW c \in Callers, AskShutdown(c) PROVE CrashInv'
  <2>1. pc[c] = "asking" /\ ~excused /\ state' = state
    BY <1>9 DEF AskShutdown, Ask, history
  <2>2. state = "Stopped"
    BY <2>1 DEF CrashInv
  <2>3. QED
    BY <2>1, <2>2 DEF CrashInv, OrderlyStopIsNoCrash
<1>10. ASSUME NEW c \in Callers, InVain(c) PROVE CrashInv'
  <2>1. CASE Answered
    <3>1. state' = "Live" /\ ~Overtaken(c) /\ UNCHANGED proc /\ ~excused
      BY <1>10, <2>1 DEF InVain, Stores, world
    <3>2. \E at : at \notin {"asking", "awaiting"} /\ pc' = [pc EXCEPT ![c] = at]
      BY <1>10, <2>1 DEF InVain, Stores, Go, Failed
    <3>3. QED
      BY <1>2, <2>1, <3>1, <3>2 DEF CrashInv, OrderlyStopIsNoCrash, Overtaken, Answered, Answering
  <2>2. CASE ~Answered
    <3>1. UNCHANGED <<proc, excused, state>> /\ \E at : at \notin {"asking", "awaiting"} /\ pc' = [pc EXCEPT ![c] = at]
      BY <1>10, <2>2 DEF InVain, Done, Stores, Go, world
    <3>2. QED
      BY <1>2, <3>1, QuietStep
  <2>3. QED
    BY <2>1, <2>2
<1>11. ASSUME NEW c \in Callers, AskRestart(c) PROVE CrashInv'
  <2>1. UNCHANGED <<proc, excused, state>> /\ \E at : at \notin {"asking", "awaiting"} /\ pc' = [pc EXCEPT ![c] = at]
    BY <1>11 DEF AskRestart, Go, world, history
  <2>2. QED
    BY <1>2, <2>1, QuietStep
<1>12. ASSUME NEW c \in Callers, Configure(c) PROVE CrashInv'
  <2>1. state' = "Cold" /\ ~Overtaken(c) /\ UNCHANGED proc /\ pc' = [pc EXCEPT ![c] = "check"]
    BY <1>12 DEF Configure, world
  <2>2. \A e \in Callers : pc'[e] \in {"asking", "awaiting"} => e # c /\ pc[e] \in {"asking", "awaiting"}
    BY <1>2, <2>1
  <2>3. QED
    BY <2>1, <2>2 DEF CrashInv, OrderlyStopIsNoCrash, Overtaken
<1>13. ASSUME NEW c \in Callers, Spawn(c) PROVE CrashInv'
  <2>1. UNCHANGED <<state, excused>> /\ pc' = [pc EXCEPT ![c] = "polling"] /\ ~Answered
    BY <1>13 DEF Spawn, Go, history
  <2>2. PICK d \in Daemons : proc' = [proc EXCEPT ![d] = "starting"] /\ proc[d] = "unborn"
    BY <1>13 DEF Spawn
  <2>3. \A e \in Daemons : e # d => proc'[e] = proc[e]
    BY <1>0, <2>2 DEF WorldTypes
  <2>4. proc'[d] = "starting"
    BY <1>0, <2>2 DEF WorldTypes
  <2>5. \A e \in Callers : pc'[e] \in {"asking", "awaiting"} => pc[e] \in {"asking", "awaiting"}
    BY <1>2, <2>1
  <2>6. QED
    BY <2>1, <2>2, <2>3, <2>4, <2>5 DEF CrashInv, OrderlyStopIsNoCrash
<1>14. ASSUME NEW d \in Daemons, DaemonStep(d) PROVE CrashInv'
  <2>1. UNCHANGED <<pc, state, excused>>
    BY <1>14 DEF DaemonStep, Listen, CloseSocket, Exit, Die, WatcherLoads, WatcherStores, StreamCloses, Process, world,
       links, history
  <2>2. \/ UNCHANGED proc
        \/ proc[d] = "starting" /\ \E at \in {"dead", "listening"} : proc' = [proc EXCEPT ![d] = at]
        \/ proc[d] \in {"closing", "closed"} /\ \E at \in {"dead", "closed"} : proc' = [proc EXCEPT ![d] = at]
    BY <1>14 DEF DaemonStep, Listen, CloseSocket, Exit, Die, WatcherLoads, WatcherStores, StreamCloses, Process, world
  <2>3. \A e \in Daemons : /\ proc[e] = "listening" => proc'[e] = "listening"
                           /\ proc'[e] = "closing" => proc[e] = "closing"
    BY <1>0, <2>2 DEF WorldTypes
  <2>4. QED
    BY <2>1, <2>3 DEF CrashInv, OrderlyStopIsNoCrash
<1>15. CASE UNCHANGED vars
  BY <1>15 DEF vars, links, world, history, CrashInv, OrderlyStopIsNoCrash
<1>16. ASSUME NEW c \in Callers, PollGivesUp(c) PROVE CrashInv'
  BY <1>16 DEF PollGivesUp
<1>17. QED
  BY <1>1, <1>3, <1>4, <1>5, <1>6, <1>7, <1>8, <1>9, <1>10, <1>11, <1>12, <1>13, <1>14, <1>15, <1>16
  DEF Next, CallerStep, Connecting, Stopping, Restarting, Moving, Arriving

\* OrderlyStopIsNoCrash: what the history does not excuse is never reported as a
\* crash, whoever stops and connects at once.
THEOREM OrderlyStopIsNoCrashHolds == Spec => []OrderlyStopIsNoCrash
<1>1. ASSUME Init PROVE CrashInv
  BY <1>1 DEF Init, CrashInv, OrderlyStopIsNoCrash
<1>2. CrashInv => OrderlyStopIsNoCrash
  BY DEF CrashInv
<1>3. QED
  BY <1>1, <1>2, TypeInit, TypeStep, CrashStep, PTL DEF Spec
==============================================================================
