---------------------------- MODULE ProxyConnection ----------------------------
(***************************************************************************)
(* The app's connection to the AgencyProxy daemon (agent_proxy.rs): one    *)
(* connection state shared by every caller of connect, by stop, terminate  *)
(* and restart, by the thread that waits on each daemon the app spawned,   *)
(* and by the runs' drivers.  Every load, store and await is a step.       *)
(***************************************************************************)
EXTENDS Naturals, FiniteSets

CONSTANTS
  Callers,     \* tasks that use the connection at one time
  MaxDaemons,  \* bound: daemon processes there can ever be
  MaxCalls,    \* bound: calls made in all
  MaxIncidents,\* bound: deaths and failures
  None         \* no caller, no daemon

ASSUME CallersAssumption == None \notin Callers \cup Nat
ASSUME BoundsAssumption == MaxDaemons \in Nat /\ MaxCalls \in Nat /\ MaxIncidents \in Nat

\* In the order they are started.
Daemons == 1 .. MaxDaemons

VARIABLES
  state,       \* connection_state
  gate,        \* who holds start_gate
  op,          \* per caller: what it was called for
  pc,          \* per caller: where it is
  seen,        \* per caller: the state it read behind the gate
  client,      \* per caller: the daemon it reached
  proc,        \* per daemon: where its process is
  exit,        \* per daemon: how it ended, for the thread that waits on it
  watcher,     \* per daemon: where the thread that waits on it is
  calls,       \* how many calls there were
  incidents,   \* how many deaths and failures
  excused,     \* history: something since the last restart can look like a crash
  stopped,     \* history: a stop was reported done, and no restart since
  raced,       \* history: callers behind the gate when a stop was done
  givenUp      \* history: daemons whose start was not waited for to the end

links == <<state, gate, op, pc, seen, client>>
world == <<proc, exit, watcher>>
history == <<excused, stopped, raced, givenUp>>
vars == <<links, world, calls, incidents, history>>

States == {"Cold", "Live", "Crashed", "Stopped"}
Ops == {"use", "stop", "terminate", "restart"}
Refusing == {"Crashed", "Stopped"}

LinkTypes ==
  /\ state \in States /\ gate \in Callers \cup {None}
  /\ op \in [Callers -> Ops]
  /\ pc \in [Callers -> {"idle", "check", "probe", "queueing", "reprobe",
               "polling", "reached", "connected", "asking", "vain", "awaiting",
               "undone", "tprobe", "rstop", "rwait", "configure"}]
  /\ seen \in [Callers -> States] /\ client \in [Callers -> Daemons \cup {None}]
WorldTypes ==
  /\ proc \in [Daemons ->
               {"unborn", "starting", "listening", "closing", "closed", "dead"}]
  /\ exit \in [Daemons -> {"none", "clean", "signalled", "crashed"}]
  /\ watcher \in [Daemons -> {"none", "waiting", "loaded", "done"}]
HistoryTypes ==
  /\ calls \in 0 .. MaxCalls /\ incidents \in 0 .. MaxIncidents
  /\ excused \in BOOLEAN /\ stopped \in BOOLEAN
  /\ raced \subseteq Callers /\ givenUp \subseteq Daemons
TypeOK ==
  /\ LinkTypes /\ WorldTypes /\ HistoryTypes
  /\ gate # None => pc[gate] \in {"reprobe", "polling", "reached"}

\* A daemon of an earlier launch may be there; nobody waits on that one.
Init ==
  /\ state = "Cold" /\ gate = None
  /\ op = [c \in Callers |-> "use"] /\ pc = [c \in Callers |-> "idle"]
  /\ seen = [c \in Callers |-> "Cold"] /\ client = [c \in Callers |-> None]
  /\ \E inherited \in {0, 1} :
       proc = [d \in Daemons |-> IF d = inherited THEN "listening" ELSE "unborn"]
  /\ exit = [d \in Daemons |-> "none"] /\ watcher = [d \in Daemons |-> "none"]
  /\ calls = 0 /\ incidents = 0
  /\ excused = FALSE /\ stopped = FALSE /\ raced = {} /\ givenUp = {}

Answering(d) == proc[d] \in {"listening", "closing"}
Answered == \E d \in Daemons : Answering(d)
Incident == incidents < MaxIncidents /\ incidents' = incidents + 1
\* A failure nobody caused, or the one that has to come.
FailsFor(reason) == Incident \/ (reason /\ UNCHANGED incidents)

\* A caller moves on; it drops its client once the daemon has been asked.
Go(c, at) ==
  /\ pc' = [pc EXCEPT ![c] = at] /\ seen' = [seen EXCEPT ![c] = "Cold"]
  /\ op' = [op EXCEPT ![c] = IF at = "idle" THEN "use" ELSE op[c]]
  /\ client' = [client EXCEPT ![c] = IF at \in {"connected", "asking"} THEN client[c] ELSE None]
\* A step that only moves its caller along.
Moves(c, at) ==
  Go(c, at) /\ UNCHANGED <<state, gate, world, calls, incidents, history>>
Released(c) == IF gate = c THEN None ELSE gate
\* ... and one that also stores a state, and lets go of the gate it may hold.
Stores(c, new, at) ==
  /\ state' = new /\ Go(c, at) /\ gate' = Released(c)
  /\ UNCHANGED <<world, calls>>
\* A stop is reported done; a restart that began meanwhile has overtaken it.
Done(c, new) ==
  /\ Stores(c, new, "idle") /\ stopped' = (new = "Stopped")
  /\ raced' = IF new = "Stopped" THEN raced \cup ({gate} \cap Callers) ELSE {}
\* Where an error of connect leaves its caller.
Failed(c) == IF op[c] = "terminate" THEN "undone" ELSE "idle"

-----------------------------------------------------------------------------
\* connect, in the order of its loads and awaits.

\* Every operation begins with a load of the state.
FirstLoad(o) ==
  CASE o = "terminate" /\ state = "Cold" -> "tprobe"
    [] o = "terminate" /\ state = "Live" -> "check"
    [] o = "restart" -> IF state \in Refusing THEN "configure" ELSE "check"
    [] OTHER -> IF state \in Refusing THEN "idle" ELSE "probe"

Call(c) ==
  /\ pc[c] = "idle" /\ calls < MaxCalls /\ calls' = calls + 1
  /\ \E o \in Ops :
       /\ pc' = [pc EXCEPT ![c] = FirstLoad(o)]
       /\ op' = [op EXCEPT ![c] = IF FirstLoad(o) = "idle" THEN "use" ELSE o]
  /\ raced' = raced \ {c}
  /\ UNCHANGED <<state, gate, seen, client, world, incidents, excused, stopped, givenUp>>

Check(c) ==
  /\ pc[c] = "check"
  /\ Moves(c, IF state \in Refusing THEN Failed(c) ELSE "probe")

Reach(c) ==
  /\ \E d \in Daemons : Answering(d) /\ client' = [client EXCEPT ![c] = d]
  /\ pc' = [pc EXCEPT ![c] = "reached"] /\ seen' = [seen EXCEPT ![c] = "Cold"]
  /\ UNCHANGED <<state, gate, op, world, calls, incidents, excused, stopped, raced>>

Probe(c) ==
  /\ pc[c] = "probe"
  /\ \/ Reach(c) /\ UNCHANGED givenUp
     \/ ~Answered /\ Moves(c, "queueing")

\* Mutant of GateFree: the gate lets everyone through.
GateOpen == TRUE
GateFree == gate = None

\* Mutant of StillWanted: behind the gate the state is not asked again.
StillWantedAnyway == TRUE
StillWanted == state \notin Refusing

\* What was true before the gate is asked again behind it.
TakeGate(c) ==
  /\ pc[c] = "queueing" /\ GateFree
  /\ IF StillWanted
     THEN /\ gate' = c /\ pc' = [pc EXCEPT ![c] = "reprobe"]
          /\ seen' = [seen EXCEPT ![c] = state] /\ UNCHANGED <<op, client>>
     ELSE Go(c, Failed(c)) /\ UNCHANGED gate
  /\ UNCHANGED <<state, world, calls, incidents, history>>

ReprobeFinds(c) == pc[c] = "reprobe" /\ Reach(c) /\ UNCHANGED givenUp

\* It was live and does not answer: taken for a crash, never started again.
ReprobeLost(c) ==
  /\ pc[c] = "reprobe" /\ ~Answered /\ seen[c] = "Live"
  /\ Stores(c, "Crashed", Failed(c))
  /\ excused' = (excused \/ state # "Live")
  /\ UNCHANGED <<incidents, stopped, raced, givenUp>>

Spawn(c) ==
  /\ pc[c] = "reprobe" /\ ~Answered /\ seen[c] # "Live"
  /\ \E d \in Daemons :
       /\ proc[d] = "unborn" /\ (d > 1 => proc[d - 1] # "unborn")
       /\ proc' = [proc EXCEPT ![d] = "starting"]
       /\ watcher' = [watcher EXCEPT ![d] = "waiting"]
  /\ Go(c, "polling")
  /\ UNCHANGED <<state, gate, exit, calls, incidents, history>>

\* A process that cannot be spawned is a crash; no binary, or no directory, is not.
SpawnFails(c) ==
  /\ pc[c] = "reprobe" /\ ~Answered /\ seen[c] # "Live"
  /\ FailsFor(\A d \in Daemons : proc[d] # "unborn")
  /\ \/ Stores(c, "Crashed", Failed(c)) /\ excused' = TRUE
     \/ Stores(c, state, Failed(c)) /\ UNCHANGED excused
  /\ UNCHANGED <<stopped, raced, givenUp>>

\* Whoever is still on its way up is not waited for any more.
Left == givenUp \cup {d \in Daemons : proc[d] = "starting"}

\* It may not be the daemon it started that answers.
PollFinds(c) == pc[c] = "polling" /\ Reach(c) /\ givenUp' = Left

\* Mutant of GivesUp: the socket is polled until it answers.
NeverGivesUp == FALSE
GivesUp == ~Answered

PollGivesUp(c) ==
  /\ pc[c] = "polling" /\ GivesUp
  /\ Stores(c, "Crashed", Failed(c)) /\ excused' = TRUE
  /\ givenUp' = Left
  /\ UNCHANGED <<incidents, stopped, raced>>

\* The state is stored without a look at what it has become meanwhile.
GoLive(c) ==
  /\ pc[c] = "reached"
  /\ Stores(c, "Live", IF op[c] = "use" THEN "idle" ELSE "connected")
  /\ excused' = (excused \/ state \in Refusing \/ proc[client[c]] # "listening")
  /\ UNCHANGED <<incidents, stopped, raced, givenUp>>

-----------------------------------------------------------------------------
\* shutdown, as stop and terminate call it.

Ask(c, at) ==
  /\ Answering(client[c])
  /\ proc' = [proc EXCEPT ![client[c]] = "closing"] /\ Go(c, at)
  /\ UNCHANGED <<state, gate, exit, watcher, calls, incidents, stopped, raced, givenUp>>

\* Some other stop is under way.
Overtaken(c) ==
  \/ \E e \in Callers \ {c} : pc[e] \in {"asking", "awaiting"}
  \/ \E d \in Daemons : proc[d] = "closing"

\* Armed before the daemon is asked, so that its end is not read as a crash.
\* Mutant of Armed: the state is left as it is until the socket closes.
NotArmed == state
Armed == "Stopped"

ArmStop(c) ==
  /\ pc[c] = "connected" /\ op[c] \in {"stop", "terminate"}
  /\ Stores(c, Armed, "asking") /\ UNCHANGED <<incidents, history>>

AskShutdown(c) ==
  /\ pc[c] = "asking"
  /\ \/ Ask(c, "awaiting") /\ UNCHANGED excused
     \/ /\ FailsFor(~Answering(client[c]))
        /\ Go(c, "vain")
        /\ UNCHANGED <<state, gate, world, calls, history>>

\* The request failed: either the daemon is still there, or it went by itself.
InVain(c) ==
  /\ pc[c] = "vain"
  /\ IF Answered
     THEN /\ Stores(c, "Live", Failed(c)) /\ excused' = (excused \/ Overtaken(c))
          /\ UNCHANGED <<stopped, raced>>
     ELSE Done(c, state) /\ UNCHANGED excused
  /\ UNCHANGED <<incidents, givenUp>>

\* Bounded: a daemon that keeps listening is reported, not waited for.
AwaitClosed(c) ==
  /\ pc[c] = "awaiting"
  /\ IF Answered THEN Stores(c, state, Failed(c)) /\ UNCHANGED <<stopped, raced>>
                 ELSE Done(c, state)
  /\ UNCHANGED <<incidents, excused, givenUp>>

\* Nothing answers a cold manager: reported as stopped, without the gate.
TerminateProbes(c) ==
  /\ pc[c] = "tprobe"
  /\ IF Answered
     THEN Moves(c, "check")
     ELSE Done(c, "Stopped") /\ UNCHANGED <<incidents, excused, givenUp>>

\* shutdown failed, but the endpoint is gone: what the owner asked for.
TerminateUndone(c) ==
  /\ pc[c] = "undone"
  /\ IF Answered
     THEN Moves(c, "idle")
     ELSE Done(c, "Stopped") /\ UNCHANGED <<incidents, excused, givenUp>>

-----------------------------------------------------------------------------
\* restart: the daemon is asked to close, and the next connect may spawn.

AskRestart(c) ==
  /\ pc[c] = "connected" /\ op[c] = "restart"
  /\ \/ Ask(c, "rstop") /\ excused' = TRUE
     \/ /\ FailsFor(~Answering(client[c]))
        /\ Go(c, "idle")
        /\ UNCHANGED <<state, gate, world, calls, history>>

RestartStops(c) ==
  /\ pc[c] = "rstop" /\ Stores(c, "Stopped", "rwait") 
  /\ UNCHANGED <<incidents, history>>

\* Unbounded: no replacement while the old one listens.
RestartWaits(c) == pc[c] = "rwait" /\ ~Answered /\ Moves(c, "configure")

Configure(c) ==
  /\ pc[c] = "configure" /\ state' = "Cold" /\ pc' = [pc EXCEPT ![c] = "check"]
  /\ client' = [client EXCEPT ![c] = None] /\ op' = [op EXCEPT ![c] = "use"]
  /\ excused' = Overtaken(c) /\ stopped' = FALSE /\ raced' = {}
  /\ UNCHANGED <<gate, seen, world, calls, incidents, givenUp>>

-----------------------------------------------------------------------------
\* The daemons, and the threads that wait on them.

Process(d, at, how) ==
  /\ proc' = [proc EXCEPT ![d] = at]
  /\ exit' = [exit EXCEPT ![d] = IF watcher[d] = "waiting" THEN how ELSE "none"]
  /\ givenUp' = IF at = "dead" THEN givenUp \ {d} ELSE givenUp
  /\ UNCHANGED <<links, watcher, calls, stopped, raced>>

\* A second daemon does not get the socket.
Listen(d) ==
  /\ proc[d] = "starting" /\ UNCHANGED <<incidents, excused>>
  /\ IF Answered THEN Process(d, "dead", "crashed") ELSE Process(d, "listening", "none")

CloseSocket(d) ==
  proc[d] = "closing" /\ Process(d, "closed", "none") /\ UNCHANGED <<incidents, excused>>

Exit(d) ==
  /\ proc[d] = "closed" /\ UNCHANGED excused
  /\ \/ /\ UNCHANGED incidents /\ Process(d, "dead", "clean")
     \/ /\ Incident
        /\ \E how \in {"signalled", "crashed"} : Process(d, "dead", how)

Die(d) ==
  /\ Incident /\ proc[d] \in {"starting", "listening", "closing"}
  /\ \E how \in {"clean", "signalled", "crashed"} : Process(d, "dead", how)
  /\ excused' = TRUE

WatcherLoads(d) ==
  /\ proc[d] = "dead" /\ watcher[d] = "waiting"
  /\ watcher' = [watcher EXCEPT ![d] =
       IF state = "Live" /\ exit[d] # "clean" THEN "loaded" ELSE "done"]
  /\ exit' = [exit EXCEPT ![d] = IF watcher'[d] = "done" THEN "none" ELSE exit[d]]
  /\ UNCHANGED <<links, proc, calls, incidents, history>>

\* Between the load and the store, and before them, the state can have become
\* that of another daemon.
WatcherStores(d) ==
  /\ watcher[d] = "loaded" /\ watcher' = [watcher EXCEPT ![d] = "done"]
  /\ state' = IF exit[d] = "signalled" THEN "Stopped" ELSE "Crashed"
  /\ exit' = [exit EXCEPT ![d] = "none"] /\ excused' = TRUE
  /\ UNCHANGED <<gate, op, pc, seen, client, proc, calls, incidents, stopped, raced, givenUp>>

\* A run's driver that was still listening gets no last word from a daemon that
\* has gone: recv stores a crash, whatever the state has become meanwhile.
StreamCloses(d) ==
  /\ proc[d] \in {"closed", "dead"} /\ Incident /\ state' = "Crashed" /\ excused' = TRUE
  /\ UNCHANGED <<gate, op, pc, seen, client, world, calls, stopped, raced, givenUp>>

-----------------------------------------------------------------------------
Connecting(c) ==
  \/ Check(c) \/ Probe(c) \/ TakeGate(c) \/ ReprobeFinds(c) \/ ReprobeLost(c)
  \/ Spawn(c) \/ SpawnFails(c) \/ PollFinds(c) \/ PollGivesUp(c) \/ GoLive(c)
Stopping(c) ==
  \/ ArmStop(c) \/ AskShutdown(c) \/ InVain(c) \/ AwaitClosed(c)
  \/ TerminateProbes(c) \/ TerminateUndone(c)
Restarting(c) ==
  AskRestart(c) \/ RestartStops(c) \/ RestartWaits(c) \/ Configure(c)
CallerStep(c) == Connecting(c) \/ Stopping(c) \/ Restarting(c)
DaemonStep(d) ==
  \/ Listen(d) \/ CloseSocket(d) \/ Exit(d) \/ Die(d)
  \/ WatcherLoads(d) \/ WatcherStores(d) \/ StreamCloses(d)

Next ==
  \/ \E c \in Callers : Call(c) \/ CallerStep(c)
  \/ \E d \in Daemons : DaemonStep(d)

\* What only the daemon can end, for none of it has a time limit: the handshake
\* of a socket that was accepted, and the answer to a request to shut down.
AwaitsDaemon(c) ==
  \/ pc[c] \in {"probe", "reprobe", "polling"} /\ Answered
  \/ /\ pc[c] = "asking" \/ (pc[c] = "connected" /\ op[c] = "restart")
     /\ Answering(client[c])

\* The executor polls every task; nothing is asked of the daemons, which may
\* accept a connection and never say a word.
Fairness == \A c \in Callers : WF_vars(~AwaitsDaemon(c) /\ CallerStep(c))

Spec == Init /\ [][Next]_vars /\ Fairness

-----------------------------------------------------------------------------
\* There is one daemon: none is started while another listens or is coming up,
\* but for one whose start was not waited for to the end.
OneDaemon ==
  \A d, e \in Daemons :
    /\ proc[d] \in {"starting", "listening", "closing"}
    /\ proc[e] \in {"starting", "listening", "closing"}
    => d = e \/ d \in givenUp \/ e \in givenUp

\* A daemon that was stopped stays so until a restart: none is started but by a
\* caller that was behind the gate already when the stop was done.
StoppedStaysStopped ==
  [][\A d \in Daemons :
       proc[d] = "unborn" /\ proc'[d] = "starting" => ~stopped \/ gate \in raced]_vars

\* "Overwriting that would make an orderly quit report itself as a crash": the
\* state says so only after a death or a failed start; or where the daemon was
\* asked to go while the state did not say so (by a restart, or by a stop that a
\* restart or another stop's failure overtook); or where a connect stored what was
\* not so any more, or reached a daemon on its way out; or where an earlier daemon's
\* watcher took the state for its own, or a run got no last word.
OrderlyStopIsNoCrash == state = "Crashed" => excused

\* Every call returns, but where a daemon has accepted the connection and does
\* not answer, to this caller or to the one behind the gate, and for a restart
\* that waits for an old daemon to let go of its socket.
CallsReturn ==
  \A c \in Callers :
    []<>(\/ pc[c] = "idle"
         \/ \E e \in {c, gate} \cap Callers : AwaitsDaemon(e)
         \/ pc[c] = "rwait" /\ Answered)
=============================================================================
