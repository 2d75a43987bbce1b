------------------------------ MODULE Runs_proofs ------------------------------
(***************************************************************************)
(* Theorems about a run's stop facts and about the registry of runs.       *)
(*                                                                         *)
(* RunSignals, for any set of throwing threads and any mix of waits: the   *)
(* waits built on Signals never sleep through a fact (NoLostWake), no wait *)
(* completes for anything but its own fact (OnlyForItsFact), and every     *)
(* step of cancel.rs is a step of SignalPromise or a stutter.              *)
(*                                                                         *)
(* RunRegistry, for any set of projects, reservations, Stops,              *)
(* synchronisations and waits.                                             *)
(***************************************************************************)
EXTENDS RunSignals, RunRegistry, TLAPS

------------------------------------------------------------------------------
\* RunSignals.


\* Every step keeps the variables of RunSignals in their types.
LEMMA SignalTypeStep == SignalTypeOK /\ [SignalNext]_signalVars => SignalTypeOK'
<1> SUFFICES ASSUME SignalTypeOK, [SignalNext]_signalVars PROVE SignalTypeOK'
  OBVIOUS
<1> USE KindAssumption DEF SignalTypeOK, Facts, Kinds, Steps, Registrations
<1>1. ASSUME NEW t \in Setters, NEW f \in Facts, Throw(t, f) PROVE SignalTypeOK'
  BY <1>1 DEF Throw
<1>2. ASSUME NEW t \in Setters, Broadcast(t) PROVE SignalTypeOK'
  BY <1>2 DEF Broadcast
<1>3. ASSUME NEW w \in Waiters, SignalWait(w) PROVE SignalTypeOK'
  BY <1>3 DEF SignalWait, Check, Goto, Register
<1>4. ASSUME NEW w \in Waiters, CancelledPoll(w) PROVE SignalTypeOK'
  BY <1>4 DEF CancelledPoll, Check, PollOnce, Arm, Goto, Register
<1>5. ASSUME NEW w \in Waiters, OtherArm(w) PROVE SignalTypeOK'
  BY <1>5 DEF OtherArm, Goto, Register
<1>6. ASSUME NEW w \in Waiters, HandlePing(w) PROVE SignalTypeOK'
  BY <1>6 DEF HandlePing, Goto, Register
<1>7. CASE UNCHANGED signalVars
  BY <1>7 DEF signalVars
<1>8. QED
  BY <1>1, <1>2, <1>3, <1>4, <1>5, <1>6, <1>7 DEF SignalNext

\* The variables of RunSignals keep their types.
THEOREM SignalTypeCorrect == SignalSpec => []SignalTypeOK
<1>1. SignalInit => SignalTypeOK
  BY KindAssumption DEF SignalInit, SignalTypeOK, Facts, Kinds, Steps, Registrations
<1>2. QED
  BY <1>1, SignalTypeStep, PTL DEF SignalSpec


------------------------------------------------------------------------------
\* A wait of Signals that sleeps holds a registration: this is what makes the
\* next broadcast reach it, and what NoLostWake lacks to be inductive.
Registered ==
  \A w \in Waiters :
    Kind[w] # "cancelled" /\ pc[w] \in {"recheck", "await"} => wake[w] \in {"armed", "rung"}

SignalIInv == SignalTypeOK /\ Registered /\ NoLostWake

\* Registered and NoLostWake together are inductive.
LEMMA SignalIInvInductive == SignalIInv /\ [SignalNext]_signalVars => SignalIInv'
<1> SUFFICES ASSUME SignalIInv, [SignalNext]_signalVars PROVE SignalIInv'
  OBVIOUS
<1> USE KindAssumption DEF SignalIInv, SignalTypeOK, Facts, Kinds, Steps, Registrations
<1>1. SignalTypeOK'
  BY SignalTypeStep
<1>2. ASSUME NEW t \in Setters, NEW f \in Facts, Throw(t, f)
      PROVE  Registered' /\ NoLostWake'
  BY <1>2 DEF Throw, Registered, NoLostWake
<1>3. ASSUME NEW t \in Setters, Broadcast(t)
      PROVE  Registered' /\ NoLostWake'
  <2>1. Registered'
    BY <1>3 DEF Broadcast, Registered
  <2>2. ASSUME NEW w \in Waiters, Kind[w] # "cancelled", pc'[w] = "await"
        PROVE  wake'[w] = "rung"
    BY <1>3, <2>2 DEF Broadcast, Registered
  <2>3. QED
    BY <2>1, <2>2 DEF NoLostWake, Parked
<1>4. ASSUME NEW w \in Waiters, SignalWait(w)
      PROVE  Registered' /\ NoLostWake'
  <2>1. \A v \in Waiters : v # w => pc'[v] = pc[v] /\ wake'[v] = wake[v]
    BY <1>4 DEF SignalWait, Check, Goto, Register
  <2>2. UNCHANGED <<set, owes, handled>>
    BY <1>4 DEF SignalWait, Check
  <2>3. pc'[w] = "recheck" => wake'[w] = "armed"
    BY <1>4 DEF SignalWait, Check, Goto, Register
  <2>4. pc'[w] = "await" => pc[w] = "recheck" /\ ~Pending(w) /\ wake'[w] = wake[w]
    BY <1>4 DEF SignalWait, Check, Goto, Register
  <2>5. Registered'
    BY <2>1, <2>3, <2>4 DEF Registered
  <2>6. NoLostWake'
    BY <2>1, <2>2, <2>4 DEF NoLostWake, Parked, Pending, Stopping
  <2>7. QED
    BY <2>5, <2>6
<1>5. ASSUME NEW w \in Waiters, CancelledPoll(w)
      PROVE  Registered' /\ NoLostWake'
  <2>1. Kind[w] = "cancelled"
    BY <1>5 DEF CancelledPoll
  <2>2. /\ UNCHANGED <<set, owes, handled>>
        /\ \A v \in Waiters : v # w => pc'[v] = pc[v] /\ wake'[v] = wake[v]
    BY <1>5 DEF CancelledPoll, Check, PollOnce, Arm, Goto, Register
  <2>3. QED
    BY <2>1, <2>2 DEF Registered, NoLostWake, Parked, Pending, Stopping
<1>6. ASSUME NEW w \in Waiters, OtherArm(w)
      PROVE  Registered' /\ NoLostWake'
  BY <1>6 DEF OtherArm, Goto, Register, Registered, NoLostWake, Parked, Pending, Stopping
<1>7. ASSUME NEW w \in Waiters, HandlePing(w)
      PROVE  Registered' /\ NoLostWake'
  BY <1>7 DEF HandlePing, Goto, Register, Registered, NoLostWake, Parked, Pending, Stopping
<1>8. CASE UNCHANGED signalVars
  BY <1>8 DEF signalVars, Registered, NoLostWake, Parked, Pending, Stopping
<1>9. QED
  BY <1>1, <1>2, <1>3, <1>4, <1>5, <1>6, <1>7, <1>8 DEF SignalNext

\* A wait of Signals that sleeps past a fact it watches is about to be woken,
\* whatever the number of throwing threads and waits.
THEOREM NoLostWakeHolds == SignalSpec => []NoLostWake
<1>1. SignalInit => SignalIInv
  BY KindAssumption DEF SignalInit, SignalIInv, SignalTypeOK, Facts, Kinds, Steps, Registrations,
                        Registered, NoLostWake, Parked
<1>2. SignalIInv => NoLostWake
  BY DEF SignalIInv
<1>3. QED
  BY <1>1, <1>2, SignalIInvInductive, PTL DEF SignalSpec

------------------------------------------------------------------------------
\* No wait of either kind completes for anything but its own fact: in
\* particular no sibling's wake is taken for a cancellation.
THEOREM OnlyForItsFactHolds == SignalSpec => []OnlyForItsFact
<1> USE KindAssumption DEF SignalTypeOK, Facts, Kinds, Steps, Registrations
<1>1. SignalInit => OnlyForItsFact
  BY DEF SignalInit, OnlyForItsFact
<1>2. SignalTypeOK /\ OnlyForItsFact /\ [SignalNext]_signalVars => OnlyForItsFact'
  <2> SUFFICES ASSUME SignalTypeOK, OnlyForItsFact, [SignalNext]_signalVars PROVE OnlyForItsFact'
    OBVIOUS
  <2>1. ASSUME NEW t \in Setters, NEW f \in Facts, Throw(t, f) PROVE OnlyForItsFact'
    BY <2>1 DEF Throw, OnlyForItsFact, Pending, Stopping
  <2>2. ASSUME NEW t \in Setters, Broadcast(t) PROVE OnlyForItsFact'
    BY <2>2 DEF Broadcast, OnlyForItsFact, Pending, Stopping
  <2>3. ASSUME NEW w \in Waiters, SignalWait(w) PROVE OnlyForItsFact'
    <3>1. UNCHANGED <<set, handled>>
      BY <2>3 DEF SignalWait, Check
    <3>2. \A v \in Waiters : v # w => pc'[v] = pc[v]
      BY <2>3 DEF SignalWait, Check, Goto
    <3>3. pc'[w] = "done" => Pending(w)
      BY <2>3 DEF SignalWait, Check, Goto
    <3>4. \A v \in Waiters : Pending(v)' <=> Pending(v)
      BY <3>1 DEF Pending, Stopping
    <3>5. QED
      BY <3>2, <3>3, <3>4 DEF OnlyForItsFact
  <2>4. ASSUME NEW w \in Waiters, CancelledPoll(w) PROVE OnlyForItsFact'
    <3>1. UNCHANGED <<set, handled>>
      BY <2>4 DEF CancelledPoll, Check, PollOnce, Arm
    <3>2. \A v \in Waiters : v # w => pc'[v] = pc[v]
      BY <2>4 DEF CancelledPoll, Check, PollOnce, Arm, Goto
    <3>3. pc'[w] = "done" => Pending(w)
      BY <2>4 DEF CancelledPoll, Check, PollOnce, Arm, Goto
    <3>4. \A v \in Waiters : Pending(v)' <=> Pending(v)
      BY <3>1 DEF Pending, Stopping
    <3>5. QED
      BY <3>2, <3>3, <3>4 DEF OnlyForItsFact
  <2>5. ASSUME NEW w \in Waiters, OtherArm(w) PROVE OnlyForItsFact'
    BY <2>5 DEF OtherArm, Goto, Register, OnlyForItsFact, Pending, Stopping
  <2>6. ASSUME NEW w \in Waiters, HandlePing(w) PROVE OnlyForItsFact'
    BY <2>6 DEF HandlePing, Goto, Register, OnlyForItsFact, Pending, Stopping
  <2>7. CASE UNCHANGED signalVars
    BY <2>7 DEF signalVars, OnlyForItsFact, Pending, Stopping
  <2>8. QED
    BY <2>1, <2>2, <2>3, <2>4, <2>5, <2>6, <2>7 DEF SignalNext
<1>3. QED
  BY <1>1, <1>2, SignalTypeCorrect, PTL DEF SignalSpec

------------------------------------------------------------------------------
\* Every step of cancel.rs is a throw, a resolution or a resumed wait of
\* SignalPromise, or changes nothing a caller of Signals can see.
THEOREM RefinesPromise == SignalSpec => Promise!SafetySpec
<1> USE KindAssumption DEF SignalTypeOK, Facts, Kinds, Steps, Registrations, Promise!Facts, SignalWaits
<1>1. SignalInit => Promise!Init
  BY DEF SignalInit, Promise!Init
<1>2. SignalTypeOK /\ [SignalNext]_signalVars => [Promise!Next]_(Promise!vars)
  <2> SUFFICES ASSUME SignalTypeOK, [SignalNext]_signalVars PROVE [Promise!Next]_(Promise!vars)
    OBVIOUS
  <2> DEFINE res == [w \in SignalWaits |-> pc[w] = "done"]
  <2> USE DEF Promise!vars
  <2>1. ASSUME NEW t \in Setters, NEW f \in Facts, Throw(t, f)
        PROVE  Promise!Throw(f)
    BY <2>1 DEF Throw, Promise!Throw
  <2>2. ASSUME NEW t \in Setters, Broadcast(t)
        PROVE  UNCHANGED Promise!vars
    BY <2>2 DEF Broadcast
  <2>3. ASSUME NEW w \in SignalWaits, NEW v \in Steps, pc' = [pc EXCEPT ![w] = v],
               pc[w] # "done", v = "done" => Pending(w), UNCHANGED <<set, handled>>
        PROVE  Promise!Resolve(w) \/ UNCHANGED Promise!vars
    <3>1. CASE v = "done"
      <4>1. Promise!Pending(w)
        BY <2>3, <3>1 DEF Pending, Stopping, Promise!Pending, Promise!Watched
      <4>2. res' = [res EXCEPT ![w] = TRUE]
        BY <2>3, <3>1
      <4>3. QED
        BY <4>1, <4>2, <2>3 DEF Promise!Resolve
    <3>2. CASE v # "done"
      BY <2>3, <3>2
    <3>3. QED
      BY <3>1, <3>2
  <2>4. ASSUME NEW w \in Waiters, SignalWait(w)
        PROVE  w \in SignalWaits /\ (Promise!Resolve(w) \/ UNCHANGED Promise!vars)
    <3>1. w \in SignalWaits
      BY <2>4 DEF SignalWait
    <3>2. QED
      BY <2>3, <2>4, <3>1 DEF SignalWait, Check, Goto
  <2>5. ASSUME NEW w \in Waiters, CancelledPoll(w)
        PROVE  UNCHANGED Promise!vars
    <3>1. w \notin SignalWaits /\ UNCHANGED <<set, handled>>
      BY <2>5 DEF CancelledPoll, Check, PollOnce, Arm
    <3>2. \A v \in SignalWaits : pc'[v] = pc[v]
      BY <2>5, <3>1 DEF CancelledPoll, Check, PollOnce, Arm, Goto
    <3>3. QED
      BY <3>1, <3>2
  <2>6. ASSUME NEW w \in Waiters, OtherArm(w)
        PROVE  UNCHANGED Promise!vars
    BY <2>6 DEF OtherArm, Goto
  <2>7. ASSUME NEW w \in Waiters, HandlePing(w)
        PROVE  w \in SignalWaits /\ Promise!Resume(w)
    <3>1. w \in SignalWaits
      BY <2>7 DEF HandlePing
    <3>2. res' = [res EXCEPT ![w] = FALSE]
      BY <2>7, <3>1 DEF HandlePing, Goto
    <3>3. QED
      BY <3>1, <3>2, <2>7 DEF HandlePing, Stopping, Promise!Resume
  <2>8. CASE UNCHANGED signalVars
    BY <2>8 DEF signalVars
  <2>9. QED
    BY <2>1, <2>2, <2>4, <2>5, <2>6, <2>7, <2>8 DEF SignalNext, Promise!Next
<1>3. QED
  BY <1>1, <1>2, SignalTypeCorrect, PTL DEF SignalSpec, Promise!SafetySpec

------------------------------------------------------------------------------
\* RunRegistry.


\* The two halves of TypeOK: the registry with its drivers, and the commands.
RegistryType ==
  /\ runs \in [Projects -> Reservations \cup {None}]
  /\ phase \in [Reservations -> Phases]
  /\ home \in [Reservations -> Projects \cup {None}]
  /\ turn \in [Reservations -> Reservations \cup {None}]
  /\ command \in [Reservations -> BOOLEAN]
  /\ cancel \in [Reservations -> BOOLEAN]
  /\ stopping \in [Reservations -> BOOLEAN]
  /\ proxy \in [Reservations -> {"none", "live", "ended"}]
  /\ complete \in SUBSET Reservations
  /\ rows \in [Tables -> SUBSET Reservations]
  /\ \A r \in Reservations :
       phase[r] # "unused" => home[r] \in Projects /\ turn[r] \in Reservations

StopType ==
  stop \in [Stops -> [at : {"idle", "asking", "asked", "done"},
                      project : Projects \cup {None},
                      seen : Reservations \cup {None},
                      found : BOOLEAN]]

SyncType ==
  /\ sync \in [Syncs -> [at : {"idle", "listed", "adopting", "done"},
                      project : Projects \cup {None},
                      snapshot : SUBSET Reservations]]
  /\ \A s \in Syncs : sync[s].at # "idle" => sync[s].project \in Projects

WaitType ==
  wait \in [Waits -> [at : {"idle", "checking", "parked", "granted", "done"},
                      rung : BOOLEAN]]

BoundType == deleted \in SUBSET Projects /\ restarts \in 0..MaxRestarts

CommandsType == StopType /\ SyncType /\ WaitType /\ BoundType

\* The type invariant, in the parts the proofs below take one at a time.
LEMMA TypeSplits == TypeOK <=> RegistryType /\ CommandsType
  BY DEF TypeOK, RegistryType, CommandsType, StopType, SyncType, WaitType, BoundType

\* A step that leaves the commands alone leaves their types alone.
LEMMA CommandsUntouched == CommandsType /\ UNCHANGED others => CommandsType'
  BY DEF CommandsType, StopType, SyncType, WaitType, BoundType, others

\* A claim keeps the types of the registry.
LEMMA ClaimType ==
  ASSUME RegistryType,
         NEW r \in Reservations, NEW p \in Projects, NEW run \in Reservations,
         NEW isCommand \in BOOLEAN, NEW first \in {"claimed", "starting"},
         Claim(r, p, isCommand, run, first)
  PROVE  RegistryType'
  BY DEF Claim, RegistryType, Phases, daemon

\* So does every step of a driver and of the daemon, which leaves the commands
\* alone, the ring of Notify excepted.
LEMMA DriverType ==
  ASSUME RegistryType, CommandsType, NEW r \in Reservations,
         \/ DriverStep(r) \/ GiveUp(r) \/ DaemonEnds(r)
         \/ \E table \in Tables : Record(r, table) \/ Unrecord(r, table)
  PROVE  RegistryType' /\ CommandsType'
<1> USE DEF RegistryType, Phases, Tables, drivers, daemon
<1>1. CASE SpawnDriver(r)
  BY <1>1, CommandsUntouched DEF SpawnDriver, Step
<1>2. CASE StartRun(r)
  BY <1>2, CommandsUntouched DEF StartRun, Step
<1>3. CASE StartFails(r)
  BY <1>3, CommandsUntouched DEF StartFails, Step
<1>4. CASE ObserveEnd(r) \/ GiveUp(r)
  <2>1. PICK torn \in BOOLEAN : LeaveLoop(r, torn)
    BY <1>4 DEF ObserveEnd, GiveUp
  <2>2. QED
    BY <2>1, CommandsUntouched DEF LeaveLoop, Step
<1>5. CASE ClearTables(r)
  <2>1. rows' \in [Tables -> SUBSET Reservations]
    BY <1>5 DEF ClearTables
  <2>2. QED
    BY <1>5, <2>1, CommandsUntouched DEF ClearTables, Step
<1>6. CASE Teardown(r)
  BY <1>6, CommandsUntouched DEF Teardown, Step
<1>7. CASE Settle(r)
  <2>1. complete' \in SUBSET Reservations
    <3>1. turn[r] \in Reservations
      BY <1>7 DEF Settle, Step
    <3>2. QED
      BY <1>7, <3>1 DEF Settle
  <2>2. QED
    BY <1>7, <2>1, CommandsUntouched DEF Settle, Step
<1>8. CASE Release(r)
  BY <1>8, CommandsUntouched DEF Release, Step
<1>9. CASE Notify(r)
  <2>1. RegistryType'
    BY <1>9 DEF Notify, Step
  <2>2. WaitType'
    <3>1. WaitType
      BY DEF CommandsType
    <3>2. wait' = [w \in Waits |-> IF wait[w].at \in {"checking", "parked"}
                                   THEN [wait[w] EXCEPT !.rung = TRUE] ELSE wait[w]]
      BY <1>9 DEF Notify
    <3>3. QED
      BY <3>1, <3>2 DEF WaitType
  <2>3. StopType' /\ SyncType' /\ BoundType'
    BY <1>9 DEF Notify, CommandsType, StopType, SyncType, BoundType
  <2>4. QED
    BY <2>1, <2>2, <2>3 DEF CommandsType
<1>10. ASSUME NEW table \in Tables, Record(r, table) \/ Unrecord(r, table)
       PROVE  RegistryType' /\ CommandsType'
  BY <1>10, CommandsUntouched DEF Record, Unrecord
<1>11. CASE DaemonEnds(r)
  BY <1>11, CommandsUntouched DEF DaemonEnds
<1>12. QED
  BY <1>1, <1>2, <1>3, <1>4, <1>5, <1>6, <1>7, <1>8, <1>9, <1>10, <1>11 DEF DriverStep

\* Every step keeps the variables in their types.
LEMMA TypeStep == TypeOK /\ [Next]_vars => TypeOK'
<1> SUFFICES ASSUME TypeOK, [Next]_vars PROVE RegistryType' /\ CommandsType'
  BY DEF TypeOK, RegistryType, CommandsType, StopType, SyncType, WaitType, BoundType
<1>0. RegistryType /\ CommandsType
  BY TypeSplits
<1>1. ASSUME NEW r \in Reservations, NEW p \in Projects, SendStart(r, p) \/ Compact(r, p)
      PROVE  RegistryType' /\ CommandsType'
  BY <1>0, <1>1, ClaimType, CommandsUntouched DEF SendStart, Compact
<1>2. ASSUME NEW r \in Reservations,
             \/ DriverStep(r) \/ GiveUp(r) \/ DaemonEnds(r)
             \/ \E table \in Tables : Record(r, table) \/ Unrecord(r, table)
      PROVE  RegistryType' /\ CommandsType'
  BY <1>0, <1>2, DriverType
<1>3. ASSUME NEW s \in Syncs, NEW r \in Reservations, SyncAdopt(s, r)
      PROVE  RegistryType' /\ CommandsType'
  <2>1. sync[s].project \in Projects \cup {None} /\ sync[s].snapshot \subseteq Reservations
    BY <1>0 DEF CommandsType, SyncType
  <2>2. PICK t \in Reservations : Claim(r, sync[s].project, FALSE, t, "starting")
    BY <1>3, <2>1 DEF SyncAdopt
  <2>3. sync[s].project \in Projects
    BY <1>0, <1>3 DEF SyncAdopt, CommandsType, SyncType
  <2>4. RegistryType'
    BY <1>0, <2>2, <2>3, ClaimType
  <2>5. SyncType'
    BY <1>0, <1>3, <2>3 DEF SyncAdopt, CommandsType, SyncType
  <2>6. StopType' /\ WaitType' /\ BoundType'
    BY <1>0, <1>3 DEF SyncAdopt, CommandsType, StopType, WaitType, BoundType
  <2>7. QED
    BY <2>4, <2>5, <2>6 DEF CommandsType
<1>4. ASSUME NEW p \in Projects, SignalCancel(p)
      PROVE  RegistryType' /\ CommandsType'
  BY <1>0, <1>4, CommandsUntouched DEF SignalCancel, RegistryType, drivers, daemon
<1>5. ASSUME NEW s \in Stops, NEW p \in Projects, StopBegin(s, p) \/ ResetBegin(s, p)
      PROVE  RegistryType' /\ CommandsType'
  <2>1. StopType'
    <3>1. StopType /\ runs[p] \in Reservations \cup {None}
      BY <1>0 DEF RegistryType, CommandsType
    <3>2. stop' = [stop EXCEPT ![s] = [at |-> "asking", project |-> p,
                                       seen |-> runs[p], found |-> FALSE]]
      BY <1>5 DEF StopBegin, ResetBegin
    <3>3. QED
      BY <3>1, <3>2 DEF StopType
  <2>2. QED
    BY <1>0, <1>5, <2>1
    DEF StopBegin, ResetBegin, RegistryType, CommandsType, SyncType, WaitType, BoundType, drivers, daemon
<1>6. ASSUME NEW s \in Stops, StopAsk(s) PROVE RegistryType' /\ CommandsType'
  <2>1. StopType'
    BY <1>0, <1>6 DEF StopAsk, CommandsType, StopType
  <2>2. QED
    BY <1>0, <1>6, <2>1
    DEF StopAsk, RegistryType, CommandsType, SyncType, WaitType, BoundType, drivers
<1>7. ASSUME NEW s \in Stops, StopFinish(s) PROVE RegistryType' /\ CommandsType'
  <2>1. StopType'
    BY <1>0, <1>7 DEF StopFinish, CommandsType, StopType
  <2>2. QED
    BY <1>0, <1>7, <2>1
    DEF StopFinish, RegistryType, CommandsType, SyncType, WaitType, BoundType, drivers, daemon
<1>8. ASSUME NEW s \in Syncs, NEW p \in Projects, SyncList(s, p)
      PROVE  RegistryType' /\ CommandsType'
  <2>1. SyncType'
    BY <1>0, <1>8 DEF SyncList, CommandsType, SyncType, LiveRuns, Of
  <2>2. QED
    BY <1>0, <1>8, <2>1
    DEF SyncList, RegistryType, CommandsType, StopType, WaitType, BoundType, drivers, daemon
<1>9. ASSUME NEW s \in Syncs, SyncOrphan(s) \/ SyncSkip(s)
      PROVE  RegistryType' /\ CommandsType'
  <2>1. SyncType'
    BY <1>0, <1>9 DEF SyncOrphan, SyncSkip, CommandsType, SyncType
  <2>2. QED
    BY <1>0, <1>9, <2>1
    DEF SyncOrphan, SyncSkip, RegistryType, CommandsType, StopType, WaitType, BoundType,
        drivers, daemon
<1>10. ASSUME NEW w \in Waits,
              \/ WaitBegin(w) \/ WaitCheck(w) \/ WaitWake(w) \/ WaitExpires(w) \/ Delete(w)
       PROVE  RegistryType' /\ CommandsType'
  <2>1. WaitType'
    <3>1. WaitType
      BY <1>0 DEF CommandsType
    <3>2. CASE WaitCheck(w)
      BY <3>1, <3>2 DEF WaitCheck, WaitType
    <3>3. ASSUME NEW from, NEW to \in {"checking", "granted", "done"}, WaitGoto(w, from, to)
          PROVE  WaitType'
      BY <3>1, <3>3 DEF WaitGoto, WaitType
    <3>4. QED
      BY <1>10, <3>2, <3>3 DEF WaitBegin, WaitWake, WaitExpires, Delete
  <2>2. BoundType'
    BY <1>0, <1>10, TargetAssumption
    DEF WaitBegin, WaitCheck, WaitWake, WaitExpires, Delete, CommandsType, BoundType
  <2>3. RegistryType'
    BY <1>0, <1>10 DEF WaitBegin, WaitCheck, WaitWake, WaitExpires, Delete, RegistryType,
                       Tables, drivers, daemon
  <2>4. StopType' /\ SyncType'
    BY <1>0, <1>10 DEF WaitBegin, WaitCheck, WaitWake, WaitExpires, Delete, CommandsType,
                       StopType, SyncType
  <2>5. QED
    BY <2>1, <2>2, <2>3, <2>4 DEF CommandsType
<1>11. CASE Restart
  <2>1. RegistryType'
    BY <1>0, <1>11 DEF Restart, RegistryType, Phases, Tables, daemon
  <2>2. StopType' /\ SyncType' /\ WaitType'
    <3>1. StopType /\ SyncType /\ WaitType
      BY <1>0 DEF CommandsType
    <3>2. StopType'
      BY <1>11, <3>1 DEF Restart, StopType
    <3>3. SyncType'
      BY <1>11, <3>1 DEF Restart, SyncType
    <3>4. WaitType'
      BY <1>11, <3>1 DEF Restart, WaitType
    <3>5. QED
      BY <3>2, <3>3, <3>4
  <2>3. BoundType'
    BY <1>0, <1>11, RestartAssumption DEF Restart, CommandsType, BoundType
  <2>4. QED
    BY <2>1, <2>2, <2>3 DEF CommandsType
<1>12. CASE UNCHANGED vars
  BY <1>0, <1>12, CommandsUntouched DEF vars, RegistryType, drivers, daemon
<1>13. QED
  BY <1>1, <1>2, <1>3, <1>4, <1>5, <1>6, <1>7, <1>8, <1>9, <1>10, <1>11, <1>12 DEF Next

\* The registry, the drivers and the commands keep their types.
THEOREM TypeCorrect == Spec => []TypeOK
<1>1. Init => TypeOK
  BY NoneAssumption, RestartAssumption DEF Init, TypeOK, Phases, Tables
<1>2. QED
  BY <1>1, TypeStep, PTL DEF Spec

------------------------------------------------------------------------------
\* SlotHeldByItsDriver is inductive with the types: a claim starts from a
\* reservation no slot holds, and a driver drops its slot as it leaves Alive.

\* Taking an entry out of the registry cannot leak another one.
LEMMA RemovalKeepsHeld ==
  ASSUME TypeOK, SlotHeldByItsDriver, UNCHANGED drivers,
         \A p \in Projects : runs'[p] \in {runs[p], None}
  PROVE  SlotHeldByItsDriver'
  BY NoneAssumption DEF TypeOK, SlotHeldByItsDriver, drivers

\* A claim of a free slot by an unused reservation keeps every slot held.
LEMMA ClaimKeepsHeld ==
  ASSUME TypeOK, SlotHeldByItsDriver,
         NEW r \in Reservations, NEW p \in Projects, NEW run, NEW isCommand,
         NEW first \in {"claimed", "starting"},
         Claim(r, p, isCommand, run, first)
  PROVE  SlotHeldByItsDriver'
  BY NoneAssumption DEF TypeOK, SlotHeldByItsDriver, Claim, Alive

\* A driver that moves within Alive keeps its slot.
LEMMA MoveKeepsHeld ==
  ASSUME TypeOK, SlotHeldByItsDriver, NEW r \in Reservations,
         UNCHANGED <<runs, home>>,
         NEW to \in Alive, phase' = [phase EXCEPT ![r] = to]
  PROVE  SlotHeldByItsDriver'
  BY DEF TypeOK, SlotHeldByItsDriver

\* No step leaks a slot.
LEMMA HeldStep == TypeOK /\ SlotHeldByItsDriver /\ [Next]_vars => SlotHeldByItsDriver'
<1> SUFFICES ASSUME TypeOK, SlotHeldByItsDriver, [Next]_vars PROVE SlotHeldByItsDriver'
  OBVIOUS
<1>1. ASSUME NEW r \in Reservations, NEW p \in Projects, SendStart(r, p) \/ Compact(r, p)
      PROVE  SlotHeldByItsDriver'
  BY <1>1, ClaimKeepsHeld DEF SendStart, Compact
<1>2. ASSUME NEW s \in Syncs, NEW r \in Reservations, SyncAdopt(s, r)
      PROVE  SlotHeldByItsDriver'
  <2>1. sync[s].project \in Projects
    BY <1>2 DEF SyncAdopt, TypeOK
  <2>2. QED
    BY <1>2, <2>1, ClaimKeepsHeld DEF SyncAdopt
<1>3. ASSUME NEW r \in Reservations,
             \/ SpawnDriver(r) \/ StartRun(r) \/ StartFails(r) \/ ObserveEnd(r) \/ GiveUp(r)
             \/ ClearTables(r) \/ Teardown(r) \/ Settle(r)
      PROVE  SlotHeldByItsDriver'
  <2>1. UNCHANGED <<runs, home>> /\ \E to \in Alive : phase' = [phase EXCEPT ![r] = to]
    BY <1>3 DEF SpawnDriver, StartRun, StartFails, ObserveEnd, GiveUp, LeaveLoop, ClearTables,
                Teardown, Settle, Step, Alive
  <2>2. QED
    BY <2>1, MoveKeepsHeld
<1>4. ASSUME NEW r \in Reservations, Release(r) PROVE SlotHeldByItsDriver'
  <2>1. \A p \in Projects : runs'[p] # None => runs'[p] = runs[p] /\ runs[p] # r
    BY <1>4 DEF Release, TypeOK, SlotHeldByItsDriver
  <2>2. \A q \in Reservations : q # r => phase'[q] = phase[q]
    BY <1>4 DEF Release, Step, TypeOK
  <2>3. UNCHANGED home
    BY <1>4 DEF Release, Step
  <2>4. QED
    BY <2>1, <2>2, <2>3 DEF SlotHeldByItsDriver, TypeOK
<1>5. ASSUME NEW r \in Reservations, Notify(r) PROVE SlotHeldByItsDriver'
  <2>1. \A p \in Projects : runs[p] # r
    BY <1>5, NoneAssumption DEF Notify, Step, SlotHeldByItsDriver, Alive
  <2>2. QED
    BY <1>5, <2>1 DEF Notify, Step, SlotHeldByItsDriver, TypeOK
<1>6. ASSUME NEW r \in Reservations,
             DaemonEnds(r) \/ \E table \in Tables : Record(r, table) \/ Unrecord(r, table)
      PROVE  SlotHeldByItsDriver'
  BY <1>6 DEF DaemonEnds, Record, Unrecord, SlotHeldByItsDriver, drivers
<1>7. ASSUME NEW p \in Projects, SignalCancel(p) PROVE SlotHeldByItsDriver'
  BY <1>7 DEF SignalCancel, SlotHeldByItsDriver, drivers
<1>8. ASSUME NEW s \in Stops,
             StopAsk(s) \/ StopFinish(s) \/ \E p \in Projects : StopBegin(s, p) \/ ResetBegin(s, p)
      PROVE  SlotHeldByItsDriver'
  BY <1>8, RemovalKeepsHeld DEF StopBegin, ResetBegin, StopAsk, StopFinish, TypeOK
<1>9. ASSUME NEW s \in Syncs,
             SyncOrphan(s) \/ SyncSkip(s) \/ \E p \in Projects : SyncList(s, p)
      PROVE  SlotHeldByItsDriver'
  BY <1>9, RemovalKeepsHeld DEF SyncList, SyncOrphan, SyncSkip, TypeOK
<1>10. ASSUME NEW w \in Waits,
              \/ WaitBegin(w) \/ WaitCheck(w) \/ WaitWake(w) \/ WaitExpires(w) \/ Delete(w)
       PROVE  SlotHeldByItsDriver'
  BY <1>10 DEF WaitBegin, WaitCheck, WaitWake, WaitExpires, Delete, SlotHeldByItsDriver, drivers
<1>11. CASE Restart
  BY <1>11 DEF Restart, SlotHeldByItsDriver
<1>12. CASE UNCHANGED vars
  BY <1>12 DEF vars, SlotHeldByItsDriver, drivers
<1>13. QED
  BY <1>1, <1>2, <1>3, <1>4, <1>5, <1>6, <1>7, <1>8, <1>9, <1>10, <1>11, <1>12
  DEF Next, DriverStep

\* A slot is never leaked, whatever the number of projects, runs and commands:
\* the reservation in it belongs to a driver that has yet to drop it.
THEOREM SlotNeverLeaked == Spec => []SlotHeldByItsDriver
<1>1. Init => TypeOK /\ SlotHeldByItsDriver
  BY NoneAssumption, RestartAssumption DEF Init, TypeOK, Phases, Tables, SlotHeldByItsDriver
<1>2. QED
  BY <1>1, TypeStep, HeldStep, PTL DEF Spec

------------------------------------------------------------------------------
\* Only the slot's own driver, a Stop that saw this very entry, the release of
\* an orphan and the death of the GUI take an entry out of the registry.
THEOREM FreesOnlyItsOwnHolds == Spec => FreesOnlyItsOwn
<1> DEFINE Freed(p) ==
      \/ phase[runs[p]] = "drop" /\ phase'[runs[p]] = "notify"
      \/ \E s \in Stops : stop[s].at = "asked" /\ stop'[s].at = "done" /\ stop[s].seen = runs[p]
      \/ \E s \in Syncs : sync[s].at = "listed" /\ sync'[s].at = "adopting" /\ sync[s].project = p
      \/ restarts' # restarts
<1>1. ASSUME TypeOK, [Next]_vars, NEW p \in Projects, runs[p] # None, runs'[p] # runs[p]
      PROVE  Freed(p)
  <2>1. ASSUME NEW r \in Reservations, NEW q \in Projects, SendStart(r, q) \/ Compact(r, q)
        PROVE  Freed(p)
    BY <1>1, <2>1 DEF SendStart, Compact, Claim, TypeOK
  <2>2. ASSUME NEW s \in Syncs, NEW r \in Reservations, SyncAdopt(s, r)
        PROVE  Freed(p)
    BY <1>1, <2>2 DEF SyncAdopt, Claim, TypeOK
  <2>3. ASSUME NEW r \in Reservations, Release(r) PROVE Freed(p)
    BY <1>1, <2>3 DEF Release, Step, TypeOK
  <2>4. ASSUME NEW s \in Stops, StopFinish(s) PROVE Freed(p)
    BY <1>1, <2>4 DEF StopFinish, TypeOK
  <2>5. ASSUME NEW s \in Syncs, SyncOrphan(s) PROVE Freed(p)
    BY <1>1, <2>5 DEF SyncOrphan, TypeOK
  <2>6. CASE Restart
    <3>1. restarts \in Nat
      BY <1>1, RestartAssumption DEF TypeOK
    <3>2. restarts' = restarts + 1
      BY <2>6 DEF Restart
    <3>3. QED
      BY <3>1, <3>2
  <2>7. CASE UNCHANGED runs
    BY <1>1, <2>7
  <2>8. QED
    BY <1>1, <2>1, <2>2, <2>3, <2>4, <2>5, <2>6, <2>7
    DEF Next, vars, DriverStep, SpawnDriver, StartRun, StartFails, Record, Unrecord, ObserveEnd,
        GiveUp, LeaveLoop, ClearTables, Teardown, Settle, Notify, DaemonEnds, SignalCancel,
        StopBegin, ResetBegin, StopAsk, SyncList, SyncSkip, WaitBegin, WaitCheck, WaitWake, WaitExpires, Delete
<1>2. TypeOK /\ [Next]_vars
        => [\A p \in Projects : runs[p] # None /\ runs'[p] # runs[p] => Freed(p)]_vars
  BY <1>1
<1>3. QED
  BY <1>2, TypeCorrect, PTL DEF Spec, FreesOnlyItsOwn

------------------------------------------------------------------------------
\* What a driver records, it records as a turn: a /compact clears nothing, and
\* NothingLeftBehind is inductive only because it also records nothing.
CommandsRecordNothing ==
  \A r \in Reservations, table \in Tables : r \in rows[table] => ~command[r]

TablesInv == NothingLeftBehind /\ CommandsRecordNothing

\* A claim gives the turn of a reservation that has recorded nothing.
LEMMA ClaimKeepsTables ==
  ASSUME TypeOK, TablesInv,
         NEW r \in Reservations, NEW p, NEW run, NEW isCommand, NEW first,
         Claim(r, p, isCommand, run, first)
  PROVE  TablesInv'
<1>1. \A table \in Tables : r \notin rows[table]
  BY DEF Claim, TablesInv, NothingLeftBehind
<1>2. rows' = rows /\ \A q \in Reservations : q # r => phase'[q] = phase[q] /\ command'[q] = command[q]
  BY DEF Claim, TypeOK
<1>3. QED
  BY <1>1, <1>2 DEF TablesInv, NothingLeftBehind, CommandsRecordNothing, Tables

\* No step leaves a row behind.
LEMMA TablesStep == TypeOK /\ TablesInv /\ [Next]_vars => TablesInv'
<1> SUFFICES ASSUME TypeOK, TablesInv, [Next]_vars PROVE TablesInv'
  OBVIOUS
<1> USE DEF TablesInv, NothingLeftBehind, CommandsRecordNothing, Tables
<1>1. ASSUME NEW r \in Reservations, NEW p \in Projects, SendStart(r, p) \/ Compact(r, p)
      PROVE  TablesInv'
  BY <1>1, ClaimKeepsTables DEF SendStart, Compact
<1>2. ASSUME NEW s \in Syncs, NEW r \in Reservations, SyncAdopt(s, r) PROVE TablesInv'
  BY <1>2, ClaimKeepsTables DEF SyncAdopt
<1>3. ASSUME NEW r \in Reservations,
             \/ SpawnDriver(r) \/ StartRun(r) \/ StartFails(r)
             \/ Teardown(r) \/ Settle(r) \/ Release(r) \/ Notify(r)
      PROVE  TablesInv'
  <2>1. UNCHANGED <<rows, command>> /\ \A q \in Reservations : q # r => phase'[q] = phase[q]
    BY <1>3 DEF SpawnDriver, StartRun, StartFails, Teardown, Settle, Release, Notify, Step, TypeOK
  <2>2. phase[r] \in {"claimed", "starting", "teardown", "settling", "drop", "notify"}
    BY <1>3 DEF SpawnDriver, StartRun, StartFails, Teardown, Settle, Release, Notify, Step, TypeOK
  <2>3. QED
    BY <2>1, <2>2
<1>4. ASSUME NEW r \in Reservations, ObserveEnd(r) \/ GiveUp(r) PROVE TablesInv'
  <2>1. UNCHANGED <<rows, command>> /\ \A q \in Reservations : q # r => phase'[q] = phase[q]
    BY <1>4 DEF ObserveEnd, GiveUp, LeaveLoop, Step, TypeOK
  <2>2. phase'[r] = "leaving"
    BY <1>4 DEF ObserveEnd, GiveUp, LeaveLoop, Step, TypeOK
  <2>3. QED
    BY <2>1, <2>2
<1>5. ASSUME NEW r \in Reservations, ClearTables(r) PROVE TablesInv'
  <2>1. /\ \A q \in Reservations : phase'[q] = IF q = r THEN "teardown" ELSE phase[q]
        /\ command' = command /\ phase[r] = "leaving"
    BY <1>5 DEF ClearTables, Step, TypeOK
  <2>2. \A table \in Tables : r \notin rows'[table] /\ rows'[table] \subseteq rows[table]
    BY <1>5 DEF ClearTables, Of, TypeOK
  <2>3. QED
    BY <2>1, <2>2
<1>6. ASSUME NEW r \in Reservations, NEW table \in Tables, Unrecord(r, table) PROVE TablesInv'
  <2>1. UNCHANGED <<phase, command>> /\ \A other \in Tables : rows'[other] \subseteq rows[other]
    BY <1>6 DEF Unrecord, drivers, TypeOK
  <2>2. QED
    BY <2>1
<1>7. ASSUME NEW r \in Reservations, NEW table \in Tables, Record(r, table) PROVE TablesInv'
  <2>1. /\ UNCHANGED <<phase, command>>
        /\ phase[r] = "live" /\ ~command[r]
        /\ \A other \in Tables : rows'[other] \subseteq rows[other] \cup {r}
    BY <1>7 DEF Record, drivers, TypeOK
  <2>2. QED
    BY <2>1
<1>8. ASSUME NEW w \in Waits, Delete(w) PROVE TablesInv'
  <2>1. UNCHANGED <<phase, command>> /\ \A table \in Tables : rows'[table] \subseteq rows[table]
    BY <1>8 DEF Delete, drivers, TypeOK
  <2>2. QED
    BY <2>1
<1>9. CASE Restart
  BY <1>9 DEF Restart, TypeOK
<1>10. CASE UNCHANGED <<phase, command, rows>>
  BY <1>10
<1>11. QED
  BY <1>1, <1>2, <1>3, <1>4, <1>5, <1>6, <1>7, <1>8, <1>9, <1>10
  DEF Next, vars, drivers, DriverStep, DaemonEnds, SignalCancel, StopBegin, ResetBegin, StopAsk,
      StopFinish, SyncList, SyncOrphan, SyncSkip, WaitBegin, WaitCheck, WaitWake, WaitExpires

\* Whatever a driver put in the shared tables is gone when it is.
THEOREM NothingLeftBehindHolds == Spec => []NothingLeftBehind
<1>1. Init => TypeOK /\ TablesInv
  BY NoneAssumption, RestartAssumption
  DEF Init, TypeOK, Phases, Tables, TablesInv, NothingLeftBehind, CommandsRecordNothing
<1>2. TablesInv => NothingLeftBehind
  BY DEF TablesInv
<1>3. QED
  BY <1>1, <1>2, TypeStep, TablesStep, PTL DEF Spec

------------------------------------------------------------------------------
\* Without a Stop and without a synchronisation nothing frees a slot but the
\* drop of its holder.
OnlyDropsFree == Stops = {} /\ Syncs = {}

\* Then no two drivers of a project are alive, for the claim of the second
\* would have found the first in the slot.
LEMMA AliveStep ==
  OnlyDropsFree /\ TypeOK /\ AliveOwnsSlot /\ [Next]_vars => AliveOwnsSlot'
<1> SUFFICES ASSUME OnlyDropsFree, TypeOK, AliveOwnsSlot, [Next]_vars PROVE AliveOwnsSlot'
  OBVIOUS
<1>1. ASSUME NEW r \in Reservations, NEW p \in Projects, SendStart(r, p) \/ Compact(r, p)
      PROVE  AliveOwnsSlot'
  <2>1. PICK isCommand, first : Claim(r, p, isCommand, r, first)
    BY <1>1 DEF SendStart, Compact
  <2>2. \A q \in Reservations : q # r => phase'[q] = phase[q] /\ home'[q] = home[q]
    BY <2>1 DEF Claim, TypeOK
  <2>3. home'[r] = p /\ runs'[p] = r /\ \A q \in Projects : q # p => runs'[q] = runs[q]
    BY <2>1 DEF Claim, TypeOK
  <2>4. runs[p] = None
    BY <2>1 DEF Claim
  <2>5. QED
    BY <2>2, <2>3, <2>4, NoneAssumption DEF AliveOwnsSlot
<1>2. ASSUME NEW r \in Reservations,
             \/ SpawnDriver(r) \/ StartRun(r) \/ StartFails(r) \/ ObserveEnd(r) \/ GiveUp(r)
             \/ ClearTables(r) \/ Teardown(r) \/ Settle(r) \/ Notify(r)
      PROVE  AliveOwnsSlot'
  <2>1. /\ UNCHANGED <<runs, home>>
        /\ \E to \in Phases : phase' = [phase EXCEPT ![r] = to] /\ (to \in Alive => phase[r] \in Alive)
    BY <1>2 DEF SpawnDriver, StartRun, StartFails, ObserveEnd, GiveUp, LeaveLoop, ClearTables,
                Teardown, Settle, Notify, Step, Alive, Phases
  <2>2. QED
    BY <2>1 DEF AliveOwnsSlot, TypeOK
<1>3. ASSUME NEW r \in Reservations, Release(r) PROVE AliveOwnsSlot'
  <2>1. \A q \in Reservations : phase'[q] \in Alive => q # r /\ phase[q] \in Alive
    BY <1>3 DEF Release, Step, TypeOK, Alive
  <2>2. UNCHANGED home /\ \A p \in Projects : runs[p] # r => runs'[p] = runs[p]
    BY <1>3 DEF Release, Step, TypeOK
  <2>3. QED
    BY <2>1, <2>2 DEF AliveOwnsSlot
<1>4. CASE Restart
  BY <1>4 DEF Restart, AliveOwnsSlot, Alive
<1>5. CASE UNCHANGED <<runs, phase, home>>
  BY <1>5 DEF AliveOwnsSlot
<1>6. QED
  BY <1>1, <1>2, <1>3, <1>4, <1>5
  DEF Next, vars, drivers, DriverStep, OnlyDropsFree, Record, Unrecord, DaemonEnds, SignalCancel,
      WaitBegin, WaitCheck, WaitWake, WaitExpires, Delete

\* Where only drops free a slot, a driver owns its slot for as long as it lives.
THEOREM AliveOwnsSlotHolds == OnlyDropsFree => (Spec => []AliveOwnsSlot)
<1>1. Init => AliveOwnsSlot
  BY DEF Init, AliveOwnsSlot, Alive
<1>2. OnlyDropsFree => (Init /\ [][Next]_vars /\ []TypeOK => []AliveOwnsSlot)
  <2> SUFFICES ASSUME OnlyDropsFree PROVE Init /\ [][Next]_vars /\ []TypeOK => []AliveOwnsSlot
    OBVIOUS
  <2>1. TypeOK /\ AliveOwnsSlot /\ [Next]_vars => AliveOwnsSlot'
    BY AliveStep
  <2>2. QED
    BY <1>1, <2>1, PTL
<1>3. QED
  BY <1>2, TypeCorrect, PTL DEF Spec

\* ... so a project never has two live runs.  Where a Stop frees a slot it may.
THEOREM OneRunWhereOnlyDropsFree == OnlyDropsFree => (Spec => []OneRunPerProject)
<1>1. AliveOwnsSlot => OneRunPerProject
  BY DEF AliveOwnsSlot, OneRunPerProject, Alive
<1>2. QED
  BY <1>1, AliveOwnsSlotHolds, PTL

\* No wait for a slot sleeps through its release: between the two a driver is
\* about to ring.
LEMMA AsleepStep ==
  OnlyDropsFree /\ TypeOK /\ NoWaitAsleep /\ [Next]_vars => NoWaitAsleep'
<1> SUFFICES ASSUME OnlyDropsFree, TypeOK, NoWaitAsleep, [Next]_vars PROVE NoWaitAsleep'
  OBVIOUS
<1>1. ASSUME NEW r \in Reservations, NEW p \in Projects, SendStart(r, p) \/ Compact(r, p)
      PROVE  NoWaitAsleep'
  <2>1. PICK isCommand, first : Claim(r, p, isCommand, r, first)
    BY <1>1 DEF SendStart, Compact
  <2>2. \A w \in Waits : Free(w)' => Free(w)
    BY <2>1, TargetAssumption, NoneAssumption DEF Claim, Free, TypeOK
  <2>3. \A q \in Reservations : phase[q] = "notify" => phase'[q] = "notify"
    BY <2>1 DEF Claim, TypeOK
  <2>4. UNCHANGED wait
    BY <1>1 DEF SendStart, Compact, others
  <2>5. QED
    BY <2>2, <2>3, <2>4 DEF NoWaitAsleep
<1>2. ASSUME NEW r \in Reservations,
             \/ SpawnDriver(r) \/ StartRun(r) \/ StartFails(r) \/ ObserveEnd(r) \/ GiveUp(r)
             \/ ClearTables(r) \/ Teardown(r) \/ Settle(r)
      PROVE  NoWaitAsleep'
  <2>1. UNCHANGED <<runs, wait>> /\ phase[r] # "notify"
    BY <1>2 DEF SpawnDriver, StartRun, StartFails, ObserveEnd, GiveUp, LeaveLoop, ClearTables,
                Teardown, Settle, Step, others
  <2>2. \A q \in Reservations : q # r => phase'[q] = phase[q]
    BY <1>2 DEF SpawnDriver, StartRun, StartFails, ObserveEnd, GiveUp, LeaveLoop, ClearTables,
                Teardown, Settle, Step, TypeOK
  <2>3. QED
    BY <2>1, <2>2 DEF NoWaitAsleep, Free
<1>3. ASSUME NEW r \in Reservations, Release(r) PROVE NoWaitAsleep'
  <2>1. CASE runs[home[r]] = r
    BY <1>3, <2>1 DEF Release, Step, NoWaitAsleep, TypeOK
  <2>2. CASE runs[home[r]] # r
    <3>1. UNCHANGED <<runs, wait>> /\ \A q \in Reservations : q # r => phase'[q] = phase[q]
      BY <1>3, <2>2 DEF Release, Step, others, TypeOK
    <3>2. phase[r] # "notify"
      BY <1>3 DEF Release, Step
    <3>3. QED
      BY <3>1, <3>2 DEF NoWaitAsleep, Free
  <2>3. QED
    BY <2>1, <2>2
<1>4. ASSUME NEW r \in Reservations, Notify(r) PROVE NoWaitAsleep'
  <2>1. \A w \in Waits : wait'[w].at = "parked" => wait'[w].rung
    BY <1>4 DEF Notify, TypeOK
  <2>2. QED
    BY <2>1 DEF NoWaitAsleep
<1>5. ASSUME NEW w \in Waits,
             \/ WaitBegin(w) \/ WaitCheck(w) \/ WaitWake(w) \/ WaitExpires(w) \/ Delete(w)
      PROVE  NoWaitAsleep'
  <2>1. UNCHANGED <<runs, phase>>
    BY <1>5 DEF WaitBegin, WaitCheck, WaitWake, WaitExpires, Delete, drivers
  <2>2. \A v \in Waits : v # w => wait'[v] = wait[v]
    BY <1>5 DEF WaitBegin, WaitCheck, WaitWake, WaitExpires, Delete, WaitGoto, TypeOK
  <2>3. wait'[w].at = "parked" => ~Free(w)
    BY <1>5 DEF WaitBegin, WaitCheck, WaitWake, WaitExpires, Delete, WaitGoto, TypeOK
  <2>4. QED
    BY <2>1, <2>2, <2>3 DEF NoWaitAsleep, Free
<1>6. CASE Restart
  BY <1>6 DEF Restart, NoWaitAsleep, TypeOK
<1>7. CASE UNCHANGED <<runs, phase, wait>>
  BY <1>7 DEF NoWaitAsleep, Free
<1>8. QED
  BY <1>1, <1>2, <1>3, <1>4, <1>5, <1>6, <1>7
  DEF Next, vars, drivers, others, DriverStep, OnlyDropsFree, Record, Unrecord, DaemonEnds, SignalCancel

\* Where only drops free a slot, delete, restart and quit hear every release.
THEOREM NoWaitAsleepHolds == OnlyDropsFree => (Spec => []NoWaitAsleep)
<1>1. Init => NoWaitAsleep
  BY DEF Init, NoWaitAsleep
<1>2. OnlyDropsFree => (Init /\ [][Next]_vars /\ []TypeOK => []NoWaitAsleep)
  <2> SUFFICES ASSUME OnlyDropsFree PROVE Init /\ [][Next]_vars /\ []TypeOK => []NoWaitAsleep
    OBVIOUS
  <2>1. TypeOK /\ NoWaitAsleep /\ [Next]_vars => NoWaitAsleep'
    BY AsleepStep
  <2>2. QED
    BY <1>1, <2>1, PTL
<1>3. QED
  BY <1>2, TypeCorrect, PTL DEF Spec
==============================================================================
