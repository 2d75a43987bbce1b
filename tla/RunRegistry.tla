----------------------------- MODULE RunRegistry -----------------------------
(***************************************************************************)
(* The run slot of each project (apps/gui/src/projects.rs): ActiveRuns,    *)
(* the reservation that every claimer of a slot holds, the life of the     *)
(* driver that owns it, and the commands that reach into the registry from *)
(* the side: cancel_run, sync_project, delete_project and the waits for a  *)
(* released or idle registry.  agency-proxy, the daemon that owns provider *)
(* processes, is external: it lists, cancels and ends runs.                *)
(***************************************************************************)
EXTENDS Naturals

CONSTANTS
  Projects,      \* projects of the workspace
  Reservations,  \* reservation ids; each is handed out once, in any order
  Stops,         \* presses of Stop (cancel_run)
  Syncs,         \* opens of a project that synchronise it (sync_project)
  Waits,         \* delete_project, the agent restart and Quit Both
  Target,        \* per wait: the project it deletes, or Idle
  Idle,          \* the target of wait_until_idle
  None,          \* no reservation, no project
  MaxRestarts    \* bound on how often the GUI process dies

ASSUME NoneAssumption == None \notin Reservations /\ None \notin Projects
ASSUME RestartAssumption == MaxRestarts \in Nat
ASSUME TargetAssumption == Target \in [Waits -> Projects \cup {Idle}] /\ Idle \notin Projects

\* claimed: inside send_message, before drive_run is spawned.  starting: before
\* proxy.start.  live: the event loop.  leaving, teardown, settling: the tail of
\* drive_run.  drop, notify: RunReservation::drop.
Phases == {"unused", "claimed", "starting", "live", "leaving", "teardown",
           "settling", "drop", "notify", "done", "dead"}
Alive == {"claimed", "starting", "live", "leaving", "teardown", "settling", "drop"}

\* What a driver fills for its project, and its tail clears by project id alone:
\* the running tool calls and the questions that wait for the owner's answer.
Tables == {"running", "approvals"}

VARIABLES
  runs,       \* ActiveRuns.runs: project -> reservation
  phase,      \* where the holder of a reservation is
  home,       \* RunReservation.project_id
  turn,       \* the daemon run its driver attaches to, named by who started it
  command,    \* ActiveRun.inject is None: a /compact, not a turn
  cancel,     \* ActiveRun.cancel
  stopping,   \* the driver left its loop to tear the run down (`cancelled`)
  proxy,      \* the daemon's state of each run
  complete,   \* agency-proxy-complete:{turn_id} is written
  rows,       \* per table: the drivers with an entry of theirs in it
  stop,       \* per Stop: its step and what it read
  sync,       \* per sync_project: its step and its list_runs snapshot
  wait,       \* per wait: its step and whether its registration was rung
  deleted,    \* projects whose rows delete_project removed
  restarts    \* how often the GUI process has died

drivers == <<phase, home, turn, command, stopping>>
daemon == <<proxy, complete>>
others == <<stop, sync, wait, deleted, restarts>>
vars == <<runs, drivers, cancel, daemon, rows, others>>

TypeOK ==
  /\ runs \in [Projects -> Reservations \cup {None}]
  /\ phase \in [Reservations -> Phases]
  /\ home \in [Reservations -> Projects \cup {None}]
  /\ turn \in [Reservations -> Reservations \cup {None}]
  /\ command \in [Reservations -> BOOLEAN]
  /\ cancel \in [Reservations -> BOOLEAN]
  /\ stopping \in [Reservations -> BOOLEAN]
  /\ proxy \in [Reservations -> {"none", "live", "ended"}]
  /\ complete \in SUBSET Reservations
  /\ rows \in [Tables -> SUBSET Reservations]
  /\ stop \in [Stops -> [at : {"idle", "asking", "asked", "done"},
                         project : Projects \cup {None},
                         seen : Reservations \cup {None},
                         found : BOOLEAN]]
  /\ sync \in [Syncs -> [at : {"idle", "listed", "adopting", "done"},
                         project : Projects \cup {None},
                         snapshot : SUBSET Reservations]]
  /\ wait \in [Waits -> [at : {"idle", "checking", "parked", "granted", "done"},
                         rung : BOOLEAN]]
  /\ deleted \in SUBSET Projects
  /\ restarts \in 0..MaxRestarts
  /\ \A r \in Reservations :
       phase[r] # "unused" => home[r] \in Projects /\ turn[r] \in Reservations
  /\ \A s \in Syncs : sync[s].at # "idle" => sync[s].project \in Projects

Init ==
  /\ runs = [p \in Projects |-> None]
  /\ phase = [r \in Reservations |-> "unused"]
  /\ home = [r \in Reservations |-> None]
  /\ turn = [r \in Reservations |-> None]
  /\ command = [r \in Reservations |-> FALSE]
  /\ cancel = [r \in Reservations |-> FALSE]
  /\ stopping = [r \in Reservations |-> FALSE]
  /\ proxy = [r \in Reservations |-> "none"]
  /\ complete = {}
  /\ rows = [table \in Tables |-> {}]
  /\ stop = [s \in Stops |-> [at |-> "idle", project |-> None, seen |-> None, found |-> FALSE]]
  /\ sync = [s \in Syncs |-> [at |-> "idle", project |-> None, snapshot |-> {}]]
  /\ wait = [w \in Waits |-> [at |-> "idle", rung |-> FALSE]]
  /\ deleted = {}
  /\ restarts = 0

Of(p) == {r \in Reservations : home[r] = p}
LiveRuns(p) == {t \in Of(p) : proxy[t] = "live"}

------------------------------------------------------------------------------
\* Claiming.  A claim tests and takes the slot under one lock.

\* Mutant of Claim: the slot is taken without a look whether it is free.
ClaimUntested(r, p, isCommand, run, first) ==
  /\ phase[r] = "unused"
  /\ runs' = [runs EXCEPT ![p] = r]
  /\ home' = [home EXCEPT ![r] = p] /\ turn' = [turn EXCEPT ![r] = run]
  /\ command' = [command EXCEPT ![r] = isCommand] /\ phase' = [phase EXCEPT ![r] = first]
  /\ UNCHANGED <<cancel, stopping, daemon, rows>>

Claim(r, p, isCommand, run, first) ==
  /\ phase[r] = "unused"
  /\ runs[p] = None
  /\ runs' = [runs EXCEPT ![p] = r]
  /\ home' = [home EXCEPT ![r] = p]
  /\ turn' = [turn EXCEPT ![r] = run]
  /\ command' = [command EXCEPT ![r] = isCommand]
  /\ phase' = [phase EXCEPT ![r] = first]
  /\ UNCHANGED <<cancel, stopping, daemon, rows>>

\* send_message on an empty slot: SendRoute::Start.
SendStart(r, p) == Claim(r, p, FALSE, r, "claimed") /\ UNCHANGED others

\* compact_project_with: holds the slot, takes no passengers.
Compact(r, p) == Claim(r, p, TRUE, r, "starting") /\ UNCHANGED others

\* A message whose Codex roots differ from the live turn's, and delete_project,
\* throw the run's stop switch and leave the slot to its driver.
SignalCancel(p) ==
  /\ runs[p] # None
  /\ cancel' = [cancel EXCEPT ![runs[p]] = TRUE]
  /\ UNCHANGED <<runs, drivers, daemon, rows, others>>

------------------------------------------------------------------------------
\* The driver.

Step(r, from, to) ==
  /\ phase[r] = from
  /\ phase' = [phase EXCEPT ![r] = to]
  /\ UNCHANGED <<home, turn, command>>

\* The user row is stored and drive_run spawned, or storing it failed and the
\* reservation is dropped on the error return.
SpawnDriver(r) ==
  /\ \E next \in {"starting", "drop"} : Step(r, "claimed", next)
  /\ UNCHANGED <<runs, cancel, stopping, daemon, rows, others>>

\* proxy.start: StartRun is accepted, or conflicts with the run already there,
\* which is then attached.
StartRun(r) ==
  /\ Step(r, "starting", "live")
  /\ proxy' = [proxy EXCEPT ![turn[r]] = IF @ = "none" THEN "live" ELSE @]
  /\ UNCHANGED <<runs, stopping, complete, cancel, rows, others>>

\* A configuration or start error returns from drive_run.
StartFails(r) ==
  /\ Step(r, "starting", "drop")
  /\ UNCHANGED <<runs, cancel, stopping, daemon, rows, others>>

\* A tool call starts, or a question is put to the owner.
Record(r, table) ==
  /\ phase[r] = "live"
  /\ ~command[r]
  /\ r \notin rows[table]
  /\ rows' = [rows EXCEPT ![table] = @ \cup {r}]
  /\ UNCHANGED <<runs, drivers, cancel, daemon, others>>

\* The tool call's result arrives; the question is answered, or its wait ends.
Unrecord(r, table) ==
  /\ phase[r] = "live" \/ table = "approvals"
  /\ r \in rows[table]
  /\ rows' = [rows EXCEPT ![table] = @ \ {r}]
  /\ UNCHANGED <<runs, drivers, cancel, daemon, others>>

\* The event loop ends: the provider's terminal event, the stop switch, or an
\* internal stop (idle stall, failed injection, cleanup deadline).
LeaveLoop(r, torn) ==
  /\ Step(r, "live", "leaving")
  /\ stopping' = [stopping EXCEPT ![r] = torn]
  /\ UNCHANGED <<runs, cancel, daemon, rows, others>>

ObserveEnd(r) ==
  \/ phase[r] = "live" /\ proxy[turn[r]] = "ended" /\ LeaveLoop(r, FALSE)
  \/ cancel[r] /\ LeaveLoop(r, TRUE)

GiveUp(r) == LeaveLoop(r, TRUE)

\* Mutant of ClearTables: a torn-down run skips the clearing.
ClearUnlessStopping(r) ==
  /\ Step(r, "leaving", "teardown")
  /\ rows' = IF command[r] \/ stopping[r] THEN rows
             ELSE [table \in Tables |-> rows[table] \ Of(home[r])]
  /\ UNCHANGED <<runs, cancel, stopping, daemon, others>>

\* `running.remove(&project_id)`, and the questions of the project.
ClearTables(r) ==
  /\ Step(r, "leaving", "teardown")
  /\ rows' = IF command[r] THEN rows
             ELSE [table \in Tables |-> rows[table] \ Of(home[r])]
  /\ UNCHANGED <<runs, cancel, stopping, daemon, others>>

\* Mutant of Teardown: cancelling waits for the terminal event without a bound.
TeardownUnbounded(r) ==
  /\ Step(r, "teardown", "settling")
  /\ proxy[turn[r]] = "ended"
  /\ UNCHANGED <<runs, cancel, stopping, daemon, rows, others>>

\* run.finish() waits for the terminal event.  run.cancel() also returns when
\* the daemon refuses, or reports nothing for CANCEL_CONFIRMATION: the daemon
\* that accepted the cancel is taken to end the run or to fall silent.
Teardown(r) ==
  /\ Step(r, "teardown", "settling")
  /\ stopping[r] \/ proxy[turn[r]] = "ended"
  /\ UNCHANGED <<runs, cancel, stopping, daemon, rows, others>>

\* The outcome is stored and the turn marked complete for the daemon.  The mark
\* is missing when the project is gone, when a finished turn's reply cannot be
\* stored, or when writing the mark fails.
Settle(r) ==
  /\ Step(r, "settling", "drop")
  /\ \/ UNCHANGED complete
     \/ /\ ~command[r]
        /\ home[r] \notin deleted
        /\ complete' = complete \cup {turn[r]}
  /\ UNCHANGED <<runs, proxy, cancel, rows, stopping, others>>

\* Mutants of Release: whatever entry is there goes; the entry stays.
ReleaseAnyEntry(r) ==
  /\ Step(r, "drop", "notify")
  /\ runs' = [runs EXCEPT ![home[r]] = None]
  /\ UNCHANGED <<cancel, stopping, daemon, rows, others>>

ReleaseNothing(r) ==
  /\ Step(r, "drop", "done")
  /\ UNCHANGED <<runs, cancel, stopping, daemon, rows, others>>

\* ActiveRuns::release under the lock: only the entry that is still ours.
Release(r) ==
  /\ Step(r, "drop", IF runs[home[r]] = r THEN "notify" ELSE "done")
  /\ runs' = [runs EXCEPT ![home[r]] = IF @ = r THEN None ELSE @]
  /\ UNCHANGED <<cancel, stopping, daemon, rows, others>>

\* Mutant of Notify: one wait is rung instead of all of them.
NotifyOne(r) ==
  /\ Step(r, "notify", "done")
  /\ LET waiting == {w \in Waits : wait[w].at \in {"checking", "parked"}} IN
     IF waiting = {} THEN UNCHANGED wait
     ELSE \E w \in waiting : wait' = [wait EXCEPT ![w].rung = TRUE]
  /\ UNCHANGED <<runs, cancel, stopping, daemon, rows, stop, sync, deleted, restarts>>

\* ... then notify_waiters.
Notify(r) ==
  /\ Step(r, "notify", "done")
  /\ wait' = [w \in Waits |-> IF wait[w].at \in {"checking", "parked"}
                              THEN [wait[w] EXCEPT !.rung = TRUE] ELSE wait[w]]
  /\ UNCHANGED <<runs, cancel, stopping, daemon, rows, stop, sync, deleted, restarts>>

\* External: the daemon's run ends, by itself or because it was cancelled.
DaemonEnds(t) ==
  /\ proxy[t] = "live"
  /\ proxy' = [proxy EXCEPT ![t] = "ended"]
  /\ UNCHANGED <<runs, drivers, cancel, complete, rows, others>>

------------------------------------------------------------------------------
\* cancel_run and a forced reset_project_session: read the slot, ask the daemon,
\* take the slot back.

StopBegin(s, p) ==
  /\ stop[s].at = "idle"
  /\ stop' = [stop EXCEPT ![s] = [at |-> "asking", project |-> p, seen |-> runs[p], found |-> FALSE]]
  /\ UNCHANGED <<runs, drivers, cancel, daemon, rows, sync, wait, deleted, restarts>>

\* A reset throws the run's stop switch before it asks.
ResetBegin(s, p) ==
  /\ stop[s].at = "idle"
  /\ stop' = [stop EXCEPT ![s] = [at |-> "asking", project |-> p, seen |-> runs[p], found |-> FALSE]]
  /\ cancel' = [r \in Reservations |-> cancel[r] \/ r = runs[p]]
  /\ UNCHANGED <<runs, drivers, daemon, rows, sync, wait, deleted, restarts>>

\* cancel_project_runs: every run listed for the project is cancelled, and the
\* acknowledgement is terminal.  An unreachable daemon ends the command.
StopAsk(s) ==
  /\ stop[s].at = "asking"
  /\ \/ LET hits == LiveRuns(stop[s].project) IN
        /\ stop' = [stop EXCEPT ![s].at = "asked", ![s].found = hits # {}]
        /\ proxy' = [t \in Reservations |-> IF t \in hits THEN "ended" ELSE proxy[t]]
     \/ /\ stop' = [stop EXCEPT ![s].at = "done"]
        /\ UNCHANGED proxy
  /\ UNCHANGED <<runs, drivers, cancel, complete, rows, sync, wait, deleted, restarts>>

\* With no daemon run cancel_run throws the local switch instead (a reset already
\* has); either way the entry read at the start is removed, without notify_waiters or run:slot_released.
StopFinish(s) ==
  LET p == stop[s].project
      seen == stop[s].seen
  IN
  /\ stop[s].at = "asked"
  /\ stop' = [stop EXCEPT ![s].at = "done"]
  /\ cancel' = [r \in Reservations |-> cancel[r] \/ (r = seen /\ ~stop[s].found)]
  /\ runs' = [runs EXCEPT ![p] = IF @ = seen THEN None ELSE @]
  /\ UNCHANGED <<drivers, daemon, rows, sync, wait, deleted, restarts>>

------------------------------------------------------------------------------
\* sync_project: list the daemon's runs, release an orphan, adopt a live run.

SyncList(s, p) ==
  /\ sync[s].at = "idle"
  /\ sync' = [sync EXCEPT ![s] = [at |-> "listed", project |-> p, snapshot |-> LiveRuns(p)]]
  /\ UNCHANGED <<runs, drivers, cancel, daemon, rows, stop, wait, deleted, restarts>>

Orphaned(s) == runs[sync[s].project] # None /\ sync[s].snapshot = {}

SyncOrphan(s) ==
  LET p == sync[s].project IN
  /\ sync[s].at = "listed"
  /\ sync' = [sync EXCEPT ![s].at = "adopting"]
  /\ IF Orphaned(s)
     THEN /\ runs' = [runs EXCEPT ![p] = None]
          /\ cancel' = [cancel EXCEPT ![runs[p]] = TRUE]
     ELSE UNCHANGED <<runs, cancel>>
  /\ UNCHANGED <<drivers, daemon, rows, stop, wait, deleted, restarts>>

\* A live run whose turn is not complete gets a new driver, if the slot is
\* free.  A /compact has no opening message and is never adopted.
SyncAdopt(s, r) ==
  /\ sync[s].at = "adopting"
  /\ \E t \in sync[s].snapshot \ complete :
       /\ ~command[t]
       /\ Claim(r, sync[s].project, FALSE, t, "starting")
  /\ sync' = [sync EXCEPT ![s].at = "done"]
  /\ UNCHANGED <<stop, wait, deleted, restarts>>

\* Nothing to adopt: no live run, its turn is complete, the slot is taken, or
\* its opening message is gone.
SyncSkip(s) ==
  /\ sync[s].at = "adopting"
  /\ sync' = [sync EXCEPT ![s].at = "done"]
  /\ UNCHANGED <<runs, drivers, cancel, daemon, rows, stop, wait, deleted, restarts>>

------------------------------------------------------------------------------
\* wait_until_released, wait_until_idle, and delete_project around the first.

Free(w) ==
  IF Target[w] = Idle THEN \A p \in Projects : runs[p] = None
                      ELSE runs[Target[w]] = None

WaitGoto(w, from, to) ==
  /\ wait[w].at = from
  /\ wait' = [wait EXCEPT ![w] = [at |-> to, rung |-> FALSE]]

\* delete_project throws the run's switch, if there is one, and waits;
\* schedule_agent_restart and quit_app_and_proxy only wait.
WaitBegin(w) ==
  /\ IF Target[w] = Idle
     THEN WaitGoto(w, "idle", "checking") /\ UNCHANGED cancel
     ELSE IF runs[Target[w]] = None
     THEN WaitGoto(w, "idle", "granted") /\ UNCHANGED cancel
     ELSE /\ WaitGoto(w, "idle", "checking")
          /\ cancel' = [cancel EXCEPT ![runs[Target[w]]] = TRUE]
  /\ UNCHANGED <<runs, drivers, daemon, rows, stop, sync, deleted, restarts>>

\* notified() is built before the registry is read: a ring between the two is
\* not lost.
WaitCheck(w) ==
  /\ wait[w].at = "checking"
  /\ wait' = [wait EXCEPT ![w].at = IF Free(w) THEN "granted" ELSE "parked"]
  /\ UNCHANGED <<runs, drivers, cancel, daemon, rows, stop, sync, deleted, restarts>>

WaitWake(w) ==
  /\ wait[w].rung
  /\ WaitGoto(w, "parked", "checking")
  /\ UNCHANGED <<runs, drivers, cancel, daemon, rows, stop, sync, deleted, restarts>>

\* Every wait is bounded: 10 s to delete, 600 s to restart, 15 s to quit.
WaitExpires(w) ==
  /\ WaitGoto(w, "parked", "done")
  /\ UNCHANGED <<runs, drivers, cancel, daemon, rows, stop, sync, deleted, restarts>>

Delete(w) ==
  /\ Target[w] # Idle
  /\ WaitGoto(w, "granted", "done")
  /\ deleted' = deleted \cup {Target[w]}
  /\ rows' = [rows EXCEPT !["running"] = @ \ Of(Target[w])]
  /\ UNCHANGED <<runs, drivers, cancel, daemon, stop, sync, restarts>>

------------------------------------------------------------------------------
\* The GUI process dies and starts again: AppState is built empty, the drivers
\* and the commands in flight are gone; the daemon and the store are not.
Restart ==
  /\ restarts < MaxRestarts
  /\ restarts' = restarts + 1
  /\ runs' = [p \in Projects |-> None]
  /\ phase' = [r \in Reservations |-> IF phase[r] \in {"unused", "done"} THEN phase[r] ELSE "dead"]
  /\ rows' = [table \in Tables |-> {}]
  /\ stop' = [s \in Stops |-> IF stop[s].at = "idle" THEN stop[s] ELSE [stop[s] EXCEPT !.at = "done"]]
  /\ sync' = [s \in Syncs |-> IF sync[s].at = "idle" THEN sync[s] ELSE [sync[s] EXCEPT !.at = "done"]]
  /\ wait' = [w \in Waits |-> IF wait[w].at = "idle" THEN wait[w] ELSE [at |-> "done", rung |-> FALSE]]
  /\ UNCHANGED <<home, turn, command, stopping, cancel, daemon, deleted>>

DriverStep(r) ==
  \/ SpawnDriver(r)
  \/ StartRun(r)
  \/ StartFails(r)
  \/ ObserveEnd(r)
  \/ ClearTables(r)
  \/ Teardown(r)
  \/ Settle(r)
  \/ Release(r)
  \/ Notify(r)

Next ==
  \/ \E r \in Reservations : \/ \E p \in Projects : SendStart(r, p) \/ Compact(r, p)
                             \/ DriverStep(r)
                             \/ GiveUp(r)
                             \/ \E table \in Tables : Record(r, table) \/ Unrecord(r, table)
                             \/ \E s \in Syncs : SyncAdopt(s, r)
                             \/ DaemonEnds(r)
  \/ \E p \in Projects : SignalCancel(p)
  \/ \E s \in Stops : (\E p \in Projects : StopBegin(s, p) \/ ResetBegin(s, p)) \/ StopAsk(s) \/ StopFinish(s)
  \/ \E s \in Syncs : (\E p \in Projects : SyncList(s, p)) \/ SyncOrphan(s) \/ SyncSkip(s)
  \/ \E w \in Waits : WaitBegin(w) \/ WaitCheck(w) \/ WaitWake(w) \/ WaitExpires(w) \/ Delete(w)
  \/ Restart

\* A driver that can take its next step does; nothing else has to happen.
Spec == Init /\ [][Next]_vars /\ \A r \in Reservations : WF_vars(DriverStep(r))

------------------------------------------------------------------------------
\* A slot is never leaked: whoever holds it is still on the way to dropping it.
\* A leaked slot would refuse every later send for the project.
SlotHeldByItsDriver ==
  \A p \in Projects : runs[p] # None => phase[runs[p]] \in Alive /\ home[runs[p]] = p

\* A driver finishing late, or a Stop answered late, never frees the slot of a
\* run it did not claim or did not see.
FreesOnlyItsOwn ==
  [][\A p \in Projects :
       runs[p] # None /\ runs'[p] # runs[p] =>
         \/ phase[runs[p]] = "drop" /\ phase'[runs[p]] = "notify"
         \/ \E s \in Stops : stop[s].at = "asked" /\ stop'[s].at = "done" /\ stop[s].seen = runs[p]
         \/ \E s \in Syncs : sync[s].at = "listed" /\ sync'[s].at = "adopting" /\ sync[s].project = p
         \/ restarts' # restarts]_vars

\* What a driver put in the shared tables does not outlive its loop by more than
\* the step that clears them, whichever way the loop ended: a tool call left
\* there would spin for ever, a question left there could be answered to nobody.
NothingLeftBehind ==
  \A r \in Reservations, table \in Tables :
    r \in rows[table] => phase[r] \in {"live", "leaving"}

\* A turn that is told to stop gives its slot up, whatever the provider does.
StoppedTurnFreesSlot ==
  \A r \in Reservations :
    cancel[r] /\ ~command[r] ~> \A p \in Projects : runs[p] # r

\* Where nothing but a driver's own drop frees a slot, a driver holds the slot
\* for as long as it can still touch the project's tables.
AliveOwnsSlot ==
  \A r \in Reservations :
    phase[r] \in Alive => home[r] \in Projects /\ runs[home[r]] = r

\* ... and no wait sleeps through the release it waits for.
NoWaitAsleep ==
  \A w \in Waits : wait[w].at = "parked" /\ ~wait[w].rung /\ Free(w)
                     => \E r \in Reservations : phase[r] = "notify"

\* "One run per project", as ActiveRun documents it.
OneRunPerProject ==
  \A r, q \in Reservations :
    r # q /\ phase[r] = "live" /\ phase[q] = "live" => home[r] # home[q]
==============================================================================
