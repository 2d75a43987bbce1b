------------------------------ MODULE AgentRestart ------------------------------
(***************************************************************************)
(* A restart an agent asked for and the owner's own ways out (main.rs,     *)
(* update.rs): the task that waits for the window and for the runs, the    *)
(* window's answer (workspace.tsx), the one drain of the tables before the *)
(* process ends, the pull request refresh it must wait for (prs.rs), and   *)
(* the marker from which the next process continues the conversation.      *)
(***************************************************************************)
EXTENDS Naturals, Sequences

CONSTANTS
  Projects,    \* projects with a run at one time or another
  MaxRuns,     \* bound: runs that start
  MaxRestarts, \* bound: restarts that are scheduled
  MaxLeaves,   \* bound: times the owner or a signal ends the process
  MaxFailures  \* bound: operations that fail, deadlines that pass, crashes

ASSUME BoundsAssumption == {MaxRuns, MaxRestarts, MaxLeaves, MaxFailures} \subseteq Nat

VARIABLES
  up,        \* there is a process
  active,    \* the projects in the run registry
  accepting, \* claimed, run:accepted not sent yet
  leaving,   \* the entry is gone, run:slot_released not sent yet
  mail,      \* events on their way to the window
  busy,      \* activeRunProjects of the window
  queued,    \* projects with work the window holds back
  flushing,  \* held prompts on their way to send_message
  flushed,   \* flushes that ended, which the window has not noticed
  held,      \* the token the window was told
  asking,    \* the token it is confirming
  scheduled, \* agent_restart_scheduled
  pending,   \* the token of agent_restart_confirmation
  task,      \* where the restart's task is
  drain,     \* exit_drain_started and exit_drain_succeeded
  door,      \* where the restart, the owner and a signal are on their way out
  refresh,   \* where a pull request refresh is
  marker,    \* the restart that left restart-resume.json, if it is there
  resume,    \* the one whose conversation this process has to continue
  restarts, runs, leaves, failures, \* how many there were
  clear,     \* history: tokens the window found no work for
  crossed,   \* history: tokens that came while it was confirming another
  continued, \* history: restarts whose conversation was continued
  stopped    \* history: projects whose run a Stop took out of the registry

registry == <<active, accepting, leaving, runs, stopped>>
prompts == <<queued, flushing, flushed>>
window == <<busy, held, asking, clear, crossed>>
restart == <<scheduled, pending, task, restarts>>
closing == <<drain, door, leaves>>
continuing == <<marker, resume, continued>>
vars == <<up, registry, mail, prompts, window, restart, closing, refresh, continuing, failures>>

Tokens == 1 .. MaxRestarts
None == 0
Events == ({"accepted", "released"} \X Projects) \cup ({"scheduled"} \X Tokens)
Doors == {"restart", "owner", "signal"}

RunTypes ==
  /\ active \subseteq Projects /\ accepting \subseteq Projects /\ leaving \subseteq Projects
  /\ stopped \subseteq Projects /\ busy \subseteq Projects /\ queued \subseteq Projects
  /\ flushing \subseteq Projects /\ flushed \subseteq Projects
  /\ mail \in Seq(Events)
TokenTypes ==
  /\ held \in Tokens \cup {None} /\ asking \in Tokens \cup {None}
  /\ pending \in Tokens \cup {None} /\ marker \in Tokens \cup {None}
  /\ resume \in Tokens \cup {None} /\ continued \subseteq Tokens
  /\ clear \subseteq Tokens /\ crossed \subseteq Tokens
  /\ restarts \in 0 .. MaxRestarts /\ (task # "none" => restarts # 0)
StageTypes ==
  /\ task \in {"none", "announce", "wait", "idle", "arm", "update", "download", "drain"}
  /\ scheduled = (task # "none") /\ (pending # None => task = "wait")
  /\ drain \in {"no", "waiting", "shutting", "failed", "done"}
  /\ door \in [Doors -> {"away", "drain", "out"}]
  /\ refresh \in {"none", "checked", "begun", "running"}
CountTypes ==
  /\ runs \in 0 .. MaxRuns /\ leaves \in 0 .. MaxLeaves /\ failures \in 0 .. MaxFailures
  /\ up \in BOOLEAN
TypeOK == RunTypes /\ TokenTypes /\ StageTypes /\ CountTypes

Init ==
  /\ active = {} /\ accepting = {} /\ leaving = {} /\ stopped = {} /\ mail = <<>>
  /\ queued = {} /\ flushing = {} /\ flushed = {}
  /\ busy = {} /\ held = None /\ asking = None
  /\ scheduled = FALSE /\ pending = None /\ task = "none"
  /\ drain = "no" /\ door = [d \in Doors |-> "away"] /\ refresh = "none"
  /\ up = TRUE /\ marker = None /\ resume = None /\ clear = {} /\ crossed = {}
  /\ restarts = 0 /\ runs = 0 /\ leaves = 0 /\ failures = 0 /\ continued = {}

Fails == failures < MaxFailures /\ failures' = failures + 1

-----------------------------------------------------------------------------
\* The window's side of a restart.

\* maybeConfirmAgentRestart, called with what the window holds afterwards.
MaybeConfirm(b, q, token) ==
  /\ busy' = b /\ queued' = q /\ held' = token
  /\ IF token # None /\ asking = None /\ b = {} /\ q = {}
       THEN asking' = token /\ clear' = clear \cup {token}
       ELSE UNCHANGED <<asking, clear>>

\* Mutant of Freed: the window does not look whether that was the last.
FreedQuietly(p) == busy' = busy \ {p} /\ UNCHANGED <<queued, held, asking, clear>>
Freed(p) == MaybeConfirm(busy \ {p}, queued, held)

\* It handles one event: a freed slot goes to what it holds for the project.
Deliver ==
  /\ mail # <<>> /\ mail' = Tail(mail)
  /\ LET kind == Head(mail)[1]  about == Head(mail)[2] IN
       \/ /\ kind = "accepted" /\ busy' = busy \cup {about}
          /\ UNCHANGED <<queued, flushing, held, asking, clear, crossed>>
       \/ /\ kind = "released" /\ UNCHANGED crossed
          /\ IF about \in queued
               THEN /\ busy' = busy \ {about} /\ queued' = queued \ {about}
                    /\ flushing' = flushing \cup {about} /\ UNCHANGED <<held, asking, clear>>
               ELSE Freed(about) /\ UNCHANGED flushing
       \/ /\ kind = "scheduled" /\ MaybeConfirm(busy, queued, about) /\ UNCHANGED flushing
          /\ crossed' = IF asking # None THEN crossed \cup {about} ELSE crossed
  /\ UNCHANGED <<up, registry, flushed, restart, closing, refresh, continuing, failures>>

\* A flush has sent its prompt or put it back.
FlushEnds(p) ==
  /\ p \in flushed /\ flushed' = flushed \ {p} /\ MaybeConfirm(busy, queued, held)
  /\ UNCHANGED <<up, registry, mail, flushing, crossed, restart, closing, refresh, continuing, failures>>

\* confirm_agent_restart, and the window's reaction to the answer.
\* Mutant of Matches: whatever token confirms what is waiting.
AnyMatches(token) == pending # None
Matches(token) == pending = token

Confirm ==
  /\ asking # None /\ asking' = None
  /\ IF Matches(asking)
       THEN pending' = None /\ task' = "idle" /\ held' = (IF held = asking THEN None ELSE held)
       ELSE UNCHANGED <<pending, task, held>>
  /\ UNCHANGED <<up, registry, mail, prompts, busy, clear, crossed, scheduled, restarts, closing, refresh,
                 continuing, failures>>

-----------------------------------------------------------------------------
\* Runs: the claim and the release of a slot, and the events that tell of them.

\* send_message takes the slot.
Claims(p) ==
  /\ p \notin active /\ drain # "done" /\ runs < MaxRuns
  /\ active' = active \cup {p} /\ accepting' = accepting \cup {p} /\ runs' = runs + 1
  /\ UNCHANGED <<leaving, stopped>>
OnlySent == UNCHANGED <<up, mail, window, restart, closing, refresh, continuing, failures>>

\* The owner sends a prompt: it is held where there is a run, known to the window
\* or not ...
Prompt(p) ==
  /\ up /\ p \notin queued /\ runs < MaxRuns /\ OnlySent /\ UNCHANGED <<flushing, flushed>>
  /\ \/ p \notin busy /\ Claims(p) /\ UNCHANGED queued
     \/ p \in busy \cup active /\ queued' = queued \cup {p} /\ UNCHANGED registry
\* ... or the window sends the one it held, which a refusal puts back, ...
Flush(p) ==
  /\ p \in flushing /\ flushing' = flushing \ {p} /\ flushed' = flushed \cup {p} /\ OnlySent
  /\ \/ Claims(p) /\ UNCHANGED queued
     \/ (p \in active \/ drain = "done") /\ queued' = queued \cup {p} /\ UNCHANGED registry
\* ... and a timer sends again.
Retry(p) ==
  /\ p \in queued \ busy /\ queued' = queued \ {p} /\ Claims(p)
  /\ OnlySent /\ UNCHANGED <<flushing, flushed>>

Accepted(p) ==
  /\ p \in accepting /\ accepting' = accepting \ {p} /\ mail' = Append(mail, <<"accepted", p>>)
  /\ UNCHANGED <<up, active, leaving, runs, stopped, prompts, window, restart, closing, refresh,
                 continuing, failures>>

\* RunReservation::drop takes the entry and then tells.
Release(p) ==
  /\ p \in active \ (accepting \cup leaving)
  /\ active' = active \ {p} /\ leaving' = leaving \cup {p}
  /\ UNCHANGED <<up, accepting, runs, stopped, mail, prompts, window, restart, closing, refresh,
                 continuing, failures>>
Released(p) ==
  /\ p \in leaving /\ leaving' = leaving \ {p} /\ mail' = Append(mail, <<"released", p>>)
  /\ UNCHANGED <<up, active, accepting, runs, stopped, prompts, window, restart, closing, refresh,
                 continuing, failures>>

\* cancel_run takes the entry, and no event tells of it.
Stop(p) ==
  /\ p \in active \ accepting /\ active' = active \ {p} /\ stopped' = stopped \cup {p}
  /\ UNCHANGED <<up, accepting, leaving, runs, mail, prompts, window, restart, closing, refresh,
                 continuing, failures>>

-----------------------------------------------------------------------------
\* schedule_agent_restart.

Reopened == scheduled' = FALSE
OnlyTask == UNCHANGED <<up, registry, prompts, window, refresh>>

\* An agent's directive, from inside its run.
Schedule ==
  /\ active # {} /\ ~scheduled /\ restarts < MaxRestarts
  /\ scheduled' = TRUE /\ task' = "announce" /\ restarts' = restarts + 1
  /\ OnlyTask /\ UNCHANGED <<mail, pending, closing, continuing, failures>>

Announce ==
  /\ task = "announce" /\ task' = "wait" /\ pending' = restarts
  /\ mail' = Append(mail, <<"scheduled", restarts>>)
  /\ OnlyTask /\ UNCHANGED <<scheduled, restarts, closing, continuing, failures>>

\* One deadline for the window's word and for the last run.
Expire ==
  /\ task \in {"wait", "idle"} /\ pending' = None /\ Reopened /\ task' = "none"
  /\ OnlyTask /\ UNCHANGED <<mail, restarts, closing, continuing, failures>>

Idle ==
  /\ task = "idle" /\ active = {} /\ task' = "arm"
  /\ OnlyTask /\ UNCHANGED <<mail, scheduled, pending, restarts, closing, continuing, failures>>

\* The marker is written when the restart is about to happen, not before.
Arm ==
  /\ task = "arm" /\ OnlyTask /\ UNCHANGED <<mail, pending, restarts, closing, resume, continued>>
  /\ \/ /\ task' \in {"update", "drain"} /\ marker' = restarts
        /\ UNCHANGED <<scheduled, failures>>
     \/ Fails /\ Reopened /\ task' = "none" /\ UNCHANGED marker

\* An error takes the marker back, where it can be removed.
Undone ==
  /\ Reopened /\ task' = "none" /\ marker' \in {marker, None}
  /\ UNCHANGED <<pending, restarts, resume, continued>>

\* install_update_now looks at the runs again, and downloads.
Update ==
  /\ task = "update" /\ OnlyTask /\ UNCHANGED <<mail, closing, failures>>
  /\ \/ active = {} /\ task' = "download" /\ UNCHANGED <<scheduled, pending, restarts, continuing>>
     \/ active # {} /\ Undone
Download ==
  /\ task = "download" /\ OnlyTask /\ UNCHANGED <<mail, closing>>
  /\ \/ task' = "drain" /\ UNCHANGED <<scheduled, pending, restarts, continuing, failures>>
     \/ Fails /\ Undone

-----------------------------------------------------------------------------
\* drain_tables_once, and the ways out that go through it.

\* The second to come is let out only by a drain that succeeded.
Passes == drain = "done"

\* A signal goes on whatever the drain says; the others stay.
TurnedAway(d) ==
  IF d = "signal" THEN door' = [door EXCEPT ![d] = "out"] /\ UNCHANGED <<restart, continuing>>
  ELSE /\ door' = [door EXCEPT ![d] = "away"]
       /\ IF d = "restart" THEN Undone ELSE UNCHANGED <<restart, continuing>>

Enter(d) ==
  \/ /\ drain = "no" /\ drain' = "waiting" /\ door' = [door EXCEPT ![d] = "drain"]
     /\ UNCHANGED <<restart, continuing>>
  \/ /\ drain # "no" /\ Passes /\ door' = [door EXCEPT ![d] = "out"]
     /\ UNCHANGED <<drain, restart, continuing>>
  \/ drain # "no" /\ ~Passes /\ TurnedAway(d) /\ UNCHANGED drain

RestartDrains ==
  /\ task = "drain" /\ door["restart"] = "away" /\ Enter("restart")
  /\ OnlyTask /\ UNCHANGED <<mail, leaves, failures>>
\* quit_app, quit_app_and_proxy, relaunch_app, a backup or a restore; or SIGTERM.
Leave ==
  /\ up /\ leaves < MaxLeaves /\ leaves' = leaves + 1
  /\ \E d \in {"owner", "signal"} : door[d] = "away" /\ Enter(d)
  /\ OnlyTask /\ UNCHANGED <<mail, failures>>

Refreshing == refresh \in {"begun", "running"}
Drained(d, ok) ==
  IF ok THEN /\ drain' = "done" /\ door' = [door EXCEPT ![d] = "out"]
             /\ UNCHANGED <<restart, continuing>>
  ELSE drain' = "failed" /\ TurnedAway(d)

WaitForRefreshes ==
  /\ drain = "waiting" /\ UNCHANGED <<mail, leaves>> /\ OnlyTask
  /\ \/ ~Refreshing /\ drain' = "shutting" /\ UNCHANGED <<door, restart, continuing, failures>>
     \/ /\ Refreshing /\ Fails
        /\ \E d \in Doors : door[d] = "drain" /\ Drained(d, FALSE)
Shutdown ==
  /\ drain = "shutting" /\ UNCHANGED <<mail, leaves>> /\ OnlyTask
  /\ \E d \in Doors :
       /\ door[d] = "drain"
       /\ \/ Drained(d, TRUE) /\ UNCHANGED failures
          \/ Drained(d, FALSE) /\ Fails

\* The angel that would start the next process cannot be spawned.
NoAngel ==
  /\ Fails /\ UNCHANGED <<drain, leaves, mail>> /\ OnlyTask
  /\ \E d \in {"restart", "owner"} : door[d] = "out" /\ TurnedAway(d)

\* The process ends; everything but the marker goes with it.
Ends ==
  /\ up /\ up' = FALSE /\ resume' = None
  /\ active' = {} /\ accepting' = {} /\ leaving' = {} /\ stopped' = {} /\ mail' = <<>>
  /\ queued' = {} /\ flushing' = {} /\ flushed' = {}
  /\ busy' = {} /\ held' = None /\ asking' = None
  /\ scheduled' = FALSE /\ pending' = None /\ task' = "none"
  /\ drain' = "no" /\ door' = [d \in Doors |-> "away"] /\ refresh' = "none"
  /\ UNCHANGED <<clear, crossed, restarts, runs, leaves, marker, continued>>
Exit == (\E d \in Doors : door[d] = "out") /\ Ends /\ UNCHANGED failures
Crash == Ends /\ Fails

-----------------------------------------------------------------------------
\* refresh_project registers, and looks again before it goes on.

\* Mutant of StillOpen: it does not look again.
StillOpenAnyway == TRUE
StillOpen == drain = "no"
OnlyRefresh == UNCHANGED <<up, registry, mail, prompts, window, restart, closing, continuing, failures>>

CheckRefresh == up /\ refresh = "none" /\ drain = "no" /\ refresh' = "checked" /\ OnlyRefresh
BeginRefresh == refresh = "checked" /\ refresh' = "begun" /\ OnlyRefresh
RecheckRefresh ==
  refresh = "begun" /\ refresh' = (IF StillOpen THEN "running" ELSE "none") /\ OnlyRefresh
EndRefresh == refresh = "running" /\ refresh' = "none" /\ OnlyRefresh

-----------------------------------------------------------------------------
\* The next process.

\* Mutant of MarkerTaken: the marker is read and left.
MarkerRead == marker
MarkerTaken == None

Boot ==
  /\ ~up /\ up' = TRUE
  /\ \/ marker' = MarkerTaken /\ resume' = marker /\ UNCHANGED failures
     \/ marker # None /\ Fails /\ UNCHANGED <<marker, resume>>
  /\ UNCHANGED <<registry, mail, prompts, window, restart, closing, refresh, continued>>

\* resume_after_restart, once the window listens: a project that is gone or busy
\* leaves it at that.
Continue ==
  /\ resume # None /\ up /\ resume' = None /\ continued' = continued \cup {resume}
  /\ (\E p \in Projects : Claims(p)) \/ UNCHANGED registry
  /\ UNCHANGED <<up, mail, prompts, window, restart, closing, refresh, marker, failures>>

TaskSteps == Announce \/ Idle \/ Arm \/ Update \/ Download \/ RestartDrains
DrainSteps == WaitForRefreshes \/ Shutdown \/ Exit
RefreshSteps == CheckRefresh \/ BeginRefresh \/ RecheckRefresh \/ EndRefresh
RunSteps(p) == Flush(p) \/ Retry(p) \/ Accepted(p) \/ Release(p) \/ Released(p) \/ Stop(p)

Next ==
  \/ Deliver \/ Confirm \/ Schedule \/ Expire \/ TaskSteps \/ Leave \/ DrainSteps \/ NoAngel
  \/ Crash \/ RefreshSteps \/ Boot \/ Continue
  \/ \E p \in Projects : Prompt(p) \/ FlushEnds(p) \/ RunSteps(p)

Spec == Init /\ [][Next]_vars

-----------------------------------------------------------------------------
\* Nobody but a signal leaves before the tables are closed, and nothing writes to
\* them once they are: a refresh that was about to register has given up.
LeavesClosed ==
  /\ \A d \in {"owner", "restart"} : door[d] = "out" => drain = "done"
  /\ drain = "done" => refresh # "running"

\* A restart goes on only after the window, told of this very restart, had no run
\* and held no prompt.
FrontendFirst ==
  task \in {"idle", "arm", "update", "download", "drain"} => restarts \in clear

\* With every run over, nothing held and nothing on its way, the restart is
\* confirmed: but for a Stop, of which the window hears nothing, and a token that
\* came while the window was confirming an older one.
Quiet ==
  /\ up /\ active = {} /\ leaving = {} /\ accepting = {} /\ mail = <<>> /\ asking = None
  /\ queued = {} /\ flushing = {} /\ flushed = {}
QuietIsConfirmed ==
  Quiet /\ task = "wait" => busy \cap stopped # {} \/ held \in crossed

\* A marker continues the conversation at most once, whatever dies around it.
ResumedOnce == resume \notin continued
=============================================================================
