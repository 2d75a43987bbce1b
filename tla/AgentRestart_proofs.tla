------------------------- MODULE AgentRestart_proofs -------------------------
(***************************************************************************)
(* For any number of projects, runs, restarts, ways out and failures: the  *)
(* process leaves only through a finished drain (LeavesClosed), a restart  *)
(* goes on only with the window's word (FrontendFirst), a marker continues *)
(* its conversation at most once (ResumedOnce), and a restart does not     *)
(* wait for a window that has nothing left to tell it (QuietIsConfirmed).  *)
(***************************************************************************)
EXTENDS AgentRestart, TLAPS

\* The steps that leave the restart, its marker and the ways out alone.
RunsOnly(p) == Prompt(p) \/ RunSteps(p)
Ending == Exit \/ Crash
\* The steps of the restart's task before the drain ...
Waiting == Schedule \/ Announce \/ Expire \/ Idle
\* ... and those in which a restart may be undone.
Undoing == Update \/ Download \/ RestartDrains \/ Leave \/ WaitForRefreshes \/ Shutdown \/ NoAngel

\* The restart is on its way out only where its task drains.
DoorInv == door["restart"] # "away" => task = "drain"

\* What a step that may undo a restart does to it.
LEMMA UndoingEffect ==
  ASSUME Undoing, DoorInv
  PROVE  /\ task' \in {task, "none", "download", "drain"} /\ (task = "none" => task' = "none")
         /\ task' # task => task \in {"update", "download", "drain"}
         /\ pending' = pending /\ restarts' = restarts /\ marker' \in {marker, None}
         /\ UNCHANGED <<resume, continued>>
         /\ \/ task' = task /\ scheduled' = scheduled
            \/ task' = "none" /\ scheduled' = FALSE
            \/ task # "none" /\ task' # "none" /\ scheduled' = scheduled
         /\ UNCHANGED <<up, registry, prompts, window, refresh, mail>>
<1>1. CASE Update \/ Download
  BY <1>1 DEF Update, Download, OnlyTask, Undone, Reopened, continuing
<1>2. ASSUME NEW d \in Doors, TurnedAway(d), d = "restart" => task = "drain"
      PROVE  UNCHANGED <<restart, continuing>> \/ (Undone /\ task = "drain")
  BY <1>2 DEF TurnedAway
<1>3. CASE RestartDrains \/ Leave \/ WaitForRefreshes \/ Shutdown \/ NoAngel
  <2>1. UNCHANGED <<restart, continuing>> \/ (Undone /\ task = "drain")
    <3>1. CASE RestartDrains
      BY <1>2, <3>1 DEF RestartDrains, Enter, Doors
    <3>2. CASE Leave
      BY <1>2, <3>2 DEF Leave, Enter, Doors
    <3>3. ASSUME NEW d \in Doors, door[d] # "away", TurnedAway(d) \/ \E ok \in BOOLEAN : Drained(d, ok)
          PROVE  UNCHANGED <<restart, continuing>> \/ (Undone /\ task = "drain")
      BY <1>2, <3>3 DEF Drained, DoorInv
    <3>4. CASE WaitForRefreshes \/ Shutdown \/ NoAngel
      BY <3>3, <3>4 DEF WaitForRefreshes, Shutdown, NoAngel, Doors
    <3>5. QED
      BY <1>3, <3>1, <3>2, <3>4
  <2>2. UNCHANGED <<up, registry, prompts, window, refresh, mail>>
    BY <1>3 DEF RestartDrains, Leave, WaitForRefreshes, Shutdown, NoAngel, OnlyTask
  <2>3. QED
    BY <2>1, <2>2 DEF Undone, Reopened, restart, continuing
<1>4. QED
  BY <1>1, <1>3 DEF Undoing

------------------------------------------------------------------------------
\* An event on its way is an event.
LEMMA AppendType == ASSUME NEW S, NEW s \in Seq(S), NEW x \in S PROVE Append(s, x) \in Seq(S)
  OBVIOUS

\* The sets of projects and the events keep their types.
LEMMA RunTypesStep == TypeOK /\ DoorInv /\ [Next]_vars => RunTypes'
<1> SUFFICES ASSUME TypeOK, DoorInv, [Next]_vars PROVE RunTypes'
  OBVIOUS
<1> USE DEF RunTypes
<1>0. RunTypes
  BY DEF TypeOK
<1>1. CASE UNCHANGED <<registry, prompts, mail, busy>>
  BY <1>0, <1>1 DEF registry, prompts
<1>2. ASSUME NEW b \in SUBSET Projects, NEW token, MaybeConfirm(b, queued, token)
      PROVE  busy' \subseteq Projects /\ queued' \subseteq Projects
  BY <1>0, <1>2 DEF MaybeConfirm
<1>3. CASE Deliver
  <2>1. mail' \in Seq(Events) /\ Head(mail) \in Events
    BY <1>0, <1>3 DEF Deliver
  <2>2. CASE Head(mail)[1] \in {"accepted", "released"}
    <3>1. Head(mail)[2] \in Projects
      BY <2>1, <2>2 DEF Events
    <3>2. QED
      BY <1>0, <1>2, <1>3, <2>1, <2>2, <3>1 DEF Deliver, Freed, registry
  <2>3. CASE Head(mail)[1] = "scheduled"
    BY <1>0, <1>2, <1>3, <2>1, <2>3 DEF Deliver, registry
  <2>4. QED
    BY <2>1, <2>2, <2>3 DEF Events
<1>4. ASSUME NEW p \in Projects, FlushEnds(p) PROVE RunTypes'
  BY <1>0, <1>2, <1>4 DEF FlushEnds, registry
<1>5. ASSUME NEW p \in Projects, Claims(p)
      PROVE  UNCHANGED <<leaving, stopped>> /\ active' \subseteq Projects /\ accepting' \subseteq Projects
  BY <1>0, <1>5 DEF Claims
<1>6. ASSUME NEW p \in Projects, Prompt(p) \/ Flush(p) \/ Retry(p) PROVE RunTypes'
  <2>1. Claims(p) \/ UNCHANGED registry
    BY <1>6 DEF Prompt, Flush, Retry
  <2>2. UNCHANGED <<leaving, stopped>> /\ active' \subseteq Projects /\ accepting' \subseteq Projects
    BY <1>0, <1>5, <2>1 DEF registry
  <2>3. queued' \subseteq Projects /\ flushing' \subseteq Projects /\ flushed' \subseteq Projects
    BY <1>0, <1>6 DEF Prompt, Flush, Retry
  <2>4. UNCHANGED <<mail, busy>>
    BY <1>6 DEF Prompt, Flush, Retry, OnlySent, window
  <2>5. QED
    BY <1>0, <2>2, <2>3, <2>4
<1>7. ASSUME NEW p \in Projects, Accepted(p) \/ Released(p) PROVE RunTypes'
  <2>1. mail' \in Seq(Events)
    <3>1. <<"accepted", p>> \in Events /\ <<"released", p>> \in Events
      BY DEF Events
    <3>2. mail' = Append(mail, <<"accepted", p>>) \/ mail' = Append(mail, <<"released", p>>)
      BY <1>7 DEF Accepted, Released
    <3>3. mail \in Seq(Events)
      BY <1>0
    <3>4. QED
      BY <3>1, <3>2, <3>3, AppendType
  <2>2. QED
    BY <1>0, <1>7, <2>1 DEF Accepted, Released, prompts, window
<1>8. ASSUME NEW p \in Projects, Release(p) \/ Stop(p) PROVE RunTypes'
  BY <1>0, <1>8 DEF Release, Stop, prompts, window
<1>9. CASE Announce
  <2>1. restarts \in Tokens /\ mail' = Append(mail, <<"scheduled", restarts>>)
    BY <1>9, BoundsAssumption DEF Announce, TypeOK, TokenTypes, Tokens
  <2>2. <<"scheduled", restarts>> \in Events
    BY <2>1 DEF Events
  <2>3. mail \in Seq(Events)
    BY <1>0
  <2>4. mail' \in Seq(Events)
    BY <2>1, <2>2, <2>3, AppendType
  <2>5. QED
    BY <1>0, <1>9, <2>4 DEF Announce, OnlyTask, registry, prompts, window
<1>10. CASE Ending
  <2>1. Ends
    BY <1>10 DEF Ending, Exit, Crash
  <2>2. mail' = <<>>
    BY <2>1 DEF Ends
  <2>3. mail' \in Seq(Events)
    BY <2>2
  <2>4. QED
    BY <2>1, <2>3 DEF Ends
<1>11. CASE Undoing
  BY <1>1, <1>11, UndoingEffect DEF window
<1>12. CASE Confirm \/ Schedule \/ Expire \/ Idle \/ Arm
  BY <1>1, <1>12 DEF Confirm, Schedule, Expire, Idle, Arm, OnlyTask, window
<1>13. CASE RefreshSteps \/ Boot \/ UNCHANGED vars
  BY <1>1, <1>13 DEF RefreshSteps, CheckRefresh, BeginRefresh, RecheckRefresh, EndRefresh, OnlyRefresh,
     Boot, vars, window
<1>14. CASE Continue
  <2>1. UNCHANGED <<mail, prompts, window>> /\ (UNCHANGED registry \/ \E p \in Projects : Claims(p))
    BY <1>14 DEF Continue
  <2>2. UNCHANGED <<leaving, stopped>> /\ active' \subseteq Projects /\ accepting' \subseteq Projects
    BY <1>0, <1>5, <2>1 DEF registry
  <2>3. QED
    BY <1>0, <2>1, <2>2 DEF prompts, window
<1>15. QED
  BY <1>3, <1>4, <1>6, <1>7, <1>8, <1>9, <1>10, <1>11, <1>12, <1>13, <1>14
  DEF Next, TaskSteps, DrainSteps, RunSteps, Ending, Undoing

\* The stages of the restart, the drain and the ways out keep their types.
LEMMA StageTypesStep == TypeOK /\ DoorInv /\ [Next]_vars => StageTypes'
<1> SUFFICES ASSUME TypeOK, DoorInv, [Next]_vars PROVE StageTypes'
  OBVIOUS
<1> USE DEF StageTypes
<1>0. StageTypes
  BY DEF TypeOK
<1>1. CASE UNCHANGED <<restart, drain, door, refresh>>
  BY <1>0, <1>1 DEF restart
<1>2. CASE Confirm
  BY <1>0, <1>2 DEF Confirm, Matches, closing
<1>3. CASE Waiting
  <2>1. UNCHANGED <<drain, door, refresh>>
    BY <1>3 DEF Waiting, Schedule, Announce, Expire, Idle, OnlyTask, closing
  <2>2. CASE Schedule
    BY <1>0, <2>1, <2>2 DEF Schedule
  <2>3. CASE Announce
    BY <1>0, <2>1, <2>3 DEF Announce
  <2>4. CASE Expire
    BY <1>0, <2>1, <2>4 DEF Expire, Reopened
  <2>5. CASE Idle
    BY <1>0, <2>1, <2>5 DEF Idle
  <2>6. QED
    BY <1>3, <2>2, <2>3, <2>4, <2>5 DEF Waiting
<1>4. CASE Arm
  <2>1. UNCHANGED <<drain, door, refresh, pending>> /\ task = "arm"
    BY <1>4 DEF Arm, OnlyTask, closing
  <2>2. CASE task' \in {"update", "drain"} /\ UNCHANGED scheduled
    BY <1>0, <2>1, <2>2
  <2>3. CASE task' = "none" /\ Reopened
    BY <1>0, <2>1, <2>3 DEF Reopened
  <2>4. QED
    BY <1>4, <2>2, <2>3 DEF Arm
<1>5. CASE Undoing
  <2>1. drain' \in {"no", "waiting", "shutting", "failed", "done"}
    BY <1>0, <1>5 DEF Undoing, Update, Download, RestartDrains, Leave, WaitForRefreshes, Shutdown, NoAngel,
       Enter, Drained, closing
  <2>2. door' \in [Doors -> {"away", "drain", "out"}]
    <3>1. door' = door \/ \E d \in Doors, at \in {"away", "drain", "out"} : door' = [door EXCEPT ![d] = at]
      <4>1. ASSUME NEW d \in Doors, Enter(d) \/ TurnedAway(d) \/ \E ok \in BOOLEAN : Drained(d, ok)
            PROVE  \E at \in {"away", "drain", "out"} : door' = [door EXCEPT ![d] = at]
        BY <4>1 DEF Enter, Drained, TurnedAway
      <4>2. CASE Update \/ Download
        BY <4>2 DEF Update, Download, closing
      <4>3. CASE RestartDrains \/ Leave
        BY <4>1, <4>3 DEF RestartDrains, Leave, Doors
      <4>4. CASE WaitForRefreshes \/ Shutdown \/ NoAngel
        BY <4>1, <4>4 DEF WaitForRefreshes, Shutdown, NoAngel, Doors
      <4>5. QED
        BY <1>5, <4>2, <4>3, <4>4 DEF Undoing
    <3>2. QED
      BY <1>0, <3>1
  <2>3. task' \in {"none", "announce", "wait", "idle", "arm", "update", "download", "drain"}
        /\ (pending' # None => task' = "wait") /\ refresh' = refresh
    BY <1>0, <1>5, UndoingEffect
  <2>4. scheduled' = (task' # "none")
    BY <1>0, <1>5, UndoingEffect
  <2>5. /\ task' \in {"none", "announce", "wait", "idle", "arm", "update", "download", "drain"}
        /\ scheduled' = (task' # "none") /\ (pending' # None => task' = "wait")
    BY <2>3, <2>4, Zenon
  <2>6. refresh' \in {"none", "checked", "begun", "running"}
    BY <1>0, <2>3
  <2>7. QED
    BY <2>1, <2>2, <2>5, <2>6, Zenon
<1>6. CASE Ending
  <2>1. Ends
    BY <1>6 DEF Ending, Exit, Crash
  <2>2. QED
    BY <2>1 DEF Ends
<1>7. CASE RefreshSteps
  BY <1>0, <1>7 DEF RefreshSteps, CheckRefresh, BeginRefresh, RecheckRefresh, EndRefresh, OnlyRefresh,
     restart, closing
<1>8. CASE Deliver \/ Boot \/ Continue \/ UNCHANGED vars
  BY <1>1, <1>8 DEF Deliver, Boot, Continue, vars, closing
<1>9. ASSUME NEW p \in Projects, RunsOnly(p) \/ FlushEnds(p) PROVE StageTypes'
  BY <1>1, <1>9 DEF RunsOnly, RunSteps, Prompt, Flush, Retry, Accepted, Release, Released, Stop, FlushEnds,
     OnlySent, closing
<1>10. QED
  BY <1>2, <1>3, <1>4, <1>5, <1>6, <1>7, <1>8, <1>9
  DEF Next, TaskSteps, DrainSteps, RunsOnly, Ending, Undoing, Waiting

\* What leaves the restart and the marker alone.
Aside == Deliver \/ RefreshSteps \/ UNCHANGED vars \/ \E p \in Projects : RunsOnly(p) \/ FlushEnds(p)

\* Windows, runs and refreshes change nothing of the restart, the drain or the marker.
LEMMA AsideEffect == Aside => UNCHANGED <<restart, continuing, drain, door>>
<1> SUFFICES ASSUME Aside PROVE UNCHANGED <<restart, continuing, drain, door>>
  OBVIOUS
<1>1. CASE Deliver \/ UNCHANGED vars
  BY <1>1 DEF Deliver, vars, closing
<1>2. CASE RefreshSteps
  BY <1>2 DEF RefreshSteps, CheckRefresh, BeginRefresh, RecheckRefresh, EndRefresh, OnlyRefresh, closing
<1>3. ASSUME NEW p \in Projects, RunsOnly(p) \/ FlushEnds(p)
      PROVE  UNCHANGED <<restart, continuing, drain, door>>
  BY <1>3 DEF RunsOnly, RunSteps, Prompt, Flush, Retry, Accepted, Release, Released, Stop, FlushEnds,
     OnlySent, closing
<1>4. QED
  BY <1>1, <1>2, <1>3 DEF Aside

\* A step is one of those, or one of the steps of a restart or of a way out.
LEMMA NextCases ==
  [Next]_vars => Aside \/ Confirm \/ Waiting \/ Arm \/ Undoing \/ Ending \/ Boot \/ Continue
  BY DEF Next, TaskSteps, DrainSteps, RunsOnly, Ending, Undoing, Waiting, Aside

\* What a step makes of the door of the restart.
LEMMA DoorStep == TypeOK /\ DoorInv /\ [Next]_vars => DoorInv'
<1> SUFFICES ASSUME TypeOK, DoorInv, [Next]_vars PROVE DoorInv'
  OBVIOUS
<1> USE DEF DoorInv
<1>0. door \in [Doors -> {"away", "drain", "out"}]
  BY DEF TypeOK, StageTypes
<1>1. CASE Aside \/ Boot \/ Continue
  BY <1>1, AsideEffect DEF Boot, Continue, restart, closing
<1>2. CASE Confirm \/ Waiting \/ Arm
  <2>1. UNCHANGED door
    BY <1>2 DEF Confirm, Waiting, Schedule, Announce, Expire, Idle, Arm, closing
  <2>2. task' = task \/ task # "drain"
    BY <1>2 DEF Confirm, Matches, Waiting, Schedule, Announce, Expire, Idle, Arm, TypeOK, StageTypes
  <2>3. QED
    BY <2>1, <2>2
<1>3. CASE Update \/ Download
  BY <1>3 DEF Update, Download, closing
<1>4. ASSUME NEW d \in Doors, d = "restart" => task = "drain",
             TurnedAway(d) \/ Enter(d) \/ \E ok \in BOOLEAN : Drained(d, ok)
      PROVE  DoorInv'
  <2>1. CASE d = "restart"
    <3>1. task' = task \/ door'["restart"] = "away"
      BY <1>0, <1>4, <2>1 DEF TurnedAway, Enter, Drained, restart, Doors
    <3>2. QED
      BY <1>4, <2>1, <3>1
  <2>2. CASE d # "restart"
    <3>1. task' = task
      BY <1>4, <2>2 DEF TurnedAway, Enter, Drained, restart
    <3>2. door'["restart"] = door["restart"]
      BY <1>0, <1>4, <2>2 DEF TurnedAway, Enter, Drained, Doors
    <3>3. QED
      BY <3>1, <3>2
  <2>3. QED
    BY <2>1, <2>2
<1>5. CASE RestartDrains \/ Leave
  BY <1>4, <1>5 DEF RestartDrains, Leave, Doors
<1>6. CASE WaitForRefreshes \/ Shutdown \/ NoAngel
  <2>1. \/ UNCHANGED <<door, restart>>
        \/ \E d \in Doors : door[d] # "away" /\ (TurnedAway(d) \/ \E ok \in BOOLEAN : Drained(d, ok))
    BY <1>6 DEF WaitForRefreshes, Shutdown, NoAngel, Doors
  <2>2. QED
    BY <1>4, <2>1 DEF restart
<1>7. CASE Ending
  <2>1. door' = [d \in Doors |-> "away"]
    BY <1>7 DEF Ending, Exit, Crash, Ends
  <2>2. QED
    BY <2>1 DEF Doors
<1>8. QED
  BY <1>1, <1>2, <1>3, <1>5, <1>6, <1>7, NextCases DEF Undoing

\* The tokens keep their types, and a restart under way has one.
LEMMA TokenTypesStep == TypeOK /\ DoorInv /\ [Next]_vars => TokenTypes'
<1> SUFFICES ASSUME TypeOK, DoorInv, [Next]_vars PROVE TokenTypes'
  OBVIOUS
<1> USE DEF TokenTypes
<1>0. TokenTypes /\ StageTypes /\ mail \in Seq(Events)
  BY DEF TypeOK, RunTypes
<1>1. ASSUME UNCHANGED <<restart, continuing>>, held' \in Tokens \cup {None},
             asking' \in Tokens \cup {None}, clear' \subseteq Tokens, crossed' \subseteq Tokens
      PROVE  TokenTypes'
  BY <1>0, <1>1 DEF restart, continuing
<1>2. ASSUME NEW b, NEW token \in Tokens \cup {None}, MaybeConfirm(b, queued, token)
      PROVE  /\ held' \in Tokens \cup {None} /\ asking' \in Tokens \cup {None}
             /\ clear' \subseteq Tokens
  BY <1>0, <1>2 DEF MaybeConfirm
<1>3. CASE Deliver
  <2>1. UNCHANGED <<restart, continuing>> /\ Head(mail) \in Events
    BY <1>0, <1>3 DEF Deliver
  <2>2. CASE Head(mail)[1] \in {"accepted", "released"}
    BY <1>0, <1>1, <1>2, <1>3, <2>1, <2>2 DEF Deliver, Freed
  <2>3. CASE Head(mail)[1] = "scheduled"
    <3>1. Head(mail)[2] \in Tokens
      BY <2>1, <2>3 DEF Events
    <3>2. QED
      BY <1>0, <1>1, <1>2, <1>3, <2>1, <2>3, <3>1 DEF Deliver
  <2>4. QED
    BY <2>1, <2>2, <2>3 DEF Events
<1>4. ASSUME NEW p \in Projects, FlushEnds(p) PROVE TokenTypes'
  BY <1>0, <1>1, <1>2, <1>4 DEF FlushEnds
<1>5. CASE RefreshSteps \/ UNCHANGED vars \/ \E p \in Projects : RunsOnly(p)
  <2>1. UNCHANGED <<restart, continuing>>
    BY <1>5, AsideEffect DEF Aside
  <2>2. UNCHANGED window
    <3>1. CASE RefreshSteps \/ UNCHANGED vars
      BY <3>1 DEF RefreshSteps, CheckRefresh, BeginRefresh, RecheckRefresh, EndRefresh, OnlyRefresh, vars
    <3>2. ASSUME NEW p \in Projects, RunsOnly(p) PROVE UNCHANGED window
      BY <3>2 DEF RunsOnly, RunSteps, Prompt, Flush, Retry, Accepted, Release, Released, Stop, OnlySent
    <3>3. QED
      BY <1>5, <3>1, <3>2
  <2>3. QED
    BY <1>0, <1>1, <2>1, <2>2 DEF window
<1>6. CASE Confirm
  BY <1>0, <1>6 DEF Confirm, Matches, continuing, StageTypes
<1>7. CASE Waiting
  <2>1. UNCHANGED <<window, continuing>>
    BY <1>7 DEF Waiting, Schedule, Announce, Expire, Idle, OnlyTask
  <2>2. restarts' \in 0 .. MaxRestarts /\ (task' # "none" => restarts' # 0)
    BY <1>0, <1>7, BoundsAssumption DEF Waiting, Schedule, Announce, Expire, Idle
  <2>3. pending' \in Tokens \cup {None}
    BY <1>0, <1>7 DEF Waiting, Schedule, Announce, Expire, Idle, Tokens
  <2>4. QED
    BY <1>0, <2>1, <2>2, <2>3 DEF window, continuing
<1>8. CASE Arm
  <2>1. UNCHANGED <<window, pending, restarts, resume, continued>>
    BY <1>8 DEF Arm, OnlyTask
  <2>2. marker' \in Tokens \cup {None}
    BY <1>0, <1>8 DEF Arm, Tokens
  <2>3. QED
    BY <1>0, <1>8, <2>1, <2>2 DEF window, Arm
<1>9. CASE Undoing
  BY <1>0, <1>9, UndoingEffect DEF window
<1>10. CASE Ending
  <2>1. Ends
    BY <1>10 DEF Ending, Exit, Crash
  <2>2. QED
    BY <1>0, <2>1 DEF Ends
<1>11. CASE Boot
  BY <1>0, <1>11 DEF Boot, MarkerTaken, window, restart
<1>12. CASE Continue
  BY <1>0, <1>12 DEF Continue, window, restart
<1>13. QED
  BY <1>3, <1>4, <1>5, <1>6, <1>7, <1>8, <1>9, <1>10, <1>11, <1>12, NextCases DEF Aside

\* The counts stay within their bounds.
LEMMA CountTypesStep == TypeOK /\ DoorInv /\ [Next]_vars => CountTypes'
<1> SUFFICES ASSUME TypeOK, DoorInv, [Next]_vars PROVE CountTypes'
  OBVIOUS
<1> USE DEF CountTypes
<1>0. CountTypes
  BY DEF TypeOK
<1>1. failures' = failures \/ Fails
  BY DEF Next, TaskSteps, DrainSteps, RefreshSteps, RunSteps, Deliver, Confirm, Schedule, Expire, Announce,
     Idle, Arm, Update, Download, RestartDrains, Leave, WaitForRefreshes, Shutdown, Exit, NoAngel, Crash,
     CheckRefresh, BeginRefresh, RecheckRefresh, EndRefresh, OnlyRefresh, Boot, Continue, Prompt, FlushEnds,
     Flush, Retry, Accepted, Release, Released, Stop, OnlySent, vars
<1>2. failures' \in 0 .. MaxFailures
  BY <1>0, <1>1, BoundsAssumption DEF Fails
<1>3. runs' = runs \/ \E p \in Projects : Claims(p)
  <2>1. ASSUME NEW p \in Projects, RunsOnly(p) \/ FlushEnds(p) PROVE runs' = runs \/ Claims(p)
    BY <2>1 DEF RunsOnly, RunSteps, Prompt, Flush, Retry, Accepted, Release, Released, Stop, FlushEnds,
       registry
  <2>2. CASE Deliver \/ RefreshSteps \/ UNCHANGED vars
    BY <2>2 DEF Deliver, RefreshSteps, CheckRefresh, BeginRefresh, RecheckRefresh, EndRefresh, OnlyRefresh,
       vars, registry
  <2>3. CASE Confirm \/ Waiting \/ Arm
    BY <2>3 DEF Confirm, Waiting, Schedule, Announce, Expire, Idle, Arm, OnlyTask, registry
  <2>4. CASE Undoing
    BY <2>4, UndoingEffect DEF registry
  <2>5. CASE Ending
    BY <2>5 DEF Ending, Exit, Crash, Ends
  <2>6. CASE Boot \/ Continue
    BY <2>6 DEF Boot, Continue, registry
  <2>7. QED
    BY <2>1, <2>2, <2>3, <2>4, <2>5, <2>6, NextCases DEF Aside
<1>4. runs' \in 0 .. MaxRuns
  BY <1>0, <1>3, BoundsAssumption DEF Claims
<1>5. leaves' = leaves \/ Leave
  BY DEF Next, TaskSteps, DrainSteps, RefreshSteps, RunSteps, Deliver, Confirm, Schedule, Expire, Announce,
     Idle, Arm, Update, Download, RestartDrains, WaitForRefreshes, Shutdown, Exit, NoAngel, Crash, Ends,
     CheckRefresh, BeginRefresh, RecheckRefresh, EndRefresh, OnlyRefresh, Boot, Continue, Prompt, FlushEnds,
     Flush, Retry, Accepted, Release, Released, Stop, OnlySent, vars, closing
<1>6. leaves' \in 0 .. MaxLeaves
  BY <1>0, <1>5, BoundsAssumption DEF Leave
<1>7. up' = up \/ up' = TRUE \/ up' = FALSE
  BY DEF Next, TaskSteps, DrainSteps, RefreshSteps, RunSteps, Deliver, Confirm, Schedule, Expire, Announce,
     Idle, Arm, Update, Download, RestartDrains, Leave, WaitForRefreshes, Shutdown, Exit, NoAngel, Crash,
     Ends, OnlyTask, CheckRefresh, BeginRefresh, RecheckRefresh, EndRefresh, OnlyRefresh, Boot, Continue,
     Prompt, FlushEnds, Flush, Retry, Accepted, Release, Released, Stop, OnlySent, vars
<1>8. up' \in BOOLEAN
  BY <1>0, <1>7
<1>9. QED
  BY <1>2, <1>4, <1>6, <1>8

\* The inductive form of the type invariant: with it, that the restart is on its
\* way out only where its task drains.
TypeInv == TypeOK /\ DoorInv

\* A first process starts in the types, with nobody on the way out.
LEMMA TypeInit == Init => TypeInv
<1> SUFFICES ASSUME Init PROVE TypeInv
  OBVIOUS
<1>1. mail = <<>> /\ scheduled = FALSE /\ task = "none" /\ door = [d \in Doors |-> "away"]
  BY DEF Init
<1>2. RunTypes
  <2>1. mail \in Seq(Events)
    BY <1>1
  <2>2. QED
    BY <2>1 DEF Init, RunTypes
<1>3. TokenTypes /\ CountTypes
  BY BoundsAssumption DEF Init, TokenTypes, CountTypes
<1>4. StageTypes /\ DoorInv
  <2>1. scheduled = (task # "none")
    BY <1>1
  <2>2. door \in [Doors -> {"away", "drain", "out"}] /\ DoorInv
    BY <1>1 DEF Doors, DoorInv
  <2>3. QED
    BY <2>1, <2>2 DEF Init, StageTypes
<1>5. QED
  BY <1>2, <1>3, <1>4 DEF TypeOK, TypeInv

\* Every step of a process, and its death, keeps the types.
LEMMA TypeStep == TypeInv /\ [Next]_vars => TypeInv'
  BY RunTypesStep, TokenTypesStep, StageTypesStep, CountTypesStep, DoorStep DEF TypeOK, TypeInv

\* Every variable keeps its type (TypeOK), for every value of the bounds.
THEOREM TypeCorrect == Spec => []TypeOK
<1>1. TypeInv => TypeOK
  BY DEF TypeInv
<1>2. QED
  BY <1>1, TypeInit, TypeStep, PTL DEF Spec

------------------------------------------------------------------------------
\* Leaving: drain_tables_once.

\* What one who is at the drain makes of the doors of those who must be let out.
LEMMA EnterGate ==
  ASSUME TypeInv, LeavesClosed, NEW d \in Doors, Enter(d)
  PROVE  \A e \in {"owner", "restart"} : door'[e] = "out" => drain' = "done"
<1>0. door \in [Doors -> {"away", "drain", "out"}] /\ \A e \in {"owner", "restart"} : e \in Doors
  BY DEF TypeInv, TypeOK, StageTypes, Doors
<1>1. \A e \in {"owner", "restart"} : door[e] = "out" => drain = "done"
  BY DEF LeavesClosed
<1>2. QED
  BY <1>0, <1>1 DEF Enter, Passes, TurnedAway

\* Whoever is turned away, or whose drain ends, lets nobody else out before the
\* tables are closed.
LEMMA GateStep ==
  ASSUME TypeInv, LeavesClosed, NEW d \in Doors,
         \/ TurnedAway(d) /\ drain' = drain
         \/ drain # "done" /\ \E ok \in BOOLEAN : Drained(d, ok)
  PROVE  \A e \in {"owner", "restart"} : door'[e] = "out" => drain' = "done"
<1>0. door \in [Doors -> {"away", "drain", "out"}] /\ \A e \in {"owner", "restart"} : e \in Doors
  BY DEF TypeInv, TypeOK, StageTypes, Doors
<1>1. \A e \in {"owner", "restart"} : door[e] = "out" => drain = "done"
  BY DEF LeavesClosed
<1>2. CASE TurnedAway(d) /\ drain' = drain
  BY <1>0, <1>1, <1>2 DEF TurnedAway
<1>3. ASSUME drain # "done", NEW ok \in BOOLEAN, Drained(d, ok)
      PROVE  \A e \in {"owner", "restart"} : door'[e] = "out" => drain' = "done"
  BY <1>0, <1>1, <1>3 DEF Drained, TurnedAway
<1>4. QED
  BY <1>2, <1>3

\* LeavesClosed, and that the tables are not closed under a refresh either.
Closing == LeavesClosed /\ (drain = "shutting" => refresh # "running")

\* No step lets anybody leave before the drain is done.
LEMMA LeavesStep == TypeInv /\ Closing /\ [Next]_vars => Closing'
<1> SUFFICES ASSUME TypeInv, Closing, [Next]_vars PROVE Closing'
  OBVIOUS
<1> USE DEF Closing, LeavesClosed
<1>1. CASE UNCHANGED <<drain, door, refresh>>
  BY <1>1
<1>2. CASE Deliver \/ UNCHANGED vars \/ \E p \in Projects : RunsOnly(p) \/ FlushEnds(p)
  <2>1. UNCHANGED <<drain, door>>
    BY <1>2, AsideEffect DEF Aside
  <2>2. ASSUME NEW p \in Projects, RunsOnly(p) \/ FlushEnds(p) PROVE UNCHANGED refresh
    BY <2>2 DEF RunsOnly, RunSteps, Prompt, Flush, Retry, Accepted, Release, Released, Stop, FlushEnds,
       OnlySent
  <2>3. UNCHANGED refresh
    BY <1>2, <2>2 DEF Deliver, vars
  <2>4. QED
    BY <1>1, <2>1, <2>3
<1>3. CASE RefreshSteps
  <2>1. UNCHANGED <<drain, door>>
    BY <1>3, AsideEffect DEF Aside
  <2>2. refresh' = "running" => drain = "no"
    BY <1>3 DEF RefreshSteps, CheckRefresh, BeginRefresh, RecheckRefresh, EndRefresh, StillOpen
  <2>3. QED
    BY <2>1, <2>2
<1>4. CASE Confirm \/ Waiting \/ Arm \/ Boot \/ Continue
  BY <1>1, <1>4 DEF Confirm, Waiting, Schedule, Announce, Expire, Idle, Arm, Boot, Continue, OnlyTask, closing
<1>5. CASE Update \/ Download
  BY <1>1, <1>5 DEF Update, Download, OnlyTask, closing
<1>6. CASE RestartDrains \/ Leave \/ NoAngel
  <2>1. \A e \in {"owner", "restart"} : door'[e] = "out" => drain' = "done"
    <3>1. CASE RestartDrains
      BY <3>1, EnterGate DEF RestartDrains, Doors
    <3>2. \A d \in {"owner", "signal", "restart"} : d \in Doors
      BY DEF Doors
    <3>3. CASE Leave
      <4>1. PICK d \in {"owner", "signal"} : Enter(d)
        BY <3>3 DEF Leave
      <4>2. QED
        BY <3>2, <4>1, EnterGate
    <3>4. CASE NoAngel
      <4>1. PICK d \in {"restart", "owner"} : TurnedAway(d)
        BY <3>4 DEF NoAngel
      <4>2. drain' = drain
        BY <3>4 DEF NoAngel
      <4>3. QED
        BY <3>2, <4>1, <4>2, GateStep
    <3>5. QED
      BY <1>6, <3>1, <3>3, <3>4
  <2>2. drain' \in {"shutting", "done"} => drain' = drain
    <3>1. drain' = drain \/ \E d \in Doors : Enter(d)
      BY <1>6 DEF RestartDrains, Leave, NoAngel, Doors
    <3>2. QED
      BY <3>1 DEF Enter
  <2>3. UNCHANGED refresh
    BY <1>6 DEF RestartDrains, Leave, NoAngel, OnlyTask
  <2>4. QED
    BY <2>1, <2>2, <2>3
<1>7. CASE WaitForRefreshes
  <2>1. CASE ~Refreshing /\ drain' = "shutting" /\ UNCHANGED door
    BY <1>7, <2>1 DEF WaitForRefreshes, OnlyTask, Refreshing
  <2>2. ASSUME NEW d \in Doors, Drained(d, FALSE) PROVE Closing'
    BY <1>7, <2>2, GateStep DEF WaitForRefreshes, Drained
  <2>3. QED
    BY <1>7, <2>1, <2>2 DEF WaitForRefreshes
<1>8. CASE Shutdown
  <2>1. PICK d \in Doors, ok \in BOOLEAN : Drained(d, ok)
    BY <1>8 DEF Shutdown
  <2>2. drain = "shutting" /\ UNCHANGED refresh
    BY <1>8 DEF Shutdown, OnlyTask
  <2>3. \A e \in {"owner", "restart"} : door'[e] = "out" => drain' = "done"
    BY <2>1, <2>2, GateStep
  <2>4. refresh # "running"
    BY <2>2
  <2>5. QED
    BY <2>2, <2>3, <2>4
<1>9. CASE Ending
  <2>1. door' = [d \in Doors |-> "away"] /\ drain' = "no"
    BY <1>9 DEF Ending, Exit, Crash, Ends
  <2>2. QED
    BY <2>1 DEF Doors
<1>10. QED
  BY <1>2, <1>3, <1>4, <1>5, <1>6, <1>7, <1>8, <1>9, NextCases DEF Aside, Undoing

\* LeavesClosed, for any number of refreshes and ways out: nobody but a signal
\* leaves before the one drain has succeeded, and no refresh runs from there on.
THEOREM LeavesClosedHolds == Spec => []LeavesClosed
<1>1. Init => Closing
  BY DEF Init, Closing, LeavesClosed, Doors
<1>2. Closing => LeavesClosed
  BY DEF Closing
<1>3. QED
  BY <1>1, <1>2, TypeInit, TypeStep, LeavesStep, PTL DEF Spec

------------------------------------------------------------------------------
\* The window's word.

\* The token it is confirming found no work, and what waits is the last restart.
Told ==
  /\ asking # None => asking \in clear
  /\ pending # None => pending = restarts
  /\ FrontendFirst

\* No step arms a restart the quiet window was not told of.
LEMMA ToldStep == TypeInv /\ Told /\ [Next]_vars => Told'
<1> SUFFICES ASSUME TypeInv, Told, [Next]_vars PROVE Told'
  OBVIOUS
<1> USE DEF Told, FrontendFirst
<1>0. StageTypes /\ TokenTypes
  BY DEF TypeInv, TypeOK
<1>1. CASE UNCHANGED <<asking, clear, pending, restarts, task>>
  BY <1>1
<1>2. ASSUME NEW b, NEW q, NEW token, MaybeConfirm(b, q, token), UNCHANGED restart PROVE Told'
  BY <1>2 DEF MaybeConfirm, restart
<1>3. CASE Deliver
  BY <1>1, <1>2, <1>3 DEF Deliver, Freed, restart
<1>4. ASSUME NEW p \in Projects, FlushEnds(p) \/ RunsOnly(p) PROVE Told'
  <2>1. CASE FlushEnds(p)
    BY <1>2, <2>1 DEF FlushEnds
  <2>2. CASE RunsOnly(p)
    BY <1>1, <2>2 DEF RunsOnly, RunSteps, Prompt, Flush, Retry, Accepted, Release, Released, Stop, OnlySent,
       window, restart
  <2>3. QED
    BY <1>4, <2>1, <2>2
<1>5. CASE RefreshSteps \/ Boot \/ Continue \/ UNCHANGED vars
  BY <1>1, <1>5 DEF RefreshSteps, CheckRefresh, BeginRefresh, RecheckRefresh, EndRefresh, OnlyRefresh, Boot,
     Continue, vars, window, restart
<1>6. CASE Confirm
  BY <1>0, <1>6 DEF Confirm, Matches, None
<1>7. CASE Waiting
  <2>1. UNCHANGED <<asking, clear>>
    BY <1>7 DEF Waiting, Schedule, Announce, Expire, Idle, OnlyTask, window
  <2>2. CASE Schedule
    BY <1>0, <2>1, <2>2 DEF Schedule, StageTypes
  <2>3. CASE Announce \/ Expire \/ Idle
    BY <2>1, <2>3 DEF Announce, Expire, Idle
  <2>4. QED
    BY <1>7, <2>2, <2>3 DEF Waiting
<1>8. CASE Arm
  BY <1>8 DEF Arm, OnlyTask, window
<1>9. CASE Undoing
  <2>1. UNCHANGED <<asking, clear, pending, restarts>>
        /\ (task' # task => task \in {"update", "download", "drain"})
    BY <1>9, UndoingEffect DEF window, TypeInv
  <2>2. QED
    BY <2>1
<1>10. CASE Ending
  <2>1. asking' = None /\ pending' = None /\ task' = "none"
    BY <1>10 DEF Ending, Exit, Crash, Ends
  <2>2. QED
    BY <2>1
<1>11. QED
  BY <1>3, <1>4, <1>5, <1>6, <1>7, <1>8, <1>9, <1>10, NextCases DEF Aside

\* FrontendFirst, for any number of projects and restarts: a restart goes on only
\* where the window, told of this very restart, had no run and held no prompt.
THEOREM FrontendFirstHolds == Spec => []FrontendFirst
<1>1. Init => Told
  BY DEF Init, Told, FrontendFirst
<1>2. Told => FrontendFirst
  BY DEF Told
<1>3. QED
  BY <1>1, <1>2, TypeInit, TypeStep, ToldStep, PTL DEF Spec

------------------------------------------------------------------------------
\* The marker.

\* A restart before its marker is newer than all that was continued or is to be.
Unused ==
  task \in {"announce", "wait", "idle", "arm"} =>
    marker < restarts /\ resume < restarts /\ \A t \in continued : t < restarts
Numbered == marker <= restarts /\ resume <= restarts /\ \A t \in continued : t <= restarts
Once == marker # None => marker \notin continued /\ marker # resume
Marked == Numbered /\ Unused /\ Once /\ ResumedOnce

\* No step writes or takes a marker twice.
LEMMA MarkedStep == TypeInv /\ Marked /\ [Next]_vars => Marked'
<1> SUFFICES ASSUME TypeInv, Marked, [Next]_vars PROVE Marked'
  OBVIOUS
<1> USE DEF Marked, Numbered, Unused, Once, ResumedOnce
<1>0. /\ restarts \in Nat /\ marker \in Nat /\ resume \in Nat /\ continued \subseteq Nat \ {None}
      /\ (task # "none" => restarts # 0) /\ scheduled = (task # "none")
  BY BoundsAssumption DEF TypeInv, TypeOK, TokenTypes, StageTypes, Tokens, None
<1>1. CASE Aside
  BY <1>1, AsideEffect DEF restart, continuing
<1>2. CASE Confirm
  <2>1. UNCHANGED <<marker, resume, continued, restarts>> /\ (task' = task \/ task = "wait")
    BY <1>2 DEF Confirm, Matches, continuing, TypeInv, TypeOK, StageTypes
  <2>2. QED
    BY <2>1
<1>3. CASE Schedule
  <2>1. UNCHANGED <<marker, resume, continued>> /\ restarts' = restarts + 1
    BY <1>3 DEF Schedule, continuing
  <2>2. QED
    BY <1>0, <2>1
<1>4. CASE Announce \/ Expire \/ Idle
  <2>1. UNCHANGED <<marker, resume, continued, restarts>>
        /\ (task' = "none" \/ task \in {"announce", "wait", "idle"})
    BY <1>4 DEF Announce, Expire, Idle, continuing
  <2>2. QED
    BY <2>1
<1>5. CASE Arm
  <2>1. UNCHANGED <<resume, continued, restarts>> /\ task = "arm"
        /\ task' \in {"none", "update", "drain"} /\ marker' \in {marker, restarts}
    BY <1>5 DEF Arm
  <2>2. restarts \notin continued /\ restarts # resume
    BY <1>0, <2>1
  <2>3. QED
    BY <1>0, <2>1, <2>2
<1>6. CASE Undoing
  <2>1. UNCHANGED <<resume, continued, restarts>> /\ marker' \in {marker, None}
        /\ task' \in {task, "none", "download", "drain"}
    BY <1>6, UndoingEffect DEF TypeInv
  <2>2. QED
    BY <1>0, <2>1 DEF None
<1>7. CASE Ending
  <2>1. UNCHANGED <<marker, continued, restarts>> /\ resume' = None /\ task' = "none"
    BY <1>7 DEF Ending, Exit, Crash, Ends
  <2>2. QED
    BY <1>0, <2>1 DEF None
<1>8. CASE Boot
  <2>1. UNCHANGED <<continued, restarts, task>>
        /\ ((marker' = None /\ resume' = marker) \/ UNCHANGED <<marker, resume>>)
    BY <1>8 DEF Boot, MarkerTaken, restart
  <2>2. QED
    BY <1>0, <2>1 DEF None
<1>9. CASE Continue
  <2>1. UNCHANGED <<marker, restarts, task>> /\ resume' = None
        /\ continued' = continued \cup {resume} /\ resume # None
    BY <1>9 DEF Continue, restart
  <2>2. QED
    BY <1>0, <2>1 DEF None
<1>10. QED
  BY <1>1, <1>2, <1>3, <1>4, <1>5, <1>6, <1>7, <1>8, <1>9, NextCases DEF Waiting

\* ResumedOnce, for any number of restarts, crashes and boots: a marker continues
\* its conversation at most once.
THEOREM ResumedOnceHolds == Spec => []ResumedOnce
<1>1. Init => Marked
  BY DEF Init, Marked, Numbered, Unused, Once, ResumedOnce, None
<1>2. Marked => ResumedOnce
  BY DEF Marked
<1>3. QED
  BY <1>1, <1>2, TypeInit, TypeStep, MarkedStep, PTL DEF Spec

------------------------------------------------------------------------------
\* The window's mail, in which an event can be outdone by a later one.

\* The mail holds e, and nothing of F after it; nothing of F at all.
Stands(m, e, F) == \E i \in 1 .. Len(m) : m[i] = e /\ \A j \in 1 .. Len(m) : j > i => m[j] \notin F
Without(m, F) == \A j \in 1 .. Len(m) : m[j] \notin F

\* What is left of the mail when the window has handled its first event.
LEMMA TailMail ==
  ASSUME NEW m \in Seq(Events), m # <<>>, NEW e, NEW F
  PROVE  /\ Stands(m, e, F) <=> Stands(Tail(m), e, F) \/ (Head(m) = e /\ Without(Tail(m), F))
         /\ Without(m, F) <=> Without(Tail(m), F) /\ Head(m) \notin F
<1>0. /\ Len(m) \in Nat /\ Len(m) > 0 /\ Len(Tail(m)) = Len(m) - 1 /\ Head(m) = m[1]
      /\ \A i \in 1 .. Len(Tail(m)) : Tail(m)[i] = m[i + 1]
  OBVIOUS
<1>1. ASSUME Stands(Tail(m), e, F) PROVE Stands(m, e, F)
  <2>1. PICK i \in 1 .. Len(Tail(m)) :
          Tail(m)[i] = e /\ \A j \in 1 .. Len(Tail(m)) : j > i => Tail(m)[j] \notin F
    BY <1>1 DEF Stands
  <2>2. i + 1 \in 1 .. Len(m) /\ m[i + 1] = e
    BY <1>0, <2>1
  <2>3. ASSUME NEW j \in 1 .. Len(m), j > i + 1 PROVE m[j] \notin F
    <3>1. j - 1 \in 1 .. Len(Tail(m)) /\ j - 1 > i /\ Tail(m)[j - 1] = m[(j - 1) + 1] /\ (j - 1) + 1 = j
      BY <1>0, <2>3
    <3>2. QED
      BY <2>1, <3>1
  <2>4. QED
    BY <2>2, <2>3 DEF Stands
<1>2. ASSUME Stands(m, e, F) PROVE Stands(Tail(m), e, F) \/ (Head(m) = e /\ Without(Tail(m), F))
  <2>1. PICK i \in 1 .. Len(m) : m[i] = e /\ \A j \in 1 .. Len(m) : j > i => m[j] \notin F
    BY <1>2 DEF Stands
  <2>2. ASSUME NEW j \in 1 .. Len(Tail(m)), j > i - 1 PROVE Tail(m)[j] \notin F
    <3>1. j + 1 \in 1 .. Len(m) /\ j + 1 > i
      BY <1>0, <2>2
    <3>2. QED
      BY <1>0, <2>1, <3>1
  <2>3. CASE i = 1
    BY <1>0, <2>1, <2>2, <2>3 DEF Without
  <2>4. CASE i # 1
    <3>1. i - 1 \in 1 .. Len(Tail(m)) /\ Tail(m)[i - 1] = m[(i - 1) + 1] /\ (i - 1) + 1 = i
      BY <1>0, <2>4
    <3>2. QED
      BY <2>1, <2>2, <3>1 DEF Stands
  <2>5. QED
    BY <2>3, <2>4
<1>3. ASSUME Head(m) = e, Without(Tail(m), F) PROVE Stands(m, e, F)
  <2>1. 1 \in 1 .. Len(m) /\ m[1] = e
    BY <1>0, <1>3
  <2>2. ASSUME NEW j \in 1 .. Len(m), j > 1 PROVE m[j] \notin F
    <3>1. j - 1 \in 1 .. Len(Tail(m)) /\ Tail(m)[j - 1] = m[(j - 1) + 1] /\ (j - 1) + 1 = j
      BY <1>0, <2>2
    <3>2. QED
      BY <1>3, <3>1 DEF Without
  <2>3. QED
    BY <2>1, <2>2 DEF Stands
<1>4. ASSUME Without(Tail(m), F), Head(m) \notin F, NEW j \in 1 .. Len(m) PROVE m[j] \notin F
  <2>1. CASE j = 1
    BY <1>0, <1>4, <2>1
  <2>2. CASE j # 1
    <3>1. j - 1 \in 1 .. Len(Tail(m)) /\ Tail(m)[j - 1] = m[(j - 1) + 1] /\ (j - 1) + 1 = j
      BY <1>0, <2>2
    <3>2. QED
      BY <1>4, <3>1 DEF Without
  <2>3. QED
    BY <2>1, <2>2
<1>5. ASSUME Without(m, F) PROVE Without(Tail(m), F) /\ Head(m) \notin F
  <2>1. \A j \in 1 .. Len(Tail(m)) : j + 1 \in 1 .. Len(m)
    BY <1>0
  <2>2. 1 \in 1 .. Len(m)
    BY <1>0
  <2>3. QED
    BY <1>0, <1>5, <2>1, <2>2 DEF Without
<1>6. QED
  BY <1>1, <1>2, <1>3, <1>4, <1>5 DEF Without

\* What the mail is once an event is sent.
LEMMA AppendMail ==
  ASSUME NEW m \in Seq(Events), NEW x \in Events, NEW e, NEW F
  PROVE  /\ Stands(Append(m, x), e, F) <=> x = e \/ (Stands(m, e, F) /\ x \notin F)
         /\ Without(Append(m, x), F) <=> Without(m, F) /\ x \notin F
<1> DEFINE n == Append(m, x)
<1>0. /\ Len(m) \in Nat /\ Len(n) = Len(m) + 1 /\ n[Len(n)] = x
      /\ \A i \in 1 .. Len(m) : n[i] = m[i] /\ i \in 1 .. Len(n)
      /\ \A i \in 1 .. Len(n) : i = Len(n) \/ i \in 1 .. Len(m)
      /\ Len(n) \in 1 .. Len(n) /\ \A i \in 1 .. Len(m) : Len(n) > i
  OBVIOUS
<1> HIDE DEF n
<1>1. ASSUME Stands(n, e, F) PROVE x = e \/ (Stands(m, e, F) /\ x \notin F)
  <2>1. PICK i \in 1 .. Len(n) : n[i] = e /\ \A j \in 1 .. Len(n) : j > i => n[j] \notin F
    BY <1>1 DEF Stands
  <2>2. CASE i = Len(n)
    BY <1>0, <2>1, <2>2
  <2>3. CASE i \in 1 .. Len(m)
    <3>1. x \notin F
      BY <1>0, <2>1, <2>3
    <3>2. m[i] = e /\ \A j \in 1 .. Len(m) : j > i => m[j] \notin F
      BY <1>0, <2>1, <2>3
    <3>3. QED
      BY <2>3, <3>1, <3>2 DEF Stands
  <2>4. QED
    BY <1>0, <2>2, <2>3
<1>2. ASSUME x = e PROVE Stands(n, e, F)
  <2>1. n[Len(n)] = e /\ \A j \in 1 .. Len(n) : j > Len(n) => n[j] \notin F
    BY <1>0, <1>2
  <2>2. QED
    BY <1>0, <2>1 DEF Stands
<1>3. ASSUME Stands(m, e, F), x \notin F PROVE Stands(n, e, F)
  <2>1. PICK i \in 1 .. Len(m) : m[i] = e /\ \A j \in 1 .. Len(m) : j > i => m[j] \notin F
    BY <1>3 DEF Stands
  <2>2. \A j \in 1 .. Len(n) : j > i => n[j] \notin F
    BY <1>0, <1>3, <2>1
  <2>3. i \in 1 .. Len(n) /\ n[i] = e
    BY <1>0, <2>1
  <2>4. QED
    BY <2>2, <2>3 DEF Stands
<1>4. Without(n, F) <=> Without(m, F) /\ x \notin F
  <2>1. Without(n, F) => Without(m, F) /\ x \notin F
    BY <1>0 DEF Without
  <2>2. Without(m, F) /\ x \notin F => Without(n, F)
    BY <1>0 DEF Without
  <2>3. QED
    BY <2>1, <2>2
<1>5. QED
  BY <1>1, <1>2, <1>3, <1>4 DEF n

\* The events about the slot of p, and all that announce a restart.
Begun(p) == <<"accepted", p>>
Ended(p) == {<<"released", p>>}
Scheduling == {"scheduled"} \X Tokens

\* With all of its mail handled, the window would show a run in p.
Shown(p) == Stands(mail, Begun(p), Ended(p)) \/ (p \in busy /\ Without(mail, Ended(p)))

\* What the window shows is a run that was accepted and not told to be over, or
\* one a Stop took away.
Slots ==
  /\ accepting \subseteq active
  /\ \A p \in Projects : Shown(p) => p \in (active \ accepting) \cup leaving \cup stopped

\* The events are told apart.
LEMMA EventKinds ==
  ASSUME NEW p \in Projects
  PROVE  /\ Begun(p) \in Events /\ <<"released", p>> \in Events
         /\ Begun(p) \notin Scheduling /\ <<"released", p>> \notin Scheduling
         /\ \A q \in Projects : /\ Begun(p) \notin Ended(q) /\ Begun(p) # <<"released", q>>
                                /\ (Begun(p) = Begun(q) => p = q)
                                /\ (<<"released", p>> \in Ended(q) <=> p = q)
         /\ \A t \in Tokens : /\ <<"scheduled", t>> \in Events /\ <<"scheduled", t>> \in Scheduling
                              /\ <<"scheduled", t>> # Begun(p) /\ <<"scheduled", t>> \notin Ended(p)
  BY DEF Events, Begun, Ended, Scheduling

\* What an event the window handles makes of what it shows.
LEMMA DeliverEffect ==
  ASSUME TypeInv, Deliver
  PROVE  /\ mail \in Seq(Events) /\ mail # <<>> /\ mail' = Tail(mail) /\ Head(mail) \in Events
         /\ UNCHANGED <<registry, flushed, restart>>
         /\ \/ \E q \in Projects : /\ Head(mail) = Begun(q) /\ busy' = busy \cup {q}
                                   /\ UNCHANGED <<held, asking, crossed>>
            \/ \E q \in Projects : /\ Head(mail) = <<"released", q>> /\ busy' = busy \ {q}
                                   /\ UNCHANGED <<held, crossed>>
                                   /\ \/ flushing' # {} /\ UNCHANGED asking
                                      \/ MaybeConfirm(busy \ {q}, queued, held)
            \/ \E t \in Tokens : /\ Head(mail) = <<"scheduled", t>> /\ MaybeConfirm(busy, queued, t)
                                 /\ (asking # None => t \in crossed')
<1>1. mail \in Seq(Events) /\ mail # <<>> /\ mail' = Tail(mail) /\ UNCHANGED <<registry, flushed, restart>>
  BY DEF TypeInv, TypeOK, RunTypes, Deliver
<1>2. Head(mail) \in Events
  BY <1>1
<1>3. \/ \E q \in Projects : Head(mail) \in {Begun(q), <<"released", q>>}
      \/ \E t \in Tokens : Head(mail) = <<"scheduled", t>>
  BY <1>2 DEF Events, Begun
<1>4. ASSUME NEW q \in Projects, Head(mail) = Begun(q)
      PROVE  busy' = busy \cup {q} /\ UNCHANGED <<held, asking, crossed>>
  <2>1. Head(mail)[1] = "accepted" /\ Head(mail)[2] = q
    BY <1>4 DEF Begun
  <2>2. QED
    BY <2>1 DEF Deliver
<1>5. ASSUME NEW q \in Projects, Head(mail) = <<"released", q>>
      PROVE  /\ busy' = busy \ {q} /\ UNCHANGED <<held, crossed>>
             /\ (flushing' # {} /\ UNCHANGED asking) \/ MaybeConfirm(busy \ {q}, queued, held)
  <2>1. Head(mail)[1] = "released" /\ Head(mail)[2] = q
    BY <1>5
  <2>2. /\ UNCHANGED crossed
        /\ \/ /\ busy' = busy \ {q} /\ flushing' = flushing \cup {q}
              /\ UNCHANGED <<held, asking>>
           \/ Freed(q)
    BY <2>1 DEF Deliver
  <2>3. QED
    BY <2>2 DEF Freed, MaybeConfirm
<1>6. ASSUME NEW t \in Tokens, Head(mail) = <<"scheduled", t>>
      PROVE  MaybeConfirm(busy, queued, t) /\ (asking # None => t \in crossed')
  <2>1. Head(mail)[1] = "scheduled" /\ Head(mail)[2] = t
    BY <1>6
  <2>2. QED
    BY <2>1 DEF Deliver
<1>7. QED
  BY <1>1, <1>2, <1>3, <1>4, <1>5, <1>6

\* What sending an event makes of what the window would show.
LEMMA SendEffect ==
  ASSUME TypeInv, NEW x \in Events, mail' = Append(mail, x), busy' = busy, NEW p \in Projects
  PROVE  /\ Shown(p)' => x = Begun(p) \/ (Shown(p) /\ x \notin Ended(p))
         /\ x \in Ended(p) => ~Shown(p)'
<1>1. mail \in Seq(Events)
  BY DEF TypeInv, TypeOK, RunTypes
<1>2. x \in Ended(p) => x # Begun(p)
  BY DEF Begun, Ended
<1>3. Shown(p)' <=> Stands(Append(mail, x), Begun(p), Ended(p))
                    \/ (p \in busy /\ Without(Append(mail, x), Ended(p)))
  BY DEF Shown, Begun, Ended
<1>4. QED
  BY <1>1, <1>2, <1>3, AppendMail DEF Shown

\* No step shows the window a run that is over and not told of, but for a Stop.
LEMMA SlotsStep == TypeInv /\ Slots /\ [Next]_vars => Slots'
<1> SUFFICES ASSUME TypeInv, Slots, [Next]_vars PROVE Slots'
  OBVIOUS
<1> DEFINE Backed(p) == p \in (active \ accepting) \cup leaving \cup stopped
<1>0. accepting \subseteq active /\ \A p \in Projects : Shown(p) => Backed(p)
  BY DEF Slots
<1>1. CASE UNCHANGED <<registry, mail, busy>>
  BY <1>0, <1>1 DEF registry, Slots, Shown, Begun, Ended
<1>2. CASE Deliver
  <2>1. /\ mail \in Seq(Events) /\ mail # <<>> /\ mail' = Tail(mail) /\ UNCHANGED registry
        /\ \/ \E q \in Projects : Head(mail) = Begun(q) /\ busy' = busy \cup {q}
           \/ \E q \in Projects : Head(mail) = <<"released", q>> /\ busy' = busy \ {q}
           \/ \E t \in Tokens : Head(mail) = <<"scheduled", t>> /\ busy' = busy
    BY <1>2, DeliverEffect DEF MaybeConfirm
  <2>2. ASSUME NEW p \in Projects, Shown(p)' PROVE Shown(p)
    <3>0. Stands(Tail(mail), Begun(p), Ended(p)) \/ (p \in busy' /\ Without(Tail(mail), Ended(p)))
      BY <2>1, <2>2 DEF Shown, Begun, Ended
    <3>1. CASE Stands(Tail(mail), Begun(p), Ended(p))
      BY <2>1, <3>1, TailMail DEF Shown
    <3>2. CASE p \in busy' /\ Without(Tail(mail), Ended(p))
      <4>1. CASE Head(mail) = Begun(p)
        BY <2>1, <3>2, <4>1, TailMail DEF Shown
      <4>2. CASE Head(mail) # Begun(p)
        <5>1. p \in busy
          BY <2>1, <3>2, <4>2
        <5>2. Head(mail) \notin Ended(p)
          <6>1. Head(mail) # <<"released", p>>
            BY <2>1, <3>2 DEF Begun
          <6>2. QED
            BY <6>1 DEF Ended
        <5>3. QED
          BY <2>1, <3>2, <5>1, <5>2, TailMail DEF Shown
      <4>3. QED
        BY <4>1, <4>2
    <3>3. QED
      BY <3>0, <3>1, <3>2
  <2>3. QED
    BY <1>0, <2>1, <2>2 DEF Slots, registry
<1>3. ASSUME NEW q \in Projects, Claims(q), UNCHANGED <<mail, busy>> PROVE Slots'
  <2>1. /\ q \notin active /\ active' = active \cup {q} /\ accepting' = accepting \cup {q}
        /\ UNCHANGED <<leaving, stopped>>
    BY <1>3 DEF Claims
  <2>2. \A p \in Projects : Shown(p)' <=> Shown(p)
    BY <1>3 DEF Shown, Begun, Ended
  <2>3. QED
    BY <1>0, <2>1, <2>2 DEF Slots
<1>4. ASSUME NEW q \in Projects, RunsOnly(q) PROVE Slots'
  <2>1. CASE Prompt(q) \/ Flush(q) \/ Retry(q)
    <3>1. UNCHANGED <<mail, busy>> /\ (Claims(q) \/ UNCHANGED registry)
      BY <2>1 DEF Prompt, Flush, Retry, OnlySent, window
    <3>2. QED
      BY <1>1, <1>3, <3>1
  <2>2. CASE Accepted(q)
    <3>1. /\ accepting' = accepting \ {q} /\ mail' = Append(mail, Begun(q))
          /\ UNCHANGED <<active, leaving, stopped, busy>> /\ q \in active
      BY <1>0, <2>2 DEF Accepted, Begun, window
    <3>2. ASSUME NEW p \in Projects, Shown(p)' PROVE p = q \/ Shown(p)
      <4>1. Begun(q) \in Events /\ (Begun(q) = Begun(p) => p = q)
        BY EventKinds
      <4>2. Begun(q) = Begun(p) \/ Shown(p)
        BY <3>1, <3>2, <4>1, SendEffect
      <4>3. QED
        BY <4>1, <4>2
    <3>3. QED
      BY <1>0, <3>1, <3>2 DEF Slots
  <2>3. CASE Released(q)
    <3>1. /\ leaving' = leaving \ {q} /\ mail' = Append(mail, <<"released", q>>)
          /\ UNCHANGED <<active, accepting, stopped, busy>>
      BY <2>3 DEF Released, window
    <3>2. \A p \in Projects : Shown(p)' => p # q /\ Shown(p)
      BY <3>1, SendEffect, EventKinds
    <3>3. QED
      BY <1>0, <3>1, <3>2 DEF Slots
  <2>4. CASE Release(q) \/ Stop(q)
    <3>1. \A p \in Projects : Shown(p)' <=> Shown(p)
      BY <2>4 DEF Release, Stop, window, Shown, Begun, Ended
    <3>2. /\ q \in active \ accepting /\ active' = active \ {q} /\ accepting' = accepting
          /\ leaving \cup stopped \cup {q} = leaving' \cup stopped'
      BY <2>4 DEF Release, Stop
    <3>3. QED
      BY <1>0, <3>1, <3>2 DEF Slots
  <2>5. QED
    BY <1>4, <2>1, <2>2, <2>3, <2>4 DEF RunsOnly, RunSteps
<1>5. ASSUME NEW q \in Projects, FlushEnds(q) PROVE Slots'
  BY <1>1, <1>5 DEF FlushEnds, MaybeConfirm
<1>6. CASE Announce
  <2>1. UNCHANGED <<registry, busy>> /\ mail' = Append(mail, <<"scheduled", restarts>>)
    BY <1>6 DEF Announce, OnlyTask, window
  <2>2. restarts \in Tokens
    BY <1>6, BoundsAssumption DEF Announce, TypeInv, TypeOK, TokenTypes, Tokens
  <2>3. \A p \in Projects : Shown(p)' => Shown(p)
    BY <2>1, <2>2, SendEffect, EventKinds
  <2>4. QED
    BY <1>0, <2>1, <2>3 DEF Slots, registry
<1>7. CASE Continue
  <2>1. UNCHANGED <<mail, busy>> /\ (UNCHANGED registry \/ \E p \in Projects : Claims(p))
    BY <1>7 DEF Continue, window
  <2>2. QED
    BY <1>1, <1>3, <2>1
<1>8. CASE Ending
  <2>1. Ends
    BY <1>8 DEF Ending, Exit, Crash
  <2>2. accepting' = {} /\ mail' = <<>> /\ busy' = {}
    BY <2>1 DEF Ends
  <2>3. \A p \in Projects : ~Shown(p)'
    BY <2>2 DEF Shown, Stands
  <2>4. QED
    BY <2>2, <2>3 DEF Slots
<1>9. CASE Undoing
  BY <1>1, <1>9, UndoingEffect DEF TypeInv, window
<1>10. CASE RefreshSteps \/ Confirm \/ Schedule \/ Expire \/ Idle \/ Arm \/ Boot \/ UNCHANGED vars
  BY <1>1, <1>10 DEF RefreshSteps, CheckRefresh, BeginRefresh, RecheckRefresh, EndRefresh, OnlyRefresh,
     Confirm, Schedule, Expire, Idle, Arm, OnlyTask, Boot, vars, window
<1>11. QED
  BY <1>2, <1>4, <1>5, <1>6, <1>7, <1>8, <1>9, <1>10, NextCases DEF Aside, Waiting

\* A task that waits for the window has a token, which the window was told or
\* finds at the end of its mail.
TokenOut ==
  task = "wait" =>
    /\ pending = restarts
    /\ \/ Stands(mail, <<"scheduled", restarts>>, Scheduling)
       \/ held = restarts /\ Without(mail, Scheduling)

\* What must come to an end before the window is quiet, and asks then.
Work ==
  busy \cup queued \cup flushing \cup flushed \cup accepting
    \cup {p \in Projects : Stands(mail, Begun(p), {})}
\* The window knows the token and may ask: it does, or there is work left.
Knows == task = "wait" /\ Without(mail, Scheduling) /\ held \notin crossed
Asks == IF asking = None THEN Work # {} ELSE asking = held
Asked == TokenOut /\ (Knows => Asks)

\* The window that looks asks, or something keeps it.
LEMMA LooksAndAsks ==
  ASSUME NEW b, NEW q, NEW token, MaybeConfirm(b, q, token), token # None,
         asking # None => asking = token
  PROVE  held' = token /\ Asks'
BY DEF MaybeConfirm, Asks, Work

\* A token that waits is a token.
LEMMA WaitingToken == TypeInv /\ task \in {"announce", "wait"} => restarts \in Tokens /\ restarts # None
  BY BoundsAssumption DEF TypeInv, TypeOK, TokenTypes, Tokens, None

\* The window that handles an event hears of the token and asks in time.
LEMMA AskedDeliver == TypeInv /\ Asked /\ Deliver => Asked'
<1> SUFFICES ASSUME TypeInv, Asked, Deliver, task = "wait" PROVE Asked'
  BY DEF Asked, TokenOut, Knows, Deliver, restart
<1>0. /\ mail \in Seq(Events) /\ mail # <<>> /\ mail' = Tail(mail) /\ Head(mail) \in Events
      /\ UNCHANGED restart /\ restarts \in Tokens /\ restarts # None
  BY DeliverEffect, WaitingToken
<1>1. /\ Stands(mail, <<"scheduled", restarts>>, Scheduling)
            <=> \/ Stands(Tail(mail), <<"scheduled", restarts>>, Scheduling)
                \/ Head(mail) = <<"scheduled", restarts>> /\ Without(Tail(mail), Scheduling)
      /\ Without(mail, Scheduling) <=> Without(Tail(mail), Scheduling) /\ Head(mail) \notin Scheduling
  BY <1>0, TailMail
<1>2. /\ pending = restarts
      /\ \/ Stands(mail, <<"scheduled", restarts>>, Scheduling)
         \/ held = restarts /\ Without(mail, Scheduling)
      /\ Without(mail, Scheduling) /\ held \notin crossed => Asks
  BY DEF Asked, TokenOut, Knows
<1>3. <<"scheduled", restarts>> \in Scheduling
  BY <1>0 DEF Scheduling
<1>4. Without(mail, Scheduling)' <=> Without(Tail(mail), Scheduling)
  BY <1>0 DEF Without, Scheduling
<1>5. ASSUME \/ Stands(Tail(mail), <<"scheduled", restarts>>, Scheduling)
             \/ held' = restarts /\ Without(Tail(mail), Scheduling),
             Without(Tail(mail), Scheduling) /\ held' \notin crossed' => Asks'
      PROVE  Asked'
  <2>1. Stands(mail, <<"scheduled", restarts>>, Scheduling)'
          <=> Stands(Tail(mail), <<"scheduled", restarts>>, Scheduling)
    BY <1>0 DEF Stands, Scheduling, restart
  <2>2. Without(mail, Scheduling)' <=> Without(Tail(mail), Scheduling)
    BY <1>4
  <2>3. restarts' = restarts /\ pending' = pending
    BY <1>0 DEF restart
  <2>4. TokenOut'
    BY <1>0, <1>2, <1>5, <2>1, <2>2, <2>3 DEF TokenOut, Scheduling
  <2>5. QED
    BY <1>5, <2>2, <2>4 DEF Asked, Knows, Scheduling
<1>6. ASSUME Head(mail) \notin Scheduling, held' = held, crossed' = crossed,
             Without(mail, Scheduling) /\ held = restarts /\ held \notin crossed => Asks'
      PROVE  Asked'
  <2>1. Stands(mail, <<"scheduled", restarts>>, Scheduling)
          => Stands(Tail(mail), <<"scheduled", restarts>>, Scheduling)
    BY <1>1, <1>3, <1>6
  <2>2. Without(mail, Scheduling) => held = restarts
    BY <1>2, <1>3 DEF Stands, Without
  <2>3. QED
    BY <1>1, <1>2, <1>5, <1>6, <2>1, <2>2
<1>7. ASSUME NEW q \in Projects, Head(mail) = Begun(q), busy' = busy \cup {q},
             UNCHANGED <<held, asking, crossed>>
      PROVE  Asked'
  <2>1. Head(mail) \notin Scheduling
    BY <1>7, EventKinds
  <2>2. Work' # {}
    BY <1>7 DEF Work
  <2>3. Asks => Asks'
    BY <1>7, <2>2 DEF Asks
  <2>4. QED
    BY <1>2, <1>6, <1>7, <2>1, <2>3
<1>8. ASSUME NEW q \in Projects, Head(mail) = <<"released", q>>, UNCHANGED <<held, crossed>>,
             (flushing' # {} /\ UNCHANGED asking) \/ MaybeConfirm(busy \ {q}, queued, held)
      PROVE  Asked'
  <2>1. Head(mail) \notin Scheduling
    BY <1>8, EventKinds
  <2>2. ASSUME Asks, held = restarts PROVE Asks'
    <3>1. CASE flushing' # {} /\ UNCHANGED asking
      <4>1. Work' # {}
        BY <3>1 DEF Work
      <4>2. QED
        BY <1>8, <2>2, <3>1, <4>1 DEF Asks
    <3>2. CASE MaybeConfirm(busy \ {q}, queued, held)
      BY <1>0, <2>2, <3>2, LooksAndAsks DEF Asks
    <3>3. QED
      BY <1>8, <3>1, <3>2
  <2>3. QED
    BY <1>2, <1>6, <1>8, <2>1, <2>2
<1>9. ASSUME NEW t \in Tokens, Head(mail) = <<"scheduled", t>>, MaybeConfirm(busy, queued, t),
             asking # None => t \in crossed'
      PROVE  Asked'
  <2>1. held' = t /\ t # None
    BY <1>9 DEF MaybeConfirm, Tokens, None
  <2>2. t \notin crossed' => Asks'
    BY <1>9, <2>1, LooksAndAsks
  <2>3. Head(mail) \in Scheduling
    BY <1>9 DEF Scheduling
  <2>4. \/ Stands(Tail(mail), <<"scheduled", restarts>>, Scheduling)
        \/ held' = restarts /\ Without(Tail(mail), Scheduling)
    BY <1>1, <1>2, <1>9, <2>1, <2>3
  <2>5. QED
    BY <1>5, <2>1, <2>2, <2>4
<1>10. QED
  BY <1>7, <1>8, <1>9, DeliverEffect

\* A step that leaves the window, the announcement and some of the work leaves it so.
LEMMA AskedKept ==
  ASSUME TypeInv, Asked, UNCHANGED <<held, asking, crossed, pending, restarts, task>>,
         Without(mail, Scheduling)' <=> Without(mail, Scheduling),
         Stands(mail, <<"scheduled", restarts>>, Scheduling)
           => Stands(mail, <<"scheduled", restarts>>, Scheduling)',
         Work # {} => Work' # {}
  PROVE  Asked'
<1>1. TokenOut'
  BY DEF Asked, TokenOut
<1>2. Asks => Asks'
  BY DEF Asks
<1>3. Knows' => Knows
  BY DEF Knows
<1>4. QED
  BY <1>1, <1>2, <1>3 DEF Asked

\* Nor does a run that starts, ends or is sent to.
LEMMA AskedRuns ==
  ASSUME TypeInv, Asked, NEW p \in Projects, RunsOnly(p)
  PROVE  Asked'
<1>1. UNCHANGED <<held, asking, crossed, pending, restarts, task, busy>>
  BY DEF RunsOnly, RunSteps, Prompt, Flush, Retry, Accepted, Release, Released, Stop, OnlySent, window, restart
<1>2. CASE UNCHANGED mail
  <2>1. /\ Without(mail, Scheduling)' <=> Without(mail, Scheduling)
        /\ Stands(mail, <<"scheduled", restarts>>, Scheduling)
             => Stands(mail, <<"scheduled", restarts>>, Scheduling)'
        /\ \A q \in Projects : Stands(mail, Begun(q), {})' <=> Stands(mail, Begun(q), {})
    BY <1>1, <1>2 DEF Without, Stands, Scheduling, Begun
  <2>2. Work # {} => Work' # {}
    <3>1. CASE Release(p) \/ Stop(p)
      BY <1>1, <1>2, <2>1, <3>1 DEF Release, Stop, prompts, Work
    <3>2. CASE Prompt(p)
      <4>1. accepting \subseteq accepting' /\ queued \subseteq queued' /\ UNCHANGED <<flushing, flushed>>
        BY <3>2 DEF Prompt, Claims, registry
      <4>2. QED
        BY <1>1, <2>1, <4>1 DEF Work
    <3>3. CASE Flush(p)
      BY <3>3 DEF Flush, Work
    <3>4. CASE Retry(p)
      BY <3>4 DEF Retry, Claims, Work
    <3>5. CASE Accepted(p) \/ Released(p)
      <4>1. Len(mail') = Len(mail) + 1 /\ Len(mail) \in Nat
        BY <3>5, AppendMail DEF Accepted, Released, TypeInv, TypeOK, RunTypes
      <4>2. QED
        BY <1>2, <4>1
    <3>6. QED
      BY <3>1, <3>2, <3>3, <3>4, <3>5 DEF RunsOnly, RunSteps
  <2>3. QED
    BY <1>1, <2>1, <2>2, AskedKept
<1>3. ASSUME NEW x \in Events, x \notin Scheduling, mail' = Append(mail, x), Work # {} => Work' # {}
      PROVE  Asked'
  <2>1. mail \in Seq(Events)
    BY DEF TypeInv, TypeOK, RunTypes
  <2>2. /\ Without(Append(mail, x), Scheduling) <=> Without(mail, Scheduling)
        /\ Stands(mail, <<"scheduled", restarts>>, Scheduling)
             => Stands(Append(mail, x), <<"scheduled", restarts>>, Scheduling)
    BY <1>3, <2>1, AppendMail
  <2>3. /\ Without(mail, Scheduling)' <=> Without(Append(mail, x), Scheduling)
        /\ Stands(mail, <<"scheduled", restarts>>, Scheduling)'
             <=> Stands(Append(mail, x), <<"scheduled", restarts>>, Scheduling)
    BY <1>1, <1>3 DEF Without, Stands, Scheduling
  <2>4. QED
    BY <1>1, <1>3, <2>2, <2>3, AskedKept
<1>4. CASE Accepted(p)
  <2>1. mail' = Append(mail, Begun(p)) /\ Begun(p) \in Events /\ Begun(p) \notin Scheduling
    BY <1>4, EventKinds DEF Accepted, Begun
  <2>2. Stands(Append(mail, Begun(p)), Begun(p), {})
    BY <2>1, AppendMail DEF TypeInv, TypeOK, RunTypes
  <2>3. Stands(mail, Begun(p), {})'
    BY <2>1, <2>2 DEF Stands, Begun
  <2>4. Work' # {}
    BY <2>3 DEF Work
  <2>5. QED
    BY <1>3, <2>1, <2>4
<1>5. CASE Released(p)
  <2>1. /\ mail' = Append(mail, <<"released", p>>) /\ UNCHANGED <<accepting, prompts>>
        /\ <<"released", p>> \in Events /\ <<"released", p>> \notin Scheduling
    BY <1>5, EventKinds DEF Released
  <2>2. ASSUME NEW q \in Projects, Stands(mail, Begun(q), {}) PROVE Stands(mail, Begun(q), {})'
    <3>1. Stands(Append(mail, <<"released", p>>), Begun(q), {})
      BY <2>1, <2>2, AppendMail DEF TypeInv, TypeOK, RunTypes
    <3>2. QED
      BY <2>1, <3>1 DEF Stands, Begun
  <2>3. Work # {} => Work' # {}
    BY <1>1, <2>1, <2>2 DEF Work, prompts
  <2>4. QED
    BY <1>3, <2>1, <2>3
<1>6. CASE Prompt(p) \/ Flush(p) \/ Retry(p) \/ Release(p) \/ Stop(p)
  BY <1>2, <1>6 DEF Prompt, Flush, Retry, Release, Stop, OnlySent
<1>7. QED
  BY <1>4, <1>5, <1>6 DEF RunsOnly, RunSteps

\* With nothing left to hear of, a restart that waits has been asked for.
LEMMA AskedStep == TypeInv /\ Asked /\ [Next]_vars => Asked'
<1> SUFFICES ASSUME TypeInv, Asked, [Next]_vars PROVE Asked'
  OBVIOUS
<1>1. CASE UNCHANGED <<mail, busy, held, asking, crossed, pending, restarts, task, prompts>>
           /\ accepting \subseteq accepting'
  <2>1. /\ Without(mail, Scheduling)' <=> Without(mail, Scheduling)
        /\ Stands(mail, <<"scheduled", restarts>>, Scheduling)
             => Stands(mail, <<"scheduled", restarts>>, Scheduling)'
        /\ \A q \in Projects : Stands(mail, Begun(q), {})' <=> Stands(mail, Begun(q), {})
    BY <1>1 DEF Without, Stands, Scheduling, Begun
  <2>2. Work # {} => Work' # {}
    BY <1>1, <2>1 DEF Work, prompts
  <2>3. QED
    BY <1>1, <2>1, <2>2, AskedKept
<1>2. CASE task' # "wait"
  BY <1>2 DEF Asked, TokenOut, Knows
<1>3. CASE Confirm
  <2>1. CASE Matches(asking)
    BY <1>2, <1>3, <2>1 DEF Confirm
  <2>2. CASE ~Matches(asking)
    <3>1. /\ asking # None /\ pending # asking
          /\ UNCHANGED <<mail, busy, held, crossed, pending, restarts, task, prompts, accepting>>
      BY <1>3, <2>2 DEF Confirm, Matches, registry
    <3>2. TokenOut'
      BY <3>1 DEF Asked, TokenOut, Stands, Without, Scheduling
    <3>3. ASSUME Knows' PROVE FALSE
      <4>1. Knows /\ task = "wait"
        BY <3>1, <3>3 DEF Knows, Without, Scheduling
      <4>2. asking = held /\ pending = restarts
        BY <3>1, <4>1 DEF Asked, Asks, TokenOut
      <4>3. held = restarts
        <5>1. <<"scheduled", restarts>> \in Scheduling
          BY <4>1, WaitingToken DEF Scheduling
        <5>2. QED
          BY <4>1, <5>1 DEF Asked, TokenOut, Knows, Stands, Without
      <4>4. QED
        BY <3>1, <4>2, <4>3
    <3>4. QED
      BY <3>2, <3>3 DEF Asked
  <2>3. QED
    BY <2>1, <2>2
<1>4. ASSUME NEW p \in Projects, FlushEnds(p), task = "wait" PROVE Asked'
  <2>1. /\ MaybeConfirm(busy, queued, held)
        /\ UNCHANGED <<mail, crossed, restart, flushing, registry>>
    BY <1>4 DEF FlushEnds
  <2>2. held' = held
    BY <2>1 DEF MaybeConfirm
  <2>3. TokenOut'
    BY <2>1, <2>2 DEF Asked, TokenOut, Stands, Without, Scheduling, restart
  <2>4. ASSUME Knows' PROVE Asks'
    <3>1. Knows
      BY <2>1, <2>2, <2>4 DEF Knows, Without, Scheduling, restart
    <3>2. <<"scheduled", restarts>> \in Scheduling /\ restarts # None
      BY <1>4, WaitingToken DEF Scheduling
    <3>3. held = restarts
      BY <3>1, <3>2 DEF Asked, TokenOut, Knows, Stands, Without
    <3>4. asking # None => asking = held
      BY <3>1 DEF Asked, Asks
    <3>5. QED
      BY <2>1, <3>2, <3>3, <3>4, LooksAndAsks
  <2>5. QED
    BY <2>3, <2>4 DEF Asked
<1>5. CASE Schedule \/ Expire \/ Idle
  BY <1>2, <1>5 DEF Schedule, Expire, Idle
<1>6. CASE Announce
  <2>1. /\ mail' = Append(mail, <<"scheduled", restarts>>) /\ pending' = restarts /\ restarts' = restarts
        /\ restarts \in Tokens /\ mail \in Seq(Events)
    BY <1>6, WaitingToken DEF Announce, TypeInv, TypeOK, RunTypes
  <2>2. <<"scheduled", restarts>> \in Events /\ <<"scheduled", restarts>> \in Scheduling
    BY <2>1 DEF Events, Scheduling
  <2>3. /\ Stands(Append(mail, <<"scheduled", restarts>>), <<"scheduled", restarts>>, Scheduling)
        /\ ~Without(Append(mail, <<"scheduled", restarts>>), Scheduling)
    BY <2>1, <2>2, AppendMail
  <2>4. TokenOut'
    BY <2>1, <2>3 DEF TokenOut, Stands, Scheduling
  <2>5. ~Knows'
    BY <2>1, <2>3 DEF Knows, Without, Scheduling
  <2>6. QED
    BY <2>4, <2>5 DEF Asked
<1>7. CASE Arm
  BY <1>2, <1>7 DEF Arm
<1>8. CASE Undoing
  <2>1. UNCHANGED <<registry, prompts, window, mail, pending, restarts>>
        /\ (task' = task \/ task' # "wait")
    BY <1>8, UndoingEffect DEF TypeInv
  <2>2. QED
    BY <1>1, <1>2, <2>1 DEF window, registry
<1>9. CASE Ending
  BY <1>2, <1>9 DEF Ending, Exit, Crash, Ends
<1>10. CASE RefreshSteps \/ Boot \/ Continue \/ UNCHANGED vars
  <2>1. UNCHANGED <<mail, window, prompts, restart>>
    BY <1>10 DEF RefreshSteps, CheckRefresh, BeginRefresh, RecheckRefresh, EndRefresh, OnlyRefresh, Boot,
       Continue, vars
  <2>2. accepting \subseteq accepting'
    BY <1>10 DEF RefreshSteps, CheckRefresh, BeginRefresh, RecheckRefresh, EndRefresh, OnlyRefresh, Boot,
       Continue, Claims, vars, registry
  <2>3. QED
    BY <1>1, <2>1, <2>2 DEF window, restart
<1>11. ASSUME NEW p \in Projects, FlushEnds(p) PROVE Asked'
  <2>1. CASE task = "wait"
    BY <1>4, <1>11, <2>1
  <2>2. CASE task # "wait"
    BY <1>2, <1>11, <2>2 DEF FlushEnds, restart
  <2>3. QED
    BY <2>1, <2>2
<1>12. QED
  BY <1>3, <1>5, <1>6, <1>7, <1>8, <1>9, <1>10, <1>11, AskedDeliver, AskedRuns, NextCases DEF Aside, Waiting

\* QuietIsConfirmed, for any number of projects, runs and restarts: with every run
\* over and nothing held or on its way, a restart does not wait for a window that
\* has nothing left to tell it, but for a Stop and a token that crossed another.
THEOREM QuietIsConfirmedHolds == Spec => []QuietIsConfirmed
<1>1. Init => Slots /\ Asked
  <2> SUFFICES ASSUME Init PROVE Slots /\ Asked
    OBVIOUS
  <2>1. mail = <<>> /\ busy = {} /\ accepting = {} /\ task = "none"
    BY DEF Init
  <2>2. \A p \in Projects : ~Shown(p)
    BY <2>1 DEF Shown, Stands
  <2>3. QED
    BY <2>1, <2>2 DEF Slots, Asked, TokenOut, Knows
<1>2. TypeInv /\ Slots /\ Asked => QuietIsConfirmed
  <2> SUFFICES ASSUME TypeInv, Slots, Asked, Quiet, task = "wait", held \notin crossed
               PROVE  busy \cap stopped # {}
    BY DEF QuietIsConfirmed
  <2>1. /\ active = {} /\ leaving = {} /\ accepting = {} /\ mail = <<>> /\ asking = None
        /\ queued = {} /\ flushing = {} /\ flushed = {}
    BY DEF Quiet
  <2>2. /\ \A e, F : ~Stands(mail, e, F)
        /\ \A F : Without(mail, F)
    BY <2>1 DEF Stands, Without
  <2>3. Work # {}
    BY <2>1, <2>2 DEF Asked, Knows, Asks
  <2>4. PICK p \in Projects : p \in busy
    BY <2>1, <2>2, <2>3 DEF Work, TypeInv, TypeOK, RunTypes
  <2>5. Shown(p)
    BY <2>2, <2>4 DEF Shown
  <2>6. QED
    BY <2>1, <2>4, <2>5 DEF Slots
<1>3. QED
  BY <1>1, <1>2, TypeInit, TypeStep, SlotsStep, AskedStep, PTL DEF Spec
==============================================================================
