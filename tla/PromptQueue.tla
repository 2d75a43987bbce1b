----------------------------- MODULE PromptQueue -----------------------------
(***************************************************************************)
(* The prompts a window holds for one project while its run slot is taken: *)
(* stores/workspace.tsx (send, flushQueue, the run:* handlers) against     *)
(* send_message, compact_project and drive_run of projects.rs, over the    *)
(* two channels between them: invoke calls with their answers, in any      *)
(* order, and emitted events, in order.                                    *)
(*                                                                         *)
(* A run is reduced to what the window can observe of it; modules          *)
(* RunRegistry and Injection hold the detail.                              *)
(***************************************************************************)
EXTENDS Naturals, Sequences, SequencesExt, FiniteSets

CONSTANTS
  Prompts,      \* what the owner types, in this order: 1..n
  Runs,         \* runs in the order their slot is claimed: 1..n
  MaxAttempts,  \* re-dispatches of a refused queued prompt (4 in the code)
  MaxIncidents  \* bound on presses of Stop and Compact and on calls that
                \* fail for an unrelated reason, all together

NoRun == 0

ASSUME OrderAssumption == Prompts \subseteq Nat /\ Runs \subseteq Nat /\ NoRun \notin Runs
ASSUME BoundsAssumption == {MaxAttempts, MaxIncidents} \subseteq Nat

VARIABLES
  queue,     \* state.queued
  status,    \* state.runStatus: none, or whether its agent takes follow-ups
  compacting,\* state.compacting
  timers,    \* setTimeout'ed flushes: how many, per kind and attempt
  calls,     \* sendMessage calls on their way
  events,    \* emitted and not yet handled
  typed,     \* prompts the owner has typed
  slot,      \* the project's entry in ActiveRuns
  run,       \* the driver behind each reservation
  heard,     \* prompts a provider has read
  unanswered,\* those of them of which a delivery reported a failure
  pressed,      \* the owner's press of Stop
  compact,   \* the owner's press of Compact; "waiting" is pendingCompact
  failures   \* calls that have failed so far

window == <<queue, status, compacting, timers, typed>>
backend == <<slot, run, heard>>
presses == <<pressed, compact>>
faults == <<failures, unanswered>>
queueVars == <<window, calls, events, backend, presses, faults>>

Flushes == [live : BOOLEAN, attempt : 0..MaxAttempts]

\* by: "send" is sendKnownMessage's own call, "flush" is flushQueue's.
Calls == [prompt : Prompts,
          at : {"asked", "claimed", "routed", "sent", "busy", "failed"},
          by : {"send", "flush"}, flush : Flushes, target : Runs \cup {NoRun}]

Event(kind, about) == [kind |-> kind, about |-> about]
Events ==
  [kind : {"accepted", "text"}, about : {"live", "plain"}]
    \cup [kind : {"ready", "stopped", "released", "compacting", "compacted"}, about : {"run"}]
    \cup [kind : {"inject_failed"}, about : Prompts]

Phases == {"unused", "claimed", "accepted", "ready", "closing", "over", "dropped", "done"}

QueueTypeOK ==
  /\ queue \in Seq(Prompts)
  /\ status \in {"none", "live", "plain"}
  /\ compacting \in BOOLEAN
  /\ timers \in [Flushes -> Nat]
  /\ calls \subseteq Calls
  /\ events \in Seq(Events)
  /\ typed \subseteq Prompts
  /\ slot \in Runs \cup {NoRun}
  /\ \A r \in Runs :
       /\ run[r].phase \in Phases
       /\ run[r].kind \in {"live", "plain", "command"}
       /\ run[r].opening \subseteq Prompts
       /\ run[r].inbox \in Seq(Prompts)
  /\ unanswered \subseteq heard /\ heard \subseteq Prompts
  /\ pressed \in [at : {"idle", "asking", "done"}, seen : Runs \cup {NoRun}]
  /\ compact \in {"idle", "pressed", "refused", "waiting", "flushed", "claimed", "over", "dropped", "broken"}
  /\ failures \in 0..MaxIncidents

\* A run that has not begun, or whose driver has returned.
Gone(phase) == [phase |-> phase, kind |-> "plain", opening |-> {}, inbox |-> <<>>]

QueueInit ==
  /\ queue = <<>> /\ status = "none" /\ compacting = FALSE
  /\ timers = [f \in Flushes |-> 0]
  /\ calls = {} /\ events = <<>> /\ typed = {}
  /\ slot = NoRun
  /\ run = [r \in Runs |-> Gone("unused")]
  /\ heard = {} /\ unanswered = {}
  /\ pressed = [at |-> "idle", seen |-> NoRun]
  /\ compact = "idle"
  /\ failures = 0

Incidents == failures + Cardinality({i \in 1..2 : <<pressed.at, compact>>[i] # "idle"})

Emit(new) == events' = events \o new
Signal(kind) == Emit(<<Event(kind, "run")>>)

------------------------------------------------------------------------------
\* The window: sending, flushing.

StartTimer(live, attempt) ==
  timers' = [timers EXCEPT ![[live |-> live, attempt |-> attempt]] = @ + 1]

Call(p, by, f) ==
  [prompt |-> p, at |-> "asked", by |-> by, flush |-> f, target |-> NoRun]

\* isBusy.
Busy == status # "none"

\* sendKnownMessage: held while compacting, behind what is already held, or
\* while an agent that takes no follow-ups runs; otherwise sent regardless.
SendKnown(p) ==
  /\ p \notin typed /\ \A q \in Prompts : q < p => q \in typed
  /\ typed' = typed \cup {p}
  /\ IF compacting \/ queue # <<>> \/ status = "plain"
     THEN /\ queue' = Append(queue, p)
          /\ IF ~compacting /\ queue # <<>> /\ status = "live"
             THEN StartTimer(TRUE, 0) ELSE UNCHANGED timers
          /\ UNCHANGED calls
     ELSE /\ calls' = calls \cup {Call(p, "send", [live |-> FALSE, attempt |-> 0])}
          /\ UNCHANGED <<queue, timers>>
  /\ UNCHANGED <<status, compacting, events, backend, presses, faults>>

\* flushQueue up to its await: the head leaves the queue for a call.
FlushQueue(f) ==
  IF queue = <<>> \/ (Busy /\ ~f.live)
  THEN UNCHANGED <<queue, calls>>
  ELSE /\ queue' = Tail(queue)
       /\ calls' = calls \cup {Call(Head(queue), "flush", f)}

TimerFires(f) ==
  /\ timers[f] > 0
  /\ timers' = [timers EXCEPT ![f] = @ - 1]
  /\ FlushQueue(f)
  /\ UNCHANGED <<status, compacting, typed, events, backend, presses, faults>>

\* Mutant of Answer: a prompt that was refused once too often is given up.
AnswerGivesUp(c) ==
  /\ c.at \in {"sent", "busy", "failed"}
  /\ calls' = calls \ {c}
  /\ \/ /\ c.by = "send"
        /\ queue' = IF c.at = "busy" THEN Append(queue, c.prompt) ELSE queue
        /\ UNCHANGED timers
     \/ /\ c.by = "flush" /\ c.at = "sent"
        /\ IF c.flush.live /\ queue # <<>> THEN StartTimer(TRUE, 0) ELSE UNCHANGED timers
        /\ UNCHANGED queue
     \/ /\ c.by = "flush" /\ c.at # "sent"
        /\ IF c.flush.attempt < MaxAttempts
           THEN /\ queue' = <<c.prompt>> \o queue
                /\ StartTimer(c.flush.live, c.flush.attempt + 1)
           ELSE UNCHANGED <<queue, timers>>
  /\ UNCHANGED <<status, compacting, typed, events, backend, presses, faults>>

\* The answer to a call.  A direct send is held when the refusal is one of
\* queueReason's, and otherwise handed back to the composer; a flushed prompt
\* goes back to the front and is retried.
Answer(c) ==
  /\ c.at \in {"sent", "busy", "failed"}
  /\ calls' = calls \ {c}
  /\ \/ /\ c.by = "send"
        /\ queue' = IF c.at = "busy" THEN Append(queue, c.prompt) ELSE queue
        /\ UNCHANGED timers
     \/ /\ c.by = "flush" /\ c.at = "sent"
        /\ IF c.flush.live /\ queue # <<>> THEN StartTimer(TRUE, 0) ELSE UNCHANGED timers
        /\ UNCHANGED queue
     \/ /\ c.by = "flush" /\ c.at # "sent"
        /\ queue' = <<c.prompt>> \o queue
        /\ IF c.flush.attempt < MaxAttempts
           THEN StartTimer(c.flush.live, c.flush.attempt + 1) ELSE UNCHANGED timers
  /\ UNCHANGED <<status, compacting, typed, events, backend, presses, faults>>

------------------------------------------------------------------------------
\* The window: events, in the order they were emitted.

\* Events after which no run is shown.
Clears(kind) == kind \in {"stopped", "compacted"}

\* run:accepted, run:text, run:stopped, run:compaction: the status line.
ShowStatus(e) ==
  /\ status' = CASE e.kind = "accepted"        -> e.about
                 [] e.kind = "text" /\ ~Busy   -> e.about
                 [] e.kind = "compacting"      -> "plain"
                 [] Clears(e.kind)             -> "none"
                 [] OTHER                      -> status
  /\ compacting' = CASE e.kind = "compacting" -> TRUE
                     [] e.kind = "compacted"  -> FALSE
                     [] OTHER                 -> compacting

\* run:inject_failed: the row is queued unless it is queued already.
HoldAgain(p) ==
  /\ queue' = IF \E i \in DOMAIN queue : queue[i] = p THEN queue ELSE Append(queue, p)
  /\ UNCHANGED <<calls, compact>>

\* Mutant of OnReleased: held prompts are left for the next run:ready.
ReleasedWithoutFlush ==
  /\ compact' = IF compact = "waiting" THEN "flushed" ELSE compact
  /\ UNCHANGED <<queue, calls>>

\* run:slot_released: a waiting compaction goes first, and instead of the queue.
OnReleased ==
  IF compact = "waiting"
  THEN compact' = "flushed" /\ UNCHANGED <<queue, calls>>
  ELSE FlushQueue([live |-> FALSE, attempt |-> 0]) /\ UNCHANGED compact

HandleEvent ==
  /\ events # <<>>
  /\ events' = Tail(events)
  /\ LET e == Head(events) IN
     /\ ShowStatus(e)
     /\ CASE e.kind = "inject_failed" -> HoldAgain(e.about)
          [] e.kind = "released"      -> OnReleased
          [] e.kind = "ready"         -> FlushQueue([live |-> TRUE, attempt |-> 0]) /\ UNCHANGED compact
          [] OTHER                    -> UNCHANGED <<queue, calls, compact>>
  /\ UNCHANGED <<timers, typed, backend, pressed, faults>>

------------------------------------------------------------------------------
\* The backend: send_message.

\* Only a live flush does something with the answer that its call went through.
Move(c, at, target) ==
  calls' = (calls \ {c}) \cup IF at = "sent" /\ ~c.flush.live THEN {}
                               ELSE {[c EXCEPT !.at = at, !.target = target]}

\* Reservations are numbered in the order they claim.
Claim(r, kind, opening) ==
  /\ slot = NoRun
  /\ run[r].phase = "unused" /\ \A q \in Runs : q < r => run[q].phase # "unused"
  /\ slot' = r
  /\ run' = [run EXCEPT ![r].phase = "claimed", ![r].kind = kind, ![r].opening = opening]

Passes(r, from, to) == run[r].phase = from /\ run' = [run EXCEPT ![r].phase = to]

\* One look at the slot, under its lock: start, inject, or refuse.  A live turn
\* of another agent or with other roots refuses too.
RouteCall(c) ==
  /\ c.at = "asked"
  /\ \/ \E r \in Runs, kind \in {"live", "plain"} :
          Claim(r, kind, {c.prompt}) /\ Move(c, "claimed", r)
     \/ slot # NoRun /\ run[slot].kind = "live" /\ Move(c, "routed", slot) /\ UNCHANGED <<slot, run>>
     \/ slot # NoRun /\ Move(c, "busy", NoRun) /\ UNCHANGED <<slot, run>>
  /\ UNCHANGED <<window, events, heard, presses, faults>>

\* The row is stored and the run announced ...
AcceptCall(c) ==
  /\ c.at = "claimed"
  /\ Passes(c.target, "claimed", "accepted")
  /\ Emit(<<Event("accepted", run[c.target].kind)>>)
  /\ Move(c, "sent", NoRun)
  /\ UNCHANGED <<window, slot, heard, presses, faults>>

\* ... or the call fails, before the backend or while storing the row.
Fail(c) ==
  /\ Incidents < MaxIncidents
  /\ failures' = failures + 1
  /\ \/ c.at = "asked" /\ UNCHANGED run
     \/ c.at = "claimed" /\ run' = [run EXCEPT ![c.target].phase = "over", ![c.target].opening = {}]
  /\ Move(c, "failed", NoRun)
  /\ UNCHANGED <<window, events, slot, heard, presses, unanswered>>

Receiving(r) == run[r].phase \in {"claimed", "accepted", "ready", "closing"}

\* Mutant of Inject: the send that was handed back is also reported as refused.
InjectRefusesToo(c) ==
  /\ c.at = "routed"
  /\ IF Receiving(c.target)
     THEN /\ run' = [run EXCEPT ![c.target].inbox = Append(@, c.prompt)]
          /\ Move(c, "sent", NoRun)
          /\ UNCHANGED events
     ELSE /\ Emit(<<Event("inject_failed", c.prompt)>>)
          /\ Move(c, "busy", NoRun)
          /\ UNCHANGED run
  /\ UNCHANGED <<window, slot, heard, presses, faults>>

\* inject.send, some awaits after the slot was read.  Once the receiver is gone
\* the row is handed back by an event and the send reported as accepted.
Inject(c) ==
  /\ c.at = "routed"
  /\ IF Receiving(c.target)
     THEN run' = [run EXCEPT ![c.target].inbox = Append(@, c.prompt)] /\ UNCHANGED events
     ELSE Emit(<<Event("inject_failed", c.prompt)>>) /\ UNCHANGED run
  /\ Move(c, "sent", NoRun)
  /\ UNCHANGED <<window, slot, heard, presses, faults>>

------------------------------------------------------------------------------
\* The backend: drive_run, as far as the window sees it.

Turn(r) == run[r].kind # "command"

\* The provider's first event: the opening message is read, follow-ups pass.
Ready(r) ==
  /\ Turn(r)
  /\ run[r].phase = "accepted"
  /\ run' = [run EXCEPT ![r].phase = "ready", ![r].opening = {}]
  /\ heard' = heard \cup run[r].opening
  /\ Signal("ready")
  /\ UNCHANGED <<window, calls, slot, presses, faults>>

\* control.send: the provider reads the next follow-up.
DeliverNext(r) ==
  /\ run[r].phase = "ready"
  /\ run[r].inbox # <<>>
  /\ heard' = heard \cup {Head(run[r].inbox)}
  /\ run' = [run EXCEPT ![r].inbox = Tail(@)]
  /\ UNCHANGED <<window, calls, events, slot, presses, faults>>

\* control.send fails: the row goes back to the window and the loop ends.  Where
\* only the answer was lost, the provider has read it all the same.
DeliveryFails(r) ==
  /\ run[r].phase = "ready"
  /\ run[r].inbox # <<>>
  /\ Incidents < MaxIncidents
  /\ failures' = failures + 1
  /\ \E got \in SUBSET {Head(run[r].inbox)} :
       heard' = heard \cup got /\ unanswered' = unanswered \cup got
  /\ run' = [run EXCEPT ![r].phase = "closing", ![r].inbox = Tail(@)]
  /\ Emit(<<Event("inject_failed", Head(run[r].inbox))>>)
  /\ UNCHANGED <<window, calls, slot, presses>>

\* Streamed text: only where the window has lost the status line, which is
\* where it changes something.
Text(r) ==
  /\ Turn(r)
  /\ run[r].phase = "ready"
  /\ ~Busy
  /\ \A i \in DOMAIN events : events[i].kind # "text"
  /\ Emit(<<Event("text", run[r].kind)>>)
  /\ UNCHANGED <<window, calls, backend, presses, faults>>

\* The loop ends and both input stages close.  Follow-ups the loop had accepted
\* are handed back, those behind them go with the receiver; a rejected resume
\* hands the opening message back; then run:stopped.
Close(r) ==
  /\ Turn(r)
  /\ run[r].phase \in {"accepted", "ready", "closing"}
  /\ \E n \in 0..Len(run[r].inbox), again \in SUBSET run[r].opening :
       Emit([i \in 1..n |-> Event("inject_failed", run[r].inbox[i])]
            \o SetToSeq({Event("inject_failed", p) : p \in again})
            \o <<Event("stopped", "run")>>)
  /\ run' = [run EXCEPT ![r].phase = "over", ![r].inbox = <<>>, ![r].opening = {}]
  /\ UNCHANGED <<window, calls, slot, heard, presses, faults>>

\* RunReservation::drop: the entry goes under the lock ...
ReleaseSlot(r) ==
  /\ run[r].phase = "over"
  /\ run' = [run EXCEPT ![r] = Gone(IF slot = r THEN "dropped" ELSE "done")]
  /\ slot' = IF slot = r THEN NoRun ELSE slot
  /\ UNCHANGED <<window, calls, events, heard, presses, faults>>

\* ... and run:slot_released follows.
EmitReleased(r) ==
  /\ Passes(r, "dropped", "done")
  /\ Signal("released")
  /\ UNCHANGED <<window, calls, slot, heard, presses, faults>>

------------------------------------------------------------------------------
\* cancel_run: the entry that was read goes, and nothing is emitted.  The driver
\* runs on to its tail.

StopPress ==
  /\ pressed.at = "idle"
  /\ Incidents < MaxIncidents
  /\ pressed' = [at |-> "asking", seen |-> slot]
  /\ UNCHANGED <<window, calls, events, backend, compact, faults>>

StopFinish ==
  /\ pressed.at = "asking"
  /\ pressed' = [at |-> "done", seen |-> NoRun]
  /\ slot' = IF slot = pressed.seen THEN NoRun ELSE slot
  /\ UNCHANGED <<window, calls, events, run, heard, compact, faults>>

------------------------------------------------------------------------------
\* compactProject and flushPendingCompact, and the command behind them.

CompactPress ==
  /\ compact = "idle"
  /\ Incidents < MaxIncidents
  /\ compact' = "pressed"
  /\ UNCHANGED <<window, calls, events, backend, pressed, faults>>

\* Refused for another reason than a taken slot (no session to compact, too
\* short): shown for a press, swallowed for a waiting one.
CompactRefused ==
  /\ compact \in {"pressed", "flushed"}
  /\ compact' = IF compact = "pressed" THEN "over" ELSE "dropped"
  /\ UNCHANGED <<window, calls, events, backend, pressed, faults>>

CompactBusy ==
  /\ compact \in {"pressed", "flushed"}
  /\ slot # NoRun
  /\ compact' = IF compact = "pressed" THEN "refused" ELSE "over"
  /\ UNCHANGED <<window, calls, events, backend, pressed, faults>>

\* The refusal reaches the window, which holds the intent.
CompactWaits ==
  /\ compact = "refused"
  /\ compact' = "waiting"
  /\ UNCHANGED <<window, calls, events, backend, pressed, faults>>

CompactClaim(r) ==
  /\ compact \in {"pressed", "flushed"}
  /\ Claim(r, "command", {})
  /\ compact' = "claimed"
  /\ UNCHANGED <<window, calls, events, heard, pressed, faults>>

\* run:compaction "learning" or "started".
CommandBegins(r) ==
  /\ ~Turn(r)
  /\ Passes(r, "claimed", "accepted")
  /\ Signal("compacting")
  /\ UNCHANGED <<window, calls, slot, heard, presses, faults>>

CommandEnds(r) ==
  /\ ~Turn(r)
  /\ Passes(r, "accepted", "over")
  /\ Signal("compacted")
  /\ compact' = "over"
  /\ UNCHANGED <<window, calls, slot, heard, pressed, faults>>

\* An error return after "learning" (the run cannot be started, a write fails):
\* the reservation is dropped and no "finished" is emitted.
CommandBreaks(r) ==
  /\ ~Turn(r)
  /\ Passes(r, "accepted", "over")
  /\ compact' = "broken"
  /\ UNCHANGED <<window, calls, events, slot, heard, pressed, faults>>

------------------------------------------------------------------------------
Serve(c) == RouteCall(c) \/ AcceptCall(c) \/ Inject(c)

DriverStep(r) ==
  \/ Ready(r)
  \/ DeliverNext(r)
  \/ Close(r)
  \/ ReleaseSlot(r)
  \/ EmitReleased(r)
  \/ CommandBegins(r)
  \/ CommandEnds(r)

CompactStep ==
  \/ CompactBusy
  \/ CompactWaits
  \/ \E r \in Runs : CompactClaim(r)

WindowStep ==
  \/ HandleEvent
  \/ \E f \in Flushes : TimerFires(f)
  \/ \E c \in calls : Answer(c)

BackendStep ==
  \/ \E c \in calls : Serve(c)
  \/ \E r \in Runs : DriverStep(r)
  \/ StopFinish
  \/ CompactStep

QueueNext ==
  \/ \E p \in Prompts : SendKnown(p)
  \/ WindowStep
  \/ BackendStep
  \/ \E c \in calls : Fail(c)
  \/ \E r \in Runs : DeliveryFails(r) \/ Text(r) \/ CommandBreaks(r)
  \/ StopPress \/ CompactPress \/ CompactRefused

\* The window's one thread and the backend each go on while they have something
\* to do; a turn ends, since drive_run stops one that goes silent.
Fairness == WF_queueVars(WindowStep) /\ WF_queueVars(BackendStep)

QueueSpec == QueueInit /\ [][QueueNext]_queueVars /\ Fairness

------------------------------------------------------------------------------
Held(p) == {i \in DOMAIN queue : queue[i] = p}
HandedBack(p) == {i \in DOMAIN events : events[i] = Event("inject_failed", p)}
UnderWay(p) == {c \in calls : c.prompt = p /\ c.at # "sent"}
Opens(p) == {r \in Runs : p \in run[r].opening /\ run[r].phase = "accepted"}
Waits(p) == UNION {{r} \X {i \in DOMAIN run[r].inbox : run[r].inbox[i] = p} : r \in Runs}

\* A prompt is never in two places: what the window, a call, a run, an event or
\* a provider has of it, one of them has.  Otherwise it would be shown twice or
\* asked twice.  The exception is a prompt a provider has read while the daemon
\* took its delivery for failed: it is held, and sent, once more.
NoPromptTwice ==
  \A p \in Prompts :
    Cardinality(Held(p)) + Cardinality(HandedBack(p)) + Cardinality(UnderWay(p))
      + Cardinality(Opens(p)) + Cardinality(Waits(p)) + Cardinality((heard \ unanswered) \cap {p}) <= 1

\* Who has a prompt: the window, where it is held, on its way back or in a flush
\* that has not been told it went through; or a run and its provider.
WithWindow(p) == Held(p) # {} \/ HandedBack(p) # {} \/ \E c \in UnderWay(p) : c.by = "flush"
WithRun(p) == Opens(p) # {} \/ Waits(p) # {}

\* A prompt the window holds is not lost on its way: until a run has it, it is
\* held, handed back or asked for, whatever fails, is refused or stops meanwhile.
HeldIsNeverLost ==
  [][\A p \in Prompts : WithWindow(p) => WithWindow(p)' \/ WithRun(p)']_queueVars

\* A prompt held while a run has the slot is taken from the queue in the end,
\* unless a Stop freed the slot, a compaction came to nothing, or Runs is spent.
HeldPromptIsSent ==
  \A p \in Prompts :
    Held(p) # {} /\ slot # NoRun
      ~> \/ Held(p) = {}
         \/ pressed.at # "idle" \/ compact \in {"dropped", "broken"}
         \/ \A r \in Runs : run[r].phase # "unused"
==============================================================================
