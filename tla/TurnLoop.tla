------------------------------- MODULE TurnLoop -------------------------------
(***************************************************************************)
(* The event loop of one turn, drive_run in apps/gui/src/projects.rs: the  *)
(* idle window and the liveness pings, the directives that touch them, the *)
(* approvals a turn is blocked on, and resolve_approval, which answers     *)
(* them from another task.  Time is counted in ticks of the running timer. *)
(***************************************************************************)
EXTENDS Naturals, FiniteSets

CONSTANTS
  Questions,   \* approval requests the provider may make
  Similar,     \* approval_signature of each
  Lines,       \* the kinds of complete line a reply streams
  StartLimit,  \* RUN_START_TIMEOUT
  IdleLimit,   \* RUN_IDLE_TIMEOUT
  PingLimit,   \* LIVENESS_PING_TIMEOUT
  Granted,     \* what an extend-watchdog line declares, clamped
  AskLimit,    \* APPROVAL_TIMEOUT
  MaxPings,    \* MAX_UNANSWERED_LIVENESS_PINGS
  Clicks,      \* what the owner may click
  MaxIncidents,\* bound: stops, failures, follow-ups, and what befalls the provider
  Codex,       \* the agent reports its thread before its turn
  None         \* no question is being asked

ASSUME LimitsAssumption ==
  /\ {StartLimit, IdleLimit, PingLimit, Granted, AskLimit} \subseteq Nat \ {0}
  /\ Granted >= IdleLimit
ASSUME PingsAssumption == MaxPings \in Nat \ {0} /\ MaxIncidents \in Nat
ASSUME QuestionsAssumption == None \notin Questions /\ Codex \in BOOLEAN
ASSUME LinesAssumption ==
  Lines \subseteq {"prose", "fence", "tagged fence", "extend"}
ASSUME ClicksAssumption == Clicks \subseteq {"allow", "always", "deny"}

VARIABLES
  phase,       \* where the loop is
  question,    \* the approval it is blocked on, or None
  quiet,       \* ticks the current timer has run
  window,      \* idle_window
  opened,      \* codex_session_opened
  started,     \* opening_message_read
  tools,       \* running[project] is not empty
  outstanding, \* ping_outstanding
  unanswered,  \* unanswered_pings
  pinged,      \* a ping was handed to the pool, and may yet fail to be sent
  pingFailed,  \* signals.ping_failed
  handled,     \* handled.ping_failed
  stop,        \* signals.cancel, or else injection_failure, or neither
  senders,     \* the run's entry, with its inject sender, is in the registry
  incidents,   \* how many there were
  provider,    \* open, hung (it says nothing any more) or over
  why,         \* how the loop ended
  told,        \* per question: what the provider was told, and why
  waiting,     \* the approvals map: questions with a sender in it
  channel,     \* per question: what its oneshot holds
  choice,      \* per question: what the owner clicked
  resolver,    \* per question: where its resolve_approval is
  rules,       \* the remembered signatures
  fenced,      \* directive_state.fenced
  pings        \* history: pings handed out since the last sign of life

timers == <<quiet, window>>
watch == <<outstanding, unanswered, pinged, pingFailed, handled, pings>>
asks == <<question, told, waiting, channel, choice, resolver, rules>>
turn == <<opened, started, tools, stop, senders, incidents, provider, why>>
vars == <<phase, timers, watch, asks, fenced, turn>>

\* select: the main wait.  shown: run:approval is out and nothing registered.
\* asking: the wait for an answer.  closing: it ended, the entry is still there.
Phases == {"select", "shown", "asking", "closing", "left"}
Ends == {"running", "ended", "stopped", "undelivered", "idle", "cleanup"}
Tellings == {"nothing", "rule", "allow", "deny", "dropped", "expired", "stopped"}

CountTypes ==
  /\ quiet \in Nat /\ pings \in Nat
  /\ unanswered \in 0..MaxPings /\ incidents \in 0..MaxIncidents
LoopTypes ==
  /\ phase \in Phases /\ why \in Ends /\ window \in {StartLimit, IdleLimit, PingLimit, Granted}
  /\ stop \in {"no", "undelivered", "stopped"} /\ provider \in {"open", "hung", "over"}
FlagTypes ==
  /\ opened \in BOOLEAN /\ started \in BOOLEAN /\ tools \in BOOLEAN
  /\ outstanding \in BOOLEAN /\ pinged \in BOOLEAN /\ pingFailed \in BOOLEAN
  /\ handled \in BOOLEAN /\ senders \in BOOLEAN /\ fenced \in BOOLEAN
AskTypes ==
  /\ question \in Questions \cup {None} /\ waiting \subseteq Questions
  /\ told \in [Questions -> Tellings]
  /\ channel \in [Questions -> {"empty", "yes", "no", "dropped"}]
  /\ choice \in [Questions -> Clicks \cup {"none"}]
  /\ resolver \in [Questions -> {"idle", "holding", "stored", "ok", "late", "failed"}]
  /\ rules \subseteq {Similar[q] : q \in Questions}
TypeOK == CountTypes /\ LoopTypes /\ FlagTypes /\ AskTypes

Init ==
  /\ phase = "select" /\ question = None
  /\ quiet = 0 /\ window = StartLimit
  /\ opened = FALSE /\ started = FALSE /\ tools = FALSE
  /\ outstanding = FALSE /\ unanswered = 0 /\ pinged = FALSE
  /\ pingFailed = FALSE /\ handled = FALSE /\ pings = 0
  /\ stop = "no" /\ senders = TRUE
  /\ incidents = 0 /\ provider = "open" /\ why = "running"
  /\ told = [q \in Questions |-> "nothing"]
  /\ waiting = {}
  /\ channel = [q \in Questions |-> "empty"]
  /\ choice = [q \in Questions |-> "none"]
  /\ resolver = [q \in Questions |-> "idle"]
  /\ rules = {}
  /\ fenced = FALSE

------------------------------------------------------------------------------
Leave(reason) == phase' = "left" /\ why' = reason

\* event_proves_turn_started, for an event of the turn or of its setup.
Proves(kind) == Codex => opened /\ kind = "turn"

\* Mutant of Revived: the pings of the last silence still count.
RevivedButCounting(limit) ==
  /\ window' = limit
  /\ outstanding' = FALSE
  /\ UNCHANGED unanswered
  /\ pings' = 0

\* A sign of life: the window is whole again and no ping is owed an answer.
Revived(limit) ==
  /\ window' = limit
  /\ outstanding' = FALSE
  /\ unanswered' = 0
  /\ pings' = 0

\* What the loop does with any event before it looks at which one it is.  limit
\* is the window the event leaves behind.
Heard(kind, limit) ==
  /\ phase = "select"
  /\ provider = "open"
  /\ quiet' = 0
  /\ started' = (started \/ Proves(kind))
  /\ IF started' THEN Revived(limit)
     ELSE UNCHANGED <<window, outstanding, unanswered, pings>>
  /\ UNCHANGED <<pinged, pingFailed, handled, stop, senders, incidents, provider, why>>

\* Event::Started, and the bookkeeping of a thread being opened.
Setup ==
  /\ opened' \in {opened, TRUE}
  /\ Heard("setup", IdleLimit)
  /\ UNCHANGED <<phase, asks, fenced, tools>>

\* Event::ToolCall, and Event::ToolResult: a call that is not matched by its id
\* stays in the map.
ToolCall ==
  /\ Heard("turn", IdleLimit)
  /\ tools' = TRUE
  /\ UNCHANGED <<phase, asks, fenced, opened>>

ToolResult ==
  /\ Heard("turn", IdleLimit)
  /\ tools' \in {tools, FALSE}
  /\ UNCHANGED <<phase, asks, fenced, opened>>

------------------------------------------------------------------------------
\* authored_directive_line: what a line does to the fence it is read in.
Fence(open, line) ==
  IF line = "fence" THEN ~open ELSE open \/ line = "tagged fence"

\* The streamed line is looked at for an extension, and if it is none it is
\* given to apply_directives, which reads the fence off it once more.
ReadTwice(line) ==
  IF line = "extend" /\ ~fenced THEN fenced ELSE Fence(Fence(fenced, line), line)

\* Event::Text with one complete line.  The check for a pong asks for an
\* outstanding ping, which the event itself has just cleared: the line goes on
\* to apply_directives, which refuses it.
Text(line) ==
  /\ Heard("turn", IF line = "extend" /\ ~fenced THEN Granted ELSE IdleLimit)
  /\ fenced' = ReadTwice(line)
  /\ UNCHANGED <<phase, asks, opened, tools>>

------------------------------------------------------------------------------
\* Event::ApprovalRequest.  A remembered signature is answered at once; a
\* run whose permission is Auto answers all of them so.
Ask(q) ==
  /\ told[q] = "nothing"
  /\ Heard("turn", IdleLimit)
  /\ IF Similar[q] \in rules
     THEN /\ told' = [told EXCEPT ![q] = "rule"]
          /\ UNCHANGED <<phase, question>>
     ELSE /\ phase' = "shown"
          /\ question' = q
          /\ UNCHANGED told
  /\ UNCHANGED <<waiting, channel, choice, resolver, rules, fenced, opened, tools>>

\* The sender is registered only after the window was told of the question.
Register ==
  /\ phase = "shown"
  /\ phase' = "asking"
  /\ waiting' = waiting \cup {question}
  /\ quiet' = 0
  /\ UNCHANGED <<window, watch, fenced, turn>>
  /\ UNCHANGED <<question, told, channel, choice, resolver, rules>>

EndAsk(telling) ==
  /\ phase = "asking"
  /\ phase' = "closing"
  /\ told' = [told EXCEPT ![question] = telling]
  /\ UNCHANGED <<question, waiting, channel, choice, resolver, rules>>
  /\ UNCHANGED <<timers, watch, fenced, opened, started, tools, stop, senders>>
  /\ UNCHANGED <<incidents, provider>>

\* answer_rx: a value, or the end of a resolver that failed.
Answered ==
  /\ phase = "asking"
  /\ \/ channel[question] = "yes" /\ EndAsk("allow")
     \/ channel[question] = "no" /\ EndAsk("deny")
     \/ channel[question] = "dropped" /\ EndAsk("dropped")
  /\ UNCHANGED why

\* Mutant of AskExpires: the wait has no deadline.
AskNeverExpires ==
  /\ quiet > AskLimit
  /\ EndAsk("expired")
  /\ UNCHANGED why

AskExpires ==
  /\ quiet = AskLimit
  /\ EndAsk("expired")
  /\ UNCHANGED why

AskStopped ==
  /\ stop # "no"
  /\ EndAsk("stopped")
  /\ why' = stop

\* The entry goes, the provider is answered, and a stop is honoured.
Close ==
  /\ phase = "closing"
  /\ phase' = IF why = "running" THEN "select" ELSE "left"
  /\ waiting' = waiting \ {question}
  /\ question' = None
  /\ quiet' = 0
  /\ UNCHANGED <<window, watch, fenced, turn, told, channel, choice, resolver, rules>>

------------------------------------------------------------------------------
\* resolve_approval takes the sender out of the map.  A click on a question
\* that is not in it is an error and changes nothing.
Click(q, c) ==
  /\ q \in waiting
  /\ waiting' = waiting \ {q}
  /\ choice' = [choice EXCEPT ![q] = c]
  /\ resolver' = [resolver EXCEPT ![q] = "holding"]
  /\ UNCHANGED <<phase, timers, watch, fenced, turn, question, told, channel, rules>>

MustStore(q) == choice[q] = "always" /\ Similar[q] \notin rules

\* The rule is stored before the answer is sent; an insert that fails returns,
\* and the sender goes with it.
Store(q) ==
  /\ resolver[q] = "holding"
  /\ MustStore(q)
  /\ \/ /\ rules' = rules \cup {Similar[q]}
        /\ resolver' = [resolver EXCEPT ![q] = "stored"]
        /\ UNCHANGED channel
     \/ /\ channel' = [channel EXCEPT ![q] = "dropped"]
        /\ resolver' = [resolver EXCEPT ![q] = "failed"]
        /\ UNCHANGED rules
  /\ UNCHANGED <<phase, timers, watch, fenced, turn, question, told, waiting, choice>>

\* Mutant of Send: one queue per project, read by whichever question is asked.
SendToWhoeverAsks(q) ==
  /\ resolver[q] = "stored" \/ (resolver[q] = "holding" /\ ~MustStore(q))
  /\ question # None
  /\ channel' = [channel EXCEPT ![question] = IF choice[q] = "deny" THEN "no" ELSE "yes"]
  /\ resolver' = [resolver EXCEPT ![q] = "ok"]
  /\ UNCHANGED <<phase, timers, watch, fenced, turn>>
  /\ UNCHANGED <<question, told, waiting, choice, rules>>

\* The receiver lives until the handler of its question is done.
Send(q) ==
  /\ resolver[q] = "stored" \/ (resolver[q] = "holding" /\ ~MustStore(q))
  /\ IF question = q
     THEN /\ channel' = [channel EXCEPT ![q] = IF choice[q] = "deny" THEN "no" ELSE "yes"]
          /\ resolver' = [resolver EXCEPT ![q] = "ok"]
     ELSE /\ resolver' = [resolver EXCEPT ![q] = "late"]
          /\ UNCHANGED channel
  /\ UNCHANGED <<phase, timers, watch, fenced, turn>>
  /\ UNCHANGED <<question, told, waiting, choice, rules>>

\* clear_approval_rules.
ClearRules ==
  /\ rules # {}
  /\ rules' = {}
  /\ UNCHANGED <<phase, timers, watch, fenced, turn>>
  /\ UNCHANGED <<question, told, waiting, channel, choice, resolver>>

------------------------------------------------------------------------------
\* should_ping_again.
ShouldPingAgain == tools /\ (~outstanding \/ unanswered < MaxPings)

Silent == phase = "select" /\ quiet = window

\* Wake::Idle: the ping goes to the pool, and the loop waits a ping's window.
Ping ==
  /\ Silent
  /\ started /\ ShouldPingAgain
  /\ pinged' = TRUE
  /\ pings' = pings + 1
  /\ outstanding' = TRUE
  /\ unanswered' = unanswered + 1
  /\ window' = PingLimit
  /\ quiet' = 0
  /\ UNCHANGED <<phase, pingFailed, handled, asks, fenced, turn>>

GiveUp ==
  /\ Silent
  /\ ~(started /\ ShouldPingAgain)
  /\ Leave("idle")
  /\ UNCHANGED <<timers, watch, asks, fenced, opened, started, tools>>
  /\ UNCHANGED <<stop, senders, incidents, provider>>

Incident ==
  /\ phase # "left"
  /\ incidents < MaxIncidents
  /\ incidents' = incidents + 1
  /\ UNCHANGED phase

\* The pool: some control.send of a ping ends in an error, sooner or later.
PingFails ==
  /\ pinged /\ ~pingFailed
  /\ pingFailed' = TRUE
  /\ Incident
  /\ UNCHANGED <<timers, outstanding, unanswered, pinged, handled, pings, asks, fenced>>
  /\ UNCHANGED <<opened, started, tools, stop, senders, provider, why>>

\* signals.changed, its last case: nothing will answer a ping that was not sent.
SeePingFailed ==
  /\ phase = "select"
  /\ pingFailed /\ ~handled /\ stop = "no"
  /\ outstanding' = FALSE
  /\ unanswered' = 0
  /\ handled' = TRUE
  /\ quiet' = 0
  /\ UNCHANGED <<phase, window, pinged, pingFailed, pings, asks, fenced, turn>>

SeeStop ==
  /\ phase = "select"
  /\ stop # "no"
  /\ Leave(stop)
  /\ UNCHANGED <<timers, watch, asks, fenced, opened, started, tools>>
  /\ UNCHANGED <<stop, senders, incidents, provider>>

\* run.recv() returned None.
ReceiveEnd ==
  /\ phase = "select"
  /\ provider = "over"
  /\ Leave("ended")
  /\ UNCHANGED <<timers, watch, asks, fenced, opened, started, tools>>
  /\ UNCHANGED <<stop, senders, incidents, provider>>

\* The stateless task manager's run has a bound of its own, looked at from the
\* top of the loop: for another run, here, it may come at any time.
CleanupExpires ==
  /\ phase = "select"
  /\ Leave("cleanup")
  /\ UNCHANGED <<timers, watch, asks, fenced, opened, started, tools>>
  /\ UNCHANGED <<stop, senders, incidents, provider>>

------------------------------------------------------------------------------
\* A follow-up is taken, in the main wait as activity of a turn under way:
\* send_message hands it over whether or not the turn has begun.
Inject ==
  /\ phase \in {"select", "asking"}
  /\ senders
  /\ Incident
  /\ IF phase = "select" THEN window' = IdleLimit /\ quiet' = 0 ELSE UNCHANGED timers
  /\ UNCHANGED <<watch, asks, fenced, opened, started, tools, stop, senders, provider, why>>

\* External: Cancel::cancel, a failed delivery, and the provider.
Outside ==
  /\ Incident
  /\ \/ stop' = "stopped" /\ UNCHANGED provider
     \/ stop = "no" /\ stop' = "undelivered" /\ UNCHANGED provider
     \/ provider # "over" /\ provider' \in {"hung", "over"} /\ UNCHANGED stop
  /\ UNCHANGED <<timers, watch, asks, fenced, opened, started, tools, senders, why>>

\* External: cancel_run or sync_project takes the run's entry.  Either the stop
\* is thrown, or the daemon confirmed a cancel: its run is over, or says no more.
TakeEntry ==
  /\ senders
  /\ senders' = FALSE
  /\ Incident
  /\ \/ stop' = "stopped" /\ UNCHANGED provider
     \/ provider' \in {"hung", "over"} /\ (provider = "over" => provider' = "over")
        /\ UNCHANGED stop
  /\ UNCHANGED <<timers, watch, asks, fenced, opened, started, tools, why>>

\* Time.  Without a sender recv() returns None at once, and every pass of the
\* loop starts the idle timer again.
Tick ==
  /\ \/ phase = "select" /\ quiet < window
     \/ phase = "asking" /\ quiet < AskLimit
  /\ quiet' = IF phase = "select" /\ ~senders THEN 0 ELSE quiet + 1
  /\ UNCHANGED <<phase, window, watch, asks, fenced, turn>>

Loop ==
  \/ Register \/ Answered \/ AskExpires \/ AskStopped \/ Close
  \/ Ping \/ GiveUp \/ SeePingFailed \/ SeeStop \/ ReceiveEnd

Owner ==
  \/ \E q \in Questions : Store(q) \/ Send(q) \/ \E c \in Clicks : Click(q, c)
  \/ ClearRules

Next ==
  \/ Setup \/ ToolCall \/ ToolResult \/ Inject
  \/ \E line \in Lines : Text(line)
  \/ \E q \in Questions : Ask(q)
  \/ Loop \/ CleanupExpires \/ Owner \/ PingFails \/ Outside \/ TakeEntry \/ Tick

\* Timers run and the loop acts on what it waits for.  The provider need not
\* speak, the owner need not click.
Spec == Init /\ [][Next]_vars /\ WF_vars(Loop) /\ WF_vars(Tick)

------------------------------------------------------------------------------
\* What the provider was told is what the owner said of this very question, or
\* of a similar one with "always".  A denial nobody clicked has its reason.
AnswerIsTheOwners ==
  \A q \in Questions :
    /\ told[q] = "rule" =>
         \E p \in Questions : Similar[p] = Similar[q] /\ choice[p] = "always"
    /\ told[q] = "allow" => choice[q] \in {"allow", "always"}
    /\ told[q] = "deny" => choice[q] = "deny"
    /\ told[q] = "dropped" => resolver[q] = "failed"

\* A turn with a tool in flight is not given up before it has left MaxPings
\* pings unanswered in one and the same silence.
GiveUpOnlyWedged == why = "idle" /\ started /\ tools => pings >= MaxPings

\* A provider that hangs is given up, through pings and approvals alike.  The
\* exception is a loop whose entry went with a confirmed cancel and whose
\* provider then does not end: its idle timer never runs out.
SilenceEndsRun == provider = "hung" ~> (phase = "left" \/ (~senders /\ stop = "no"))
==============================================================================
