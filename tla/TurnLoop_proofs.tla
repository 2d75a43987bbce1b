--------------------------- MODULE TurnLoop_proofs ---------------------------
(***************************************************************************)
(* For any questions, windows and number of pings: the provider is told of *)
(* a question what the owner said of it (AnswerIsTheOwners), and a turn    *)
(* with a tool in flight is given up only after as many unanswered pings   *)
(* in one silence as the code allows (GiveUpOnlyWedged).                   *)
(***************************************************************************)
EXTENDS TurnLoop, TLAPS

\* The steps that hear an event of the provider ...
Hears ==
  \/ Setup \/ ToolCall \/ ToolResult \/ (\E line \in Lines : Text(line))
  \/ \E q \in Questions : Ask(q)
\* ... that leave the loop, that end the wait for an answer, ...
Leaves == GiveUp \/ SeeStop \/ ReceiveEnd \/ CleanupExpires
AskEnds == Answered \/ AskExpires \/ AskStopped
\* ... and those of the owner and of the world.
OwnerSteps(q) == Store(q) \/ Send(q) \/ \E c \in Clicks : Click(q, c)
Befalls == PingFails \/ Inject \/ Outside \/ TakeEntry

\* What an event does to the watch, whichever it is.
LEMMA HeardEffect ==
  ASSUME TypeOK, Hears
  PROVE  /\ phase = "select" /\ phase' \in Phases
         /\ quiet' = 0
         /\ window' \in {window, IdleLimit, Granted}
         /\ \/ unanswered' = 0 /\ pings' = 0 /\ started' /\ outstanding' = FALSE
            \/ UNCHANGED <<unanswered, pings, outstanding>> /\ started' = FALSE
         /\ UNCHANGED <<pinged, pingFailed, handled, stop, senders, incidents, provider, why>>
         /\ UNCHANGED <<waiting, channel, choice, resolver, rules>>
<1>1. ASSUME NEW kind, NEW limit \in {IdleLimit, Granted}, Heard(kind, limit)
      PROVE  /\ phase = "select" /\ quiet' = 0 /\ window' \in {window, IdleLimit, Granted}
             /\ \/ unanswered' = 0 /\ pings' = 0 /\ started' /\ outstanding' = FALSE
                \/ UNCHANGED <<unanswered, pings, outstanding>> /\ started' = FALSE
             /\ UNCHANGED <<pinged, pingFailed, handled, stop, senders, incidents, provider, why>>
  BY <1>1 DEF Heard, Revived
<1>2. ASSUME NEW line, Text(line)
      PROVE  \E limit \in {IdleLimit, Granted} : Heard("turn", limit)
  BY <1>2 DEF Text
<1>3. \E kind : \E limit \in {IdleLimit, Granted} : Heard(kind, limit)
  BY <1>2 DEF Hears, Setup, ToolCall, ToolResult, Ask
<1>4. phase' \in Phases /\ UNCHANGED <<waiting, channel, choice, resolver, rules>>
  <2>1. CASE Setup \/ ToolCall \/ ToolResult \/ \E line \in Lines : Text(line)
    BY <2>1 DEF Setup, ToolCall, ToolResult, Text, asks, TypeOK, LoopTypes
  <2>2. ASSUME NEW q \in Questions, Ask(q)
        PROVE  phase' \in Phases /\ UNCHANGED <<waiting, channel, choice, resolver, rules>>
    BY <2>2 DEF Ask, TypeOK, LoopTypes, Phases
  <2>3. QED
    BY <2>1, <2>2 DEF Hears
<1>5. QED
  BY <1>1, <1>3, <1>4

------------------------------------------------------------------------------
\* A ping that is owed no answer has been forgotten: without this the counter
\* could pass MaxPings.
Owed == ~outstanding => unanswered = 0

\* The clock and the counters keep their types.
LEMMA CountTypesStep == TypeOK /\ Owed /\ [Next]_vars => CountTypes' /\ Owed'
<1> SUFFICES ASSUME TypeOK, Owed, [Next]_vars PROVE CountTypes' /\ Owed'
  OBVIOUS
<1> USE PingsAssumption DEF CountTypes, Owed
<1>0. CountTypes
  BY DEF TypeOK
<1>1. CASE Hears
  <2>1. quiet' = 0 /\ incidents' = incidents /\ pings' \in {pings, 0}
        /\ (unanswered' = 0 \/ UNCHANGED <<unanswered, outstanding>>)
    BY <1>1, HeardEffect
  <2>2. QED
    BY <1>0, <2>1
<1>2. CASE Register \/ Close \/ SeePingFailed
  <2>1. quiet' = 0 /\ UNCHANGED <<pings, incidents>>
        /\ (unanswered' = 0 \/ UNCHANGED <<unanswered, outstanding>>)
    BY <1>2 DEF Register, Close, SeePingFailed, watch, turn
  <2>2. QED
    BY <1>0, <2>1
<1>3. CASE AskEnds \/ Leaves \/ UNCHANGED vars \/ ClearRules
  <2>1. UNCHANGED <<quiet, unanswered, pings, incidents, outstanding>>
    BY <1>3 DEF AskEnds, Answered, AskExpires, AskStopped, EndAsk, Leaves, GiveUp, SeeStop,
       ReceiveEnd, CleanupExpires, ClearRules, vars, timers, watch, turn
  <2>2. QED
    BY <1>0, <2>1
<1>4. CASE Ping
  <2>1. /\ unanswered' = unanswered + 1 /\ pings' = pings + 1 /\ quiet' = 0
        /\ incidents' = incidents /\ outstanding'
    BY <1>4 DEF Ping, turn
  <2>2. ShouldPingAgain
    BY <1>4 DEF Ping
  <2>3. unanswered < MaxPings
    BY <1>0, <2>2 DEF ShouldPingAgain
  <2>4. QED
    BY <1>0, <2>1, <2>3
<1>5. CASE Befalls
  <2>1. incidents < MaxIncidents /\ incidents' = incidents + 1 /\ quiet' \in {quiet, 0}
        /\ UNCHANGED <<unanswered, pings, outstanding>>
    BY <1>5 DEF Befalls, PingFails, Inject, Outside, TakeEntry, Incident, timers, watch
  <2>2. QED
    BY <1>0, <2>1
<1>6. CASE Tick
  <2>1. quiet' \in {quiet + 1, 0} /\ UNCHANGED <<unanswered, pings, incidents, outstanding>>
    BY <1>6 DEF Tick, watch, turn
  <2>2. QED
    BY <1>0, <2>1
<1>7. ASSUME NEW q \in Questions, OwnerSteps(q) PROVE CountTypes' /\ Owed'
  <2>1. UNCHANGED <<quiet, unanswered, pings, incidents, outstanding>>
    BY <1>7 DEF OwnerSteps, Store, Send, Click, timers, watch, turn
  <2>2. QED
    BY <1>0, <2>1
<1>8. QED
  BY <1>1, <1>2, <1>3, <1>4, <1>5, <1>6, <1>7
  DEF Next, Loop, Owner, Hears, Leaves, AskEnds, Befalls, OwnerSteps

\* Phases, windows and the outcome keep their types.
LEMMA LoopTypesStep == TypeOK /\ [Next]_vars => LoopTypes'
<1> SUFFICES ASSUME TypeOK, [Next]_vars PROVE LoopTypes'
  OBVIOUS
<1> USE DEF LoopTypes, Phases, Ends
<1>0. LoopTypes
  BY DEF TypeOK
<1>1. CASE Hears
  BY <1>0, <1>1, HeardEffect
<1>2. CASE Register \/ Close
  BY <1>0, <1>2 DEF Register, Close, watch, turn
<1>3. CASE AskEnds
  <2>1. why' \in Ends
    BY <1>0, <1>3 DEF AskEnds, Answered, AskExpires, AskStopped
  <2>2. QED
    BY <1>0, <1>3, <2>1 DEF AskEnds, Answered, AskExpires, AskStopped, EndAsk, timers, watch
<1>4. CASE Ping
  BY <1>0, <1>0, <1>4 DEF Ping, turn
<1>5. CASE Leaves
  BY <1>0, <1>5 DEF Leaves, GiveUp, SeeStop, ReceiveEnd, CleanupExpires, Leave, timers, watch, asks
<1>6. CASE SeePingFailed
  BY <1>0, <1>6 DEF SeePingFailed, turn
<1>7. CASE Befalls
  <2>1. UNCHANGED <<phase, why>> /\ window' \in {window, IdleLimit}
    BY <1>7 DEF Befalls, PingFails, Inject, Outside, TakeEntry, Incident, timers
  <2>2. stop' \in {stop, "stopped", "undelivered"} /\ provider' \in {provider, "hung", "over"}
    BY <1>7 DEF Befalls, PingFails, Inject, Outside, TakeEntry
  <2>3. QED
    BY <1>0, <2>1, <2>2
<1>8. CASE Tick
  BY <1>0, <1>8 DEF Tick, turn
<1>9. ASSUME NEW q \in Questions, OwnerSteps(q) PROVE LoopTypes'
  <2>1. UNCHANGED <<phase, timers, fenced, turn>>
    BY <1>9 DEF OwnerSteps, Store, Send, Click
  <2>2. QED
    BY <1>0, <2>1 DEF timers, turn
<1>10. CASE UNCHANGED vars \/ ClearRules
  BY <1>0, <1>10 DEF vars, ClearRules, timers, watch, turn
<1>11. QED
  BY <1>1, <1>2, <1>3, <1>4, <1>5, <1>6, <1>7, <1>8, <1>9, <1>10
  DEF Next, Loop, Owner, Hears, Leaves, AskEnds, Befalls, OwnerSteps

\* The fence of a line is open or closed.
LEMMA FenceType == ASSUME NEW open \in BOOLEAN, NEW line PROVE Fence(open, line) \in BOOLEAN
<1>1. CASE line = "fence"
  BY <1>1 DEF Fence
<1>2. CASE line # "fence"
  BY <1>2 DEF Fence
<1>3. QED
  BY <1>1, <1>2

\* The flags stay flags.
LEMMA FlagTypesStep == TypeOK /\ [Next]_vars => FlagTypes'
<1> SUFFICES ASSUME TypeOK, [Next]_vars PROVE FlagTypes'
  OBVIOUS
<1> USE DEF FlagTypes
<1>0. FlagTypes
  BY DEF TypeOK
<1>1. CASE Hears
  <2>1. outstanding' \in BOOLEAN /\ started' \in BOOLEAN
        /\ UNCHANGED <<pinged, pingFailed, handled, senders>>
    BY <1>0, <1>1, HeardEffect
  <2>2. opened' \in BOOLEAN /\ tools' \in BOOLEAN
    BY <1>0, <1>1 DEF Hears, Setup, ToolCall, ToolResult, Text, Ask
  <2>3. fenced' \in BOOLEAN
    <3>1. ASSUME NEW line \in Lines, Text(line) PROVE fenced' \in BOOLEAN
      <4>1. fenced' \in {fenced, Fence(Fence(fenced, line), line)}
        BY <3>1 DEF Text, ReadTwice
      <4>2. QED
        BY <1>0, <4>1, FenceType
    <3>2. QED
      BY <1>0, <1>1, <3>1 DEF Hears, Setup, ToolCall, ToolResult, Ask
  <2>4. QED
    BY <1>0, <2>1, <2>2, <2>3
<1>2. CASE Register \/ Close
  BY <1>0, <1>2 DEF Register, Close, watch, turn
<1>3. CASE AskEnds
  BY <1>0, <1>3 DEF AskEnds, Answered, AskExpires, AskStopped, EndAsk, timers, watch
<1>4. CASE Ping \/ SeePingFailed
  BY <1>0, <1>4 DEF Ping, SeePingFailed, turn
<1>5. CASE Leaves
  BY <1>0, <1>5 DEF Leaves, GiveUp, SeeStop, ReceiveEnd, CleanupExpires, Leave, watch
<1>6. CASE Befalls
  BY <1>0, <1>6 DEF Befalls, PingFails, Inject, Outside, TakeEntry, Incident, timers, watch
<1>7. CASE Tick
  BY <1>0, <1>7 DEF Tick, watch, turn
<1>8. ASSUME NEW q \in Questions, OwnerSteps(q) PROVE FlagTypes'
  BY <1>0, <1>8 DEF OwnerSteps, Store, Send, Click, watch, turn
<1>9. CASE UNCHANGED vars \/ ClearRules
  BY <1>0, <1>9 DEF vars, ClearRules, watch, turn
<1>10. QED
  BY <1>1, <1>2, <1>3, <1>4, <1>5, <1>6, <1>7, <1>8, <1>9
  DEF Next, Loop, Owner, Hears, Leaves, AskEnds, Befalls, OwnerSteps

\* The loop is blocked on a question in these phases and in no other.
Blocked ==
  IF phase \in {"shown", "asking", "closing"} THEN question \in Questions ELSE question = None

\* Every step keeps that.
LEMMA BlockedStep == TypeOK /\ Blocked /\ [Next]_vars => Blocked'
<1> SUFFICES ASSUME TypeOK, Blocked, [Next]_vars PROVE Blocked'
  OBVIOUS
<1> USE DEF Blocked
<1>1. CASE UNCHANGED <<phase, question>>
  BY <1>1
<1>2. ASSUME NEW q \in Questions, Ask(q) PROVE Blocked'
  <2>1. phase = "select"
    BY <1>2 DEF Ask, Heard
  <2>2. QED
    BY <1>2, <2>1 DEF Ask
<1>3. CASE Register \/ Close
  BY <1>3 DEF Register, Close
<1>4. CASE AskEnds
  BY <1>4 DEF AskEnds, Answered, AskExpires, AskStopped, EndAsk
<1>5. CASE Leaves
  BY <1>5 DEF Leaves, GiveUp, SeeStop, ReceiveEnd, CleanupExpires, Silent, Leave, asks
<1>6. CASE ClearRules \/ Ping \/ SeePingFailed \/ Befalls \/ Tick \/ UNCHANGED vars
  BY <1>1, <1>6 DEF ClearRules, Ping, SeePingFailed, Befalls, PingFails, Inject, Outside,
     TakeEntry, Incident, Tick, vars, asks
<1>7. CASE Setup \/ ToolCall \/ ToolResult \/ \E line \in Lines : Text(line)
  BY <1>1, <1>7 DEF Setup, ToolCall, ToolResult, Text, asks
<1>8. ASSUME NEW q \in Questions, OwnerSteps(q) PROVE Blocked'
  BY <1>1, <1>8 DEF OwnerSteps, Store, Send, Click
<1>9. QED
  BY <1>2, <1>3, <1>4, <1>5, <1>6, <1>7, <1>8
  DEF Next, Loop, Owner, Leaves, AskEnds, Befalls, OwnerSteps

\* Questions and answers keep their types.
LEMMA AskTypesStep == TypeOK /\ Blocked /\ [Next]_vars => AskTypes'
<1> SUFFICES ASSUME TypeOK, Blocked, [Next]_vars PROVE AskTypes'
  OBVIOUS
<1> USE DEF AskTypes, Tellings
<1>0. AskTypes
  BY DEF TypeOK
<1>1. CASE UNCHANGED asks
  BY <1>0, <1>1 DEF asks
<1>2. ASSUME NEW q \in Questions, Ask(q) PROVE AskTypes'
  <2>1. told' \in [Questions -> Tellings] /\ question' \in Questions \cup {None}
    <3>1. CASE Similar[q] \in rules
      BY <1>0, <1>2, <3>1 DEF Ask
    <3>2. CASE Similar[q] \notin rules
      BY <1>0, <1>2, <3>2 DEF Ask
    <3>3. QED
      BY <3>1, <3>2
  <2>2. QED
    BY <1>0, <1>2, <2>1 DEF Ask
<1>3. CASE Register \/ Close
  BY <1>0, <1>3 DEF Blocked, Register, Close
<1>4. CASE AskEnds
  BY <1>0, <1>4 DEF AskEnds, Answered, AskExpires, AskStopped, EndAsk
<1>5. ASSUME NEW q \in Questions, OwnerSteps(q) PROVE AskTypes'
  BY <1>0, <1>5 DEF OwnerSteps, Store, Send, Click
<1>6. CASE ClearRules
  BY <1>0, <1>6 DEF ClearRules
<1>7. CASE Setup \/ ToolCall \/ ToolResult \/ \E line \in Lines : Text(line)
  BY <1>1, <1>7 DEF Setup, ToolCall, ToolResult, Text
<1>8. CASE Leaves \/ Ping \/ SeePingFailed \/ Befalls \/ Tick \/ UNCHANGED vars
  BY <1>1, <1>8 DEF Leaves, GiveUp, SeeStop, ReceiveEnd, CleanupExpires, Ping, SeePingFailed,
     Befalls, PingFails, Inject, Outside, TakeEntry, Tick, vars
<1>9. QED
  BY <1>2, <1>3, <1>4, <1>5, <1>6, <1>7, <1>8
  DEF Next, Loop, Owner, Leaves, AskEnds, Befalls, OwnerSteps

\* The types, and what they lack to be inductive.
TypeInv == TypeOK /\ Owed /\ Blocked

\* Every step keeps the variables of TurnLoop in their types.
LEMMA TypeStep == TypeInv /\ [Next]_vars => TypeInv'
  BY CountTypesStep, LoopTypesStep, FlagTypesStep, BlockedStep, AskTypesStep DEF TypeInv, TypeOK

\* The loop starts with everything in its type.
LEMMA TypeInit == Init => TypeInv
<1> SUFFICES ASSUME Init PROVE TypeInv
  OBVIOUS
<1>1. CountTypes /\ Owed
  BY PingsAssumption DEF Init, CountTypes, Owed
<1>2. LoopTypes /\ Blocked
  BY DEF Init, LoopTypes, Phases, Ends, Blocked
<1>3. FlagTypes
  BY DEF Init, FlagTypes
<1>4. AskTypes
  BY DEF Init, AskTypes, Tellings
<1>5. QED
  BY <1>1, <1>2, <1>3, <1>4 DEF TypeInv, TypeOK

\* The variables of TurnLoop keep their types, for any limits.
THEOREM TypeCorrect == Spec => []TypeOK
<1>1. TypeInv => TypeOK
  BY DEF TypeInv
<1>2. QED
  BY <1>1, TypeInit, TypeStep, PTL DEF Spec

------------------------------------------------------------------------------
\* The counter of the loop never runs ahead of the pings of this silence, and
\* whoever gave up has left: what GiveUpOnlyWedged lacks to be inductive.
Counted ==
  /\ unanswered <= pings
  /\ why = "idle" => phase = "left"
  /\ GiveUpOnlyWedged

\* Every step keeps the count.
LEMMA CountedStep == TypeInv /\ Counted /\ [Next]_vars => Counted'
<1> SUFFICES ASSUME TypeInv, Counted, [Next]_vars PROVE Counted'
  OBVIOUS
<1> USE DEF Counted, GiveUpOnlyWedged
<1>0. unanswered \in Nat /\ pings \in Nat /\ MaxPings \in Nat /\ unanswered <= MaxPings
  BY PingsAssumption DEF TypeInv, TypeOK, CountTypes
<1>1. CASE Hears
  <2>1. why # "idle" /\ why' = why
    BY <1>1, HeardEffect DEF TypeInv
  <2>2. (unanswered' = 0 /\ pings' = 0) \/ UNCHANGED <<unanswered, pings>>
    BY <1>1, HeardEffect DEF TypeInv
  <2>3. QED
    BY <1>0, <2>1, <2>2
<1>2. CASE Register \/ Close
  BY <1>2 DEF Register, Close, watch, turn
<1>3. CASE AskEnds
  <2>1. phase = "asking" /\ phase' = "closing" /\ UNCHANGED <<unanswered, pings>>
    BY <1>3 DEF AskEnds, Answered, AskExpires, AskStopped, EndAsk, watch
  <2>2. stop # "idle"
    BY DEF TypeInv, TypeOK, LoopTypes
  <2>3. why' # "idle"
    BY <1>3, <2>1, <2>2 DEF AskEnds, Answered, AskExpires, AskStopped
  <2>4. QED
    BY <2>1, <2>3
<1>4. CASE Ping
  <2>1. unanswered' = unanswered + 1 /\ pings' = pings + 1 /\ phase = "select"
        /\ UNCHANGED <<phase, why>>
    BY <1>4 DEF Ping, Silent, turn
  <2>2. QED
    BY <1>0, <2>1
<1>5. CASE SeePingFailed
  <2>1. unanswered' = 0 /\ pings' = pings /\ UNCHANGED <<phase, why, started, tools>>
    BY <1>5 DEF SeePingFailed, turn
  <2>2. QED
    BY <1>0, <2>1
<1>6. CASE GiveUp
  <2>1. phase' = "left" /\ UNCHANGED <<unanswered, pings, started, tools>>
    BY <1>6 DEF GiveUp, Leave, watch
  <2>2. ~(started /\ tools /\ (~outstanding \/ unanswered < MaxPings))
    BY <1>6 DEF GiveUp, ShouldPingAgain
  <2>3. started /\ tools => pings >= MaxPings
    BY <1>0, <2>2
  <2>4. QED
    BY <2>1, <2>3
<1>7. CASE SeeStop \/ ReceiveEnd \/ CleanupExpires
  <2>1. phase' = "left" /\ why' \in {stop, "ended", "cleanup"} /\ UNCHANGED <<unanswered, pings>>
    BY <1>7 DEF SeeStop, ReceiveEnd, CleanupExpires, Leave, watch
  <2>2. stop # "idle"
    BY DEF TypeInv, TypeOK, LoopTypes
  <2>3. QED
    BY <2>1, <2>2
<1>8. CASE UNCHANGED <<unanswered, pings, phase, why, started, tools>>
  BY <1>8
<1>9. CASE Befalls \/ Tick \/ UNCHANGED vars \/ ClearRules
  BY <1>8, <1>9 DEF Befalls, PingFails, Inject, Outside, TakeEntry, Incident, Tick, ClearRules,
     vars, watch, turn
<1>10. ASSUME NEW q \in Questions, OwnerSteps(q) PROVE Counted'
  BY <1>8, <1>10 DEF OwnerSteps, Store, Send, Click, watch, turn
<1>11. QED
  BY <1>1, <1>2, <1>3, <1>4, <1>5, <1>6, <1>7, <1>9, <1>10
  DEF Next, Loop, Owner, Hears, AskEnds, Befalls, OwnerSteps

\* GiveUpOnlyWedged, for any number of pings: every silence starts its count
\* afresh, and a turn with a tool in flight is not given up in mid-count.
THEOREM GiveUpOnlyWedgedHolds == Spec => []GiveUpOnlyWedged
<1>1. ASSUME Init PROVE Counted
  BY <1>1 DEF Init, Counted, GiveUpOnlyWedged
<1>2. Counted => GiveUpOnlyWedged
  BY DEF Counted
<1>3. QED
  BY <1>1, <1>2, TypeInit, TypeStep, CountedStep, PTL DEF Spec

------------------------------------------------------------------------------
\* Only the question the loop is blocked on is in the map, a question is in it at
\* most once, and what its resolver and its channel hold follows from the click.
Asked ==
  /\ waiting \subseteq {question}
  /\ phase = "shown" => waiting = {} /\ choice[question] = "none"
  /\ phase = "closing" => told[question] # "nothing"
  /\ \A q \in Questions :
       /\ q \in waiting \/ (told[q] = "nothing" /\ q # question) => choice[q] = "none"
       /\ choice[q] = "none" => resolver[q] = "idle"
       /\ channel[q] = "yes" => choice[q] \in {"allow", "always"}
       /\ channel[q] = "no" => choice[q] = "deny"
       /\ channel[q] = "dropped" => resolver[q] = "failed"
  /\ \A r \in rules : \E q \in Questions : Similar[q] = r /\ choice[q] = "always"
  /\ AnswerIsTheOwners

\* Every step keeps questions and answers together.
LEMMA AskedStep == TypeInv /\ Asked /\ [Next]_vars => Asked'
<1> SUFFICES ASSUME TypeInv, Asked, [Next]_vars PROVE Asked'
  OBVIOUS
<1> USE DEF Asked, AnswerIsTheOwners
<1>0. AskTypes /\ Blocked
  BY DEF TypeInv, TypeOK
<1>1. CASE UNCHANGED <<asks, phase>>
  BY <1>1 DEF asks
<1>2. ASSUME NEW q \in Questions, Ask(q) PROVE Asked'
  <2>1. /\ phase = "select" /\ told[q] = "nothing" /\ question = None
        /\ UNCHANGED <<waiting, channel, choice, resolver, rules>>
    BY <1>0, <1>2 DEF Ask, Heard, Blocked
  <2>2. waiting = {} /\ choice[q] = "none"
    BY <1>0, <2>1, QuestionsAssumption DEF AskTypes
  <2>3. CASE Similar[q] \in rules
    <3>1. told' = [told EXCEPT ![q] = "rule"] /\ UNCHANGED <<phase, question>>
      BY <1>2, <2>3 DEF Ask
    <3>2. \E p \in Questions : Similar[p] = Similar[q] /\ choice[p] = "always"
      BY <2>3
    <3>3. QED
      BY <1>0, <2>1, <2>2, <3>1, <3>2 DEF AskTypes
  <2>4. CASE Similar[q] \notin rules
    <3>1. phase' = "shown" /\ question' = q /\ told' = told
      BY <1>2, <2>4 DEF Ask
    <3>2. QED
      BY <2>1, <2>2, <3>1, QuestionsAssumption
  <2>5. QED
    BY <2>3, <2>4
<1>3. CASE Register
  BY <1>0, <1>3 DEF Register, Blocked
<1>4. ASSUME NEW telling \in Tellings, EndAsk(telling),
             telling = "allow" => channel[question] = "yes",
             telling = "deny" => channel[question] = "no",
             telling = "dropped" => channel[question] = "dropped",
             telling # "rule", telling # "nothing"
      PROVE  Asked'
  <2>1. /\ phase = "asking" /\ phase' = "closing" /\ told' = [told EXCEPT ![question] = telling]
        /\ UNCHANGED <<question, waiting, channel, choice, resolver, rules>>
    BY <1>4 DEF EndAsk
  <2>2. question \in Questions
    BY <1>0, <2>1 DEF Blocked
  <2>3. told'[question] = telling /\ \A q \in Questions : q # question => told'[q] = told[q]
    BY <1>0, <2>1, <2>2 DEF AskTypes
  <2>4. AnswerIsTheOwners'
    BY <1>4, <2>1, <2>2, <2>3
  <2>5. \A q \in Questions : q \in waiting' \/ (told'[q] = "nothing" /\ q # question') => choice'[q] = "none"
    BY <2>1, <2>3
  <2>6. phase' = "closing" => told'[question'] # "nothing"
    BY <1>4, <2>1, <2>3
  <2>7. QED
    BY <2>1, <2>4, <2>5, <2>6
<1>5. CASE AskEnds
  <2>1. stop \in Tellings \/ stop = "no" \/ stop = "undelivered"
    BY DEF TypeInv, TypeOK, LoopTypes, Tellings
  <2>2. QED
    BY <1>4, <1>5 DEF AskEnds, Answered, AskExpires, AskStopped, Tellings
<1>6. CASE Close
  <2>1. /\ question \in Questions /\ question' = None /\ waiting' = {}
        /\ phase = "closing" /\ phase' \in {"select", "left"}
        /\ UNCHANGED <<told, channel, choice, resolver, rules>>
    BY <1>0, <1>6 DEF Close, Blocked
  <2>2. QED
    BY <2>1
<1>7. CASE Leaves
  BY <1>7 DEF Leaves, GiveUp, SeeStop, ReceiveEnd, CleanupExpires, Leave, asks
<1>8. CASE Ping \/ SeePingFailed \/ Befalls \/ Tick \/ UNCHANGED vars
  BY <1>1, <1>8 DEF Ping, SeePingFailed, Befalls, PingFails, Inject, Outside, TakeEntry,
     Incident, Tick, vars
<1>9. CASE Setup \/ ToolCall \/ ToolResult \/ \E line \in Lines : Text(line)
  BY <1>1, <1>9 DEF Setup, ToolCall, ToolResult, Text
<1>10. CASE ClearRules
  BY <1>10 DEF ClearRules
<1>11. ASSUME NEW q \in Questions, NEW c \in Clicks, Click(q, c) PROVE Asked'
  <2>1. /\ q \in waiting /\ waiting' = waiting \ {q} /\ choice' = [choice EXCEPT ![q] = c]
        /\ resolver' = [resolver EXCEPT ![q] = "holding"]
        /\ UNCHANGED <<phase, question, told, channel, rules>>
    BY <1>11 DEF Click
  <2>2. choice[q] = "none" /\ resolver[q] = "idle" /\ q = question /\ phase # "shown" /\ c # "none"
    BY <2>1, ClicksAssumption
  <2>3. \A p \in Questions : p # q => choice'[p] = choice[p] /\ resolver'[p] = resolver[p]
    BY <1>0, <2>1 DEF AskTypes
  <2>4. choice'[q] = c /\ resolver'[q] = "holding"
    BY <1>0, <2>1 DEF AskTypes
  <2>5. \A p \in Questions : choice[p] # "none" => choice'[p] = choice[p] /\ resolver'[p] = resolver[p]
    BY <2>2, <2>3
  <2>6. \A r \in rules' : \E p \in Questions : Similar[p] = r /\ choice'[p] = "always"
    BY <2>1, <2>5
  <2>7. AnswerIsTheOwners'
    <3>1. \A p \in Questions : resolver[p] = "failed" => resolver'[p] = "failed"
      BY <2>2, <2>3
    <3>2. QED
      BY <2>1, <2>2, <2>5, <3>1
  <2>8. QED
    BY <2>1, <2>2, <2>3, <2>4, <2>6, <2>7
<1>12. ASSUME NEW q \in Questions, Store(q) PROVE Asked'
  <2>1. resolver[q] = "holding" /\ choice[q] = "always"
        /\ UNCHANGED <<phase, question, told, waiting, choice>>
    BY <1>12 DEF Store, MustStore
  <2>2. CASE rules' = rules \cup {Similar[q]} /\ resolver' = [resolver EXCEPT ![q] = "stored"]
             /\ UNCHANGED channel
    BY <1>0, <2>1, <2>2 DEF AskTypes
  <2>3. CASE channel' = [channel EXCEPT ![q] = "dropped"]
             /\ resolver' = [resolver EXCEPT ![q] = "failed"] /\ UNCHANGED rules
    BY <1>0, <2>1, <2>3 DEF AskTypes
  <2>4. QED
    BY <1>12, <2>2, <2>3 DEF Store
<1>13. ASSUME NEW q \in Questions, Send(q) PROVE Asked'
  <2>1. resolver[q] \in {"holding", "stored"} /\ UNCHANGED <<phase, question, told, waiting, choice, rules>>
    BY <1>13 DEF Send
  <2>2. choice[q] # "none" /\ choice[q] \in {"allow", "always", "deny"}
    <3>1. choice[q] # "none"
      BY <2>1
    <3>2. choice[q] \in Clicks \cup {"none"}
      BY <1>0 DEF AskTypes
    <3>3. QED
      BY <3>1, <3>2, ClicksAssumption
  <2>3. channel' \in {channel, [channel EXCEPT ![q] = IF choice[q] = "deny" THEN "no" ELSE "yes"]}
        /\ \E at \in {"ok", "late"} : resolver' = [resolver EXCEPT ![q] = at]
    BY <1>13 DEF Send
  <2>4. /\ \A p \in Questions : p # q => channel'[p] = channel[p] /\ resolver'[p] = resolver[p]
        /\ channel'[q] \in {channel[q], IF choice[q] = "deny" THEN "no" ELSE "yes"}
        /\ resolver'[q] \in {"ok", "late"} /\ channel[q] # "dropped"
    BY <1>0, <2>1, <2>3 DEF AskTypes
  <2>5. AnswerIsTheOwners'
    <3>1. \A p \in Questions : resolver[p] = "failed" => resolver'[p] = "failed"
      BY <2>1, <2>4
    <3>2. QED
      BY <2>1, <3>1
  <2>6. QED
    BY <2>1, <2>2, <2>4, <2>5
<1>14. QED
  BY <1>2, <1>3, <1>5, <1>6, <1>7, <1>8, <1>9, <1>10, <1>11, <1>12, <1>13
  DEF Next, Loop, Owner, Leaves, AskEnds, Befalls

\* AnswerIsTheOwners, for any questions and clicks: no answer reaches another
\* question, and none that nobody gave reaches the provider without its reason.
THEOREM AnswerIsTheOwnersHolds == Spec => []AnswerIsTheOwners
<1>1. ASSUME Init PROVE Asked
  BY <1>1 DEF Init, Asked, AnswerIsTheOwners
<1>2. Asked => AnswerIsTheOwners
  BY DEF Asked
<1>3. QED
  BY <1>1, <1>2, TypeInit, TypeStep, AskedStep, PTL DEF Spec
==============================================================================
