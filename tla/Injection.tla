------------------------------ MODULE Injection ------------------------------
(***************************************************************************)
(* Mid-turn messages of one run (apps/gui/src/projects.rs): send_message   *)
(* hands the words to the run's inject channel, drive_run's loops accept   *)
(* them into a second channel, and a worker delivers them to the provider  *)
(* one by one.  The tail of drive_run closes both channels and waits for   *)
(* the worker before the run slot is released.                             *)
(***************************************************************************)
EXTENDS Naturals, Sequences, FiniteSets

CONSTANTS Messages,  \* follow-ups typed while the run owns the slot
          None       \* the worker is idle

ASSUME NoneAssumption == None \notin Messages

VARIABLES
  call,        \* per message: idle, routed (send_message holds a sender), done
  sent,        \* the messages inject.send accepted, in that order
  inbox,       \* the channel of inject_tx and inject_rx
  outbox,      \* the channel of injection_delivery_tx
  worker,      \* the message the delivery worker is awaiting, or None
  loop,        \* where drive_run is
  entry,       \* the run's ActiveRun is in the registry
  stop,        \* signals.cancel
  failure,     \* signals.injection_failure
  provider,    \* the provider's turn is still open
  read,        \* what the provider accepted, in that order
  handedBack,  \* run:inject_failed was emitted for these
  dropped      \* history: in the inject channel when its receiver was dropped

inputs == <<call, sent, inbox, dropped>>
delivery == <<outbox, worker, read, handedBack>>
facts == <<stop, failure, provider>>
vars == <<inputs, delivery, facts, loop, entry>>

\* starting: before proxy.start.  live, asking: the main loop and the wait for
\* an approval.  left: out of the loop.  closed: both channels closed.
\* settled: the worker has ended.  released: the reservation is dropped.
Loops == {"starting", "live", "asking", "left", "closed", "settled", "released"}

Elements(s) == {s[i] : i \in 1..Len(s)}

TypeOK ==
  /\ call \in [Messages -> {"idle", "routed", "done"}]
  /\ sent \in Seq(Messages)
  /\ inbox \in Seq(Messages)
  /\ outbox \in Seq(Messages)
  /\ worker \in Messages \cup {None}
  /\ loop \in Loops
  /\ entry \in BOOLEAN
  /\ stop \in BOOLEAN
  /\ failure \in BOOLEAN
  /\ provider \in BOOLEAN
  /\ read \in Seq(Messages)
  /\ handedBack \in SUBSET Messages
  /\ dropped \in SUBSET Messages

Init ==
  /\ call = [m \in Messages |-> "idle"]
  /\ sent = <<>>
  /\ inbox = <<>>
  /\ outbox = <<>>
  /\ worker = None
  /\ loop = "starting"
  /\ entry = TRUE
  /\ stop = FALSE
  /\ failure = FALSE
  /\ provider = TRUE
  /\ read = <<>>
  /\ handedBack = {}
  /\ dropped = {}

Open == loop \in {"starting", "live", "asking", "left"}

------------------------------------------------------------------------------
\* send_message, the Inject route: the sender is cloned under the registry's
\* lock, the row is stored, and only then are the words sent.
Route(m) ==
  /\ call[m] = "idle"
  /\ entry
  /\ call' = [call EXCEPT ![m] = "routed"]
  /\ UNCHANGED <<sent, inbox, dropped, delivery, facts, loop, entry>>

\* A closed receiver hands the same row back to the window's queue.
Send(m) ==
  /\ call[m] = "routed"
  /\ call' = [call EXCEPT ![m] = "done"]
  /\ IF Open
     THEN /\ inbox' = Append(inbox, m)
          /\ sent' = Append(sent, m)
          /\ UNCHANGED handedBack
     ELSE /\ handedBack' = handedBack \cup {m}
          /\ UNCHANGED <<inbox, sent>>
  /\ UNCHANGED <<outbox, worker, read, dropped, facts, loop, entry>>

\* cancel_run and sync_project take the entry away while the driver runs on.
RemoveEntry ==
  /\ entry
  /\ entry' = FALSE
  /\ UNCHANGED <<inputs, delivery, facts, loop>>

ThrowStop ==
  /\ entry
  /\ ~stop
  /\ stop' = TRUE
  /\ UNCHANGED <<inputs, delivery, failure, provider, loop, entry>>

------------------------------------------------------------------------------
Goto(from, to) == loop \in from /\ loop' = to

DropReceiver == inbox' = <<>> /\ dropped' = dropped \cup Elements(inbox)

\* proxy.start answers, or drive_run returns before there is a loop: its
\* inject_rx is dropped with whatever it holds.
Start ==
  /\ Goto({"starting"}, "live")
  /\ UNCHANGED <<inputs, delivery, facts, entry>>

StartFails ==
  /\ Goto({"starting"}, "released")
  /\ DropReceiver
  /\ entry' = FALSE
  /\ UNCHANGED <<call, sent, delivery, facts>>

\* Event::ApprovalRequest, and its answer or deadline.
Ask ==
  /\ Goto({"live"}, "asking")
  /\ UNCHANGED <<inputs, delivery, facts, entry>>

Answered ==
  /\ Goto({"asking"}, "live")
  /\ UNCHANGED <<inputs, delivery, facts, entry>>

\* Mutant of Accept: the newest message is taken first.
AcceptNewest ==
  /\ loop \in {"live", "asking"}
  /\ inbox # <<>>
  /\ outbox' = Append(outbox, inbox[Len(inbox)])
  /\ inbox' = SubSeq(inbox, 1, Len(inbox) - 1)
  /\ UNCHANGED <<call, sent, dropped, worker, read, handedBack, facts, loop, entry>>

\* accept_injection, from either loop.
Accept ==
  /\ loop \in {"live", "asking"}
  /\ inbox # <<>>
  /\ outbox' = Append(outbox, Head(inbox))
  /\ inbox' = Tail(inbox)
  /\ UNCHANGED <<call, sent, dropped, worker, read, handedBack, facts, loop, entry>>

\* Mutant of LeaveLoop: the wait for an approval watches no stop fact.
LeaveMainLoopOnly ==
  /\ Goto({"live"}, "left")
  /\ stop \/ failure \/ ~provider
  /\ UNCHANGED <<inputs, delivery, facts, entry>>

\* A stop fact ends both loops, the end of the provider's events only the main
\* one.
LeaveLoop ==
  /\ \/ Goto({"live", "asking"}, "left") /\ (stop \/ failure)
     \/ Goto({"live"}, "left") /\ ~provider
  /\ UNCHANGED <<inputs, delivery, facts, entry>>

\* The idle watchdog ends the main loop by itself.
GiveUp ==
  /\ Goto({"live"}, "left")
  /\ UNCHANGED <<inputs, delivery, facts, entry>>

\* drop(inject_rx); drop(injection_delivery_tx).  The worker keeps what was
\* accepted, the receiver drops what was not.
CloseInputs ==
  /\ Goto({"left"}, "closed")
  /\ DropReceiver
  /\ UNCHANGED <<call, sent, delivery, facts, entry>>

\* run.finish() or run.cancel() returned, and injection_delivery.await: the
\* worker ends once its channel is closed and empty.
Settle ==
  /\ Goto({"closed"}, "settled")
  /\ outbox = <<>>
  /\ worker = None
  /\ UNCHANGED <<inputs, delivery, facts, entry>>

Release ==
  /\ Goto({"settled"}, "released")
  /\ entry' = FALSE
  /\ UNCHANGED <<inputs, delivery, facts>>

------------------------------------------------------------------------------
\* The delivery worker.  It exists from the start of the loop.
Take ==
  /\ worker = None
  /\ outbox # <<>>
  /\ worker' = Head(outbox)
  /\ outbox' = Tail(outbox)
  /\ UNCHANGED <<inputs, read, handedBack, facts, loop, entry>>

\* deliver_injection: the daemon accepted the words.
Deliver ==
  /\ worker # None
  /\ provider
  /\ read' = Append(read, worker)
  /\ worker' = None
  /\ UNCHANGED <<inputs, outbox, handedBack, facts, loop, entry>>

\* Mutant of DeliverFails: the failure is logged and nothing else.
DeliverFailsQuietly ==
  /\ worker # None
  /\ worker' = None
  /\ UNCHANGED <<inputs, outbox, read, handedBack, facts, loop, entry>>

\* ... or refused them, its answer was lost, or INJECTION_CONFIRMATION passed:
\* they are handed back and the run is asked to end.
DeliverFails ==
  /\ worker # None
  /\ handedBack' = handedBack \cup {worker}
  /\ failure' = TRUE
  /\ worker' = None
  /\ \/ UNCHANGED read
     \/ provider /\ read' = Append(read, worker)
  /\ UNCHANGED <<inputs, outbox, stop, provider, loop, entry>>

\* External: the provider's turn ends.
ProviderEnds ==
  /\ provider
  /\ provider' = FALSE
  /\ UNCHANGED <<inputs, delivery, stop, failure, loop, entry>>

Worker == Take \/ Deliver \/ DeliverFails
DriverTail == LeaveLoop \/ CloseInputs \/ Settle \/ Release

Next ==
  \/ \E m \in Messages : Route(m) \/ Send(m)
  \/ RemoveEntry \/ ThrowStop
  \/ Start \/ StartFails \/ Ask \/ Answered \/ Accept \/ GiveUp
  \/ DriverTail
  \/ Worker
  \/ ProviderEnds

\* The worker's requests are bounded, and a driver told to stop goes on to its
\* end; nobody has to answer an approval.
Spec == Init /\ [][Next]_vars /\ WF_vars(Worker) /\ WF_vars(DriverTail)

------------------------------------------------------------------------------
Before(m, n, s) == \E i, j \in 1..Len(s) : i < j /\ s[i] = m /\ s[j] = n

\* The provider reads follow-ups in the order they were sent.
ReadInOrder ==
  \A m, n \in Messages : Before(m, n, read) => Before(m, n, sent)

\* A message a loop accepted is never forgotten: by the time the slot can be
\* released it was read or handed back, so the turn that follows knows.
AcceptedIsAccounted ==
  loop \in {"settled", "released"} =>
    Elements(sent) \subseteq Elements(read) \cup handedBack \cup dropped

\* A message that could not be delivered ends the run, whichever loop is
\* waiting: its retry needs the slot.
FailureFreesSlot == failure ~> loop = "released"
==============================================================================
