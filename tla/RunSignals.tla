------------------------------ MODULE RunSignals ------------------------------
(***************************************************************************)
(* apps/gui/src/cancel.rs: the stop facts of one run (Cancel, two Latches) *)
(* behind one Notify, and the futures that wait for them.                  *)
(*                                                                         *)
(* A fact is an atomic flag; throwing it swaps the flag and then, as a     *)
(* separate step, broadcasts on the shared Notify.  A waiter builds a      *)
(* registration (Notified), which remembers every broadcast since it was   *)
(* built, and polls it later.  Each load, registration and poll is a step  *)
(* of its own, since the setters run on other threads.                     *)
(***************************************************************************)
CONSTANTS Setters,  \* threads that throw facts
          Waiters,  \* futures being awaited
          Kind      \* "stopped" | "changed" (Signals) | "cancelled" (Cancelled)

Facts == {"cancel", "injection_failure", "ping_failed"}
Kinds == {"stopped", "changed", "cancelled"}

ASSUME KindAssumption == Kind \in [Waiters -> Kinds]

VARIABLES
  set,      \* the AtomicBool of each fact
  owes,     \* per setter: does it still have to broadcast?
  pc,       \* per waiter: where its poll is
  wake,     \* per waiter: its registration with the Notify
  handled   \* per waiter: Handled.ping_failed

signalVars == <<set, owes, pc, wake, handled>>

\* load, register and recheck are the loop of Signals; the numbered steps
\* are the second and third attempts inside one Cancelled::poll.
Steps == {"load", "register", "recheck", "await", "done",
          "poll", "reload", "register2", "poll2", "reload2", "register3", "poll3"}

\* none: no registration.  armed: built, no broadcast since.  rung: broadcast
\* since.  spent: completed by a poll whose answer was thrown away.
Registrations == {"none", "armed", "rung", "spent"}

SignalTypeOK ==
  /\ set \in [Facts -> BOOLEAN]
  /\ owes \in [Setters -> BOOLEAN]
  /\ pc \in [Waiters -> Steps]
  /\ wake \in [Waiters -> Registrations]
  /\ handled \in [Waiters -> BOOLEAN]

Stopping == set["cancel"] \/ set["injection_failure"]

\* Signals::stopping, Signals::pending(handled), Cancel::is_cancelled.
Pending(w) ==
  CASE Kind[w] = "cancelled" -> set["cancel"]
    [] Kind[w] = "stopped"   -> Stopping
    [] Kind[w] = "changed"   -> Stopping \/ (~handled[w] /\ set["ping_failed"])

SignalInit ==
  /\ set = [f \in Facts |-> FALSE]
  /\ owes = [t \in Setters |-> FALSE]
  /\ pc = [w \in Waiters |-> "load"]
  /\ wake = [w \in Waiters |-> "none"]
  /\ handled = [w \in Waiters |-> FALSE]

------------------------------------------------------------------------------
\* Cancel::cancel and Latch::set: a fact already thrown returns at once, so
\* only the first thrower goes on to broadcast.
Throw(t, f) ==
  /\ ~owes[t]
  /\ ~set[f]
  /\ set' = [set EXCEPT ![f] = TRUE]
  /\ owes' = [owes EXCEPT ![t] = TRUE]
  /\ UNCHANGED <<pc, wake, handled>>

\* Mutant of Broadcast: one registration is woken instead of all of them.
RingOne(t) ==
  /\ owes[t]
  /\ owes' = [owes EXCEPT ![t] = FALSE]
  /\ LET armed == {w \in Waiters : wake[w] = "armed"} IN
     IF armed = {} THEN UNCHANGED wake
     ELSE \E w \in armed : wake' = [wake EXCEPT ![w] = "rung"]
  /\ UNCHANGED <<set, pc, handled>>

\* notify_waiters reaches every registration that exists at this moment.
Broadcast(t) ==
  /\ owes[t]
  /\ owes' = [owes EXCEPT ![t] = FALSE]
  /\ wake' = [w \in Waiters |-> IF wake[w] = "armed" THEN "rung" ELSE wake[w]]
  /\ UNCHANGED <<set, pc, handled>>

------------------------------------------------------------------------------
Goto(w, step) == pc' = [pc EXCEPT ![w] = step]
Register(w, reg) == wake' = [wake EXCEPT ![w] = reg]

\* A read of the flags: complete if something is pending, else go on.
Check(w, from, onward) ==
  /\ pc[w] = from
  /\ Goto(w, IF Pending(w) THEN "done" ELSE onward)
  /\ UNCHANGED <<set, owes, wake, handled>>

\* Mutant of SignalWait: registers after the second check, as Cancelled does.
SignalWaitChecksFirst(w) ==
  /\ Kind[w] # "cancelled"
  /\ \/ Check(w, "load", "recheck")
     \/ Check(w, "recheck", "register")
     \/ /\ pc[w] = "register"
        /\ Register(w, "armed")
        /\ Goto(w, "await")
        /\ UNCHANGED <<set, owes, handled>>
     \/ /\ pc[w] = "await"
        /\ wake[w] = "rung"
        /\ Register(w, "none")
        /\ Goto(w, "load")
        /\ UNCHANGED <<set, owes, handled>>

\* Signals::stopped and Signals::changed: check, register, check again, await.
SignalWait(w) ==
  /\ Kind[w] # "cancelled"
  /\ \/ Check(w, "load", "register")
     \/ /\ pc[w] = "register"
        /\ Register(w, "armed")
        /\ Goto(w, "recheck")
        /\ UNCHANGED <<set, owes, handled>>
     \/ Check(w, "recheck", "await")
     \/ /\ pc[w] = "await"
        /\ wake[w] = "rung"
        /\ Register(w, "none")
        /\ Goto(w, "load")
        /\ UNCHANGED <<set, owes, handled>>

\* One poll of a registration inside Cancelled::poll: a wake is consumed and
\* the flag read again, anything else parks the future.
PollOnce(w, from, onward) ==
  /\ pc[w] = from
  /\ IF wake[w] = "rung"
     THEN Register(w, "none") /\ Goto(w, onward)
     ELSE Goto(w, "await") /\ UNCHANGED wake
  /\ UNCHANGED <<set, owes, handled>>

\* get_or_insert_with(|| notified()): keeps a registration that is there.
Arm(w, from, onward) ==
  /\ pc[w] = from
  /\ Register(w, IF wake[w] = "none" THEN "armed" ELSE wake[w])
  /\ Goto(w, onward)
  /\ UNCHANGED <<set, owes, handled>>

\* Mutant of CancelledPoll: the second wake is taken for the cancellation.
CancelledPollTrustsWake(w) ==
  /\ Kind[w] = "cancelled"
  /\ \/ Check(w, "load", "register")
     \/ Arm(w, "register", "poll")
     \/ PollOnce(w, "poll", "reload")
     \/ Check(w, "reload", "register2")
     \/ Arm(w, "register2", "poll2")
     \/ PollOnce(w, "poll2", "done")
     \/ /\ pc[w] = "await"
        /\ wake[w] = "rung"
        /\ Goto(w, "load")
        /\ UNCHANGED <<set, owes, wake, handled>>

\* Cancelled::poll: the flag is read before each registration and never after
\* one; the third registration's answer is discarded.
CancelledPoll(w) ==
  /\ Kind[w] = "cancelled"
  /\ \/ Check(w, "load", "register")
     \/ Arm(w, "register", "poll")
     \/ PollOnce(w, "poll", "reload")
     \/ Check(w, "reload", "register2")
     \/ Arm(w, "register2", "poll2")
     \/ PollOnce(w, "poll2", "reload2")
     \/ Check(w, "reload2", "register3")
     \/ Arm(w, "register3", "poll3")
     \/ /\ pc[w] = "poll3"
        /\ Register(w, IF wake[w] = "rung" THEN "spent" ELSE wake[w])
        /\ Goto(w, "await")
        /\ UNCHANGED <<set, owes, handled>>
     \/ /\ pc[w] = "await"
        /\ wake[w] = "rung"
        /\ Goto(w, "load")
        /\ UNCHANGED <<set, owes, wake, handled>>

\* Another select! arm won (a provider event, a timer): the future is dropped
\* and the next turn of the loop builds a new one.
OtherArm(w) ==
  /\ pc[w] = "await"
  /\ Goto(w, "load")
  /\ Register(w, "none")
  /\ UNCHANGED <<set, owes, handled>>

\* drive_run, after changed() returned: cancellation and a failed injection
\* end the loop; a failed ping is noted and the loop waits again.
HandlePing(w) ==
  /\ Kind[w] = "changed"
  /\ pc[w] = "done"
  /\ ~Stopping
  /\ handled' = [handled EXCEPT ![w] = TRUE]
  /\ Goto(w, "load")
  /\ Register(w, "none")
  /\ UNCHANGED <<set, owes>>

SignalNext ==
  \/ \E t \in Setters : Broadcast(t) \/ \E f \in Facts : Throw(t, f)
  \/ \E w \in Waiters : \/ SignalWait(w)
                        \/ CancelledPoll(w)
                        \/ OtherArm(w)
                        \/ HandlePing(w)

\* Threads that began a throw finish it and a woken task is polled; nobody
\* has to throw a fact and no other select! arm has to fire.
Fairness ==
  /\ \A t \in Setters : WF_signalVars(Broadcast(t))
  /\ \A w \in Waiters : WF_signalVars(SignalWait(w)) /\ WF_signalVars(CancelledPoll(w))

SignalSpec == SignalInit /\ [][SignalNext]_signalVars /\ Fairness

------------------------------------------------------------------------------
Parked(w) == pc[w] = "await" /\ wake[w] # "rung"

\* A wait of Signals that sleeps while a fact it watches is up is always about
\* to be woken: the thread that threw the fact still has to broadcast.  This is
\* what building notified() before the second check is for.
NoLostWake ==
  \A w \in Waiters :
    Kind[w] # "cancelled" /\ Parked(w) /\ Pending(w) => \E t \in Setters : owes[t]

\* The waits of Signals keep the promise of module SignalPromise: they complete
\* only for a fact they watch, and they do complete.
SignalWaits == {w \in Waiters : Kind[w] # "cancelled"}
Promise == INSTANCE SignalPromise WITH
             Waiters  <- SignalWaits,
             Kind     <- [w \in SignalWaits |-> Kind[w]],
             handled  <- [w \in SignalWaits |-> handled[w]],
             resolved <- [w \in SignalWaits |-> pc[w] = "done"]
KeepsPromise == Promise!Spec

\* Every wait, of either kind, completes only for a fact it watches: a
\* sibling's wake on the shared queue is never taken for a cancellation.
OnlyForItsFact == \A w \in Waiters : pc[w] = "done" => Pending(w)
==============================================================================
