---------------------------- MODULE SignalPromise ----------------------------
(***************************************************************************)
(* What apps/gui/src/cancel.rs promises a run loop about its stop facts,   *)
(* with no queue, registration or broadcast in sight: facts are levels     *)
(* that only rise, and a wait ends when, and only when, a fact it cares    *)
(* about and has not already handled is up.                                *)
(***************************************************************************)
CONSTANTS Waiters,  \* one element per future being awaited
          Kind      \* what each waits for: "stopped" or "changed"

Facts == {"cancel", "injection_failure", "ping_failed"}

VARIABLES
  set,        \* which facts have been thrown
  handled,    \* per waiter: has it said ping_failed is handled?
  resolved    \* per waiter: has its future completed?

vars == <<set, handled, resolved>>

\* The facts each kind of wait ends for: Signals::stopping, Signals::pending.
Watched(w) ==
  IF Kind[w] = "stopped" \/ handled[w] THEN {"cancel", "injection_failure"} ELSE Facts

Pending(w) == \E f \in Watched(w) : set[f]

Init ==
  /\ set = [f \in Facts |-> FALSE]
  /\ handled = [w \in Waiters |-> FALSE]
  /\ resolved = [w \in Waiters |-> FALSE]

Throw(f) ==
  /\ set' = [set EXCEPT ![f] = TRUE]
  /\ UNCHANGED <<handled, resolved>>

Resolve(w) ==
  /\ ~resolved[w]
  /\ Pending(w)
  /\ resolved' = [resolved EXCEPT ![w] = TRUE]
  /\ UNCHANGED <<set, handled>>

\* The run loop acts on a failed ping and waits again.
Resume(w) ==
  /\ resolved[w]
  /\ Kind[w] = "changed"
  /\ ~set["cancel"] /\ ~set["injection_failure"]
  /\ handled' = [handled EXCEPT ![w] = TRUE]
  /\ resolved' = [resolved EXCEPT ![w] = FALSE]
  /\ UNCHANGED set

Next ==
  \/ \E f \in Facts : Throw(f)
  \/ \E w \in Waiters : Resolve(w) \/ Resume(w)

SafetySpec == Init /\ [][Next]_vars

Spec == SafetySpec /\ \A w \in Waiters : WF_vars(Resolve(w))
==============================================================================
