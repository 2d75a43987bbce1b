------------------------------ MODULE TrackedItems ------------------------------
(***************************************************************************)
(* The tracked items of a project (projects.rs): the commands of the       *)
(* owner, the directives of an agent and the merge of a pull request that  *)
(* move an item through its statuses, the markers by which an accepted     *)
(* message ages a finished item until it is retired, and the forks that    *)
(* depend on an item's row.  Every command runs on its own, with an await  *)
(* between its reads and its writes.                                       *)
(***************************************************************************)
EXTENDS Naturals, FiniteSets

CONSTANTS
  Tracked,    \* item ids of one project
  Jobs,       \* commands, directives and messages that are handled at once
  Retention,  \* agent_finished_retention_turns
  MaxForks,   \* bound: forks of one item
  MaxFailed   \* bound: writes that fail

NoItem == "none"

ASSUME RetentionAssumption == Retention \in 1 .. 3 /\ {MaxForks, MaxFailed} \subseteq Nat
ASSUME JobsAssumption == IsFiniteSet(Jobs) /\ NoItem \notin Tracked

VARIABLES
  row,      \* the item's status, "unused" before its row, "gone" after
  marker,   \* finished-retire-turns, 0 where there is none
  flag,     \* items with finished-retire-midturn
  archived, \* items with the archived key
  forks,    \* projects forked from the item
  deletes,  \* completed_items is "delete"
  job,      \* what each job is doing
  failed,   \* writes that failed
  halves,    \* history: half turns that listed the item since it was finished
  spared,    \* history: undisturbed ageings it has come through since
  misjudged, \* history: items that were archived, whose marker was aged before the status
             \* it was written for, or that an ageing wrote from an outdated list
  raced,     \* history: forks that came while the row was being deleted
  retired    \* history: items an agent retired under their forks

stored == <<row, marker, flag, archived, forks>>
past == <<halves, spared, misjudged, raced, retired>>
itemVars == <<stored, deletes, job, failed, past>>

Live == {"open", "shipped", "finished"}
Idle == [op |-> "idle"]
Status(i, to, by, mode, at) ==
  [op |-> "status", item |-> i, to |-> to, by |-> by, mode |-> mode, at |-> at]
Removal(i, by, at) == [op |-> "remove", item |-> i, by |-> by, at |-> at]

\* What a job can be doing; an ageing has read the markers in "list", knows in
\* "todo" what is left, of "current" that nobody has written it since, and of
\* "steady" that nobody has written it, nor aged it, since the message.
Works ==
  {Idle}
  \cup [op : {"add"}, item : Tracked, to : {"open", "finished"}, at : {"mark", "insert"}]
  \cup [op : {"status"}, item : Tracked, to : Live, by : {"owner", "agent", "merge"},
        mode : {"keep", "delete", "archive"}, at : {"mark", "write", "archive", "unmark"}]
  \cup [op : {"remove"}, item : Tracked, by : {"owner", "agent"}, at : {"archive", "delete", "unmark"}]
  \cup [op : {"fork"}, item : Tracked, at : {"insert", "handoff"}]
  \cup [op : {"age"}, mid : BOOLEAN, at : {"backfill", "look", "count", "delete", "archive", "unmark"},
        item : Tracked \cup {NoItem}, todo : SUBSET Tracked, list : [Tracked -> 0 .. Retention],
        current : SUBSET Tracked, steady : SUBSET Tracked]

ItemsTypeOK ==
  /\ row \in [Tracked -> Live \cup {"unused", "gone"}] /\ marker \in [Tracked -> 0 .. Retention]
  /\ flag \subseteq Tracked /\ archived \subseteq Tracked /\ forks \in [Tracked -> 0 .. MaxForks]
  /\ deletes \in BOOLEAN /\ job \in [Jobs -> Works] /\ failed \in 0 .. MaxFailed
  /\ halves \in [Tracked -> 0 .. 2 * Retention] /\ spared \in [Tracked -> 0 .. 2 * Retention]
  /\ misjudged \subseteq Tracked /\ raced \subseteq Tracked /\ retired \subseteq Tracked

ItemsInit ==
  /\ row = [i \in Tracked |-> "unused"] /\ marker = [i \in Tracked |-> 0] /\ flag = {}
  /\ archived = {} /\ forks = [i \in Tracked |-> 0] /\ deletes \in BOOLEAN
  /\ job = [t \in Jobs |-> Idle] /\ failed = 0
  /\ halves = [i \in Tracked |-> 0] /\ spared = [i \in Tracked |-> 0]
  /\ misjudged = {} /\ raced = {} /\ retired = {}

Ageing(t) == job[t].op = "age"
Capped(n) == IF n > 2 * Retention THEN 2 * Retention ELSE n

\* Task t goes on to work w, and what an ageing knows of item i is out of date.
GoesOn(t, w) == job' = [job EXCEPT ![t] = w]
Touches(t, i, w) ==
  /\ job' = [u \in Jobs |->
       IF u = t THEN w ELSE IF Ageing(u) THEN [job[u] EXCEPT !.current = @ \ {i}, !.steady = @ \ {i}] ELSE job[u]]
  /\ spared' = [spared EXCEPT ![i] = 0]
At(t, at) == [job[t] EXCEPT !.at = at]
Further(t, i) == [job[t] EXCEPT !.at = "look", !.item = NoItem, !.todo = @ \ {i}]

-----------------------------------------------------------------------------
\* schedule_finished_retirement and clear_finished_retirement; the two keys are
\* written in one step here.

Scheduled(i) ==
  /\ marker' = [marker EXCEPT ![i] = Retention] /\ flag' = flag \ {i}
Cleared(i) == marker' = [marker EXCEPT ![i] = 0] /\ flag' = flag \ {i}

\* create_item_row; an agent's items.add may bring a finished one.
Add(t, i, to) ==
  /\ job[t] = Idle /\ row[i] = "unused"
  /\ \A u \in Jobs : job[u].op = "add" => job[u].item # i
  /\ GoesOn(t, [op |-> "add", item |-> i, to |-> to, at |-> IF to = "finished" THEN "mark" ELSE "insert"])
  /\ UNCHANGED <<stored, deletes, failed, past>>
InsertRow(t) ==
  /\ job[t].op = "add" /\ job[t].at = "insert"
  /\ row' = [row EXCEPT ![job[t].item] = job[t].to] /\ Touches(t, job[t].item, Idle)
  /\ UNCHANGED <<marker, flag, archived, forks, deletes, failed, halves, misjudged, raced, retired>>

-----------------------------------------------------------------------------
\* set_item_status, items.state and finish_shipped_items_for_pr.

\* item_has_fork.
\* Mutant of HasFork: nobody asks.
HasForkUnasked(i) == FALSE
HasFork(i) == forks[i] > 0

\* Only the owner's click and a merge heed the setting, and a fork keeps the row.
Mode(i, to, by) ==
  IF ~(to = "finished" /\ by # "agent" /\ deletes) THEN "keep"
  ELSE IF HasFork(i) THEN "archive" ELSE "delete"

Starts(t, i, to, by, at) ==
  /\ job[t] = Idle /\ GoesOn(t, Status(i, to, by, Mode(i, to, by), at))
  /\ UNCHANGED <<stored, deletes, failed, past>>

\* The owner may click an item that has gone meanwhile.
Click(t, i, to) == row[i] \in Live \cup {"gone"} /\ Starts(t, i, to, "owner", "mark")
Directs(t, i, to) == row[i] \in Live /\ Starts(t, i, to, "agent", "mark")
\* A merge that is to delete writes no marker.
Merge(t, i) ==
  /\ row[i] = "shipped"
  /\ Starts(t, i, "finished", "merge", IF Mode(i, "finished", "merge") = "keep" THEN "mark" ELSE "write")

\* The marker is written before the status it belongs to.
Mark(t) ==
  /\ job[t].op \in {"status", "add"} /\ job[t].at = "mark"
  /\ LET i == job[t].item
         finishes == job[t].to = "finished" /\ (job[t].op = "status" => job[t].mode = "keep")
     IN /\ IF finishes THEN Scheduled(i) ELSE Cleared(i)
        /\ misjudged' = IF finishes THEN misjudged \ {i} ELSE misjudged
        /\ Touches(t, i, At(t, IF job[t].op = "add" THEN "insert" ELSE "write"))
  /\ UNCHANGED <<row, archived, forks, deletes, failed, halves, raced, retired>>

\* write_item_status; the item may have gone meanwhile, and a message may have aged
\* the marker that was to be this status's.
Unaged(i) == marker[i] \in {0, Retention} /\ i \notin flag
Deleted(i) == row' = [row EXCEPT ![i] = "gone"] /\ archived' = archived \ {i}
Write(t) ==
  /\ job[t].op = "status" /\ job[t].at = "write"
  /\ LET i == job[t].item IN
       \/ /\ row[i] \notin Live /\ GoesOn(t, Idle)
          /\ UNCHANGED <<row, archived, halves, spared, misjudged>>
       \/ /\ row[i] \in Live /\ job[t].mode = "delete" /\ Deleted(i) /\ Touches(t, i, Idle)
          /\ UNCHANGED <<halves, misjudged>>
       \/ /\ row[i] \in Live /\ job[t].mode # "delete" /\ UNCHANGED archived
          /\ row' = [row EXCEPT ![i] = job[t].to]
          /\ halves' = [halves EXCEPT ![i] = IF row[i] = "finished" THEN @ ELSE 0]
          /\ \/ /\ job[t].mode = "keep" /\ Touches(t, i, Idle)
                /\ misjudged' = IF row[i] = "finished" \/ Unaged(i) THEN misjudged ELSE misjudged \cup {i}
             \/ /\ job[t].mode = "archive" /\ Touches(t, i, At(t, "archive"))
                /\ misjudged' = misjudged \cup {i}
  /\ UNCHANGED <<marker, flag, forks, deletes, failed, raced, retired>>

-----------------------------------------------------------------------------
\* delete_item and items.retire.

\* The owner's delete archives the row of a fork; an agent's does not ask.
Removes(t, i, by, at) ==
  /\ job[t] = Idle /\ row[i] \in Live /\ GoesOn(t, Removal(i, by, at))
  /\ UNCHANGED <<stored, deletes, failed, past>>
Remove(t, i) == Removes(t, i, "owner", IF HasFork(i) THEN "archive" ELSE "delete")
Withdraw(t, i) == Removes(t, i, "agent", "delete")

Delete(t) ==
  /\ job[t].op = "remove" /\ job[t].at = "delete"
  /\ LET i == job[t].item IN
       \/ /\ row[i] \notin Live /\ GoesOn(t, Idle) /\ UNCHANGED <<row, archived, spared, retired>>
       \/ /\ row[i] \in Live /\ Deleted(i)
          /\ Touches(t, i, IF job[t].by = "agent" THEN At(t, "unmark") ELSE Idle)
          /\ retired' = IF job[t].by = "agent" THEN retired \cup {i} ELSE retired
  /\ UNCHANGED <<marker, flag, forks, deletes, failed, halves, misjudged, raced>>

\* archive_item: the key, and then the marker; where an ageing archives it goes on.
Archive(t) ==
  /\ job[t].op \in {"status", "remove", "age"} /\ job[t].at = "archive"
  /\ LET i == job[t].item IN
       \/ /\ job[t].op = "status" /\ row[i] \notin Live /\ GoesOn(t, Idle) /\ UNCHANGED archived
       \/ /\ job[t].op = "status" => row[i] \in Live
          /\ archived' = archived \cup {i} /\ GoesOn(t, At(t, "unmark"))
  /\ UNCHANGED <<row, marker, flag, forks, deletes, failed, past>>
Unmark(t) ==
  /\ job[t].op \in {"status", "remove", "age"} /\ job[t].at = "unmark"
  /\ Cleared(job[t].item)
  /\ IF Ageing(t) THEN GoesOn(t, Further(t, job[t].item)) /\ UNCHANGED spared
     ELSE Touches(t, job[t].item, Idle)
  /\ UNCHANGED <<row, archived, forks, deletes, failed, halves, misjudged, raced, retired>>

-----------------------------------------------------------------------------
\* fork_item: the look for a fork there is, the project, and its handoff.

Fork(t, i) ==
  /\ job[t] = Idle /\ row[i] \in Live /\ ~HasFork(i)
  /\ GoesOn(t, [op |-> "fork", item |-> i, at |-> "insert"])
  /\ UNCHANGED <<stored, deletes, failed, past>>

\* Somebody looked for forks of i and found none, or the row has gone.
Deleting(u, i) ==
  \/ job[u].op \in {"remove", "age"} /\ job[u].at = "delete" /\ job[u].item = i
  \/ job[u].op = "status" /\ job[u].mode = "delete" /\ job[u].item = i
InsertFork(t) ==
  /\ job[t].op = "fork" /\ job[t].at = "insert"
  /\ LET i == job[t].item IN
       /\ forks[i] < MaxForks /\ forks' = [forks EXCEPT ![i] = @ + 1]
       /\ raced' = IF row[i] \notin Live \/ \E u \in Jobs : Deleting(u, i) THEN raced \cup {i} ELSE raced
  /\ GoesOn(t, At(t, "handoff"))
  /\ UNCHANGED <<row, marker, flag, archived, deletes, failed, halves, spared, misjudged, retired>>

\* A handoff that cannot be saved takes the project back.
Handoff(t) ==
  /\ job[t].op = "fork" /\ job[t].at = "handoff" /\ GoesOn(t, Idle)
  /\ \/ UNCHANGED <<forks, failed>>
     \/ /\ failed < MaxFailed /\ failed' = failed + 1
        /\ forks' = [forks EXCEPT ![job[t].item] = @ - 1]
  /\ UNCHANGED <<row, marker, flag, archived, deletes, past>>

-----------------------------------------------------------------------------
\* age_finished_items_by, for a message that starts a turn or one within it.

Ripe == {i \in Tracked : row[i] = "finished" /\ i \notin archived}
Message(t, mid) ==
  /\ job[t] = Idle /\ \E i \in Tracked : row[i] # "unused"
  /\ LET others == {u \in Jobs \ {t} : Ageing(u)} IN
       /\ job' = [u \in Jobs |->
            IF u = t
              THEN [op |-> "age", mid |-> mid, at |-> "backfill", item |-> NoItem,
                    todo |-> Ripe,
                    list |-> [i \in Tracked |-> 0], current |-> {},
                    steady |-> IF others = {} THEN Ripe ELSE {}]
            ELSE IF u \in others THEN [job[u] EXCEPT !.steady = {}] ELSE job[u]]
       /\ spared' = IF others = {} THEN spared ELSE [i \in Tracked |-> 0]
  /\ UNCHANGED <<stored, deletes, failed, halves, misjudged, raced, retired>>

\* Mutant of Unmarked: a finished row without a marker stays without one.
UnmarkedStays(i) == FALSE
Unmarked(i) == marker[i] = 0

Backfill(t) ==
  /\ Ageing(t) /\ job[t].at = "backfill"
  /\ \E i \in job[t].todo :
       /\ IF Unmarked(i) THEN Scheduled(i) /\ misjudged' = misjudged \ ({i} \cap Ripe)
          ELSE UNCHANGED <<marker, flag, misjudged>>
       /\ GoesOn(t, [job[t] EXCEPT !.todo = @ \ {i}])
  /\ UNCHANGED <<row, archived, forks, deletes, failed, halves, spared, raced, retired>>

\* All markers are read at once.
List(t) ==
  /\ Ageing(t) /\ job[t].at = "backfill" /\ job[t].todo = {}
  /\ LET marked == {i \in Tracked : marker[i] > 0} IN
       /\ GoesOn(t, [At(t, "look") EXCEPT !.todo = marked, !.current = marked, !.list = marker])
       /\ halves' = [i \in Tracked |->
            IF i \in marked /\ row[i] = "finished"
              THEN Capped(halves[i] + IF job[t].mid THEN 1 ELSE 2) ELSE halves[i]]
  /\ UNCHANGED <<stored, deletes, failed, spared, misjudged, raced, retired>>

Judged(t, i) == misjudged' = IF i \in job[t].current THEN misjudged ELSE misjudged \cup {i}

\* A row that is not finished any more loses its marker; a message within a turn
\* is half a turn.
\* Mutant of Ages: whatever its status.
AgesAnything(i) == row[i] \in Live /\ i \notin archived
Ages(i) == row[i] = "finished" /\ i \notin archived

Look(t) ==
  /\ Ageing(t) /\ job[t].at = "look"
  /\ \E i \in job[t].todo :
       \/ ~Ages(i) /\ Cleared(i) /\ GoesOn(t, Further(t, i)) /\ UNCHANGED misjudged
       \/ /\ Ages(i) /\ job[t].mid /\ i \notin flag /\ flag' = flag \cup {i}
          /\ GoesOn(t, Further(t, i)) /\ Judged(t, i) /\ UNCHANGED marker
       \/ /\ Ages(i) /\ (job[t].mid => i \in flag) /\ flag' = flag \ {i}
          /\ GoesOn(t, [At(t, "count") EXCEPT !.item = i]) /\ UNCHANGED <<marker, misjudged>>
  /\ UNCHANGED <<row, archived, forks, deletes, failed, halves, spared, raced, retired>>

Count(t) ==
  /\ Ageing(t) /\ job[t].at = "count"
  /\ LET i == job[t].item IN
       \/ /\ job[t].list[i] > 1 /\ marker' = [marker EXCEPT ![i] = job[t].list[i] - 1]
          /\ GoesOn(t, Further(t, i)) /\ Judged(t, i)
       \/ /\ job[t].list[i] <= 1 /\ UNCHANGED <<marker, misjudged>>
          /\ GoesOn(t, At(t, IF HasFork(i) THEN "archive" ELSE "delete"))
  /\ UNCHANGED <<row, flag, archived, forks, deletes, failed, halves, spared, raced, retired>>

Retire(t) ==
  /\ Ageing(t) /\ job[t].at = "delete"
  /\ LET i == job[t].item IN
       \/ row[i] \in Live /\ Deleted(i) /\ GoesOn(t, At(t, "unmark"))
       \/ row[i] \notin Live /\ GoesOn(t, Idle) /\ UNCHANGED <<row, archived>>
  /\ UNCHANGED <<marker, flag, forks, deletes, failed, past>>

Aged(t) ==
  /\ Ageing(t) /\ job[t].at = "look" /\ job[t].todo = {} /\ GoesOn(t, Idle)
  /\ spared' = [i \in Tracked |->
       IF i \in job[t].steady THEN Capped(spared[i] + 1) ELSE spared[i]]
  /\ UNCHANGED <<stored, deletes, failed, halves, misjudged, raced, retired>>

\* A write fails, and the command with it: what it wrote before stands.
Fail(t) ==
  /\ job[t].op \in {"status", "add", "remove", "age"} /\ GoesOn(t, Idle)
  /\ failed < MaxFailed /\ failed' = failed + 1
  /\ spared' = IF Ageing(t) THEN [i \in Tracked |-> 0] ELSE spared
  /\ UNCHANGED <<stored, deletes, halves, misjudged, raced, retired>>

Ageings(t) == Backfill(t) \/ List(t) \/ Look(t) \/ Count(t) \/ Retire(t) \/ Aged(t)
Steps(t) ==
  \/ Mark(t) \/ InsertRow(t) \/ Write(t) \/ Delete(t) \/ Archive(t) \/ Unmark(t)
  \/ InsertFork(t) \/ Handoff(t) \/ Ageings(t) \/ Fail(t)
Asks(t, i) ==
  \/ \E to \in {"open", "finished"} : Add(t, i, to)
  \/ \E to \in Live : Click(t, i, to) \/ Directs(t, i, to)
  \/ Merge(t, i) \/ Remove(t, i) \/ Withdraw(t, i) \/ Fork(t, i)

ItemsNext ==
  \E t \in Jobs :
    Steps(t) \/ (\E i \in Tracked : Asks(t, i)) \/ (\E mid \in BOOLEAN : Message(t, mid))

ItemsSpec == ItemsInit /\ [][ItemsNext]_itemVars

-----------------------------------------------------------------------------
\* The ageing takes only a finished item, and only after as many turns as the
\* owner set, two messages within a turn being one: but for an item somebody wrote
\* after the ageing had read its marker, and for one whose marker is not of the time
\* it was finished, since it was archived, or written or aged out of turn before.
GraceKept ==
  [][\A t \in Jobs :
       Ageing(t) /\ job[t].at \in {"archive", "delete"} /\ job'[t] = At(t, "unmark") =>
         LET i == job[t].item IN
           \/ row[i] = "finished" /\ halves[i] = 2 * Retention
           \/ row[i] = "gone"
           \/ i \in misjudged \/ i \notin job[t].current]_itemVars

\* No finished row is immortal, whatever was lost of its marker: it does not come
\* through as many whole ageings, undisturbed, as there are half turns.
NotImmortal ==
  \A i \in Tracked : row[i] = "finished" /\ i \notin archived => spared[i] < 2 * Retention

\* A fork keeps the row it depends on, unless it was made while the row was being
\* deleted, or an agent retired the row.
AnchorKept ==
  \A i \in Tracked : forks[i] > 0 /\ row[i] = "gone" => i \in raced \cup retired
=============================================================================
