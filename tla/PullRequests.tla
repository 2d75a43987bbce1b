------------------------------ MODULE PullRequests ------------------------------
(***************************************************************************)
(* The pull requests a project tracks (prs.rs): the rows that directives   *)
(* and refreshes insert, the one refresh of a project that asks GitHub and *)
(* writes what it hears, the owner's dismissals, and the items a merge     *)
(* finishes.  Each of them awaits between what it reads and what it        *)
(* writes, and they all work on the same rows.  Writes reach the disk      *)
(* later, one table after its own queue.                                   *)
(***************************************************************************)
EXTENDS Naturals, Sequences

CONSTANTS
  Pulls,       \* pull requests, each in a repository of its own
  Number,      \* their numbers, which two repositories may share
  Checkouts,   \* those in whose repositories the project has a directory
  Items,       \* items of the project
  Tasks,       \* directives and dismissals that are handled at once
  MaxRows,     \* bound: rows
  MaxMoves,    \* bound: times something happens to a pull request on GitHub
  MaxFailures  \* bound: writes and questions that fail, and crashes

ASSUME PullsAssumption == Number \in [Pulls -> Nat \ {0}] /\ Checkouts \subseteq Pulls
ASSUME BoundsAssumption == {MaxRows, MaxMoves, MaxFailures} \subseteq Nat

VARIABLES
  github,   \* what GitHub would say of each
  rows,     \* the rows, in the order they were inserted
  refresh,  \* the project's entry in ActiveRefreshes, and how far its task is
  item,     \* status and reference of each item
  task,     \* what each directive or dismissal has left to do
  moves, failures, \* how many there were
  disk,     \* the rows and the items on disk
  stalled,  \* tables of which the disk gets nothing more before the next crash
  said,         \* history: the last thing GitHub said of each when asked
  unwritten,    \* history: pull requests of which that was not stored, or lost
  crossed,      \* history: those inserted though somebody just had
  reopened,     \* history: those found open under a row that had ended
  rediscovered, \* history: those found open under a dismissed row
  waved,        \* history: those of which a dismissal came to its end and was kept
  late,         \* history: items shipped when their merge had been noticed
  missed        \* history: items whose finishing did not come to its end

doubles == <<crossed, reopened, rediscovered>>
answers == <<said, unwritten>>
items == <<item, late, missed>>
vars == <<github, rows, refresh, items, task, moves, failures, answers, doubles, waved, disk, stalled>>

States == {"unknown", "OPEN", "CLOSED", "MERGED"}
NoRow == 0
NoTask == [op |-> "none"]
NoRefresh == [at |-> "none"]
Row == [pull : Pulls, state : States, dismissed : BOOLEAN]
Known == [Pulls -> 0 .. Len(rows)]

\* The types of the variables; what is under way names rows that exist.
RowTypes == rows \in Seq(Row) /\ Len(rows) <= MaxRows
RefreshTypes ==
  refresh \in {NoRefresh, [at |-> "leased"]}
    \cup [at : {"asking"}, left : SUBSET Pulls, known : Known]
    \cup [at : {"finishing"}, left : SUBSET Pulls, known : Known, items : SUBSET Items]
TaskTypes ==
  task \in [Tasks -> {NoTask}
    \cup [op : {"insert", "refer", "state"}, pull : Pulls, item : Items, ship : BOOLEAN]
    \cup [op : {"dismiss"}, pull : Pulls, left : (SUBSET (1 .. Len(rows))) \ {{}}]]
Item == [status : {"active", "shipped", "finished"},
         reference : {0} \cup {Number[p] : p \in Pulls}]
ItemTypes ==
  /\ item \in [Items -> Item]
  /\ late \subseteq Items /\ missed \subseteq Items
OtherTypes ==
  /\ github \in [Pulls -> States \ {"unknown"}] /\ said \in [Pulls -> States]
  /\ moves \in 0 .. MaxMoves /\ failures \in 0 .. MaxFailures
  /\ unwritten \cup crossed \cup reopened \cup rediscovered \cup waved \subseteq Pulls
StoredTypes ==
  /\ disk \in [rows : Seq(Row), item : [Items -> Item]] /\ Len(disk.rows) <= MaxRows
  /\ stalled \subseteq {"rows", "items"}
TypeOK == RowTypes /\ RefreshTypes /\ TaskTypes /\ ItemTypes /\ OtherTypes /\ StoredTypes

Init ==
  /\ github = [p \in Pulls |-> "OPEN"] /\ rows = <<>> /\ refresh = NoRefresh
  /\ item = [i \in Items |-> [status |-> "active", reference |-> 0]]
  /\ task = [t \in Tasks |-> NoTask] /\ moves = 0 /\ failures = 0
  /\ said = [p \in Pulls |-> "unknown"] /\ unwritten = {} /\ crossed = {} /\ reopened = {}
  /\ rediscovered = {} /\ waved = {} /\ late = {} /\ missed = {}
  /\ disk = [rows |-> rows, item |-> item] /\ stalled = {}

Fails == failures < MaxFailures /\ failures' = failures + 1
Fine == UNCHANGED failures
Goes(t, what) == task' = [task EXCEPT ![t] = what]

\* Somebody closes, merges or reopens it on GitHub.
Moves(p) ==
  /\ moves < MaxMoves /\ moves' = moves + 1
  /\ \E to \in (CASE github[p] = "OPEN" -> {"CLOSED", "MERGED"}
                  [] github[p] = "CLOSED" -> {"OPEN"} [] OTHER -> {}) :
       github' = [github EXCEPT ![p] = to]
  /\ UNCHANGED <<rows, refresh, items, task, failures, answers, doubles, waved>>

-----------------------------------------------------------------------------
\* canonical_rows: of the rows of one pull request a visible one wins, then one
\* that has ended, then the oldest.
RowsOf(p) == {r \in DOMAIN rows : rows[r].pull = p}
Visible(r) == ~rows[r].dismissed
Ended(r) == rows[r].state \in {"MERGED", "CLOSED"}
Rank(r) ==
  (IF Visible(r) THEN 5 ELSE 0)
  + (CASE rows[r].state = "MERGED" -> 4 [] rows[r].state = "CLOSED" -> 3
       [] rows[r].state = "OPEN" -> 2 [] OTHER -> 1)
Best(p) ==
  {r \in RowsOf(p) :
     \A s \in RowsOf(p) \ {r} : Rank(r) > Rank(s) \/ (Rank(r) = Rank(s) /\ r < s)}
Canonical(p) == IF Best(p) = {} THEN NoRow ELSE CHOOSE r \in Best(p) : TRUE

Insert(p, state) ==
  /\ Len(rows) < MaxRows
  /\ rows' = Append(rows, [pull |-> p, state |-> state, dismissed |-> FALSE])

-----------------------------------------------------------------------------
\* items.state with a pull request, and pr.link: record_url looks for a row and
\* inserts one where there is none, then the item is referred to it.

\* refresh_project does nothing where the project is being refreshed.
Begin == refresh' = IF refresh = NoRefresh THEN [at |-> "leased"] ELSE refresh

Direct(t, p, i, ship) ==
  /\ task[t] = NoTask
  /\ LET To(op) == Goes(t, [op |-> op, pull |-> p, item |-> i, ship |-> ship]) IN
       \/ RowsOf(p) = {} /\ To("insert") /\ UNCHANGED refresh
       \/ RowsOf(p) # {} /\ To("refer") /\ Begin
       \/ To("refer") /\ UNCHANGED refresh  \* it gives the number alone
  /\ UNCHANGED <<github, rows, items, moves, failures, answers, doubles, waved>>

Record(t) ==
  /\ task[t].op = "insert"
  /\ LET p == task[t].pull IN
       \/ /\ Insert(p, "unknown") /\ Begin /\ Fine
          /\ crossed' = IF RowsOf(p) = {} THEN crossed ELSE crossed \cup {p}
          /\ Goes(t, [task[t] EXCEPT !.op = "refer"])
       \/ Fails /\ Goes(t, NoTask) /\ UNCHANGED <<rows, refresh, crossed>>
  /\ UNCHANGED <<github, items, moves, answers, reopened, rediscovered, waved>>

\* A merge of that number is stored, and nobody will look for its items again.
Noticed(n) ==
  \E r \in DOMAIN rows : Number[rows[r].pull] = n /\ rows[r].state = "MERGED"
Becomes(i, to) ==
  /\ item' = [item EXCEPT ![i] = to]
  /\ late' = IF to.status = "shipped" /\ Noticed(to.reference) THEN late \cup {i} ELSE late
  /\ UNCHANGED missed

Refer(t) ==
  /\ task[t].op = "refer"
  /\ LET i == task[t].item IN
       \/ /\ Becomes(i, [item[i] EXCEPT !.reference = Number[task[t].pull]]) /\ Fine
          /\ Goes(t, IF task[t].ship THEN [task[t] EXCEPT !.op = "state"] ELSE NoTask)
       \/ Fails /\ Goes(t, NoTask) /\ UNCHANGED items
  /\ UNCHANGED <<github, rows, refresh, moves, answers, doubles, waved>>

\* The clearing of the item's retirement and the writing of its status.
State(t) ==
  /\ task[t].op = "state" /\ Goes(t, NoTask)
  /\ LET i == task[t].item IN
       \/ Becomes(i, [item[i] EXCEPT !.status = "shipped"]) /\ Fine
       \/ Fails /\ UNCHANGED items
  /\ UNCHANGED <<github, rows, refresh, moves, answers, doubles, waved>>

-----------------------------------------------------------------------------
\* dismiss_association, of a click or of pr.retire: the rows of the pull request
\* are read at once and written one by one.

Dismiss(t, p) ==
  /\ task[t] = NoTask /\ RowsOf(p) # {}
  /\ Goes(t, [op |-> "dismiss", pull |-> p, left |-> RowsOf(p)])
  /\ UNCHANGED <<github, rows, refresh, items, moves, failures, answers, doubles, waved>>

Hides(r) == rows' = [rows EXCEPT ![r].dismissed = TRUE]
Hide(t) ==
  /\ task[t].op = "dismiss"
  /\ \/ \E r \in task[t].left :
          /\ \A s \in task[t].left : r <= s
          /\ Hides(r) /\ Fine
          /\ IF task[t].left = {r}
               THEN Goes(t, NoTask) /\ waved' = waved \cup {task[t].pull}
               ELSE Goes(t, [task[t] EXCEPT !.left = @ \ {r}]) /\ UNCHANGED waved
     \/ Fails /\ Goes(t, NoTask) /\ UNCHANGED <<rows, waved>>
  /\ UNCHANGED <<github, refresh, items, moves, answers, doubles>>

-----------------------------------------------------------------------------
\* refresh_project.

\* A click on a chip, or the window's periodic call.
Refresh ==
  /\ refresh = NoRefresh /\ Begin
  /\ UNCHANGED <<github, rows, items, task, moves, failures, answers, doubles, waved>>

\* Each repository with a row or a directory is asked: what is open in it, and
\* what became of the rows that are visible and have not ended.
ReadRows ==
  /\ refresh.at = "leased"
  /\ LET asked == {p \in Pulls : RowsOf(p) # {}} \cup Checkouts IN
       refresh' = IF asked = {} THEN NoRefresh
         ELSE [at |-> "asking", left |-> asked, known |-> [p \in Pulls |->
                LET r == Canonical(p) IN
                IF r = NoRow THEN NoRow ELSE IF ~Visible(r) \/ Ended(r) THEN NoRow ELSE r]]
  /\ UNCHANGED <<github, rows, items, task, moves, failures, answers, doubles, waved>>

\* To the next repository.
After(left) ==
  IF left = {} THEN NoRefresh ELSE [at |-> "asking", left |-> left, known |-> refresh.known]

\* Mutant of Undiscovered: every open one is taken for new.
EveryOneIsNew(p) == TRUE
\* Whether an open pull request has a row: only those it asks about are looked at.
Undiscovered(p) == refresh.known[p] = NoRow

\* Mutant of Facts: the row is written back as it was read.
WholeRow(r, state) == rows' = [rows EXCEPT ![r] = [@ EXCEPT !.state = state, !.dismissed = FALSE]]
\* Only the facts of a row are written, whatever became of the row meanwhile.
Facts(r, state) == rows' = [rows EXCEPT ![r].state = state]

\* Mutant of Unknown: the row keeps what it said.
Stale(r) == UNCHANGED rows
\* mark_unknown.
Unknown(r) == Facts(r, "unknown")

\* Mutant of Delivers: of a chip that was waved away nothing is delivered.
DeliversIfShown(r, state) == state = "MERGED" /\ Visible(r)
\* The stored row, read again, says MERGED: finish_shipped_items_for_pr reads the
\* items, by the number alone.
Delivers(r, state) == state = "MERGED"
Shipped(n) == {i \in Items : item[i].status = "shipped" /\ item[i].reference = n}

\* What an open pull request gets another row for, if it has one already.
With(set, p, is) == IF is THEN set \cup {p} ELSE set
Again(p) ==
  LET r == Canonical(p)  has == RowsOf(p) # {} /\ refresh.known[p] = NoRow IN
  /\ rediscovered' = With(rediscovered, p, has /\ ~Visible(r))
  /\ reopened' = With(reopened, p, has /\ Visible(r) /\ Ended(r))
  /\ crossed' = With(crossed, p, has /\ Visible(r) /\ ~Ended(r))

\* gh answers for the repository of p: with an open one of which no row is known,
Discover(p) ==
  /\ Undiscovered(p) /\ github[p] = "OPEN"
  /\ refresh' = After(refresh.left \ {p})
  /\ \/ /\ Insert(p, "OPEN") /\ Fine /\ said' = [said EXCEPT ![p] = "OPEN"]
        /\ Again(p)
     \/ Fails /\ UNCHANGED <<rows, doubles, said>>
  /\ UNCHANGED <<github, items, task, moves, unwritten, waved>>
\* with facts of a known row,
Update(p) ==
  /\ refresh.known[p] # NoRow
  /\ said' = [said EXCEPT ![p] = github[p]]
  /\ LET r == refresh.known[p]  left == refresh.left \ {p} IN
       \/ /\ Facts(r, github[p]) /\ Fine /\ unwritten' = unwritten \ {p}
          /\ refresh' = IF Delivers(r, github[p])
               THEN [at |-> "finishing", left |-> left, known |-> refresh.known,
                     items |-> Shipped(Number[p])]
               ELSE After(left)
       \/ Fails /\ unwritten' = unwritten \cup {p} /\ refresh' = After(left) /\ UNCHANGED rows
  /\ UNCHANGED <<github, items, task, moves, doubles, waved>>
\* with an error, or without the pull request: the row is marked unknown,
Gone(p) ==
  /\ refresh.known[p] # NoRow /\ refresh' = After(refresh.left \ {p}) /\ Fails
  /\ said' = [said EXCEPT ![p] = "unknown"]
  /\ \/ Unknown(refresh.known[p]) /\ unwritten' = unwritten \ {p}
     \/ unwritten' = unwritten \cup {p} /\ UNCHANGED rows
  /\ UNCHANGED <<github, items, task, moves, doubles, waved>>
\* or with nothing to act upon: nothing new, no known row, an answer that is none.
Pass(p) ==
  /\ refresh' = After(refresh.left \ {p})
  /\ \/ Fine /\ Undiscovered(p) /\ github[p] # "OPEN"
     \/ Fails
  /\ UNCHANGED <<github, rows, items, task, moves, answers, doubles, waved>>

Answer ==
  /\ refresh.at = "asking"
  /\ \E p \in refresh.left : Discover(p) \/ Update(p) \/ Gone(p) \/ Pass(p)

\* There is no gh.
NoGh ==
  /\ refresh.at = "asking" /\ Fails /\ refresh' = NoRefresh
  /\ UNCHANGED <<github, rows, items, task, moves, answers, doubles, waved>>

\* One item is finished, whatever it is by now; the first that fails is the last.
Finish ==
  /\ refresh.at = "finishing"
  /\ \/ /\ refresh.items = {} /\ refresh' = After(refresh.left) /\ Fine /\ UNCHANGED items
     \/ \E i \in refresh.items :
          /\ item' = [item EXCEPT ![i].status = "finished"] /\ Fine
          /\ refresh' = [refresh EXCEPT !.items = @ \ {i}] /\ UNCHANGED <<late, missed>>
     \/ /\ refresh.items # {} /\ Fails /\ refresh' = After(refresh.left)
        /\ missed' = missed \cup refresh.items /\ UNCHANGED <<item, late>>
  /\ UNCHANGED <<github, rows, task, moves, answers, doubles, waved>>

\* The background writer of a table falls behind: what is written from now on is
\* still queued when the application dies.  One that catches up before loses
\* nothing.
Stall(table) ==
  /\ table \notin stalled /\ stalled' = stalled \cup {table} /\ Fails
  /\ UNCHANGED <<github, rows, refresh, items, task, moves, answers, doubles, waved, disk>>

Stored ==
  /\ disk' = [rows |-> IF "rows" \in stalled THEN disk.rows ELSE rows',
                item |-> IF "items" \in stalled THEN disk.item ELSE item']
  /\ UNCHANGED stalled

\* What a crash loses: pull requests and items of which a write is still queued.
StoredOf(p) == {r \in DOMAIN disk.rows : disk.rows[r].pull = p}
LostPulls ==
  {p \in Pulls : StoredOf(p) # RowsOf(p) \/ \E r \in RowsOf(p) : disk.rows[r] # rows[r]}
LostItems == {i \in Items : disk.item[i] # item[i]}

\* The application dies, and is started again with what is on disk.
Crash ==
  /\ IF stalled = {} THEN Fails ELSE Fine
  /\ refresh' = NoRefresh /\ task' = [t \in Tasks |-> NoTask]
  /\ rows' = disk.rows /\ item' = disk.item
  /\ missed' = LostItems \cup missed
       \cup (IF refresh.at = "finishing" THEN refresh.items ELSE {})
  /\ waved' = waved \ LostPulls /\ unwritten' = unwritten \cup LostPulls
  /\ stalled' = {} /\ UNCHANGED <<github, late, moves, said, doubles, disk>>

\* Everything that goes on while the application runs.
Runs ==
  \/ \E p \in Pulls : Moves(p)
  \/ \E t \in Tasks : \/ \E p \in Pulls, i \in Items, ship \in BOOLEAN : Direct(t, p, i, ship)
                      \/ Record(t) \/ Refer(t) \/ State(t)
                      \/ (\E p \in Pulls : Dismiss(t, p)) \/ Hide(t)
  \/ Refresh \/ ReadRows \/ Answer \/ NoGh \/ Finish

Next == (Runs /\ Stored) \/ (\E table \in {"rows", "items"} : Stall(table)) \/ Crash

Spec == Init /\ [][Next]_vars

-----------------------------------------------------------------------------
\* The list shows one chip of a pull request.  Two rows are visible only of one
\* that two writers recorded at once (neither locks between its look and its
\* insertion) or that was reopened: discovery forgets rows that have ended.
OneVisible ==
  \A p \in Pulls \ (crossed \cup reopened) :
    \A r, s \in RowsOf(p) : Visible(r) /\ Visible(s) => r = s

\* What the owner waves away stays away, whatever a refresh that had read it
\* before still writes.  It comes back only where discovery finds it open and
\* takes it for new, where it was recorded twice or reopened meanwhile, or where
\* the application died with writes of its rows still queued.
WavedStays ==
  \A p \in waved \ (rediscovered \cup crossed \cup reopened) :
    \A r \in RowsOf(p) : ~Visible(r)

\* Once a merge is stored nobody asks about it again: what was shipped with it is
\* finished, or is just being finished.  The exceptions are an item that was
\* shipped, or referred to it, only when the merge was stored, one whose
\* finishing was cut short by a failure or a crash, and one of which a crash lost
\* a write: the merge may be on disk where the item's end is not.
MergeFinishes ==
  \A i \in Items \ (late \cup missed) :
    item[i].status = "shipped" /\ Noticed(item[i].reference)
      => refresh.at = "finishing" /\ i \in refresh.items

\* "Say that we no longer know, rather than repeating what we last knew": a chip
\* says what GitHub last said of it, or that nothing is known; but where the answer
\* was not stored, or was still queued when the application died.
ChipIsHonest ==
  \A p \in Pulls \ (unwritten \cup crossed \cup reopened) :
    LET r == Canonical(p) IN
    r # NoRow => ~Visible(r) \/ rows[r].state \in {"unknown", said[p]}
=============================================================================
