------------------------------ MODULE Items_proofs ------------------------------
(***************************************************************************)
(* Theorems about what a project tracks: its items and its pull requests.  *)
(*                                                                         *)
(* TrackedItems, for any number of items, of commands and messages that    *)
(* are handled at once, of forks and of writes that fail: its types, that  *)
(* a fork keeps the row it depends on, that no finished row is immortal,   *)
(* and that a finished item keeps its grace.  The last two look at what a  *)
(* step means to one item (Moves1).                                        *)
(*                                                                         *)
(* PullRequests, for any number of pull requests, items and tasks: its     *)
(* types, that a merge finishes what was shipped with it, that what was    *)
(* waved away stays away, that the list shows one chip of a pull request,  *)
(* and that a chip says what GitHub last said.                             *)
(***************************************************************************)
EXTENDS TrackedItems, PullRequests, FiniteSetTheorems, WellFoundedInduction, TLAPS

-----------------------------------------------------------------------------
\* TrackedItems.


\* The works of each kind.
AddWork == [op : {"add"}, item : Tracked, to : {"open", "finished"}, at : {"mark", "insert"}]
StatusWork ==
  [op : {"status"}, item : Tracked, to : Live, by : {"owner", "agent", "merge"},
   mode : {"keep", "delete", "archive"}, at : {"mark", "write", "archive", "unmark"}]
RemoveWork ==
  [op : {"remove"}, item : Tracked, by : {"owner", "agent"}, at : {"archive", "delete", "unmark"}]
ForkWork == [op : {"fork"}, item : Tracked, at : {"insert", "handoff"}]
AgeWork ==
  [op : {"age"}, mid : BOOLEAN, at : {"backfill", "look", "count", "delete", "archive", "unmark"},
   item : Tracked \cup {NoItem}, todo : SUBSET Tracked, list : [Tracked -> 0 .. Retention],
   current : SUBSET Tracked, steady : SUBSET Tracked]

\* The operation of a job says which of the records it is.
LEMMA WorkKinds ==
  ASSUME NEW w \in Works
  PROVE  /\ w.op \in {"idle", "add", "status", "remove", "fork", "age"}
         /\ w.op = "idle" => w = Idle
         /\ w.op = "add" => w \in AddWork
         /\ w.op = "status" => w \in StatusWork
         /\ w.op = "remove" => w \in RemoveWork
         /\ w.op = "fork" => w \in ForkWork
         /\ w.op = "age" => w \in AgeWork
BY DEF Works, Idle, AddWork, StatusWork, RemoveWork, ForkWork, AgeWork

\* Every one of those records is a job's.
LEMMA KindWorks ==
  /\ Idle \in Works /\ AddWork \subseteq Works /\ StatusWork \subseteq Works
  /\ RemoveWork \subseteq Works /\ ForkWork \subseteq Works /\ AgeWork \subseteq Works
BY DEF Works, Idle, AddWork, StatusWork, RemoveWork, ForkWork, AgeWork

JobTypes == job \in [Jobs -> Works]

\* What is left of an ageing that was told of item i.
Told(w, i) == [w EXCEPT !.current = @ \ {i}, !.steady = @ \ {i}]

\* A pass that is told of a change is still a pass.
LEMMA ToldType ==
  ASSUME NEW w \in AgeWork, NEW i \in Tracked
  PROVE  /\ Told(w, i) \in AgeWork
         /\ Told(w, i).op = "age" /\ Told(w, i).mid = w.mid /\ Told(w, i).at = w.at
         /\ Told(w, i).item = w.item /\ Told(w, i).todo = w.todo /\ Told(w, i).list = w.list
         /\ Told(w, i).current = w.current \ {i} /\ Told(w, i).steady = w.steady \ {i}
BY DEF Told, AgeWork

\* One job goes on, and the others are where they were.
LEMMA GoesOnEffect ==
  ASSUME JobTypes, NEW t \in Jobs, NEW w \in Works, GoesOn(t, w)
  PROVE  /\ JobTypes' /\ job'[t] = w
         /\ \A u \in Jobs \ {t} : job'[u] = job[u]
BY DEF JobTypes, GoesOn

\* What a write to an item does to the jobs.
LEMMA TouchesEffect ==
  ASSUME JobTypes, NEW t \in Jobs, NEW i \in Tracked, NEW w \in Works, Touches(t, i, w)
  PROVE  /\ JobTypes' /\ job'[t] = w
         /\ \A u \in Jobs \ {t} : job'[u] = IF Ageing(u) THEN Told(job[u], i) ELSE job[u]
         /\ spared' = [spared EXCEPT ![i] = 0]
<1>1. job' = [u \in Jobs |-> IF u = t THEN w ELSE IF Ageing(u) THEN Told(job[u], i) ELSE job[u]]
  BY DEF Touches, Told
<1>2. ASSUME NEW u \in Jobs, Ageing(u) PROVE Told(job[u], i) \in Works
  BY <1>2, WorkKinds, KindWorks, ToldType DEF JobTypes, Ageing
<1>3. QED
  BY <1>1, <1>2 DEF JobTypes, Touches

-----------------------------------------------------------------------------
\* An ageing takes the items it has still to age, with the markers it read.
ShapeOf(w) ==
  w.op = "age" =>
    /\ w.at \in {"backfill", "look"} => w.item = NoItem
    /\ w.at \notin {"backfill", "look"} => w.item \in w.todo
    /\ w.at # "backfill" => \A i \in w.todo : w.list[i] > 0
    /\ w.at \in {"delete", "archive"} => w.list[w.item] <= 1
Shape == \A t \in Jobs : ShapeOf(job[t])

\* A job that goes on keeps the shape of the jobs ...
LEMMA GoesOnShape ==
  ASSUME JobTypes, Shape, NEW t \in Jobs, NEW w \in Works, ShapeOf(w), GoesOn(t, w)
  PROVE  JobTypes' /\ Shape'
BY GoesOnEffect DEF Shape, ShapeOf

\* ... and so does one that writes to an item.
LEMMA TouchesShape ==
  ASSUME JobTypes, Shape, NEW t \in Jobs, NEW i \in Tracked, NEW w \in Works, ShapeOf(w),
         Touches(t, i, w)
  PROVE  JobTypes' /\ Shape'
<1>1. JobTypes' /\ job'[t] = w
      /\ \A u \in Jobs \ {t} : job'[u] = IF Ageing(u) THEN Told(job[u], i) ELSE job[u]
  BY TouchesEffect
<1>2. ASSUME NEW u \in Jobs \ {t}, Ageing(u) PROVE ShapeOf(Told(job[u], i))
  <2>1. job[u] \in AgeWork
    BY <1>2, WorkKinds DEF JobTypes, Ageing
  <2>2. ShapeOf(job[u])
    BY DEF Shape
  <2>3. QED
    BY <2>1, <2>2, ToldType DEF ShapeOf, AgeWork
<1>3. QED
  BY <1>1, <1>2 DEF Shape

\* Only a pass has more to its shape.
LEMMA PlainShape ==
  ASSUME NEW w, w.op # "age"
  PROVE  ShapeOf(w)
BY DEF ShapeOf

\* What an ageing does to its record.
LEMMA AtType ==
  ASSUME JobTypes, NEW t \in Jobs, job[t].op = "age",
         NEW at \in {"backfill", "look", "count", "delete", "archive", "unmark"}
  PROVE  /\ At(t, at) \in AgeWork
         /\ At(t, at).op = "age" /\ At(t, at).mid = job[t].mid /\ At(t, at).at = at
         /\ At(t, at).item = job[t].item /\ At(t, at).todo = job[t].todo
         /\ At(t, at).list = job[t].list /\ At(t, at).current = job[t].current
         /\ At(t, at).steady = job[t].steady
<1>1. job[t] \in AgeWork
  BY WorkKinds DEF JobTypes
<1>2. QED
  BY <1>1 DEF At, AgeWork

\* A pass goes further with the item it looked at put aside.
LEMMA FurtherType ==
  ASSUME JobTypes, NEW t \in Jobs, job[t].op = "age", NEW i \in Tracked
  PROVE  /\ Further(t, i) \in AgeWork
         /\ Further(t, i).op = "age" /\ Further(t, i).mid = job[t].mid /\ Further(t, i).at = "look"
         /\ Further(t, i).item = NoItem /\ Further(t, i).todo = job[t].todo \ {i}
         /\ Further(t, i).list = job[t].list /\ Further(t, i).current = job[t].current
         /\ Further(t, i).steady = job[t].steady
<1>1. job[t] \in AgeWork
  BY WorkKinds DEF JobTypes
<1>2. QED
  BY <1>1 DEF Further, AgeWork

\* Going on with the next item keeps the shape.
LEMMA FurtherShape ==
  ASSUME JobTypes, Shape, NEW t \in Jobs, job[t].op = "age", job[t].at # "backfill", NEW i \in Tracked,
         GoesOn(t, Further(t, i))
  PROVE  JobTypes' /\ Shape'
<1>1. ShapeOf(job[t])
  BY DEF Shape
<1>2. ShapeOf(Further(t, i))
  BY <1>1, FurtherType DEF ShapeOf
<1>3. QED
  BY <1>2, FurtherType, KindWorks, GoesOnShape

\* Where a command's job goes on to.
LEMMA PlainAt ==
  ASSUME JobTypes, NEW t \in Jobs, NEW at
  PROVE  /\ job[t].op = "add" /\ at = "insert" =>
              At(t, at) \in Works /\ At(t, at).op = "add" /\ At(t, at).item = job[t].item
         /\ job[t].op = "status" /\ at \in {"write", "archive", "unmark"} =>
              At(t, at) \in Works /\ At(t, at).op = "status" /\ At(t, at).item = job[t].item
              /\ At(t, at).mode = job[t].mode
         /\ job[t].op = "remove" /\ at = "unmark" =>
              At(t, at) \in Works /\ At(t, at).op = "remove" /\ At(t, at).item = job[t].item
              /\ At(t, at).at = at
         /\ job[t].op = "fork" /\ at = "handoff" =>
              At(t, at) \in Works /\ At(t, at).op = "fork" /\ At(t, at).item = job[t].item
              /\ At(t, at).at = at
<1>1. job[t] \in Works
  BY DEF JobTypes
<1>2. CASE job[t].op = "add"
  BY <1>1, <1>2, WorkKinds, KindWorks DEF At, AddWork
<1>3. CASE job[t].op = "status"
  BY <1>1, <1>3, WorkKinds, KindWorks DEF At, StatusWork
<1>4. CASE job[t].op = "remove"
  BY <1>1, <1>4, WorkKinds, KindWorks DEF At, RemoveWork
<1>5. CASE job[t].op = "fork"
  BY <1>1, <1>5, WorkKinds, KindWorks DEF At, ForkWork
<1>6. QED
  BY <1>2, <1>3, <1>4, <1>5

\* Every step leaves the jobs typed and in shape.
LEMMA AsksJobs ==
  ASSUME ItemsTypeOK, Shape, NEW t \in Jobs, NEW i \in Tracked, Asks(t, i)
  PROVE  JobTypes' /\ Shape'
<1>1. JobTypes
  BY DEF ItemsTypeOK, JobTypes
<1>2. ASSUME NEW w \in AddWork \cup RemoveWork \cup StatusWork \cup ForkWork, GoesOn(t, w) PROVE JobTypes' /\ Shape'
  <2>1. w \in Works /\ w.op # "age"
    BY <1>2, KindWorks DEF AddWork, RemoveWork, StatusWork, ForkWork
  <2>2. QED
    BY <1>1, <1>2, <2>1, GoesOnShape, PlainShape
<1>3. ASSUME NEW to \in {"open", "finished"}, Add(t, i, to) PROVE JobTypes' /\ Shape'
  BY <1>2, <1>3 DEF Add, AddWork
<1>4. ASSUME NEW to \in Live, NEW by \in {"owner", "agent", "merge"}, NEW at \in {"mark", "write"},
             Starts(t, i, to, by, at)
      PROVE  JobTypes' /\ Shape'
  BY <1>2, <1>4 DEF Starts, Status, Mode, StatusWork
<1>5. ASSUME NEW by \in {"owner", "agent"}, NEW at \in {"archive", "delete"}, Removes(t, i, by, at)
      PROVE  JobTypes' /\ Shape'
  BY <1>2, <1>5 DEF Removes, Removal, RemoveWork
<1>6. ASSUME Fork(t, i) PROVE JobTypes' /\ Shape'
  BY <1>2, <1>6 DEF Fork, ForkWork
<1>7. QED
  BY <1>3, <1>4, <1>5, <1>6 DEF Asks, Click, Directs, Merge, Remove, Withdraw, Live

\* The commands keep the jobs' types and shape ...
LEMMA CommandJobs ==
  ASSUME ItemsTypeOK, Shape, NEW t \in Jobs,
         Mark(t) \/ InsertRow(t) \/ Write(t) \/ Delete(t) \/ InsertFork(t) \/ Handoff(t) \/ Fail(t)
  PROVE  JobTypes' /\ Shape'
<1>1. JobTypes
  BY DEF ItemsTypeOK, JobTypes
<1>2. Idle \in Works /\ ShapeOf(Idle)
  BY KindWorks, PlainShape DEF Idle
<1>3. job[t].op \in {"add", "status", "remove"} => job[t].item \in Tracked
  BY <1>1, WorkKinds DEF JobTypes, AddWork, StatusWork, RemoveWork
<1>4. CASE Mark(t)
  <2> DEFINE w == At(t, IF job[t].op = "add" THEN "insert" ELSE "write")
  <2>1. w \in Works /\ w.op # "age"
    BY <1>1, <1>4, PlainAt DEF Mark
  <2>2. Touches(t, job[t].item, w) /\ job[t].item \in Tracked
    BY <1>3, <1>4 DEF Mark
  <2>3. QED
    BY <1>1, <2>1, <2>2, TouchesShape, PlainShape
<1>5. CASE InsertRow(t)
  BY <1>1, <1>2, <1>3, <1>5, TouchesShape DEF InsertRow
<1>6. CASE Write(t)
  <2>1. /\ \/ GoesOn(t, Idle) \/ Touches(t, job[t].item, Idle) \/ Touches(t, job[t].item, At(t, "archive"))
        /\ job[t].op = "status" /\ job[t].item \in Tracked
    BY <1>3, <1>6 DEF Write
  <2>2. At(t, "archive") \in Works /\ At(t, "archive").op # "age"
    BY <1>1, <2>1, PlainAt
  <2>3. QED
    BY <1>1, <1>2, <2>1, <2>2, GoesOnShape, TouchesShape, PlainShape
<1>7. CASE Delete(t)
  <2>1. /\ \/ GoesOn(t, Idle) \/ Touches(t, job[t].item, Idle) \/ Touches(t, job[t].item, At(t, "unmark"))
        /\ job[t].op = "remove" /\ job[t].item \in Tracked
    BY <1>3, <1>7 DEF Delete
  <2>2. At(t, "unmark") \in Works /\ At(t, "unmark").op # "age"
    BY <1>1, <2>1, PlainAt
  <2>3. QED
    BY <1>1, <1>2, <2>1, <2>2, GoesOnShape, TouchesShape, PlainShape
<1>8. CASE InsertFork(t)
  <2>1. GoesOn(t, At(t, "handoff")) /\ At(t, "handoff") \in Works /\ At(t, "handoff").op # "age"
    BY <1>1, <1>8, PlainAt DEF InsertFork
  <2>2. QED
    BY <1>1, <2>1, GoesOnShape, PlainShape
<1>9. CASE Handoff(t) \/ Fail(t)
  BY <1>1, <1>2, <1>9, GoesOnShape DEF Handoff, Fail
<1>10. QED
  BY <1>4, <1>5, <1>6, <1>7, <1>8, <1>9

\* ... and the archive's steps ...
LEMMA ArchiveJobs ==
  ASSUME ItemsTypeOK, Shape, NEW t \in Jobs, Archive(t) \/ Unmark(t)
  PROVE  JobTypes' /\ Shape'
<1>1. JobTypes /\ ShapeOf(job[t])
  BY DEF ItemsTypeOK, JobTypes, Shape
<1>2. Idle \in Works /\ ShapeOf(Idle)
  BY KindWorks, PlainShape DEF Idle
<1>3. job[t].op \in {"status", "remove"} => job[t].item \in Tracked
  BY <1>1, WorkKinds DEF JobTypes, StatusWork, RemoveWork
<1>4. job[t].op = "age" /\ job[t].at \in {"archive", "unmark"} => job[t].item \in job[t].todo /\ job[t].item \in Tracked
                                                               /\ \A j \in job[t].todo : job[t].list[j] > 0
  BY <1>1, WorkKinds DEF JobTypes, AgeWork, ShapeOf
<1>5. CASE Archive(t)
  <2>1. CASE GoesOn(t, Idle)
    BY <1>1, <1>2, <2>1, GoesOnShape
  <2>2. CASE GoesOn(t, At(t, "unmark"))
    <3>1. CASE job[t].op \in {"status", "remove"}
      BY <1>1, <2>2, <3>1, PlainAt, PlainShape, GoesOnShape
    <3>2. CASE job[t].op = "age"
      <4>1. At(t, "unmark") \in Works /\ ShapeOf(At(t, "unmark"))
        BY <1>1, <1>4, <1>5, <3>2, AtType, KindWorks DEF ShapeOf, Archive
      <4>2. QED
        BY <1>1, <2>2, <4>1, GoesOnShape
    <3>3. QED
      BY <1>5, <3>1, <3>2 DEF Archive
  <2>3. QED
    BY <1>5, <2>1, <2>2 DEF Archive
<1>6. CASE Unmark(t)
  <2>1. CASE job[t].op = "age"
    BY <1>1, <1>4, <1>6, <2>1, FurtherShape DEF Unmark, Ageing
  <2>2. CASE job[t].op \in {"status", "remove"}
    BY <1>1, <1>2, <1>3, <1>6, <2>2, TouchesShape DEF Unmark, Ageing
  <2>3. QED
    BY <1>6, <2>1, <2>2 DEF Unmark
<1>7. QED
  BY <1>5, <1>6

\* ... and the steps of a pass ...
LEMMA AgeingJobs ==
  ASSUME ItemsTypeOK, Shape, NEW t \in Jobs, Ageings(t)
  PROVE  JobTypes' /\ Shape'
<1>1. JobTypes /\ ShapeOf(job[t]) /\ job[t].op = "age"
  BY DEF ItemsTypeOK, JobTypes, Shape, Ageings, Ageing, Backfill, List, Look, Count, Retire, Aged
<1>2. Idle \in Works /\ ShapeOf(Idle)
  BY KindWorks, PlainShape DEF Idle
<1>3. job[t] \in AgeWork
  BY <1>1, WorkKinds DEF JobTypes
<1>4. CASE Backfill(t)
  <2>1. PICK i \in job[t].todo : GoesOn(t, [job[t] EXCEPT !.todo = @ \ {i}])
    BY <1>4 DEF Backfill
  <2> DEFINE w == [job[t] EXCEPT !.todo = @ \ {i}]
  <2>2. w \in Works /\ ShapeOf(w)
    BY <1>1, <1>3, <1>4, KindWorks DEF AgeWork, ShapeOf, Backfill
  <2>3. QED
    BY <1>1, <2>1, <2>2, GoesOnShape
<1>5. CASE List(t)
  <2> DEFINE marked == {i \in Tracked : marker[i] > 0}
             w == [At(t, "look") EXCEPT !.todo = marked, !.current = marked, !.list = marker]
  <2>1. GoesOn(t, w)
    BY <1>5 DEF List
  <2>2. marker \in [Tracked -> 0 .. Retention] /\ At(t, "look") \in AgeWork
        /\ At(t, "look").op = "age" /\ At(t, "look").at = "look" /\ At(t, "look").item = NoItem
    BY <1>1, <1>5, AtType DEF ItemsTypeOK, ShapeOf, List
  <2>3. w \in AgeWork /\ ShapeOf(w)
    BY <2>2 DEF AgeWork, ShapeOf
  <2>4. QED
    BY <1>1, <2>1, <2>3, KindWorks, GoesOnShape
<1>6. CASE Look(t)
  <2>1. PICK i \in job[t].todo : GoesOn(t, Further(t, i)) \/ GoesOn(t, [At(t, "count") EXCEPT !.item = i])
    BY <1>6 DEF Look
  <2>2. i \in Tracked /\ job[t].at = "look"
    BY <1>3, <1>6 DEF AgeWork, Look
  <2> DEFINE w == [At(t, "count") EXCEPT !.item = i]
  <2>3. w \in AgeWork /\ ShapeOf(w)
    BY <1>1, <2>2, AtType DEF AgeWork, ShapeOf
  <2>4. QED
    BY <1>1, <2>1, <2>2, <2>3, KindWorks, FurtherShape, GoesOnShape
<1>7. CASE Count(t)
  <2>1. job[t].item \in job[t].todo /\ job[t].item \in Tracked /\ job[t].at = "count"
    BY <1>1, <1>3, <1>7 DEF AgeWork, ShapeOf, Count
  <2>2. CASE GoesOn(t, Further(t, job[t].item))
    BY <1>1, <2>1, <2>2, FurtherShape
  <2>3. ASSUME NEW at \in {"archive", "delete"}, job[t].list[job[t].item] <= 1, GoesOn(t, At(t, at))
        PROVE  JobTypes' /\ Shape'
    <3>1. At(t, at) \in Works /\ ShapeOf(At(t, at))
      BY <1>1, <2>1, <2>3, AtType, KindWorks DEF ShapeOf
    <3>2. QED
      BY <1>1, <2>3, <3>1, GoesOnShape
  <2>4. QED
    BY <1>7, <2>2, <2>3 DEF Count
<1>8. CASE Retire(t)
  <2>1. At(t, "unmark") \in Works /\ ShapeOf(At(t, "unmark"))
    BY <1>1, <1>8, AtType, KindWorks DEF ShapeOf, Retire
  <2>2. QED
    BY <1>1, <1>2, <1>8, <2>1, GoesOnShape DEF Retire
<1>9. CASE Aged(t)
  BY <1>1, <1>2, <1>9, GoesOnShape DEF Aged
<1>10. QED
  BY <1>4, <1>5, <1>6, <1>7, <1>8, <1>9 DEF Ageings

\* The job and the other ageings, once a message has come.
LEMMA MessageEffect ==
  ASSUME ItemsTypeOK, NEW t \in Jobs, NEW mid \in BOOLEAN, Message(t, mid)
  PROVE  /\ job'[t] \in AgeWork
         /\ job'[t].op = "age" /\ job'[t].mid = mid /\ job'[t].at = "backfill" /\ job'[t].item = NoItem
         /\ job'[t].todo = Ripe /\ job'[t].current = {}
         /\ job'[t].steady = IF \A u \in Jobs \ {t} : ~Ageing(u) THEN Ripe ELSE {}
         /\ \A u \in Jobs \ {t} : Ageing(u) => 
              /\ job'[u] \in AgeWork
              /\ job'[u].mid = job[u].mid /\ job'[u].at = job[u].at /\ job'[u].item = job[u].item
              /\ job'[u].todo = job[u].todo /\ job'[u].list = job[u].list
              /\ job'[u].current = job[u].current /\ job'[u].steady = {}
         /\ \A u \in Jobs \ {t} : ~Ageing(u) => job'[u] = job[u]
         /\ JobTypes'
<1> DEFINE others == {u \in Jobs \ {t} : Ageing(u)}
           w == [op |-> "age", mid |-> mid, at |-> "backfill", item |-> NoItem, todo |-> Ripe,
                 list |-> [i \in Tracked |-> 0], current |-> {},
                 steady |-> IF others = {} THEN Ripe ELSE {}]
<1>1. job' = [u \in Jobs |-> IF u = t THEN w
                             ELSE IF u \in others THEN [job[u] EXCEPT !.steady = {}] ELSE job[u]]
  BY DEF Message
<1>2. w \in AgeWork
  BY RetentionAssumption DEF AgeWork, Ripe
<1>3. ASSUME NEW u \in Jobs \ {t}, Ageing(u)
      PROVE  /\ job'[u] \in AgeWork
             /\ job'[u].mid = job[u].mid /\ job'[u].at = job[u].at /\ job'[u].item = job[u].item
             /\ job'[u].todo = job[u].todo /\ job'[u].list = job[u].list
             /\ job'[u].current = job[u].current /\ job'[u].steady = {}
  <2>1. job[u] \in AgeWork
    BY <1>3, WorkKinds DEF ItemsTypeOK, Ageing
  <2>2. job'[u] = [job[u] EXCEPT !.steady = {}]
    BY <1>1, <1>3
  <2>3. QED
    BY <2>1, <2>2 DEF AgeWork
<1>4. \A u \in Jobs \ {t} : ~Ageing(u) => job'[u] = job[u]
  BY <1>1
<1>5. job'[t] = w
  BY <1>1
<1>6. JobTypes'
  <2>1. \A u \in Jobs : job'[u] \in Works
    BY <1>2, <1>3, <1>4, <1>5, KindWorks DEF ItemsTypeOK
  <2>2. QED
    BY <1>1, <2>1 DEF JobTypes
<1>7. (others = {}) <=> (\A u \in Jobs \ {t} : ~Ageing(u))
  OBVIOUS
<1>8. QED
  BY <1>2, <1>3, <1>4, <1>5, <1>6, <1>7

\* ... and so does every step.
LEMMA JobStep ==
  ASSUME ItemsTypeOK, Shape, [ItemsNext]_itemVars
  PROVE  JobTypes' /\ Shape'
<1>1. CASE UNCHANGED itemVars
  BY <1>1 DEF itemVars, ItemsTypeOK, JobTypes, Shape, ShapeOf
<1>2. ASSUME NEW t \in Jobs, NEW mid \in BOOLEAN, Message(t, mid) PROVE JobTypes' /\ Shape'
  <2>1. \A u \in Jobs : ShapeOf(job[u])
    BY DEF Shape
  <2>2. \A u \in Jobs : ShapeOf(job'[u])
    BY <1>2, <2>1, MessageEffect DEF ShapeOf, Ageing
  <2>3. QED
    BY <1>2, <2>2, MessageEffect DEF Shape
<1>3. ASSUME NEW t \in Jobs, Steps(t) PROVE JobTypes' /\ Shape'
  BY <1>3, CommandJobs, ArchiveJobs, AgeingJobs DEF Steps
<1>4. QED
  BY <1>1, <1>2, <1>3, AsksJobs DEF ItemsNext

-----------------------------------------------------------------------------
\* A job that does not act is at most told that an item was written or that a
\* message has come.
Like(v, w) ==
  \/ w = v
  \/ /\ v.op = "age" /\ w.op = "age" /\ w.mid = v.mid /\ w.at = v.at
     /\ w.item = v.item /\ w.todo = v.todo /\ w.list = v.list
Acts(t) ==
  Steps(t) \/ (\E i \in Tracked : Asks(t, i)) \/ (\E mid \in BOOLEAN : Message(t, mid))

\* What a step of one job leaves of another.
LEMMA OthersLike ==
  ASSUME ItemsTypeOK, NEW t \in Jobs, Acts(t)
  PROVE  \A u \in Jobs \ {t} : Like(job[u], job'[u])
<1>1. JobTypes
  BY DEF ItemsTypeOK, JobTypes
<1>2. ASSUME NEW w, GoesOn(t, w) PROVE \A u \in Jobs \ {t} : Like(job[u], job'[u])
  BY <1>1, <1>2 DEF GoesOn, Like, JobTypes
<1>3. ASSUME NEW i, NEW w, Touches(t, i, w) PROVE \A u \in Jobs \ {t} : Like(job[u], job'[u])
  <2>1. ASSUME NEW u \in Jobs \ {t} PROVE Like(job[u], job'[u])
    <3>1. CASE job[u].op = "age"
      <4>1. job[u] \in AgeWork /\ job'[u] = [job[u] EXCEPT !.current = @ \ {i}, !.steady = @ \ {i}]
        BY <1>1, <1>3, <3>1, WorkKinds DEF JobTypes, Touches, Ageing
      <4>2. QED
        BY <4>1 DEF AgeWork, Like
    <3>2. CASE job[u].op # "age"
      BY <1>3, <3>2 DEF Touches, Ageing, Like
    <3>3. QED
      BY <3>1, <3>2
  <2>2. QED
    BY <2>1
<1>4. ASSUME NEW mid \in BOOLEAN, Message(t, mid) PROVE \A u \in Jobs \ {t} : Like(job[u], job'[u])
  <2>1. ASSUME NEW u \in Jobs \ {t} PROVE Like(job[u], job'[u])
    <3>1. CASE Ageing(u)
      <4>1. job'[u] \in AgeWork
        BY <1>4, <3>1, MessageEffect
      <4>2. QED
        BY <1>4, <3>1, <4>1, MessageEffect DEF Like, AgeWork, Ageing
    <3>2. CASE ~Ageing(u)
      BY <1>4, <3>2, MessageEffect DEF Like
    <3>3. QED
      BY <3>1, <3>2
  <2>2. QED
    BY <2>1
<1>5. ASSUME NEW i \in Tracked, Asks(t, i) PROVE \E w : GoesOn(t, w)
  BY <1>5, Zenon DEF Asks, Add, Click, Directs, Merge, Starts, Remove, Withdraw, Removes, Fork
<1>6. ASSUME Mark(t) \/ InsertRow(t) \/ Write(t) \/ Delete(t) \/ Unmark(t)
      PROVE  (\E w : GoesOn(t, w)) \/ (\E i, w : Touches(t, i, w))
  BY <1>6, Zenon DEF Mark, InsertRow, Write, Delete, Unmark
<1>7. ASSUME Archive(t) \/ InsertFork(t) \/ Handoff(t) \/ Fail(t) PROVE \E w : GoesOn(t, w)
  BY <1>7, Zenon DEF Archive, InsertFork, Handoff, Fail
<1>8. ASSUME Ageings(t) PROVE \E w : GoesOn(t, w)
  <2>1. Backfill(t) \/ List(t) \/ Look(t) => \E w : GoesOn(t, w)
    BY Zenon DEF Backfill, List, Look
  <2>2. Count(t) \/ Retire(t) \/ Aged(t) => \E w : GoesOn(t, w)
    BY Zenon DEF Count, Retire, Aged
  <2>3. QED
    BY <1>8, <2>1, <2>2 DEF Ageings
<1>9. QED
  BY <1>2, <1>3, <1>4, <1>5, <1>6, <1>7, <1>8 DEF Acts, Steps

\* Projects whose handoff is still to be saved: each is one of the forks.
Handing(t, i) == job[t].op = "fork" /\ job[t].at = "handoff" /\ job[t].item = i
HandoffsOf(i) == {t \in Jobs : Handing(t, i)}
ForksCounted == \A i \in Tracked : Cardinality(HandoffsOf(i)) <= forks[i]

\* There are finitely many handoffs of an item.
LEMMA HandoffsFinite ==
  ASSUME NEW i
  PROVE  IsFiniteSet(HandoffsOf(i)) /\ Cardinality(HandoffsOf(i)) \in Nat
<1>1. HandoffsOf(i) \subseteq Jobs
  BY DEF HandoffsOf
<1>2. QED
  BY <1>1, JobsAssumption, FS_Subset, FS_CardinalityType

\* Only the two steps of a fork and its handoff change either.
LEMMA HandoffsSame ==
  ASSUME ItemsTypeOK, NEW t \in Jobs, Acts(t), NEW i \in Tracked,
         ~Handing(t, i), ~Handing(t, i)'
  PROVE  HandoffsOf(i)' = HandoffsOf(i)
<1>1. \A u \in Jobs : Handing(u, i)' <=> Handing(u, i)
  BY OthersLike DEF Like, Handing
<1>2. QED
  BY <1>1 DEF HandoffsOf

\* Where a step takes its job.
LEMMA GoesTo ==
  ASSUME ItemsTypeOK, NEW t \in Jobs, NEW w
  PROVE  /\ GoesOn(t, w) => job'[t] = w
         /\ \A i : Touches(t, i, w) => job'[t] = w
BY DEF ItemsTypeOK, GoesOn, Touches

\* Only a fork's steps change the number of forks or of handoffs.
LEMMA NoHandoff ==
  ASSUME ItemsTypeOK, NEW t \in Jobs, Acts(t), ~InsertFork(t), ~Handoff(t)
  PROVE  UNCHANGED forks /\ \A i \in Tracked : ~Handing(t, i) /\ ~Handing(t, i)'
<1>1. job[t] \in Works
  BY DEF ItemsTypeOK
<1>2. ASSUME NEW i \in Tracked, Asks(t, i)
      PROVE  UNCHANGED forks /\ job[t].op # "fork" /\ (job'[t].op # "fork" \/ job'[t].at # "handoff")
  <2>1. ASSUME NEW to, Add(t, i, to)
        PROVE  UNCHANGED forks /\ job[t].op # "fork" /\ (job'[t].op # "fork" \/ job'[t].at # "handoff")
    BY <2>1, GoesTo DEF Add, Idle, stored
  <2>2. ASSUME NEW to, NEW by, NEW at, Starts(t, i, to, by, at)
        PROVE  UNCHANGED forks /\ job[t].op # "fork" /\ (job'[t].op # "fork" \/ job'[t].at # "handoff")
    BY <2>2, GoesTo DEF Starts, Status, Idle, stored
  <2>3. ASSUME NEW by, NEW at, Removes(t, i, by, at)
        PROVE  UNCHANGED forks /\ job[t].op # "fork" /\ (job'[t].op # "fork" \/ job'[t].at # "handoff")
    BY <2>3, GoesTo DEF Removes, Removal, Idle, stored
  <2>4. ASSUME Fork(t, i)
        PROVE  UNCHANGED forks /\ job[t].op # "fork" /\ (job'[t].op # "fork" \/ job'[t].at # "handoff")
    BY <2>4, GoesTo DEF Fork, Idle, stored
  <2>5. QED
    BY <1>2, <2>1, <2>2, <2>3, <2>4, Zenon DEF Asks, Click, Directs, Merge, Remove, Withdraw
<1>3. ASSUME NEW mid \in BOOLEAN, Message(t, mid)
      PROVE  UNCHANGED forks /\ job[t].op # "fork" /\ job'[t].op # "fork"
  BY <1>3, MessageEffect DEF Message, Idle, stored
<1>4. ASSUME Mark(t) \/ InsertRow(t) \/ Write(t) \/ Delete(t) \/ Archive(t) \/ Unmark(t) \/ Fail(t)
      PROVE  UNCHANGED forks /\ job[t].op \in {"add", "status", "remove", "age"}
  BY <1>4, Zenon DEF Mark, InsertRow, Write, Delete, Archive, Unmark, Fail, stored
<1>5. ASSUME Ageings(t)
      PROVE  UNCHANGED forks /\ job[t].op = "age"
  BY <1>5, Zenon DEF Ageings, Ageing, Backfill, List, Look, Count, Retire, Aged, stored
<1>6. ASSUME Ageings(t) PROVE job'[t].op # "fork"
  <2>1. job[t] \in AgeWork /\ JobTypes
    BY <1>1, <1>5, <1>6, WorkKinds DEF ItemsTypeOK, JobTypes
  <2>2. Further(t, job[t].item).op = "age" /\ \A at, i : At(t, at).op = "age" /\ Further(t, i).op = "age"
    BY <2>1 DEF At, Further, AgeWork
  <2>3. CASE Backfill(t)
    <3>1. PICK i \in job[t].todo : job'[t] = [job[t] EXCEPT !.todo = @ \ {i}]
      BY <2>3, GoesTo DEF Backfill
    <3>2. QED
      BY <2>1, <3>1 DEF AgeWork
  <2>4. CASE List(t)
    <3> DEFINE marked == {i \in Tracked : marker[i] > 0}
               w == [At(t, "look") EXCEPT !.todo = marked, !.current = marked, !.list = marker]
    <3>1. GoesOn(t, w)
      BY <2>4, Zenon DEF List
    <3>2. w.op = "age"
      BY <2>1 DEF AgeWork, At
    <3>3. QED
      BY <3>1, <3>2, GoesTo
  <2>5. CASE Look(t)
    <3>1. \E i : job'[t] = Further(t, i) \/ job'[t] = [At(t, "count") EXCEPT !.item = i]
      BY <2>5, GoesTo DEF Look
    <3>2. QED
      BY <2>1, <2>2, <3>1 DEF AgeWork, At
  <2>6. CASE Count(t)
    BY <2>2, <2>6, GoesTo DEF Count
  <2>7. CASE Retire(t) \/ Aged(t)
    BY <2>2, <2>7, GoesTo DEF Retire, Aged, Idle
  <2>8. QED
    BY <1>6, <2>3, <2>4, <2>5, <2>6, <2>7 DEF Ageings
<1>7. ASSUME Mark(t) \/ InsertRow(t) \/ Write(t) \/ Delete(t) \/ Archive(t) \/ Unmark(t) \/ Fail(t)
      PROVE  job'[t].op # "fork"
  <2>1. job[t].op \in {"add", "status", "remove", "age"}
    BY <1>4, <1>7
  <2>2. \A at, i : At(t, at).op = job[t].op /\ (job[t].op = "age" => Further(t, i).op = "age")
    BY <1>1, <2>1, WorkKinds DEF At, Further, AddWork, StatusWork, RemoveWork, AgeWork
  <2>3. Mark(t) \/ InsertRow(t) \/ Write(t) \/ Delete(t) =>
          \E i, at : Touches(t, i, Idle) \/ Touches(t, i, At(t, at)) \/ GoesOn(t, Idle)
    BY Zenon DEF Mark, InsertRow, Write, Delete
  <2>4. Archive(t) \/ Fail(t) => \E at : GoesOn(t, Idle) \/ GoesOn(t, At(t, at))
    BY Zenon DEF Archive, Fail
  <2>5. Unmark(t) => \E i : Touches(t, i, Idle) \/ (job[t].op = "age" /\ GoesOn(t, Further(t, i)))
    BY Zenon DEF Unmark, Ageing
  <2>6. \E i, at : job'[t] = Idle \/ job'[t] = At(t, at) \/ (job[t].op = "age" /\ job'[t] = Further(t, i))
    BY <1>7, <2>3, <2>4, <2>5, GoesTo
  <2>7. QED
    BY <2>1, <2>2, <2>6 DEF Idle
<1>8. QED
  BY <1>2, <1>3, <1>4, <1>5, <1>6, <1>7 DEF Acts, Steps, Handing

\* The forks of an item are counted right by every step.
LEMMA ForksStep ==
  ASSUME ItemsTypeOK, ForksCounted, [ItemsNext]_itemVars
  PROVE  forks' \in [Tracked -> 0 .. MaxForks] /\ ForksCounted'
<1> USE RetentionAssumption
<1>1. forks \in [Tracked -> 0 .. MaxForks]
  BY DEF ItemsTypeOK
<1>2. CASE UNCHANGED itemVars
  BY <1>1, <1>2 DEF itemVars, stored, ForksCounted, HandoffsOf, Handing
<1>3. ASSUME NEW t \in Jobs, Acts(t), ~InsertFork(t), ~Handoff(t)
      PROVE  forks' \in [Tracked -> 0 .. MaxForks] /\ ForksCounted'
  <2>1. UNCHANGED forks /\ \A i \in Tracked : HandoffsOf(i)' = HandoffsOf(i)
    BY <1>3, NoHandoff, HandoffsSame
  <2>2. QED
    BY <1>1, <2>1 DEF ForksCounted
<1>4. ASSUME NEW t \in Jobs, InsertFork(t)
      PROVE  forks' \in [Tracked -> 0 .. MaxForks] /\ ForksCounted'
  <2>1. Acts(t) /\ JobTypes
    BY <1>4 DEF Acts, Steps, ItemsTypeOK, JobTypes
  <2>2. PICK j \in Tracked : j = job[t].item /\ job[t].op = "fork"
    BY <1>4, <2>1, WorkKinds DEF InsertFork, JobTypes, ForkWork
  <2>3. forks[j] < MaxForks /\ forks' = [forks EXCEPT ![j] = @ + 1]
    BY <1>4, <2>2 DEF InsertFork
  <2>4. job'[t].op = "fork" /\ job'[t].at = "handoff" /\ job'[t].item = j
    BY <1>4, <2>1, <2>2, GoesTo, PlainAt DEF InsertFork
  <2>5. t \notin HandoffsOf(j)
    BY <1>4 DEF InsertFork, HandoffsOf, Handing
  <2>6. ASSUME NEW i \in Tracked, i # j PROVE HandoffsOf(i)' = HandoffsOf(i)
    <3>1. ~Handing(t, i) /\ ~Handing(t, i)'
      BY <2>2, <2>4, <2>6 DEF Handing
    <3>2. QED
      BY <2>1, <3>1, HandoffsSame
  <2>7. HandoffsOf(j)' = HandoffsOf(j) \cup {t}
    <3>1. \A u \in Jobs \ {t} : Handing(u, j)' <=> Handing(u, j)
      BY <2>1, OthersLike DEF Like, Handing
    <3>2. Handing(t, j)'
      BY <2>4 DEF Handing
    <3>3. QED
      BY <3>1, <3>2 DEF HandoffsOf
  <2>8. Cardinality(HandoffsOf(j)') = Cardinality(HandoffsOf(j)) + 1
    BY <2>5, <2>7, HandoffsFinite, FS_AddElement
  <2>9. forks' \in [Tracked -> 0 .. MaxForks]
    BY <1>1, <2>2, <2>3
  <2>10. ASSUME NEW i \in Tracked PROVE Cardinality(HandoffsOf(i)') <= forks'[i]
    <3>1. Cardinality(HandoffsOf(i)) <= forks[i] /\ Cardinality(HandoffsOf(i)) \in Nat
      BY HandoffsFinite DEF ForksCounted
    <3>2. CASE i = j
      BY <1>1, <2>2, <2>3, <2>8, <3>1, <3>2
    <3>3. CASE i # j
      <4>1. HandoffsOf(i)' = HandoffsOf(i) /\ forks'[i] = forks[i]
        BY <1>1, <2>3, <2>6, <3>3
      <4>2. QED
        BY <3>1, <4>1
    <3>4. QED
      BY <3>2, <3>3
  <2>11. QED
    BY <2>9, <2>10 DEF ForksCounted
<1>5. ASSUME NEW t \in Jobs, Handoff(t)
      PROVE  forks' \in [Tracked -> 0 .. MaxForks] /\ ForksCounted'
  <2>1. Acts(t) /\ JobTypes
    BY <1>5 DEF Acts, Steps, ItemsTypeOK, JobTypes
  <2>2. PICK j \in Tracked : j = job[t].item
    BY <1>5, <2>1, WorkKinds DEF Handoff, JobTypes, ForkWork
  <2>3. forks' = forks \/ forks' = [forks EXCEPT ![j] = @ - 1]
    BY <1>5, <2>2 DEF Handoff
  <2>4. job'[t] = Idle
    BY <1>5, GoesTo DEF Handoff
  <2>5. ASSUME NEW i \in Tracked, i # j PROVE HandoffsOf(i)' = HandoffsOf(i)
    <3>1. ~Handing(t, i) /\ ~Handing(t, i)'
      BY <2>2, <2>4, <2>5 DEF Handing, Idle
    <3>2. QED
      BY <2>1, <3>1, HandoffsSame
  <2>6. HandoffsOf(j)' = HandoffsOf(j) \ {t} /\ t \in HandoffsOf(j)
    <3>1. \A u \in Jobs \ {t} : Handing(u, j)' <=> Handing(u, j)
      BY <2>1, OthersLike DEF Like, Handing
    <3>2. Handing(t, j) /\ ~Handing(t, j)'
      BY <1>5, <2>2, <2>4 DEF Handing, Handoff, Idle
    <3>3. QED
      BY <3>1, <3>2 DEF HandoffsOf
  <2>7. Cardinality(HandoffsOf(j)') = Cardinality(HandoffsOf(j)) - 1
    BY <2>6, HandoffsFinite, FS_RemoveElement
  <2>8. forks[j] >= 1
    BY <1>1, <2>2, <2>6, HandoffsFinite, FS_EmptySet DEF ForksCounted
  <2>9. forks' \in [Tracked -> 0 .. MaxForks]
    BY <1>1, <2>2, <2>3, <2>8
  <2>10. ASSUME NEW i \in Tracked PROVE Cardinality(HandoffsOf(i)') <= forks'[i]
    <3>1. Cardinality(HandoffsOf(i)) <= forks[i] /\ Cardinality(HandoffsOf(i)) \in Nat
      BY HandoffsFinite DEF ForksCounted
    <3>2. CASE i = j
      BY <1>1, <2>2, <2>3, <2>7, <3>1, <3>2
    <3>3. CASE i # j
      <4>1. HandoffsOf(i)' = HandoffsOf(i) /\ forks'[i] = forks[i]
        BY <1>1, <2>3, <2>5, <3>3
      <4>2. QED
        BY <3>1, <4>1
    <3>4. QED
      BY <3>2, <3>3
  <2>11. QED
    BY <2>9, <2>10 DEF ForksCounted
<1>6. QED
  BY <1>2, <1>3, <1>4, <1>5 DEF ItemsNext, Acts

-----------------------------------------------------------------------------
\* The types of everything but the jobs and the forks.
DataTypes ==
  /\ row \in [Tracked -> Live \cup {"unused", "gone"}] /\ marker \in [Tracked -> 0 .. Retention]
  /\ flag \subseteq Tracked /\ archived \subseteq Tracked
  /\ deletes \in BOOLEAN /\ failed \in 0 .. MaxFailed
  /\ halves \in [Tracked -> 0 .. 2 * Retention] /\ spared \in [Tracked -> 0 .. 2 * Retention]
  /\ misjudged \subseteq Tracked /\ raced \subseteq Tracked /\ retired \subseteq Tracked

\* A marker that is scheduled or cleared keeps its type.
LEMMA Marking ==
  ASSUME DataTypes, NEW i \in Tracked, Scheduled(i) \/ Cleared(i)
  PROVE  marker' \in [Tracked -> 0 .. Retention] /\ flag' \subseteq Tracked
BY RetentionAssumption DEF DataTypes, Scheduled, Cleared

\* A pass that has not begun spares nothing.
LEMMA Sparing ==
  ASSUME DataTypes, NEW i \in Tracked
  PROVE  [spared EXCEPT ![i] = 0] \in [Tracked -> 0 .. 2 * Retention]
BY RetentionAssumption DEF DataTypes

\* The count of spared passes stays under its bound.
LEMMA Capping ==
  ASSUME NEW n \in Nat
  PROVE  Capped(n) \in 0 .. 2 * Retention /\ (n <= 2 * Retention => Capped(n) = n)
BY RetentionAssumption DEF Capped

\* A deletion keeps the types of the rows.
LEMMA Deleting1 ==
  ASSUME DataTypes, NEW i \in Tracked, Deleted(i)
  PROVE  row' \in [Tracked -> Live \cup {"unused", "gone"}] /\ archived' \subseteq Tracked
BY DEF DataTypes, Deleted

\* Whose item a job is about.
LEMMA ItemType ==
  ASSUME JobTypes, Shape, NEW t \in Jobs, job[t].op \in {"add", "status", "remove", "fork", "age"},
         job[t].op = "age" => job[t].at \notin {"backfill", "look"}
  PROVE  /\ job[t].item \in Tracked
         /\ job[t].op = "age" => job[t].list[job[t].item] \in 1 .. Retention
<1>1. job[t] \in Works /\ ShapeOf(job[t])
  BY DEF JobTypes, Shape
<1>2. QED
  BY <1>1, WorkKinds, RetentionAssumption DEF ShapeOf, AddWork, StatusWork, RemoveWork, ForkWork, AgeWork

\* Every step keeps the types of the stored data.
LEMMA DataStep ==
  ASSUME ItemsTypeOK, Shape, [ItemsNext]_itemVars
  PROVE  DataTypes'
<1> USE RetentionAssumption
<1>1. DataTypes /\ JobTypes
  BY DEF ItemsTypeOK, DataTypes, JobTypes
<1>2. CASE UNCHANGED itemVars
  BY <1>1, <1>2 DEF itemVars, stored, past, DataTypes
<1>3. ASSUME NEW t \in Jobs, NEW i \in Tracked, Asks(t, i) PROVE DataTypes'
  <2>1. UNCHANGED <<stored, deletes, failed, past>>
    BY <1>3, Zenon DEF Asks, Add, Click, Directs, Merge, Starts, Remove, Withdraw, Removes, Fork
  <2>2. QED
    BY <1>1, <2>1 DEF stored, past, DataTypes
<1>4. ASSUME NEW t \in Jobs, NEW mid \in BOOLEAN, Message(t, mid) PROVE DataTypes'
  <2>1. UNCHANGED <<stored, deletes, failed, halves, misjudged, raced, retired>>
        /\ (spared' = spared \/ spared' = [i \in Tracked |-> 0])
    BY <1>4 DEF Message
  <2>2. QED
    BY <1>1, <2>1 DEF stored, DataTypes
<1>5. ASSUME NEW t \in Jobs, Mark(t) PROVE DataTypes'
  <2>1. job[t].item \in Tracked
    BY <1>1, <1>5, ItemType DEF Mark
  <2>2. marker' \in [Tracked -> 0 .. Retention] /\ flag' \subseteq Tracked
    BY <1>1, <1>5, <2>1, Marking DEF Mark
  <2>3. spared' = [spared EXCEPT ![job[t].item] = 0] /\ misjudged' \subseteq misjudged
    BY <1>5 DEF Mark, Touches
  <2>4. UNCHANGED <<row, archived, deletes, failed, halves, raced, retired>>
    BY <1>5 DEF Mark
  <2>5. QED
    BY <1>1, <2>1, <2>2, <2>3, <2>4, Sparing DEF DataTypes
<1>6. ASSUME NEW t \in Jobs, InsertRow(t) PROVE DataTypes'
  <2>1. job[t].item \in Tracked /\ job[t].to \in Live
    BY <1>1, <1>6, ItemType, WorkKinds DEF InsertRow, JobTypes, AddWork, Live
  <2>2. spared' = [spared EXCEPT ![job[t].item] = 0] /\ row' = [row EXCEPT ![job[t].item] = job[t].to]
    BY <1>6 DEF InsertRow, Touches
  <2>3. row' \in [Tracked -> Live \cup {"unused", "gone"}]
    BY <1>1, <2>1, <2>2 DEF DataTypes
  <2>4. UNCHANGED <<marker, flag, archived, deletes, failed, halves, misjudged, raced, retired>>
    BY <1>6 DEF InsertRow
  <2>5. QED
    BY <1>1, <2>1, <2>2, <2>3, <2>4, Sparing DEF DataTypes
<1>7. ASSUME NEW t \in Jobs, Write(t) PROVE DataTypes'
  <2>1. PICK i \in Tracked : i = job[t].item
    BY <1>1, <1>7, ItemType DEF Write
  <2>2. job[t].to \in Live
    BY <1>1, <1>7, WorkKinds DEF Write, JobTypes, StatusWork
  <2>3. row' = row \/ Deleted(i) \/ row' = [row EXCEPT ![i] = job[t].to]
    BY <1>7, <2>1 DEF Write
  <2>4. archived' = archived \/ Deleted(i)
    BY <1>7, <2>1 DEF Write
  <2>5. halves' = halves \/ \E n \in {0, halves[i]} : halves' = [halves EXCEPT ![i] = n]
    BY <1>7, <2>1 DEF Write
  <2>6. spared' = spared \/ spared' = [spared EXCEPT ![i] = 0]
    BY <1>7, <2>1 DEF Write, Touches
  <2>7. misjudged' \in {misjudged, misjudged \cup {i}}
    BY <1>7, <2>1 DEF Write
  <2>8. row' \in [Tracked -> Live \cup {"unused", "gone"}] /\ archived' \subseteq Tracked
    BY <1>1, <2>2, <2>3, <2>4, Deleting1 DEF DataTypes
  <2>9. halves' \in [Tracked -> 0 .. 2 * Retention]
    BY <1>1, <2>5 DEF DataTypes
  <2>10. UNCHANGED <<marker, flag, deletes, failed, raced, retired>>
    BY <1>7 DEF Write
  <2>11. QED
    BY <1>1, <2>6, <2>7, <2>8, <2>9, <2>10, Sparing DEF DataTypes
<1>8. ASSUME NEW t \in Jobs, Delete(t) PROVE DataTypes'
  <2>1. PICK i \in Tracked : i = job[t].item
    BY <1>1, <1>8, ItemType DEF Delete
  <2>2. UNCHANGED <<row, archived>> \/ Deleted(i)
    BY <1>8, <2>1 DEF Delete
  <2>3. spared' = spared \/ spared' = [spared EXCEPT ![i] = 0]
    BY <1>8, <2>1 DEF Delete, Touches
  <2>4. retired' \in {retired, retired \cup {i}}
    BY <1>8, <2>1 DEF Delete
  <2>5. row' \in [Tracked -> Live \cup {"unused", "gone"}] /\ archived' \subseteq Tracked
    BY <1>1, <2>2, Deleting1 DEF DataTypes
  <2>6. UNCHANGED <<marker, flag, deletes, failed, halves, misjudged, raced>>
    BY <1>8 DEF Delete
  <2>7. QED
    BY <1>1, <2>3, <2>4, <2>5, <2>6, Sparing DEF DataTypes
<1>9. ASSUME NEW t \in Jobs, Archive(t) PROVE DataTypes'
  <2>1. job[t].item \in Tracked
    BY <1>1, <1>9, ItemType DEF Archive
  <2>2. archived' \in {archived, archived \cup {job[t].item}}
        /\ UNCHANGED <<row, marker, flag, deletes, failed, past>>
    BY <1>9 DEF Archive
  <2>3. QED
    BY <1>1, <2>1, <2>2 DEF DataTypes, past
<1>10. ASSUME NEW t \in Jobs, Unmark(t) PROVE DataTypes'
  <2>1. PICK i \in Tracked : i = job[t].item
    BY <1>1, <1>10, ItemType DEF Unmark
  <2>2. Cleared(i) /\ (spared' = spared \/ spared' = [spared EXCEPT ![i] = 0])
    BY <1>10, <2>1 DEF Unmark, Touches
  <2>3. UNCHANGED <<row, archived, deletes, failed, halves, misjudged, raced, retired>>
    BY <1>10 DEF Unmark
  <2>4. marker' \in [Tracked -> 0 .. Retention] /\ flag' \subseteq Tracked
    BY <1>1, <2>2, Marking
  <2>5. QED
    BY <1>1, <2>2, <2>3, <2>4, Sparing DEF DataTypes
<1>11. ASSUME NEW t \in Jobs, InsertFork(t) \/ Handoff(t) PROVE DataTypes'
  <2>1. job[t].item \in Tracked
    BY <1>1, <1>11, ItemType DEF InsertFork, Handoff
  <2>2. /\ raced' \in {raced, raced \cup {job[t].item}} /\ failed' \in 0 .. MaxFailed
        /\ UNCHANGED <<row, marker, flag, archived, deletes, halves, spared, misjudged, retired>>
    BY <1>1, <1>11 DEF InsertFork, Handoff, past, DataTypes
  <2>3. QED
    BY <1>1, <2>1, <2>2 DEF DataTypes
<1>12. ASSUME NEW t \in Jobs, Fail(t) PROVE DataTypes'
  <2>1. /\ failed' \in 0 .. MaxFailed /\ (spared' = spared \/ spared' = [i \in Tracked |-> 0])
        /\ UNCHANGED <<row, marker, flag, archived, deletes, halves, misjudged, raced, retired>>
    BY <1>1, <1>12 DEF Fail, stored, DataTypes
  <2>2. QED
    BY <1>1, <2>1 DEF DataTypes
<1>13. ASSUME NEW t \in Jobs, Ageings(t) PROVE DataTypes'
  <2>1. job[t] \in AgeWork
    BY <1>1, <1>13, WorkKinds DEF JobTypes, Ageings, Ageing, Backfill, List, Look, Count, Retire, Aged
  <2>2. CASE Backfill(t)
    <3>1. PICK i \in Tracked :
            /\ Scheduled(i) \/ UNCHANGED <<marker, flag>>
            /\ misjudged' \subseteq misjudged
            /\ UNCHANGED <<row, archived, deletes, failed, halves, spared, raced, retired>>
      BY <2>1, <2>2 DEF Backfill, AgeWork
    <3>2. marker' \in [Tracked -> 0 .. Retention] /\ flag' \subseteq Tracked
      BY <1>1, <3>1, Marking DEF DataTypes
    <3>3. QED
      BY <1>1, <3>1, <3>2 DEF DataTypes
  <2>3. CASE List(t)
    <3>1. \A i \in Tracked : halves[i] \in Nat
      BY <1>1 DEF DataTypes
    <3>2. halves' \in [Tracked -> 0 .. 2 * Retention]
      <4> DEFINE marked == {i \in Tracked : marker[i] > 0}
      <4>1. halves' = [i \in Tracked |->
              IF i \in marked /\ row[i] = "finished"
                THEN Capped(halves[i] + IF job[t].mid THEN 1 ELSE 2) ELSE halves[i]]
        BY <2>3 DEF List
      <4> HIDE DEF marked
      <4>2. \A i \in Tracked : Capped(halves[i] + IF job[t].mid THEN 1 ELSE 2) \in 0 .. 2 * Retention
        BY <3>1, Capping
      <4>3. QED
        BY <1>1, <4>1, <4>2 DEF DataTypes
    <3>3. UNCHANGED <<row, marker, flag, archived, deletes, failed, spared, misjudged, raced, retired>>
      BY <2>3 DEF List, stored
    <3>4. QED
      BY <1>1, <3>2, <3>3 DEF DataTypes
  <2>4. CASE Look(t)
    <3>1. PICK i \in Tracked :
            /\ Cleared(i) \/ (UNCHANGED marker /\ flag' \in {flag \cup {i}, flag \ {i}})
            /\ misjudged' \in {misjudged, misjudged \cup {i}}
            /\ UNCHANGED <<row, archived, deletes, failed, halves, spared, raced, retired>>
      BY <2>1, <2>4 DEF Look, Judged, AgeWork
    <3>2. marker' \in [Tracked -> 0 .. Retention] /\ flag' \subseteq Tracked
      BY <1>1, <3>1, Marking DEF DataTypes
    <3>3. QED
      BY <1>1, <3>1, <3>2 DEF DataTypes
  <2>5. CASE Count(t)
    <3>1. PICK i \in Tracked : i = job[t].item /\ job[t].list[i] \in 1 .. Retention
      BY <1>1, <2>1, <2>5, ItemType DEF Count, AgeWork
    <3>2. /\ \/ UNCHANGED marker
             \/ job[t].list[i] > 1 /\ marker' = [marker EXCEPT ![i] = job[t].list[i] - 1]
          /\ misjudged' \in {misjudged, misjudged \cup {i}}
          /\ UNCHANGED <<row, flag, archived, deletes, failed, halves, spared, raced, retired>>
      BY <2>5, <3>1 DEF Count, Judged
    <3>3. job[t].list[i] > 1 => job[t].list[i] - 1 \in 0 .. Retention
      BY <3>1
    <3>4. marker' \in [Tracked -> 0 .. Retention]
      BY <1>1, <3>2, <3>3 DEF DataTypes
    <3>5. QED
      BY <1>1, <3>2, <3>4 DEF DataTypes
  <2>6. CASE Retire(t)
    <3>1. PICK i \in Tracked : i = job[t].item
      BY <1>1, <2>1, <2>6, ItemType DEF Retire, AgeWork
    <3>2. (UNCHANGED <<row, archived>> \/ Deleted(i)) /\ UNCHANGED <<marker, flag, deletes, failed, past>>
      BY <2>6, <3>1 DEF Retire
    <3>3. row' \in [Tracked -> Live \cup {"unused", "gone"}] /\ archived' \subseteq Tracked
      BY <1>1, <3>2, Deleting1 DEF DataTypes
    <3>4. QED
      BY <1>1, <3>2, <3>3 DEF DataTypes, past
  <2>7. CASE Aged(t)
    <3>1. \A i \in Tracked : Capped(spared[i] + 1) \in 0 .. 2 * Retention
      BY <1>1, Capping DEF DataTypes
    <3>2. spared' = [i \in Tracked |-> IF i \in job[t].steady THEN Capped(spared[i] + 1) ELSE spared[i]]
      BY <2>7 DEF Aged
    <3>3. spared' \in [Tracked -> 0 .. 2 * Retention]
      BY <1>1, <3>1, <3>2 DEF DataTypes
    <3>4. UNCHANGED <<row, marker, flag, archived, deletes, failed, halves, misjudged, raced, retired>>
      BY <2>7 DEF Aged, stored
    <3>5. QED
      BY <1>1, <3>3, <3>4 DEF DataTypes
  <2>8. QED
    BY <1>13, <2>2, <2>3, <2>4, <2>5, <2>6, <2>7 DEF Ageings
<1>14. QED
  BY <1>2, <1>3, <1>4, <1>5, <1>6, <1>7, <1>8, <1>9, <1>10, <1>11, <1>12, <1>13 DEF ItemsNext, Steps

ItemTypes1 == ItemsTypeOK /\ Shape /\ ForksCounted

\* Every step keeps all the types ...
LEMMA ItemTypesStep ==
  ASSUME ItemTypes1, [ItemsNext]_itemVars
  PROVE  ItemTypes1'
BY JobStep, ForksStep, DataStep DEF ItemTypes1, ItemsTypeOK, JobTypes, DataTypes

\* ... which hold in the beginning.
LEMMA ItemTypesInit ==
  ASSUME ItemsInit
  PROVE  ItemTypes1
<1>1. ItemsTypeOK
  BY RetentionAssumption, KindWorks DEF ItemsInit, ItemsTypeOK, Live
<1>2. Shape
  BY DEF ItemsInit, Shape, ShapeOf, Idle
<1>3. \A i \in Tracked : HandoffsOf(i) = {}
  BY DEF ItemsInit, HandoffsOf, Handing, Idle
<1>4. ForksCounted
  BY <1>3, FS_EmptySet DEF ForksCounted, ItemsInit
<1>5. QED
  BY <1>1, <1>2, <1>4 DEF ItemTypes1

\* The types: every value a variable takes is one the program could hold, and no
\* item has fewer than no forks, though a handoff that fails takes one back.
THEOREM ItemsTypeCorrect == ItemsSpec => []ItemsTypeOK
<1>1. ItemTypes1 => ItemsTypeOK
  BY DEF ItemTypes1
<1>2. QED
  BY <1>1, ItemTypesInit, ItemTypesStep, PTL DEF ItemsSpec

-----------------------------------------------------------------------------
\* A row with forks is not deleted by anyone who has asked.

\* Whoever goes on to delete a row may do so: it has no fork, or one that raced the
\* delete, or an agent has retired it.
Forsaken(i) == ~HasFork(i) \/ i \in raced \cup retired
Withdraws(u) == job[u].op = "remove" /\ job[u].by = "agent"
DeletersAsked == \A u \in Jobs, i \in Tracked : Deleting(u, i) /\ ~Withdraws(u) => Forsaken(i)
GoneForsaken == \A i \in Tracked : row[i] = "gone" => Forsaken(i)

\* What was raced or retired stays so.
LEMMA HistoryGrows ==
  ASSUME NEW t \in Jobs, Acts(t)
  PROVE  raced \subseteq raced' /\ retired \subseteq retired'
<1>1. ASSUME NEW i \in Tracked, Asks(t, i) PROVE UNCHANGED past
  BY <1>1, Zenon DEF Asks, Add, Click, Directs, Merge, Starts, Remove, Withdraw, Removes, Fork
<1>2. ASSUME NEW mid \in BOOLEAN, Message(t, mid) PROVE UNCHANGED <<raced, retired>>
  BY <1>2 DEF Message
<1>3. ASSUME Mark(t) \/ InsertRow(t) \/ Write(t) \/ Unmark(t) PROVE UNCHANGED <<raced, retired>>
  BY <1>3, Zenon DEF Mark, InsertRow, Write, Unmark
<1>4. ASSUME Delete(t) \/ InsertFork(t) PROVE raced \subseteq raced' /\ retired \subseteq retired'
  BY <1>4 DEF Delete, InsertFork
<1>5. ASSUME Archive(t) \/ Handoff(t) \/ Fail(t) PROVE UNCHANGED <<raced, retired>>
  BY <1>5, Zenon DEF Archive, Handoff, Fail, past
<1>6. ASSUME Ageings(t) PROVE UNCHANGED <<raced, retired>>
  BY <1>6, Zenon DEF Ageings, Backfill, List, Look, Count, Retire, Aged, past
<1>7. QED
  BY <1>1, <1>2, <1>3, <1>4, <1>5, <1>6 DEF Acts, Steps, past

\* A fork of a row that is gone, or about to go, counts among those that raced it.
LEMMA ForsakenKept ==
  ASSUME ItemsTypeOK, NEW t \in Jobs, Acts(t), NEW i \in Tracked, Forsaken(i),
         row[i] = "gone" \/ \E u \in Jobs : Deleting(u, i)
  PROVE  Forsaken(i)'
<1>1. raced \subseteq raced' /\ retired \subseteq retired'
  BY HistoryGrows
<1>2. forks[i] \in Nat
  BY DEF ItemsTypeOK
<1>3. CASE InsertFork(t)
  <2>1. PICK j : j = job[t].item
    OBVIOUS
  <2>2. forks' = [forks EXCEPT ![j] = @ + 1]
        /\ raced' = IF row[j] \notin Live \/ \E u \in Jobs : Deleting(u, j) THEN raced \cup {j} ELSE raced
    BY <1>3, <2>1 DEF InsertFork
  <2>3. CASE i = j
    BY <2>2, <2>3 DEF Forsaken, Live
  <2>4. CASE i # j
    BY <1>1, <2>2, <2>4 DEF Forsaken, HasFork, ItemsTypeOK
  <2>5. QED
    BY <2>3, <2>4
<1>4. CASE Handoff(t)
  <2>1. UNCHANGED forks \/ forks' = [forks EXCEPT ![job[t].item] = @ - 1]
    BY <1>4 DEF Handoff
  <2>2. HasFork(i)' => HasFork(i)
    BY <1>2, <2>1 DEF HasFork, ItemsTypeOK
  <2>3. QED
    BY <1>1, <2>2 DEF Forsaken
<1>5. CASE ~InsertFork(t) /\ ~Handoff(t)
  <2>1. UNCHANGED forks
    BY <1>5, NoHandoff
  <2>2. QED
    BY <1>1, <2>1 DEF Forsaken, HasFork
<1>6. QED
  BY <1>3, <1>4, <1>5

\* A row goes by the hand of a job that was about to delete it.
LEMMA RowGoes ==
  ASSUME ItemsTypeOK, Shape, NEW t \in Jobs, Acts(t), NEW i \in Tracked, row[i] # "gone", row'[i] = "gone"
  PROVE  Deleting(t, i) /\ (Withdraws(t) => i \in retired')
<1>1. JobTypes
  BY DEF ItemsTypeOK, JobTypes
<1>2. row \in [Tracked -> Live \cup {"unused", "gone"}]
  BY DEF ItemsTypeOK
<1>3. ASSUME NEW j \in Tracked, Asks(t, j) PROVE UNCHANGED row
  BY <1>3, Zenon DEF Asks, Add, Click, Directs, Merge, Starts, Remove, Withdraw, Removes, Fork, stored
<1>4. ASSUME NEW mid \in BOOLEAN, Message(t, mid) PROVE UNCHANGED row
  BY <1>4 DEF Message, stored
<1>5. Mark(t) \/ Archive(t) \/ Unmark(t) \/ InsertFork(t) \/ Handoff(t) \/ Fail(t) => UNCHANGED row
  BY Zenon DEF Mark, Archive, Unmark, InsertFork, Handoff, Fail, stored
<1>6. Backfill(t) \/ List(t) \/ Look(t) \/ Count(t) \/ Aged(t) => UNCHANGED row
  BY Zenon DEF Backfill, List, Look, Count, Aged, stored
<1>7. CASE InsertRow(t)
  <2>1. job[t].to \in {"open", "finished"}
    BY <1>1, <1>7, WorkKinds DEF InsertRow, JobTypes, AddWork
  <2>2. QED
    BY <1>2, <1>7, <2>1 DEF InsertRow
<1>8. CASE Write(t)
  <2>1. job[t].to \in Live /\ job[t].op = "status"
    BY <1>1, <1>8, WorkKinds DEF Write, JobTypes, StatusWork
  <2>2. i = job[t].item
    BY <1>2, <1>8 DEF Write, Deleted
  <2>3. job[t].mode = "delete"
    BY <1>2, <1>8, <2>1, <2>2 DEF Write, Live
  <2>4. QED
    BY <2>1, <2>2, <2>3 DEF Deleting, Withdraws
<1>9. CASE Delete(t)
  BY <1>2, <1>9 DEF Delete, Deleted, Deleting, Withdraws
<1>10. CASE Retire(t)
  BY <1>2, <1>10 DEF Retire, Deleted, Deleting, Withdraws, Ageing
<1>11. QED
  BY <1>3, <1>4, <1>5, <1>6, <1>7, <1>8, <1>9, <1>10 DEF Acts, Steps, Ageings

\* Who starts to delete a row has just found it without a fork, or is an agent.
LEMMA DeleterStarts ==
  ASSUME ItemsTypeOK, Shape, NEW t \in Jobs, Acts(t), NEW i \in Tracked,
         Deleting(t, i)', ~Withdraws(t)'
  PROVE  (Deleting(t, i) /\ ~Withdraws(t)) \/ (~HasFork(i) /\ UNCHANGED forks)
<1>1. JobTypes
  BY DEF ItemsTypeOK, JobTypes
<1>2. job[t] \in Works
  BY <1>1 DEF JobTypes
<1>3. ASSUME NEW j \in Tracked, Asks(t, j) PROVE ~HasFork(i) /\ UNCHANGED forks
  <2>1. UNCHANGED forks
    BY <1>3, Zenon DEF Asks, Add, Click, Directs, Merge, Starts, Remove, Withdraw, Removes, Fork, stored
  <2>2. ASSUME NEW to, Add(t, j, to) PROVE FALSE
    BY <2>2, GoesTo DEF Add, Deleting
  <2>3. ASSUME NEW to, NEW by, NEW at, Starts(t, j, to, by, at) PROVE ~HasFork(i)
    <3>1. job'[t] = Status(j, to, by, Mode(j, to, by), at)
      BY <2>3, GoesTo DEF Starts
    <3>2. i = j /\ Mode(j, to, by) = "delete"
      BY <3>1 DEF Deleting, Status
    <3>3. QED
      BY <3>2 DEF Mode
  <2>4. ASSUME Remove(t, j) PROVE ~HasFork(i)
    <3>1. job'[t] = Removal(j, "owner", IF HasFork(j) THEN "archive" ELSE "delete")
      BY <2>4, GoesTo DEF Remove, Removes
    <3>2. i = j /\ (IF HasFork(j) THEN "archive" ELSE "delete") = "delete"
      BY <3>1 DEF Deleting, Removal
    <3>3. QED
      BY <3>2
  <2>5. ASSUME Withdraw(t, j) PROVE FALSE
    <3>1. job'[t] = Removal(j, "agent", "delete")
      BY <2>5, GoesTo DEF Withdraw, Removes
    <3>2. QED
      BY <3>1 DEF Withdraws, Removal
  <2>6. ASSUME Fork(t, j) PROVE FALSE
    BY <2>6, GoesTo DEF Fork, Deleting
  <2>7. QED
    BY <1>3, <2>1, <2>2, <2>3, <2>4, <2>5, <2>6, Zenon DEF Asks, Click, Directs, Merge
<1>4. ASSUME NEW mid \in BOOLEAN, Message(t, mid) PROVE FALSE
  BY <1>4, MessageEffect DEF Deleting
<1>5. job'[t] # Idle
  BY DEF Deleting, Idle
<1>6. ASSUME NEW at, job'[t] = At(t, at), job[t].op \in {"add", "status", "remove"}
      PROVE  /\ job[t].op = "status" => Deleting(t, i) /\ ~Withdraws(t)
             /\ job[t].op = "add" => FALSE
             /\ job[t].op = "remove" => at = "delete"
  BY <1>2, <1>6, WorkKinds DEF At, AddWork, StatusWork, RemoveWork, Deleting, Withdraws
<1>7. CASE Mark(t) \/ InsertRow(t) \/ Write(t)
  <2>1. job[t].op \in {"add", "status"} /\ \E j, at : Touches(t, j, Idle) \/ Touches(t, j, At(t, at)) \/ GoesOn(t, Idle)
    BY <1>7, Zenon DEF Mark, InsertRow, Write
  <2>2. \E at : job'[t] = At(t, at)
    BY <1>5, <2>1, GoesTo
  <2>3. QED
    BY <1>6, <2>1, <2>2
<1>8. CASE Delete(t) \/ Archive(t)
  <2>1. /\ job[t].op \in {"status", "remove", "age"}
        /\ \E j : \/ Touches(t, j, Idle) \/ Touches(t, j, At(t, "unmark"))
                  \/ GoesOn(t, Idle) \/ GoesOn(t, At(t, "unmark"))
    BY <1>8 DEF Delete, Archive
  <2>2. job'[t] = At(t, "unmark")
    BY <1>5, <2>1, GoesTo
  <2>3. job[t].op = "age" => job'[t].op = "age" /\ job'[t].at = "unmark"
    BY <1>1, <2>2, AtType
  <2>4. QED
    BY <1>6, <2>1, <2>2, <2>3 DEF Deleting
<1>9. CASE Unmark(t)
  <2>1. \E j \in Tracked : job[t].op = "age" /\ GoesOn(t, Further(t, j))
    BY <1>1, <1>5, <1>9, ItemType, GoesTo DEF Unmark, Ageing
  <2>2. PICK j \in Tracked : job[t].op = "age" /\ job'[t] = Further(t, j)
    BY <2>1, GoesTo
  <2>3. QED
    BY <1>1, <2>2, FurtherType DEF Deleting
<1>10. CASE InsertFork(t)
  <2>1. job'[t] = At(t, "handoff") /\ job[t].op = "fork"
    BY <1>10, GoesTo DEF InsertFork
  <2>2. QED
    BY <1>1, <2>1, PlainAt DEF Deleting
<1>11. CASE Handoff(t) \/ Fail(t)
  BY <1>5, <1>11, GoesTo DEF Handoff, Fail
<1>12. CASE Ageings(t)
  <2>1. job[t] \in AgeWork /\ job[t].op = "age"
    BY <1>2, <1>12, WorkKinds DEF Ageings, Ageing, Backfill, List, Look, Count, Retire, Aged
  <2>2. CASE Backfill(t)
    <3>1. PICK j : job'[t] = [job[t] EXCEPT !.todo = @ \ {j}]
      BY <2>2, GoesTo DEF Backfill
    <3>2. QED
      BY <2>1, <2>2, <3>1 DEF AgeWork, Deleting, Backfill
  <2>3. CASE List(t)
    <3> DEFINE marked == {j \in Tracked : marker[j] > 0}
               w == [At(t, "look") EXCEPT !.todo = marked, !.current = marked, !.list = marker]
    <3>1. GoesOn(t, w)
      BY <2>3, Zenon DEF List
    <3>2. w.op = "age" /\ w.at = "look"
      BY <2>1 DEF AgeWork, At
    <3>3. QED
      BY <3>1, <3>2, GoesTo DEF Deleting
  <2>4. CASE Look(t)
    <3>1. PICK j \in job[t].todo : job'[t] = Further(t, j) \/ job'[t] = [At(t, "count") EXCEPT !.item = j]
      BY <2>4, GoesTo DEF Look
    <3>2. QED
      BY <2>1, <3>1 DEF AgeWork, Further, At, Deleting
  <2>5. CASE Count(t)
    <3>1. PICK j \in Tracked : j = job[t].item
      BY <1>1, <2>1, <2>5, ItemType DEF Count
    <3>2. CASE job'[t] = Further(t, j)
      BY <1>1, <2>1, <3>2, FurtherType DEF Deleting
    <3>3. CASE job'[t] = At(t, IF HasFork(j) THEN "archive" ELSE "delete")
      BY <1>1, <2>1, <2>5, <3>1, <3>3, AtType DEF Deleting, Count
    <3>4. QED
      BY <2>5, <3>1, <3>2, <3>3, GoesTo DEF Count
  <2>6. CASE Retire(t)
    <3>1. job'[t] = At(t, "unmark")
      BY <1>5, <2>6, GoesTo DEF Retire
    <3>2. QED
      BY <1>1, <2>1, <3>1, AtType DEF Deleting
  <2>7. CASE Aged(t)
    BY <1>5, <2>7, GoesTo DEF Aged
  <2>8. QED
    BY <1>12, <2>2, <2>3, <2>4, <2>5, <2>6, <2>7 DEF Ageings
<1>13. QED
  BY <1>3, <1>4, <1>7, <1>8, <1>9, <1>10, <1>11, <1>12 DEF Acts, Steps

\* Every step keeps what AnchorKept rests on.
LEMMA AnchorStep ==
  ASSUME ItemTypes1, DeletersAsked, GoneForsaken, [ItemsNext]_itemVars
  PROVE  DeletersAsked' /\ GoneForsaken'
<1>1. CASE UNCHANGED itemVars
  BY <1>1 DEF itemVars, stored, past, DeletersAsked, GoneForsaken, Deleting, Withdraws, Forsaken, HasFork
<1>2. ASSUME NEW t \in Jobs, Acts(t) PROVE DeletersAsked' /\ GoneForsaken'
  <2>1. ItemsTypeOK /\ Shape
    BY DEF ItemTypes1
  <2>2. ASSUME NEW u \in Jobs, NEW i \in Tracked, Deleting(u, i)', ~Withdraws(u)' PROVE Forsaken(i)'
    <3>1. CASE Deleting(u, i) /\ ~Withdraws(u)
      BY <1>2, <2>1, <3>1, ForsakenKept DEF DeletersAsked
    <3>2. CASE ~HasFork(i) /\ UNCHANGED forks
      BY <3>2 DEF Forsaken, HasFork
    <3>3. CASE u = t
      BY <1>2, <2>1, <2>2, <3>1, <3>2, <3>3, DeleterStarts
    <3>4. CASE u # t
      <4>1. Like(job[u], job'[u])
        BY <1>2, <2>1, <3>4, OthersLike
      <4>2. Deleting(u, i) /\ ~Withdraws(u)
        BY <2>2, <4>1 DEF Like, Deleting, Withdraws
      <4>3. QED
        BY <3>1, <4>2
    <3>5. QED
      BY <3>3, <3>4
  <2>3. ASSUME NEW i \in Tracked, row'[i] = "gone" PROVE Forsaken(i)'
    <3>1. CASE row[i] = "gone"
      BY <1>2, <2>1, <3>1, ForsakenKept DEF GoneForsaken
    <3>2. CASE row[i] # "gone"
      <4>1. Deleting(t, i) /\ (Withdraws(t) => i \in retired')
        BY <1>2, <2>1, <2>3, <3>2, RowGoes
      <4>2. CASE Withdraws(t)
        BY <4>1, <4>2 DEF Forsaken
      <4>3. CASE ~Withdraws(t)
        BY <1>2, <2>1, <4>1, <4>3, ForsakenKept DEF DeletersAsked
      <4>4. QED
        BY <4>2, <4>3
    <3>3. QED
      BY <3>1, <3>2
  <2>4. QED
    BY <2>2, <2>3 DEF DeletersAsked, GoneForsaken
<1>3. QED
  BY <1>1, <1>2 DEF ItemsNext, Acts

\* A fork keeps the row it depends on: whoever deletes it has found no fork, and a
\* fork that comes after the look raced the delete (HasFork's look and the delete of
\* set_item_status, delete_item and the ageing); only an agent does not look.
THEOREM AnchorKeptHolds == ItemsSpec => []AnchorKept
<1> DEFINE Inv == ItemTypes1 /\ DeletersAsked /\ GoneForsaken
<1>1. ItemsInit => Inv
  <2>1. ASSUME ItemsInit PROVE DeletersAsked /\ GoneForsaken
    BY <2>1 DEF ItemsInit, DeletersAsked, GoneForsaken, Deleting, Idle
  <2>2. QED
    BY <2>1, ItemTypesInit
<1>2. Inv /\ [ItemsNext]_itemVars => Inv'
  BY ItemTypesStep, AnchorStep
<1>3. Inv => AnchorKept
  BY DEF GoneForsaken, Forsaken, HasFork, AnchorKept
<1>4. QED
  BY <1>1, <1>2, <1>3, PTL DEF ItemsSpec

-----------------------------------------------------------------------------
\* What a step means to one item.

\* The same ageing, as far as item i is concerned.
Sees(v, w, i) ==
  /\ v.op = "age" <=> w.op = "age"
  /\ v.op = "age" =>
       /\ w.mid = v.mid /\ w.list[i] = v.list[i] /\ (i \in w.todo <=> i \in v.todo)
       /\ (w.at = "backfill" <=> v.at = "backfill") /\ (w.item = i <=> v.item = i)
       /\ v.item = i => w.at = v.at
Keeps(v, w, i) ==
  /\ Sees(v, w, i)
  /\ v.op = "age" => (i \in w.current <=> i \in v.current) /\ (i \in w.steady <=> i \in v.steady)
AllKeep(i) == \A u \in Jobs : Keeps(job[u], job'[u], i)
OthersKeep(t, i) == \A u \in Jobs \ {t} : Keeps(job[u], job'[u], i)
Goes1(t, i) ==
  /\ job[t].op = "age" /\ job'[t].op = "age" /\ job'[t].mid = job[t].mid
  /\ (i \in job'[t].steady <=> i \in job[t].steady)
StaysOn(t, i) ==
  Goes1(t, i) /\ job'[t].list[i] = job[t].list[i] /\ (i \in job'[t].current <=> i \in job[t].current)

IsRipe(i) == row[i] = "finished" /\ i \notin archived
SameRow(i) == row'[i] = row[i] /\ (i \in archived' <=> i \in archived)
SameMark(i) == marker'[i] = marker[i] /\ (i \in flag' <=> i \in flag)
SamePast(i) == halves'[i] = halves[i] /\ (i \in misjudged' <=> i \in misjudged)
SameItem(i) == SameRow(i) /\ SameMark(i) /\ SamePast(i)
NoMark(i) == marker'[i] = 0 /\ i \notin flag'
Remark(i) == marker'[i] = Retention /\ i \notin flag'

Awaits(u, i) == Ageing(u) /\ job[u].at # "backfill" /\ i \in job[u].todo /\ job[u].item # i
Takes(u, i) == Ageing(u) /\ job[u].at \in {"count", "delete", "archive"} /\ job[u].item = i

\* Nothing happens to it.
Apart(i) == SameItem(i) /\ spared'[i] = spared[i] /\ AllKeep(i)

\* It is written: a marker for a new status, the status, or neither.
Written(i) ==
  /\ \A u \in Jobs : Sees(job[u], job'[u], i) /\ (Ageing(u) => i \notin job'[u].current /\ i \notin job'[u].steady)
  /\ spared'[i] = 0
  /\ \/ Remark(i) /\ SameRow(i) /\ halves'[i] = halves[i] /\ i \notin misjudged'
     \/ NoMark(i) /\ SameRow(i) /\ SamePast(i)
     \/ /\ SameMark(i) /\ row'[i] \in {"open", "shipped", "gone"}
        /\ row'[i] = "gone" \/ (row[i] # "gone" /\ (i \in archived' <=> i \in archived))
     \/ SameMark(i) /\ (i \in archived' <=> i \in archived) /\ row[i] = "unused" /\ row'[i] = "finished" /\ SamePast(i)
     \/ /\ SameMark(i) /\ (i \in archived' <=> i \in archived) /\ row[i] \in Live /\ row'[i] = "finished"
        /\ \/ row[i] # "finished" /\ halves'[i] = 0 /\ (i \in misjudged' \/ Unaged(i))
           \/ row[i] = "finished" /\ halves'[i] = halves[i] /\ (i \in misjudged => i \in misjudged')

\* It is archived.
Shelved(t, i) ==
  /\ row'[i] = row[i] /\ i \in archived' /\ SameMark(i) /\ SamePast(i) /\ spared'[i] = spared[i]
  /\ OthersKeep(t, i)
  /\ \/ AllKeep(i)
     \/ /\ StaysOn(t, i) /\ Takes(t, i) /\ job'[t].item = i /\ job'[t].at = "unmark"
        /\ (i \in job'[t].todo <=> i \in job[t].todo)

\* A message comes.
Arrives(t, i) ==
  LET alone == \A u \in Jobs \ {t} : ~Ageing(u) IN
    /\ ~Ageing(t) /\ SameItem(i) /\ spared'[i] = IF alone THEN spared[i] ELSE 0
    /\ job'[t].op = "age" /\ job'[t].at = "backfill" /\ job'[t].item # i /\ i \notin job'[t].current
    /\ i \in job'[t].todo <=> IsRipe(i)
    /\ i \in job'[t].steady <=> alone /\ IsRipe(i)
    /\ \A u \in Jobs \ {t} :
         /\ Sees(job[u], job'[u], i)
         /\ Ageing(u) => (i \in job'[u].current <=> i \in job[u].current) /\ i \notin job'[u].steady

\* The message sees to it that it has a marker.
Filled(t, i) ==
  /\ StaysOn(t, i) /\ OthersKeep(t, i) /\ SameRow(i) /\ halves'[i] = halves[i] /\ spared'[i] = spared[i]
  /\ job[t].at = "backfill" /\ i \in job[t].todo
  /\ job'[t].at = "backfill" /\ i \notin job'[t].todo /\ job'[t].item # i
  /\ \/ marker[i] # 0 /\ SameMark(i) /\ (i \in misjudged' <=> i \in misjudged)
     \/ marker[i] = 0 /\ Remark(i) /\ (i \in misjudged' <=> i \in misjudged /\ ~IsRipe(i))

\* The markers are read.
Listed(t, i) ==
  /\ Goes1(t, i) /\ OthersKeep(t, i) /\ SameRow(i) /\ SameMark(i) /\ spared'[i] = spared[i]
  /\ (i \in misjudged' <=> i \in misjudged)
  /\ halves'[i] = IF marker[i] > 0 /\ row[i] = "finished"
                    THEN Capped(halves[i] + IF job[t].mid THEN 1 ELSE 2) ELSE halves[i]
  /\ job[t].at = "backfill" /\ i \notin job[t].todo
  /\ job'[t].at = "look" /\ job'[t].item # i /\ job'[t].list[i] = marker[i]
  /\ i \in job'[t].todo <=> marker[i] > 0
  /\ i \in job'[t].current <=> marker[i] > 0

JudgedOf(t, i) == i \in misjudged' <=> i \in misjudged \/ i \notin job[t].current
Aside(t, i) == job'[t].at = "look" /\ i \notin job'[t].todo /\ job'[t].item # i

\* Its turn has come: it has none, half of one, or a whole one.
Looked(t, i) ==
  /\ StaysOn(t, i) /\ OthersKeep(t, i) /\ SameRow(i) /\ halves'[i] = halves[i] /\ spared'[i] = spared[i]
  /\ job[t].at = "look" /\ i \in job[t].todo /\ job[t].item # i
  /\ \/ ~IsRipe(i) /\ NoMark(i) /\ (i \in misjudged' <=> i \in misjudged) /\ Aside(t, i)
     \/ /\ IsRipe(i) /\ job[t].mid /\ i \notin flag /\ i \in flag' /\ marker'[i] = marker[i]
        /\ JudgedOf(t, i) /\ Aside(t, i)
     \/ /\ IsRipe(i) /\ (job[t].mid => i \in flag) /\ i \notin flag' /\ marker'[i] = marker[i]
        /\ (i \in misjudged' <=> i \in misjudged)
        /\ job'[t].at = "count" /\ job'[t].item = i /\ i \in job'[t].todo

\* The turn is taken from its marker, or was the last.
Counted(t, i) ==
  /\ StaysOn(t, i) /\ OthersKeep(t, i) /\ SameRow(i) /\ halves'[i] = halves[i] /\ spared'[i] = spared[i]
  /\ (i \in flag' <=> i \in flag)
  /\ job[t].at = "count" /\ job[t].item = i /\ i \in job[t].todo
  /\ \/ job[t].list[i] > 1 /\ marker'[i] = job[t].list[i] - 1 /\ JudgedOf(t, i) /\ Aside(t, i)
     \/ /\ job[t].list[i] <= 1 /\ marker'[i] = marker[i] /\ (i \in misjudged' <=> i \in misjudged)
        /\ job'[t].at \in {"archive", "delete"} /\ job'[t].item = i /\ i \in job'[t].todo

\* The message takes its row, and then its marker.
Retired(t, i) ==
  /\ StaysOn(t, i) /\ OthersKeep(t, i) /\ SameMark(i) /\ SamePast(i) /\ spared'[i] = spared[i]
  /\ Takes(t, i) /\ row'[i] = "gone"
  /\ job'[t].at = "unmark" /\ job'[t].item = i /\ (i \in job'[t].todo <=> i \in job[t].todo)
Unmarked1(t, i) ==
  /\ StaysOn(t, i) /\ OthersKeep(t, i) /\ SameRow(i) /\ SamePast(i) /\ spared'[i] = spared[i] /\ NoMark(i)
  /\ job[t].at = "unmark" /\ job[t].item = i /\ Aside(t, i)

\* The message has been through all of them, or breaks off.
Survives(t, i) ==
  /\ Ageing(t) /\ ~Ageing(t)' /\ OthersKeep(t, i) /\ SameItem(i)
  /\ job[t].at = "look" /\ i \notin job[t].todo /\ job[t].item # i
  /\ spared'[i] = IF i \in job[t].steady THEN Capped(spared[i] + 1) ELSE spared[i]
BreaksOff(t, i) ==
  /\ Ageing(t) /\ ~Ageing(t)' /\ OthersKeep(t, i) /\ SameItem(i)
  /\ spared'[i] = 0 \/ (spared'[i] = spared[i] /\ (Takes(t, i) => row[i] \notin Live))

Moves1(t, i) ==
  \/ Apart(i) \/ Written(i) \/ Shelved(t, i) \/ Arrives(t, i) \/ Filled(t, i) \/ Listed(t, i)
  \/ Looked(t, i) \/ Counted(t, i) \/ Retired(t, i) \/ Unmarked1(t, i) \/ Survives(t, i) \/ BreaksOff(t, i)

\* A job that goes on changes nothing for the others.
LEMMA KeepsPlain ==
  ASSUME JobTypes, NEW t \in Jobs, NEW w, GoesOn(t, w), NEW i
  PROVE  OthersKeep(t, i) /\ (job[t].op # "age" /\ w.op # "age" => AllKeep(i))
<1>1. job'[t] = w /\ \A u \in Jobs \ {t} : job'[u] = job[u]
  BY DEF JobTypes, GoesOn
<1>2. QED
  BY <1>1 DEF OthersKeep, AllKeep, Keeps, Sees

\* What a write to one item means to an item and to the passes.
LEMMA TouchesKeep ==
  ASSUME ItemsTypeOK, NEW t \in Jobs, NEW j \in Tracked, NEW w \in Works, Touches(t, j, w), NEW i \in Tracked,
         job[t].op # "age", w.op # "age"
  PROVE  /\ i # j => AllKeep(i) /\ spared'[i] = spared[i]
         /\ i = j => /\ spared'[i] = 0
                     /\ \A u \in Jobs : /\ Sees(job[u], job'[u], i)
                                        /\ Ageing(u) => i \notin job'[u].current /\ i \notin job'[u].steady
<1>1. JobTypes /\ spared \in [Tracked -> 0 .. 2 * Retention]
  BY DEF ItemsTypeOK, JobTypes
<1>2. /\ job'[t] = w /\ spared' = [spared EXCEPT ![j] = 0]
      /\ \A u \in Jobs \ {t} : job'[u] = IF Ageing(u) THEN Told(job[u], j) ELSE job[u]
  BY <1>1, TouchesEffect
<1>3. ASSUME NEW u \in Jobs, Ageing(u)
      PROVE  /\ Sees(job[u], job'[u], i)
             /\ i = j => i \notin job'[u].current /\ i \notin job'[u].steady
             /\ i # j => Keeps(job[u], job'[u], i)
  <2>1. u # t /\ job[u] \in AgeWork
    BY <1>1, <1>3, WorkKinds DEF Ageing, JobTypes
  <2>2. job'[u] = Told(job[u], j)
    BY <1>2, <1>3, <2>1
  <2>3. Sees(job[u], job'[u], i)
    <3>1. /\ job'[u].op = "age" /\ job'[u].mid = job[u].mid /\ job'[u].at = job[u].at
          /\ job'[u].item = job[u].item /\ job'[u].todo = job[u].todo /\ job'[u].list = job[u].list
      BY <2>1, <2>2, ToldType
    <3>2. QED
      BY <1>3, <3>1 DEF Sees, Ageing
  <2>4. i \in job'[u].current <=> i \in job[u].current /\ i # j
    BY <2>1, <2>2, ToldType
  <2>5. i \in job'[u].steady <=> i \in job[u].steady /\ i # j
    BY <2>1, <2>2, ToldType
  <2>6. QED
    BY <2>3, <2>4, <2>5 DEF Keeps
<1>4. ASSUME NEW u \in Jobs, ~Ageing(u) PROVE Keeps(job[u], job'[u], i)
  BY <1>2, <1>4 DEF Keeps, Sees, Ageing
<1>5. i # j => spared'[i] = spared[i]
  BY <1>1, <1>2
<1>6. i = j => spared'[i] = 0
  BY <1>1, <1>2
<1>7. QED
  BY <1>3, <1>4, <1>5, <1>6 DEF AllKeep, Keeps

AddsUnused == \A u \in Jobs : job[u].op = "add" => row[job[u].item] = "unused"

\* A step that changes nothing of an item.
LEMMA SameApart ==
  ASSUME UNCHANGED <<row, marker, flag, archived, halves, misjudged, spared>>, NEW i, AllKeep(i)
  PROVE  Apart(i)
BY DEF Apart, SameItem, SameRow, SameMark, SamePast

\* What each step means to one item: a command is asked ...
LEMMA AsksMoves ==
  ASSUME ItemsTypeOK, NEW t \in Jobs, NEW j \in Tracked, Asks(t, j), NEW i \in Tracked
  PROVE  Apart(i)
<1>1. JobTypes
  BY DEF ItemsTypeOK, JobTypes
<1>2. UNCHANGED <<stored, deletes, failed, past>> /\ job[t] = Idle
  BY Zenon DEF Asks, Add, Click, Directs, Merge, Starts, Remove, Withdraw, Removes, Fork
<1>3. \E w : GoesOn(t, w) /\ w.op # "age"
  <2>1. ASSUME NEW to, Add(t, j, to) PROVE \E w : GoesOn(t, w) /\ w.op # "age"
    <3>1. PICK w : GoesOn(t, w) /\ w = [op |-> "add", item |-> j, to |-> to, at |-> IF to = "finished" THEN "mark" ELSE "insert"]
      BY <2>1, Zenon DEF Add
    <3>2. w.op = "add"
      BY <3>1
    <3>3. QED
      BY <3>1, <3>2
  <2>2. ASSUME NEW to, NEW by, NEW at, Starts(t, j, to, by, at) PROVE \E w : GoesOn(t, w) /\ w.op # "age"
    <3>1. GoesOn(t, Status(j, to, by, Mode(j, to, by), at))
      BY <2>2 DEF Starts
    <3>2. Status(j, to, by, Mode(j, to, by), at).op = "status"
      BY DEF Status
    <3>3. QED
      BY <3>1, <3>2
  <2>3. ASSUME NEW by, NEW at, Removes(t, j, by, at) PROVE \E w : GoesOn(t, w) /\ w.op # "age"
    <3>1. GoesOn(t, Removal(j, by, at))
      BY <2>3 DEF Removes
    <3>2. Removal(j, by, at).op = "remove"
      BY DEF Removal
    <3>3. QED
      BY <3>1, <3>2
  <2>4. ASSUME Fork(t, j) PROVE \E w : GoesOn(t, w) /\ w.op # "age"
    <3>1. PICK w : GoesOn(t, w) /\ w = [op |-> "fork", item |-> j, at |-> "insert"]
      BY <2>4, Zenon DEF Fork
    <3>2. w.op = "fork"
      BY <3>1
    <3>3. QED
      BY <3>1, <3>2
  <2>5. QED
    BY <2>1, <2>2, <2>3, <2>4, Zenon DEF Asks, Click, Directs, Merge, Remove, Withdraw
<1>4. AllKeep(i)
  <2>1. Idle.op # "age"
    BY DEF Idle
  <2>2. QED
    BY <1>1, <1>2, <1>3, <2>1, KeepsPlain
<1>5. QED
  BY <1>2, <1>4, SameApart DEF stored, past

\* ... a marker is written ...
LEMMA MarkMoves ==
  ASSUME ItemsTypeOK, Shape, NEW t \in Jobs, Mark(t), NEW i \in Tracked
  PROVE  Apart(i) \/ Written(i)
<1>1. JobTypes
  BY DEF ItemsTypeOK, JobTypes
<1>2. PICK j \in Tracked : j = job[t].item
  BY <1>1, ItemType DEF Mark
<1>3. PICK w : /\ Touches(t, j, w)
               /\ \/ w = At(t, "insert") /\ job[t].op = "add"
                  \/ w = At(t, "write") /\ job[t].op = "status"
  <2>1. Touches(t, j, At(t, IF job[t].op = "add" THEN "insert" ELSE "write")) /\ job[t].op \in {"status", "add"}
    BY <1>2 DEF Mark
  <2>2. CASE job[t].op = "add"
    BY <2>1, <2>2
  <2>3. CASE job[t].op = "status"
    BY <2>1, <2>3
  <2>4. QED
    BY <2>1, <2>2, <2>3
<1>4. w \in Works /\ w.op # "age" /\ job[t].op # "age"
  BY <1>1, <1>3, PlainAt
<1>5. /\ UNCHANGED <<row, archived, halves>>
      /\ \/ Scheduled(j) /\ misjudged' = misjudged \ {j}
         \/ Cleared(j) /\ misjudged' = misjudged
  BY <1>2 DEF Mark
<1>6. CASE i = j
  <2>1. (Remark(i) /\ i \notin misjudged') \/ (NoMark(i) /\ misjudged' = misjudged)
    BY <1>5, <1>6 DEF Scheduled, Cleared, Remark, NoMark, ItemsTypeOK
  <2>2. SameRow(i) /\ halves'[i] = halves[i]
    BY <1>5 DEF SameRow
  <2>3. QED
    BY <1>3, <1>4, <1>6, <2>1, <2>2, TouchesKeep DEF Written, SamePast
<1>7. CASE i # j
  <2>1. SameItem(i)
    BY <1>5, <1>7 DEF SameItem, SameRow, SameMark, SamePast, Scheduled, Cleared, ItemsTypeOK
  <2>2. QED
    BY <1>3, <1>4, <1>7, <2>1, TouchesKeep DEF Apart
<1>8. QED
  BY <1>6, <1>7

\* ... a row is inserted ...
LEMMA InsertMoves ==
  ASSUME ItemsTypeOK, Shape, AddsUnused, NEW t \in Jobs, InsertRow(t), NEW i \in Tracked
  PROVE  Apart(i) \/ Written(i)
<1>1. JobTypes
  BY DEF ItemsTypeOK, JobTypes
<1>2. PICK j \in Tracked : j = job[t].item
  BY <1>1, ItemType DEF InsertRow
<1>3. Touches(t, j, Idle) /\ job[t].op # "age"
  BY <1>2 DEF InsertRow
<1>4. Idle \in Works /\ Idle.op # "age"
  BY KindWorks DEF Idle
<1>5. job[t].to \in {"open", "finished"} /\ row[j] = "unused"
  BY <1>1, <1>2, WorkKinds DEF InsertRow, JobTypes, AddWork, AddsUnused
<1>6. row' = [row EXCEPT ![j] = job[t].to] /\ UNCHANGED <<marker, flag, archived, halves, misjudged>>
  BY <1>2 DEF InsertRow
<1>7. CASE i = j
  <2>1. row'[i] \in {"open", "finished"} /\ row[i] = "unused"
    BY <1>5, <1>6, <1>7 DEF ItemsTypeOK
  <2>2. QED
    BY <1>3, <1>4, <1>6, <1>7, <2>1, TouchesKeep DEF Written, SameMark, SamePast
<1>8. CASE i # j
  <2>1. SameItem(i)
    BY <1>6, <1>8 DEF SameItem, SameRow, SameMark, SamePast
  <2>2. QED
    BY <1>3, <1>4, <1>8, <2>1, TouchesKeep DEF Apart
<1>9. QED
  BY <1>7, <1>8

\* ... a status is written ...
LEMMA WriteMoves ==
  ASSUME ItemsTypeOK, Shape, NEW t \in Jobs, Write(t), NEW i \in Tracked
  PROVE  Apart(i) \/ Written(i)
<1>1. JobTypes
  BY DEF ItemsTypeOK, JobTypes
<1>2. PICK j \in Tracked : j = job[t].item
  BY <1>1, ItemType DEF Write
<1>3. job[t].op = "status" /\ job[t].to \in Live /\ UNCHANGED <<marker, flag>>
  BY <1>1, WorkKinds DEF Write, JobTypes, StatusWork
<1>4. Idle \in Works /\ Idle.op # "age"
  BY KindWorks DEF Idle
<1>5. At(t, "archive") \in Works /\ At(t, "archive").op # "age"
  BY <1>1, <1>3, PlainAt
<1>6. CASE row[j] \notin Live
  <2>1. GoesOn(t, Idle) /\ UNCHANGED <<row, archived, halves, spared, misjudged>>
    BY <1>2, <1>6 DEF Write
  <2>2. AllKeep(i)
    BY <1>1, <1>3, <1>4, <2>1, KeepsPlain
  <2>3. QED
    BY <1>3, <2>1, <2>2, SameApart
<1>7. CASE row[j] \in Live /\ job[t].mode = "delete"
  <2>1. Deleted(j) /\ Touches(t, j, Idle) /\ UNCHANGED <<halves, misjudged>>
    BY <1>2, <1>7 DEF Write
  <2>2. CASE i = j
    <3>1. row'[i] = "gone"
      BY <2>1, <2>2 DEF Deleted, ItemsTypeOK
    <3>2. QED
      BY <1>3, <1>4, <2>1, <2>2, <3>1, TouchesKeep DEF Written, SameMark
  <2>3. CASE i # j
    <3>1. SameItem(i)
      BY <1>3, <2>1, <2>3 DEF SameItem, SameRow, SameMark, SamePast, Deleted
    <3>2. QED
      BY <1>3, <1>4, <2>1, <2>3, <3>1, TouchesKeep DEF Apart
  <2>4. QED
    BY <2>2, <2>3
<1>8. CASE row[j] \in Live /\ job[t].mode # "delete"
  <2>1. PICK w \in {Idle, At(t, "archive")} :
          /\ Touches(t, j, w) /\ UNCHANGED archived
          /\ row' = [row EXCEPT ![j] = job[t].to]
          /\ halves' = [halves EXCEPT ![j] = IF row[j] = "finished" THEN @ ELSE 0]
          /\ misjudged' = misjudged \cup {j}
             \/ (misjudged' = misjudged /\ (row[j] = "finished" \/ Unaged(j)))
    BY <1>2, <1>8 DEF Write
  <2>2. w \in Works /\ w.op # "age"
    BY <1>4, <1>5
  <2>3. CASE i = j
    <3>1. row'[i] = job[t].to /\ halves'[i] = (IF row[i] = "finished" THEN halves[i] ELSE 0)
      BY <2>1, <2>3 DEF ItemsTypeOK
    <3>2. row[i] # "gone"
      BY <1>8, <2>3 DEF Live
    <3>3. SameMark(i) /\ (i \in archived' <=> i \in archived)
      BY <1>3, <2>1 DEF SameMark
    <3>4. CASE job[t].to = "finished"
      <4>1. row[i] = "finished" \/ i \in misjudged' \/ Unaged(i)
        BY <2>1, <2>3
      <4>2. i \in misjudged => i \in misjudged'
        BY <2>1
      <4>3. \/ row[i] # "finished" /\ halves'[i] = 0 /\ (i \in misjudged' \/ Unaged(i))
            \/ row[i] = "finished" /\ halves'[i] = halves[i] /\ (i \in misjudged => i \in misjudged')
        BY <3>1, <4>1, <4>2
      <4>4. row[i] \in Live /\ row'[i] = "finished"
        BY <1>8, <2>3, <3>1, <3>4
      <4>5. QED
        BY <1>3, <2>1, <2>2, <2>3, <3>3, <4>3, <4>4, TouchesKeep DEF Written
    <3>5. CASE job[t].to # "finished"
      BY <1>3, <2>1, <2>2, <2>3, <3>1, <3>2, <3>3, <3>5, TouchesKeep DEF Written, Live
    <3>6. QED
      BY <3>4, <3>5
  <2>4. CASE i # j
    <3>1. SameItem(i)
      BY <1>3, <2>1, <2>4 DEF SameItem, SameRow, SameMark, SamePast
    <3>2. QED
      BY <1>3, <2>1, <2>2, <2>4, <3>1, TouchesKeep DEF Apart
  <2>5. QED
    BY <2>3, <2>4
<1>9. QED
  BY <1>6, <1>7, <1>8

\* ... a row is deleted ...
LEMMA DeleteMoves ==
  ASSUME ItemsTypeOK, Shape, NEW t \in Jobs, Delete(t), NEW i \in Tracked
  PROVE  Apart(i) \/ Written(i)
<1>1. JobTypes
  BY DEF ItemsTypeOK, JobTypes
<1>2. PICK j \in Tracked : j = job[t].item
  BY <1>1, ItemType DEF Delete
<1>3. job[t].op = "remove" /\ UNCHANGED <<marker, flag, halves, misjudged>>
  BY DEF Delete
<1>4. /\ Idle \in Works /\ Idle.op # "age"
      /\ At(t, "unmark") \in Works /\ At(t, "unmark").op # "age"
  BY <1>1, <1>3, KindWorks, PlainAt DEF Idle
<1>5. CASE GoesOn(t, Idle) /\ UNCHANGED <<row, archived, spared>>
  <2>1. AllKeep(i)
    BY <1>1, <1>3, <1>4, <1>5, KeepsPlain
  <2>2. QED
    BY <1>3, <1>5, <2>1, SameApart
<1>6. ASSUME NEW w \in {Idle, At(t, "unmark")}, Deleted(j), Touches(t, j, w)
      PROVE  Apart(i) \/ Written(i)
  <2>1. w \in Works /\ w.op # "age"
    BY <1>4
  <2>2. CASE i = j
    <3>1. row'[i] = "gone"
      BY <1>6, <2>2 DEF Deleted, ItemsTypeOK
    <3>2. QED
      BY <1>3, <1>6, <2>1, <2>2, <3>1, TouchesKeep DEF Written, SameMark
  <2>3. CASE i # j
    <3>1. SameItem(i)
      BY <1>3, <1>6, <2>3 DEF SameItem, SameRow, SameMark, SamePast, Deleted
    <3>2. QED
      BY <1>3, <1>6, <2>1, <2>3, <3>1, TouchesKeep DEF Apart
  <2>4. QED
    BY <2>2, <2>3
<1>7. QED
  BY <1>2, <1>5, <1>6 DEF Delete

\* ... a row goes to the archive ...
LEMMA ArchiveMoves ==
  ASSUME ItemsTypeOK, Shape, NEW t \in Jobs, Archive(t), NEW i \in Tracked
  PROVE  Apart(i) \/ Shelved(t, i)
<1>1. JobTypes
  BY DEF ItemsTypeOK, JobTypes
<1>2. PICK j \in Tracked : j = job[t].item
  BY <1>1, ItemType DEF Archive
<1>3. job[t].op \in {"status", "remove", "age"} /\ job[t].at = "archive"
      /\ UNCHANGED <<row, marker, flag, halves, spared, misjudged>>
  BY DEF Archive, past
<1>4. CASE job[t].op = "status" /\ GoesOn(t, Idle) /\ UNCHANGED archived
  <2>1. AllKeep(i)
    BY <1>1, <1>4, KeepsPlain DEF Idle
  <2>2. QED
    BY <1>3, <1>4, <2>1, SameApart
<1>5. CASE archived' = archived \cup {j} /\ GoesOn(t, At(t, "unmark"))
  <2>1. OthersKeep(t, i) /\ job'[t] = At(t, "unmark")
    BY <1>1, <1>5, KeepsPlain, GoesTo
  <2>2. CASE job[t].op \in {"status", "remove"}
    <3>1. AllKeep(i)
      BY <1>1, <1>5, <2>2, PlainAt, KeepsPlain
    <3>2. QED
      BY <1>3, <1>5, <2>1, <3>1 DEF Apart, Shelved, SameItem, SameRow, SameMark, SamePast
  <2>3. CASE job[t].op = "age"
    <3>1. /\ job'[t].op = "age" /\ job'[t].mid = job[t].mid /\ job'[t].at = "unmark"
          /\ job'[t].item = job[t].item /\ job'[t].todo = job[t].todo /\ job'[t].list = job[t].list
          /\ job'[t].current = job[t].current /\ job'[t].steady = job[t].steady
      BY <1>1, <2>1, <2>3, AtType
    <3>2. CASE i = j
      BY <1>2, <1>3, <1>5, <2>1, <2>3, <3>1, <3>2
         DEF Shelved, SameMark, SamePast, StaysOn, Goes1, Takes, Ageing
    <3>3. CASE i # j
      <4>1. Keeps(job[t], job'[t], i)
        BY <1>2, <1>3, <2>3, <3>1, <3>3 DEF Keeps, Sees
      <4>2. AllKeep(i)
        BY <2>1, <4>1 DEF AllKeep, OthersKeep
      <4>3. QED
        BY <1>3, <1>5, <3>3, <4>2 DEF Apart, SameItem, SameRow, SameMark, SamePast
    <3>4. QED
      BY <3>2, <3>3
  <2>4. QED
    BY <1>3, <2>2, <2>3
<1>6. QED
  BY <1>2, <1>4, <1>5 DEF Archive

\* A pass that puts an item aside.
LEMMA AsideFacts ==
  ASSUME JobTypes, NEW t \in Jobs, job[t].op = "age", NEW j \in Tracked, GoesOn(t, Further(t, j)),
         job[t].at # "backfill", NEW i \in Tracked, NoItem \notin Tracked
  PROVE  /\ OthersKeep(t, i) /\ StaysOn(t, i)
         /\ i = j => Aside(t, i)
         /\ i # j => job'[t].at = "look" /\ job'[t].item # i /\ (i \in job'[t].todo <=> i \in job[t].todo)
         /\ i # j /\ job[t].item # i => AllKeep(i)
<1>1. OthersKeep(t, i) /\ job'[t] = Further(t, j)
  BY KeepsPlain DEF JobTypes, GoesOn
<1>2. /\ job'[t].op = "age" /\ job'[t].mid = job[t].mid /\ job'[t].at = "look"
      /\ job'[t].item = NoItem /\ job'[t].todo = job[t].todo \ {j}
      /\ job'[t].list = job[t].list /\ job'[t].current = job[t].current
      /\ job'[t].steady = job[t].steady
  BY <1>1, FurtherType
<1>3. i # j /\ job[t].item # i => Keeps(job[t], job'[t], i)
  BY <1>2 DEF Keeps, Sees
<1>4. QED
  BY <1>1, <1>2, <1>3 DEF StaysOn, Goes1, Aside, AllKeep, OthersKeep

\* ... a marker is removed ...
LEMMA UnmarkMoves ==
  ASSUME ItemsTypeOK, Shape, NEW t \in Jobs, Unmark(t), NEW i \in Tracked
  PROVE  Apart(i) \/ Written(i) \/ Unmarked1(t, i)
<1>1. JobTypes
  BY DEF ItemsTypeOK, JobTypes
<1>2. PICK j \in Tracked : j = job[t].item
  BY <1>1, ItemType DEF Unmark
<1>3. Cleared(j) /\ UNCHANGED <<row, archived, halves, misjudged>> /\ job[t].at = "unmark"
  BY <1>2 DEF Unmark
<1>4. i = j => NoMark(i) /\ SameRow(i) /\ SamePast(i)
  BY <1>3 DEF NoMark, SameRow, SamePast, Cleared, ItemsTypeOK
<1>5. i # j => SameItem(i)
  BY <1>3 DEF SameItem, SameRow, SameMark, SamePast, Cleared
<1>6. CASE job[t].op = "age"
  <2>1. GoesOn(t, Further(t, j)) /\ UNCHANGED spared
    BY <1>2, <1>6 DEF Unmark, Ageing
  <2>2. CASE i = j
    BY <1>1, <1>2, <1>3, <1>4, <1>6, <2>1, <2>2, AsideFacts, JobsAssumption DEF Unmarked1
  <2>3. CASE i # j
    BY <1>1, <1>2, <1>3, <1>5, <1>6, <2>1, <2>3, AsideFacts, JobsAssumption DEF Apart
  <2>4. QED
    BY <2>2, <2>3
<1>7. CASE job[t].op # "age"
  <2>1. Touches(t, j, Idle)
    BY <1>2, <1>7 DEF Unmark, Ageing
  <2>2. Idle \in Works /\ Idle.op # "age"
    BY KindWorks DEF Idle
  <2>3. CASE i = j
    BY <1>4, <1>7, <2>1, <2>2, <2>3, TouchesKeep DEF Written
  <2>4. CASE i # j
    BY <1>5, <1>7, <2>1, <2>2, <2>4, TouchesKeep DEF Apart
  <2>5. QED
    BY <2>3, <2>4
<1>8. QED
  BY <1>6, <1>7

\* ... a row is forked ...
LEMMA ForkMoves ==
  ASSUME ItemsTypeOK, NEW t \in Jobs, InsertFork(t) \/ Handoff(t), NEW i \in Tracked
  PROVE  Apart(i)
<1>1. JobTypes
  BY DEF ItemsTypeOK, JobTypes
<1>2. job[t].op = "fork" /\ UNCHANGED <<row, marker, flag, archived, halves, misjudged, spared>>
      /\ (GoesOn(t, Idle) \/ GoesOn(t, At(t, "handoff")))
  BY DEF InsertFork, Handoff, past
<1>3. Idle.op # "age" /\ At(t, "handoff").op # "age"
  BY <1>1, <1>2, PlainAt DEF Idle
<1>4. AllKeep(i)
  BY <1>1, <1>2, <1>3, KeepsPlain
<1>5. QED
  BY <1>2, <1>4, SameApart

\* ... a write fails ...
LEMMA FailMoves ==
  ASSUME ItemsTypeOK, NEW t \in Jobs, Fail(t), NEW i \in Tracked
  PROVE  Apart(i) \/ BreaksOff(t, i)
<1>1. JobTypes
  BY DEF ItemsTypeOK, JobTypes
<1>2. GoesOn(t, Idle) /\ UNCHANGED <<row, marker, flag, archived, halves, misjudged>>
      /\ spared' = IF Ageing(t) THEN [k \in Tracked |-> 0] ELSE spared
  BY DEF Fail, stored
<1>3. job'[t] = Idle /\ OthersKeep(t, i) /\ (job[t].op # "age" => AllKeep(i)) /\ Idle.op # "age"
  BY <1>1, <1>2, KeepsPlain, GoesTo DEF Idle
<1>4. CASE Ageing(t)
  <2>1. spared'[i] = 0
    BY <1>2, <1>4
  <2>2. QED
    BY <1>2, <1>3, <1>4, <2>1 DEF BreaksOff, Ageing, SameItem, SameRow, SameMark, SamePast
<1>5. CASE ~Ageing(t)
  BY <1>2, <1>3, <1>5, SameApart DEF Ageing
<1>6. QED
  BY <1>4, <1>5

\* ... a message starts a pass ...
LEMMA MessageMoves ==
  ASSUME ItemsTypeOK, NEW t \in Jobs, NEW mid \in BOOLEAN, Message(t, mid), NEW i \in Tracked
  PROVE  Arrives(t, i)
<1> DEFINE alone == \A u \in Jobs \ {t} : ~Ageing(u)
           others == {u \in Jobs \ {t} : Ageing(u)}
<1>1. UNCHANGED <<row, marker, flag, archived, halves, misjudged>> /\ job[t] = Idle
      /\ spared' = IF others = {} THEN spared ELSE [k \in Tracked |-> 0]
  BY DEF Message, stored
<1>2. (others = {}) <=> alone
  OBVIOUS
<1>3. spared'[i] = IF alone THEN spared[i] ELSE 0
  BY <1>1, <1>2
<1>4. i \in Ripe <=> IsRipe(i)
  BY DEF Ripe, IsRipe
<1>5. /\ job'[t].op = "age" /\ job'[t].at = "backfill" /\ job'[t].item # i /\ i \notin job'[t].current
      /\ i \in job'[t].todo <=> IsRipe(i)
      /\ i \in job'[t].steady <=> alone /\ IsRipe(i)
  BY <1>4, MessageEffect, JobsAssumption
<1>6. ASSUME NEW u \in Jobs \ {t}
      PROVE  /\ Sees(job[u], job'[u], i)
             /\ Ageing(u) => (i \in job'[u].current <=> i \in job[u].current) /\ i \notin job'[u].steady
  <2>1. CASE Ageing(u)
    <3>1. /\ job'[u] \in AgeWork
          /\ job'[u].mid = job[u].mid /\ job'[u].at = job[u].at /\ job'[u].item = job[u].item
          /\ job'[u].todo = job[u].todo /\ job'[u].list = job[u].list
          /\ job'[u].current = job[u].current /\ job'[u].steady = {}
      BY <2>1, MessageEffect
    <3>2. job'[u].op = "age"
      BY <3>1 DEF AgeWork
    <3>3. QED
      BY <2>1, <3>1, <3>2 DEF Sees, Ageing
  <2>2. CASE ~Ageing(u)
    BY <2>2, MessageEffect DEF Sees, Ageing
  <2>3. QED
    BY <2>1, <2>2
<1>7. SameItem(i)
  BY <1>1 DEF SameItem, SameRow, SameMark, SamePast
<1>8. ~Ageing(t)
  BY <1>1 DEF Ageing, Idle
<1>9. QED
  BY <1>3, <1>5, <1>6, <1>7, <1>8 DEF Arrives

\* ... a pass fills in missing markers ...
LEMMA BackfillMoves ==
  ASSUME ItemsTypeOK, Shape, NEW t \in Jobs, Backfill(t), NEW i \in Tracked
  PROVE  Apart(i) \/ Filled(t, i)
<1>1. JobTypes /\ job[t].op = "age" /\ job[t].at = "backfill" /\ job[t] \in AgeWork
  BY WorkKinds DEF ItemsTypeOK, JobTypes, Backfill, Ageing
<1>2. job[t].item = NoItem
  BY <1>1 DEF Shape, ShapeOf
<1>3. PICK j \in job[t].todo :
        /\ IF Unmarked(j) THEN Scheduled(j) /\ misjudged' = misjudged \ ({j} \cap Ripe)
           ELSE UNCHANGED <<marker, flag, misjudged>>
        /\ GoesOn(t, [job[t] EXCEPT !.todo = @ \ {j}])
        /\ UNCHANGED <<row, archived, halves, spared>>
  BY DEF Backfill
<1>4. j \in Tracked /\ i # NoItem
  BY <1>1, <1>3, JobsAssumption DEF AgeWork
<1>5. OthersKeep(t, i) /\ job'[t] = [job[t] EXCEPT !.todo = @ \ {j}]
  BY <1>1, <1>3, KeepsPlain, GoesTo
<1>6. /\ job'[t].op = "age" /\ job'[t].mid = job[t].mid /\ job'[t].at = "backfill"
      /\ job'[t].item = NoItem /\ job'[t].todo = job[t].todo \ {j}
      /\ job'[t].list = job[t].list /\ job'[t].current = job[t].current
      /\ job'[t].steady = job[t].steady
  BY <1>1, <1>2, <1>5 DEF AgeWork
<1>7. CASE i = j
  <2>1. StaysOn(t, i) /\ SameRow(i) /\ halves'[i] = halves[i] /\ spared'[i] = spared[i]
    BY <1>1, <1>3, <1>6 DEF StaysOn, Goes1, SameRow
  <2>2. i \in Ripe <=> IsRipe(i)
    BY DEF Ripe, IsRipe
  <2>3. CASE Unmarked(i)
    <3>1. marker[i] = 0 /\ Remark(i)
      BY <1>3, <1>7, <2>3 DEF Unmarked, Scheduled, Remark, ItemsTypeOK
    <3>2. i \in misjudged' <=> i \in misjudged /\ ~IsRipe(i)
      BY <1>3, <1>7, <2>2, <2>3
    <3>3. QED
      BY <1>1, <1>3, <1>4, <1>5, <1>6, <1>7, <2>1, <3>1, <3>2 DEF Filled
  <2>4. CASE ~Unmarked(i)
    BY <1>1, <1>3, <1>4, <1>5, <1>6, <1>7, <2>1, <2>4 DEF Filled, SameMark, Unmarked
  <2>5. QED
    BY <2>3, <2>4
<1>8. CASE i # j
  <2>1. Keeps(job[t], job'[t], i)
    BY <1>1, <1>2, <1>6, <1>8 DEF Keeps, Sees
  <2>2. SameItem(i)
    <3>1. CASE Unmarked(j)
      <4>1. Scheduled(j) /\ misjudged' = misjudged \ ({j} \cap Ripe)
        BY <1>3, <3>1
      <4>2. SameMark(i)
        BY <1>8, <4>1 DEF SameMark, Scheduled, ItemsTypeOK
      <4>3. i \in misjudged' <=> i \in misjudged
        BY <1>8, <4>1
      <4>4. QED
        BY <1>3, <4>2, <4>3 DEF SameItem, SameRow, SamePast
    <3>2. CASE ~Unmarked(j)
      BY <1>3, <3>2 DEF SameItem, SameRow, SameMark, SamePast
    <3>3. QED
      BY <3>1, <3>2
  <2>3. QED
    BY <1>3, <1>5, <2>1, <2>2 DEF Apart, AllKeep, OthersKeep
<1>9. QED
  BY <1>7, <1>8

\* ... lists what it will look at ...
LEMMA ListMoves ==
  ASSUME ItemsTypeOK, Shape, NEW t \in Jobs, List(t), NEW i \in Tracked
  PROVE  Listed(t, i)
<1> DEFINE marked == {k \in Tracked : marker[k] > 0}
           w == [At(t, "look") EXCEPT !.todo = marked, !.current = marked, !.list = marker]
<1>1. JobTypes /\ job[t].op = "age" /\ job[t].at = "backfill" /\ job[t] \in AgeWork
  BY WorkKinds DEF ItemsTypeOK, JobTypes, List, Ageing
<1>2. job[t].item = NoItem /\ i # NoItem /\ job[t].todo = {}
  BY <1>1, JobsAssumption DEF Shape, ShapeOf, List
<1>3. GoesOn(t, w) /\ UNCHANGED <<row, marker, flag, archived, spared, misjudged>>
      /\ halves' = [k \in Tracked |->
            IF k \in marked /\ row[k] = "finished"
              THEN Capped(halves[k] + IF job[t].mid THEN 1 ELSE 2) ELSE halves[k]]
  BY DEF List, stored
<1>4. OthersKeep(t, i) /\ job'[t] = w
  BY <1>1, <1>3, KeepsPlain, GoesTo
<1>5. At(t, "look") \in AgeWork /\ At(t, "look").op = "age" /\ At(t, "look").mid = job[t].mid
      /\ At(t, "look").at = "look" /\ At(t, "look").item = NoItem /\ At(t, "look").steady = job[t].steady
  BY <1>1, <1>2, AtType
<1>6. /\ job'[t].op = "age" /\ job'[t].mid = job[t].mid /\ job'[t].at = "look"
      /\ job'[t].item = NoItem /\ job'[t].todo = marked
      /\ job'[t].list = marker /\ job'[t].current = marked
      /\ job'[t].steady = job[t].steady
  BY <1>4, <1>5 DEF AgeWork
<1>7. halves'[i] = IF marker[i] > 0 /\ row[i] = "finished"
                    THEN Capped(halves[i] + IF job[t].mid THEN 1 ELSE 2) ELSE halves[i]
  BY <1>3
<1>8. QED
  BY <1>1, <1>2, <1>3, <1>4, <1>6, <1>7 DEF Listed, Goes1, SameRow, SameMark

\* ... looks at an item ...
LEMMA LookMoves ==
  ASSUME ItemsTypeOK, Shape, NEW t \in Jobs, Look(t), NEW i \in Tracked
  PROVE  Apart(i) \/ Looked(t, i)
<1>1. JobTypes /\ job[t].op = "age" /\ job[t].at = "look" /\ job[t] \in AgeWork
  BY WorkKinds DEF ItemsTypeOK, JobTypes, Look, Ageing
<1>2. job[t].item = NoItem /\ i # NoItem
  BY <1>1, JobsAssumption DEF Shape, ShapeOf
<1>3. PICK j \in job[t].todo :
       /\ \/ ~Ages(j) /\ Cleared(j) /\ GoesOn(t, Further(t, j)) /\ UNCHANGED misjudged
          \/ /\ Ages(j) /\ job[t].mid /\ j \notin flag /\ flag' = flag \cup {j}
             /\ GoesOn(t, Further(t, j)) /\ Judged(t, j) /\ UNCHANGED marker
          \/ /\ Ages(j) /\ (job[t].mid => j \in flag) /\ flag' = flag \ {j}
             /\ GoesOn(t, [At(t, "count") EXCEPT !.item = j]) /\ UNCHANGED <<marker, misjudged>>
  BY DEF Look
<1>4. j \in Tracked
  BY <1>1, <1>3 DEF AgeWork
<1>5. UNCHANGED <<row, archived, halves, spared>>
  BY DEF Look
<1>6. SameRow(i) /\ halves'[i] = halves[i] /\ spared'[i] = spared[i]
  BY <1>5 DEF SameRow
<1>7. Ages(j) <=> IsRipe(j)
  BY DEF Ages, IsRipe
<1>8. CASE GoesOn(t, Further(t, j))
  <2>1. OthersKeep(t, i) /\ StaysOn(t, i) /\ (i = j => Aside(t, i)) /\ (i # j => AllKeep(i))
    BY <1>1, <1>2, <1>4, <1>8, AsideFacts, JobsAssumption
  <2>2. CASE ~Ages(j) /\ Cleared(j) /\ UNCHANGED misjudged
    <3>1. i = j => NoMark(i)
      BY <2>2 DEF Cleared, NoMark, ItemsTypeOK
    <3>2. i # j => SameItem(i)
      BY <1>5, <2>2 DEF Cleared, SameItem, SameRow, SameMark, SamePast
    <3>3. QED
      BY <1>1, <1>2, <1>3, <1>6, <1>7, <2>1, <2>2, <3>1, <3>2 DEF Looked, Apart
  <2>3. CASE Ages(j) /\ job[t].mid /\ j \notin flag /\ flag' = flag \cup {j} /\ Judged(t, j) /\ UNCHANGED marker
    <3>1. i = j => JudgedOf(t, i)
      BY <2>3 DEF Judged, JudgedOf
    <3>2. i # j => SameItem(i)
      BY <1>5, <2>3 DEF Judged, SameItem, SameRow, SameMark, SamePast
    <3>3. CASE i = j
      BY <1>1, <1>2, <1>3, <1>6, <1>7, <2>1, <2>3, <3>1, <3>3 DEF Looked
    <3>4. CASE i # j
      BY <1>6, <2>1, <3>2, <3>4 DEF Apart
    <3>5. QED
      BY <3>3, <3>4
  <2>4. CASE /\ Ages(j) /\ (job[t].mid => j \in flag) /\ flag' = flag \ {j}
             /\ GoesOn(t, [At(t, "count") EXCEPT !.item = j])
    <3>1. job'[t] = Further(t, j)
      BY <1>8, GoesTo
    <3>2. job'[t].at = "look"
      BY <1>1, <1>4, <3>1, FurtherType
    <3>3. At(t, "count") \in AgeWork /\ At(t, "count").at = "count"
      BY <1>1, AtType
    <3>4. job'[t] = [At(t, "count") EXCEPT !.item = j]
      BY <2>4, GoesTo
    <3>5. job'[t].at = "count"
      BY <3>3, <3>4 DEF AgeWork
    <3>6. QED
      BY <3>2, <3>5
  <2>5. QED
    BY <1>3, <2>2, <2>3, <2>4
<1>9. CASE /\ Ages(j) /\ (job[t].mid => j \in flag) /\ flag' = flag \ {j}
           /\ GoesOn(t, [At(t, "count") EXCEPT !.item = j]) /\ UNCHANGED <<marker, misjudged>>
  <2>1. OthersKeep(t, i) /\ job'[t] = [At(t, "count") EXCEPT !.item = j]
    BY <1>1, <1>9, KeepsPlain, GoesTo
  <2>2. /\ At(t, "count") \in AgeWork /\ At(t, "count").op = "age" /\ At(t, "count").mid = job[t].mid
        /\ At(t, "count").at = "count" /\ At(t, "count").todo = job[t].todo
        /\ At(t, "count").list = job[t].list /\ At(t, "count").current = job[t].current
        /\ At(t, "count").steady = job[t].steady
    BY <1>1, AtType
  <2>3. /\ job'[t].op = "age" /\ job'[t].mid = job[t].mid /\ job'[t].at = "count"
        /\ job'[t].item = j /\ job'[t].todo = job[t].todo
        /\ job'[t].list = job[t].list /\ job'[t].current = job[t].current
        /\ job'[t].steady = job[t].steady
    BY <2>1, <2>2 DEF AgeWork
  <2>4. CASE i = j
    <3>1. StaysOn(t, i) /\ i \in job'[t].todo
      BY <1>1, <1>3, <2>3, <2>4 DEF StaysOn, Goes1
    <3>2. QED
      BY <1>1, <1>2, <1>3, <1>6, <1>7, <1>9, <2>1, <2>3, <2>4, <3>1 DEF Looked
  <2>5. CASE i # j
    <3>1. Keeps(job[t], job'[t], i)
      BY <1>1, <1>2, <2>3, <2>5 DEF Keeps, Sees
    <3>2. SameItem(i)
      BY <1>5, <1>9, <2>5 DEF SameItem, SameRow, SameMark, SamePast
    <3>3. QED
      BY <1>6, <2>1, <3>1, <3>2 DEF Apart, AllKeep, OthersKeep
  <2>6. QED
    BY <2>4, <2>5
<1>10. QED
  BY <1>3, <1>8, <1>9

\* ... counts it down ...
LEMMA CountMoves ==
  ASSUME ItemsTypeOK, Shape, NEW t \in Jobs, Count(t), NEW i \in Tracked
  PROVE  Apart(i) \/ Counted(t, i)
<1>1. JobTypes /\ job[t].op = "age" /\ job[t].at = "count" /\ job[t] \in AgeWork
  BY WorkKinds DEF ItemsTypeOK, JobTypes, Count, Ageing
<1>2. PICK j \in Tracked : j = job[t].item /\ j \in job[t].todo
  BY <1>1, ItemType DEF Shape, ShapeOf
<1>3. UNCHANGED <<row, flag, archived, halves, spared>>
  BY DEF Count
<1>4. SameRow(i) /\ halves'[i] = halves[i] /\ spared'[i] = spared[i] /\ (i \in flag' <=> i \in flag)
  BY <1>3 DEF SameRow
<1>5. CASE /\ job[t].list[j] > 1 /\ marker' = [marker EXCEPT ![j] = job[t].list[j] - 1]
           /\ GoesOn(t, Further(t, j)) /\ Judged(t, j)
  <2>1. /\ OthersKeep(t, i) /\ StaysOn(t, i) /\ (i = j => Aside(t, i))
        /\ i # j => AllKeep(i)
    BY <1>1, <1>2, <1>5, AsideFacts, JobsAssumption
  <2>2. CASE i = j
    <3>1. JudgedOf(t, i) /\ marker'[i] = job[t].list[i] - 1
      BY <1>5, <2>2 DEF Judged, JudgedOf, ItemsTypeOK
    <3>2. QED
      BY <1>1, <1>2, <1>4, <1>5, <2>1, <2>2, <3>1 DEF Counted
  <2>3. CASE i # j
    <3>1. SameItem(i)
      BY <1>3, <1>5, <2>3 DEF SameItem, SameRow, SameMark, SamePast, Judged
    <3>2. QED
      BY <1>4, <2>1, <2>3, <3>1 DEF Apart
  <2>4. QED
    BY <2>2, <2>3
<1>6. ASSUME job[t].list[j] <= 1, UNCHANGED <<marker, misjudged>>, NEW at \in {"archive", "delete"}, GoesOn(t, At(t, at))
      PROVE  Apart(i) \/ Counted(t, i)
  <2>1. OthersKeep(t, i) /\ job'[t] = At(t, at)
    BY <1>1, <1>6, KeepsPlain, GoesTo
  <2>2. /\ job'[t].op = "age" /\ job'[t].mid = job[t].mid /\ job'[t].at = at
        /\ job'[t].item = job[t].item /\ job'[t].todo = job[t].todo /\ job'[t].list = job[t].list
        /\ job'[t].current = job[t].current /\ job'[t].steady = job[t].steady
    BY <1>1, <2>1, AtType
  <2>3. CASE i = j
    BY <1>1, <1>2, <1>4, <1>6, <2>1, <2>2, <2>3 DEF Counted, StaysOn, Goes1
  <2>4. CASE i # j
    <3>1. Keeps(job[t], job'[t], i)
      BY <1>1, <1>2, <1>6, <2>2, <2>4 DEF Keeps, Sees
    <3>2. SameItem(i)
      BY <1>3, <1>6 DEF SameItem, SameRow, SameMark, SamePast
    <3>3. QED
      BY <1>4, <2>1, <3>1, <3>2 DEF Apart, AllKeep, OthersKeep
  <2>5. QED
    BY <2>3, <2>4
<1>7. QED
  BY <1>2, <1>5, <1>6 DEF Count

\* ... retires it ...
LEMMA RetireMoves ==
  ASSUME ItemsTypeOK, Shape, NEW t \in Jobs, Retire(t), NEW i \in Tracked
  PROVE  Apart(i) \/ Retired(t, i) \/ BreaksOff(t, i)
<1>1. JobTypes /\ job[t].op = "age" /\ job[t].at = "delete" /\ job[t] \in AgeWork
  BY WorkKinds DEF ItemsTypeOK, JobTypes, Retire, Ageing
<1>2. PICK j \in Tracked : j = job[t].item /\ j \in job[t].todo
  BY <1>1, ItemType DEF Shape, ShapeOf
<1>3. UNCHANGED <<marker, flag, halves, spared, misjudged>>
  BY DEF Retire, past
<1>4. CASE row[j] \in Live /\ Deleted(j) /\ GoesOn(t, At(t, "unmark"))
  <2>1. OthersKeep(t, i) /\ job'[t] = At(t, "unmark")
    BY <1>1, <1>4, KeepsPlain, GoesTo
  <2>2. /\ job'[t].op = "age" /\ job'[t].mid = job[t].mid /\ job'[t].at = "unmark"
        /\ job'[t].item = job[t].item /\ job'[t].todo = job[t].todo /\ job'[t].list = job[t].list
        /\ job'[t].current = job[t].current /\ job'[t].steady = job[t].steady
    BY <1>1, <2>1, AtType
  <2>3. CASE i = j
    <3>1. row'[i] = "gone"
      BY <1>4, <2>3 DEF Deleted, ItemsTypeOK
    <3>2. QED
      BY <1>1, <1>2, <1>3, <2>1, <2>2, <2>3, <3>1 DEF Retired, StaysOn, Goes1, SameMark, SamePast, Takes, Ageing
  <2>4. CASE i # j
    <3>1. Keeps(job[t], job'[t], i)
      BY <1>1, <1>2, <2>2, <2>4 DEF Keeps, Sees
    <3>2. SameItem(i)
      BY <1>3, <1>4, <2>4 DEF SameItem, SameRow, SameMark, SamePast, Deleted
    <3>3. QED
      BY <1>3, <2>1, <3>1, <3>2 DEF Apart, AllKeep, OthersKeep
  <2>5. QED
    BY <2>3, <2>4
<1>5. CASE row[j] \notin Live /\ GoesOn(t, Idle) /\ UNCHANGED <<row, archived>>
  <2>1. OthersKeep(t, i) /\ job'[t] = Idle /\ Idle.op # "age"
    BY <1>1, <1>5, KeepsPlain, GoesTo DEF Idle
  <2>2. Takes(t, i) => row[i] \notin Live
    BY <1>2, <1>5 DEF Takes
  <2>3. SameItem(i)
    BY <1>3, <1>5 DEF SameItem, SameRow, SameMark, SamePast
  <2>4. QED
    BY <1>1, <1>3, <2>1, <2>2, <2>3 DEF BreaksOff, Ageing
<1>6. QED
  BY <1>2, <1>4, <1>5 DEF Retire

\* ... and ends.
LEMMA AgedMoves ==
  ASSUME ItemsTypeOK, Shape, NEW t \in Jobs, Aged(t), NEW i \in Tracked
  PROVE  Survives(t, i)
<1>1. JobTypes /\ job[t].op = "age" /\ job[t].at = "look" /\ job[t].todo = {}
  BY DEF ItemsTypeOK, JobTypes, Aged, Ageing
<1>2. job[t].item = NoItem /\ i # NoItem
  BY <1>1, JobsAssumption DEF Shape, ShapeOf
<1>3. GoesOn(t, Idle) /\ UNCHANGED <<row, marker, flag, archived, halves, misjudged>>
      /\ spared' = [k \in Tracked |-> IF k \in job[t].steady THEN Capped(spared[k] + 1) ELSE spared[k]]
  BY DEF Aged, stored
<1>4. OthersKeep(t, i) /\ job'[t] = Idle /\ Idle.op # "age"
  BY <1>1, <1>3, KeepsPlain, GoesTo DEF Idle
<1>5. SameItem(i)
  BY <1>3 DEF SameItem, SameRow, SameMark, SamePast
<1>6. spared'[i] = IF i \in job[t].steady THEN Capped(spared[i] + 1) ELSE spared[i]
  BY <1>3
<1>7. QED
  BY <1>1, <1>2, <1>4, <1>5, <1>6 DEF Survives, Ageing

\* So every step is one of these to an item.
LEMMA ItemMoves ==
  ASSUME ItemsTypeOK, Shape, AddsUnused, NEW t \in Jobs, Acts(t), NEW i \in Tracked
  PROVE  Moves1(t, i)
<1>1. CASE Mark(t) \/ InsertRow(t) \/ Write(t) \/ Delete(t) \/ Archive(t)
  BY <1>1, MarkMoves, InsertMoves, WriteMoves, DeleteMoves, ArchiveMoves DEF Moves1
<1>2. CASE Unmark(t) \/ InsertFork(t) \/ Handoff(t) \/ Fail(t)
  BY <1>2, UnmarkMoves, ForkMoves, FailMoves DEF Moves1
<1>3. CASE Ageings(t)
  BY <1>3, BackfillMoves, ListMoves, LookMoves, CountMoves, RetireMoves, AgedMoves DEF Ageings, Moves1
<1>4. CASE \E j \in Tracked : Asks(t, j)
  BY <1>4, AsksMoves DEF Moves1
<1>5. CASE \E mid \in BOOLEAN : Message(t, mid)
  BY <1>5, MessageMoves DEF Moves1
<1>6. QED
  BY <1>1, <1>2, <1>3, <1>4, <1>5 DEF Acts, Steps

-----------------------------------------------------------------------------
\* A row is created once, and an archived or deleted one does not come back.
AddsDiffer ==
  \A t, u \in Jobs : job[t].op = "add" /\ job[u].op = "add" /\ job[t].item = job[u].item => t = u
UnusedFresh(i) ==
  row[i] = "unused" =>
    /\ marker[i] \in {0, Retention} /\ i \notin flag /\ halves[i] = 0
    /\ \A u \in Jobs : Ageing(u) => job[u].item # i
UnmarksDead(i) ==
  \A u \in Jobs : Ageing(u) /\ job[u].at = "unmark" /\ job[u].item = i => row[i] = "gone" \/ i \in archived
RowsInv == AddsUnused /\ AddsDiffer /\ \A i \in Tracked : UnusedFresh(i) /\ UnmarksDead(i)

\* An item comes into use by the job that adds it.
LEMMA UnusedLeft ==
  ASSUME ItemsTypeOK, Shape, NEW t \in Jobs, Acts(t), NEW i \in Tracked, row[i] = "unused", row'[i] # "unused"
  PROVE  job[t].op = "add" /\ job[t].item = i /\ job'[t] = Idle
<1>1. JobTypes /\ row \in [Tracked -> Live \cup {"unused", "gone"}]
  BY DEF ItemsTypeOK, JobTypes
<1>2. ASSUME NEW j \in Tracked, Asks(t, j) PROVE UNCHANGED row
  BY <1>2, Zenon DEF Asks, Add, Click, Directs, Merge, Starts, Remove, Withdraw, Removes, Fork, stored
<1>3. ASSUME NEW mid \in BOOLEAN, Message(t, mid) PROVE UNCHANGED row
  BY <1>3 DEF Message, stored
<1>4. Mark(t) \/ Archive(t) \/ Unmark(t) \/ InsertFork(t) \/ Handoff(t) \/ Fail(t) => UNCHANGED row
  BY Zenon DEF Mark, Archive, Unmark, InsertFork, Handoff, Fail, stored
<1>5. Backfill(t) \/ List(t) \/ Look(t) \/ Count(t) \/ Aged(t) => UNCHANGED row
  BY Zenon DEF Backfill, List, Look, Count, Aged, stored
<1>6. CASE InsertRow(t)
  <2>1. row' = [row EXCEPT ![job[t].item] = job[t].to] /\ job[t].op = "add" /\ Touches(t, job[t].item, Idle)
    BY <1>6 DEF InsertRow
  <2>2. QED
    BY <1>1, <2>1, GoesTo
<1>7. CASE Write(t)
  BY <1>1, <1>7 DEF Write, Deleted, Live
<1>8. CASE Delete(t) \/ Retire(t)
  BY <1>1, <1>8 DEF Delete, Retire, Deleted, Live
<1>9. QED
  BY <1>2, <1>3, <1>4, <1>5, <1>6, <1>7, <1>8 DEF Acts, Steps, Ageings

\* A job that adds has taken an unused row.
LEMMA AddStarts ==
  ASSUME ItemsTypeOK, Shape, NEW t \in Jobs, Acts(t), job'[t].op = "add"
  PROVE  /\ UNCHANGED row
         /\ \/ job[t].op = "add" /\ job'[t].item = job[t].item
            \/ /\ row[job'[t].item] = "unused"
               /\ \A u \in Jobs : job[u].op = "add" => job[u].item # job'[t].item
<1>1. JobTypes /\ job[t] \in Works
  BY DEF ItemsTypeOK, JobTypes
<1>2. job'[t] # Idle
  BY DEF Idle
<1>3. ASSUME NEW i \in Tracked, NEW to, Add(t, i, to)
      PROVE  UNCHANGED row /\ row[job'[t].item] = "unused" /\ \A u \in Jobs : job[u].op = "add" => job[u].item # job'[t].item
  <2>1. job'[t].item = i
    BY <1>3, GoesTo DEF Add
  <2>2. QED
    BY <1>3, <2>1 DEF Add, stored
<1>4. ASSUME NEW i \in Tracked, Asks(t, i), \A to : ~Add(t, i, to) PROVE FALSE
  <2>1. ASSUME NEW to, NEW by, NEW at, Starts(t, i, to, by, at) PROVE FALSE
    BY <2>1, GoesTo DEF Starts, Status
  <2>2. ASSUME NEW by, NEW at, Removes(t, i, by, at) PROVE FALSE
    BY <2>2, GoesTo DEF Removes, Removal
  <2>3. ASSUME Fork(t, i) PROVE FALSE
    BY <2>3, GoesTo DEF Fork
  <2>4. QED
    BY <1>4, <2>1, <2>2, <2>3, Zenon DEF Asks, Click, Directs, Merge, Remove, Withdraw
<1>5. ASSUME NEW mid \in BOOLEAN, Message(t, mid) PROVE FALSE
  BY <1>5, MessageEffect
<1>6. CASE Mark(t)
  <2>1. Touches(t, job[t].item, At(t, IF job[t].op = "add" THEN "insert" ELSE "write")) /\ UNCHANGED row
        /\ job[t].op \in {"status", "add"}
    BY <1>6 DEF Mark
  <2>2. job'[t] = At(t, IF job[t].op = "add" THEN "insert" ELSE "write")
    BY <1>1, <2>1, GoesTo
  <2>3. CASE job[t].op = "add"
    <3>1. job'[t] = At(t, "insert")
      BY <2>2, <2>3
    <3>2. job'[t].item = job[t].item
      BY <1>1, <2>3, <3>1, WorkKinds DEF At, AddWork
    <3>3. QED
      BY <2>1, <2>3, <3>2
  <2>4. CASE job[t].op = "status"
    BY <1>1, <2>2, <2>4, PlainAt
  <2>5. QED
    BY <2>1, <2>3, <2>4
<1>7. CASE InsertRow(t) \/ Handoff(t) \/ Fail(t)
  BY <1>2, <1>7, GoesTo DEF InsertRow, Handoff, Fail
<1>8. CASE Write(t) \/ Delete(t) \/ Archive(t) \/ InsertFork(t)
  <2>1. /\ job[t].op \in {"status", "remove", "age", "fork"}
        /\ \E i, at : \/ Touches(t, i, Idle) \/ Touches(t, i, At(t, at)) \/ GoesOn(t, Idle) \/ GoesOn(t, At(t, at))
    BY <1>8 DEF Write, Delete, Archive, InsertFork
  <2>2. \A at : At(t, at).op = job[t].op
    BY <1>1, <2>1, WorkKinds DEF At, StatusWork, RemoveWork, ForkWork, AgeWork
  <2>3. QED
    BY <1>2, <2>1, <2>2, GoesTo
<1>9. CASE Unmark(t)
  <2>1. \E i \in Tracked : job[t].op = "age" /\ GoesOn(t, Further(t, i))
    BY <1>1, <1>2, <1>9, ItemType, GoesTo DEF Unmark, Ageing
  <2>2. QED
    BY <1>1, <2>1, FurtherType, GoesTo
<1>10. CASE Ageings(t)
  <2>1. job[t].op = "age"
    BY <1>10 DEF Ageings, Ageing, Backfill, List, Look, Count, Retire, Aged
  <2>2. job[t] \in AgeWork
    BY <1>1, <2>1, WorkKinds
  <2>3. CASE Backfill(t)
    <3>1. PICK i : job'[t] = [job[t] EXCEPT !.todo = @ \ {i}]
      BY <2>3, GoesTo DEF Backfill
    <3>2. QED
      BY <2>2, <3>1 DEF AgeWork
  <2>4. CASE List(t)
    <3> DEFINE marked == {k \in Tracked : marker[k] > 0}
               w == [At(t, "look") EXCEPT !.todo = marked, !.current = marked, !.list = marker]
    <3>1. GoesOn(t, w)
      BY <2>4, Zenon DEF List
    <3>2. w.op = "age"
      BY <2>2 DEF At, AgeWork
    <3>3. QED
      BY <3>1, <3>2, GoesTo
  <2>5. CASE Look(t)
    <3>1. PICK j \in job[t].todo : job'[t] = Further(t, j) \/ job'[t] = [At(t, "count") EXCEPT !.item = j]
      BY <2>5, GoesTo DEF Look
    <3>2. QED
      BY <2>2, <3>1 DEF AgeWork, Further, At
  <2>6. CASE Count(t) \/ Retire(t) \/ Aged(t)
    <3>1. \E i, at : job'[t] = Further(t, i) \/ job'[t] = At(t, at)
      BY <1>2, <2>6, GoesTo DEF Count, Retire, Aged
    <3>2. QED
      BY <2>2, <3>1 DEF AgeWork, Further, At
  <2>7. QED
    BY <1>10, <2>3, <2>4, <2>5, <2>6 DEF Ageings
<1>11. QED
  BY <1>3, <1>4, <1>5, <1>6, <1>7, <1>8, <1>9, <1>10 DEF Acts, Steps

\* Two jobs never add the same row.
LEMMA AddsStep ==
  ASSUME ItemsTypeOK, Shape, AddsUnused, AddsDiffer, NEW t \in Jobs, Acts(t)
  PROVE  AddsUnused' /\ AddsDiffer'
<1>1. ASSUME NEW u \in Jobs, u # t, job'[u].op = "add" PROVE job[u].op = "add" /\ job'[u] = job[u]
  BY <1>1, OthersLike DEF Like
<1>2. ASSUME NEW u \in Jobs, job'[u].op = "add" PROVE row'[job'[u].item] = "unused"
  <2>1. CASE u = t
    BY <1>2, <2>1, AddStarts DEF AddsUnused
  <2>2. CASE u # t
    <3>1. job[u].op = "add" /\ job'[u] = job[u] /\ row[job[u].item] = "unused"
      BY <1>1, <1>2, <2>2 DEF AddsUnused
    <3>2. job[u].item \in Tracked
      BY <3>1, ItemType DEF ItemsTypeOK, JobTypes
    <3>3. QED
      BY <2>2, <3>1, <3>2, UnusedLeft DEF AddsDiffer
  <2>3. QED
    BY <2>1, <2>2
<1>3. ASSUME NEW u \in Jobs, NEW v \in Jobs, job'[u].op = "add", job'[v].op = "add", job'[u].item = job'[v].item
      PROVE  u = v
  <2>1. CASE u # t /\ v # t
    BY <1>1, <1>3, <2>1 DEF AddsDiffer
  <2>2. ASSUME u = t, v # t PROVE FALSE
    BY <1>1, <1>3, <2>2, AddStarts DEF AddsDiffer
  <2>3. ASSUME v = t, u # t PROVE FALSE
    BY <1>1, <1>3, <2>3, AddStarts DEF AddsDiffer
  <2>4. QED
    BY <2>1, <2>2, <2>3
<1>4. QED
  BY <1>2, <1>3 DEF AddsUnused, AddsDiffer

\* No ageing is at an item that has no row, and a row that is about to lose its
\* marker to an ageing is dead.
LEMMA RowsOfItem ==
  ASSUME ItemsTypeOK, Shape, NEW t \in Jobs, NEW i \in Tracked, Moves1(t, i), UnusedFresh(i), UnmarksDead(i)
  PROVE  UnusedFresh(i)' /\ UnmarksDead(i)'
<1> DEFINE On(u) == job[u].op = "age" /\ job[u].item = i
           Unmarking(u) == On(u) /\ job[u].at = "unmark"
           Dead == row[i] = "gone" \/ i \in archived
<1>1. ASSUME NEW u \in Jobs, Sees(job[u], job'[u], i) PROVE (On(u)' <=> On(u)) /\ (Unmarking(u)' <=> Unmarking(u))
  BY <1>1 DEF Sees
<1>2. /\ row[i] = "unused" => marker[i] \in {0, Retention} /\ i \notin flag /\ halves[i] = 0 /\ \A u \in Jobs : ~On(u)
      /\ \A u \in Jobs : Unmarking(u) => Dead
  BY DEF UnusedFresh, UnmarksDead, Ageing
<1>3. SUFFICES /\ row'[i] = "unused" => marker'[i] \in {0, Retention} /\ i \notin flag' /\ halves'[i] = 0 /\ \A u \in Jobs : ~On(u)'
               /\ \A u \in Jobs : Unmarking(u)' => Dead'
  BY DEF UnusedFresh, UnmarksDead, Ageing
<1>4. CASE Apart(i)
  <2>1. \A u \in Jobs : (On(u)' <=> On(u)) /\ (Unmarking(u)' <=> Unmarking(u))
    BY <1>1, <1>4 DEF Apart, AllKeep, Keeps
  <2>2. QED
    BY <1>2, <1>4, <2>1 DEF Apart, SameItem, SameRow, SameMark, SamePast
<1>5. CASE Written(i)
  <2>1. \A u \in Jobs : (On(u)' <=> On(u)) /\ (Unmarking(u)' <=> Unmarking(u))
    BY <1>1, <1>5 DEF Written
  <2>2. row'[i] = "unused" => row[i] = "unused" /\ marker'[i] \in {0, Retention} /\ i \notin flag' /\ halves'[i] = 0
    BY <1>2, <1>5 DEF Written, Remark, NoMark, SameRow, SamePast
  <2>3. (Dead => Dead') \/ row[i] = "unused"
    BY <1>5 DEF Written, SameRow, Live
  <2>4. QED
    BY <1>2, <2>1, <2>2, <2>3
<1>6. ASSUME OthersKeep(t, i) PROVE \A u \in Jobs \ {t} : (On(u)' <=> On(u)) /\ (Unmarking(u)' <=> Unmarking(u))
  BY <1>1, <1>6 DEF OthersKeep, Keeps
<1>7. CASE Shelved(t, i)
  <2>1. \A u \in Jobs : On(u)' <=> On(u)
    BY <1>1, <1>6, <1>7 DEF Shelved, AllKeep, Keeps, StaysOn, Goes1, Takes, Ageing
  <2>2. QED
    BY <1>2, <1>7, <2>1 DEF Shelved, SameMark, SamePast
<1>8. CASE Arrives(t, i)
  <2>1. \A u \in Jobs \ {t} : (On(u)' <=> On(u)) /\ (Unmarking(u)' <=> Unmarking(u))
    BY <1>1, <1>8 DEF Arrives
  <2>2. ~On(t)' /\ SameItem(i)
    BY <1>8 DEF Arrives
  <2>3. QED
    BY <1>2, <2>1, <2>2 DEF SameItem, SameRow, SameMark, SamePast
<1>9. CASE Filled(t, i)
  <2>1. ~On(t)' /\ \A u \in Jobs \ {t} : (On(u)' <=> On(u)) /\ (Unmarking(u)' <=> Unmarking(u))
    BY <1>6, <1>9 DEF Filled
  <2>2. QED
    BY <1>2, <1>9, <2>1 DEF Filled, SameRow, SameMark, Remark
<1>10. CASE Listed(t, i)
  <2>1. ~On(t)' /\ \A u \in Jobs \ {t} : (On(u)' <=> On(u)) /\ (Unmarking(u)' <=> Unmarking(u))
    BY <1>6, <1>10 DEF Listed
  <2>2. QED
    BY <1>2, <1>10, <2>1 DEF Listed, SameRow, SameMark
<1>11. CASE Looked(t, i)
  <2>1. \A u \in Jobs \ {t} : (On(u)' <=> On(u)) /\ (Unmarking(u)' <=> Unmarking(u))
    BY <1>6, <1>11 DEF Looked
  <2>2. ~Unmarking(t)' /\ (~IsRipe(i) => ~On(t)' /\ marker'[i] = 0 /\ i \notin flag')
    BY <1>11 DEF Looked, Aside, NoMark
  <2>3. SameRow(i) /\ halves'[i] = halves[i]
    BY <1>11 DEF Looked
  <2>4. QED
    BY <1>2, <2>1, <2>2, <2>3 DEF SameRow, IsRipe
<1>12. CASE Counted(t, i) \/ Retired(t, i) \/ Unmarked1(t, i)
  <2>1. \A u \in Jobs \ {t} : (On(u)' <=> On(u)) /\ (Unmarking(u)' <=> Unmarking(u))
    BY <1>6, <1>12 DEF Counted, Retired, Unmarked1
  <2>2. On(t) /\ (Unmarking(t)' => row'[i] = "gone")
    BY <1>12 DEF Counted, Retired, Unmarked1, Aside, StaysOn, Goes1, Takes
  <2>3. SameRow(i) \/ row'[i] = "gone"
    BY <1>12 DEF Counted, Retired, Unmarked1
  <2>4. QED
    BY <1>2, <2>1, <2>2, <2>3 DEF SameRow
<1>13. CASE Survives(t, i) \/ BreaksOff(t, i)
  <2>1. \A u \in Jobs \ {t} : (On(u)' <=> On(u)) /\ (Unmarking(u)' <=> Unmarking(u))
    BY <1>6, <1>13 DEF Survives, BreaksOff
  <2>2. ~On(t)' /\ SameItem(i)
    BY <1>13 DEF Survives, BreaksOff, Ageing
  <2>3. QED
    BY <1>2, <2>1, <2>2 DEF SameItem, SameRow, SameMark, SamePast
<1>14. QED
  BY <1>4, <1>5, <1>7, <1>8, <1>9, <1>10, <1>11, <1>12, <1>13 DEF Moves1

\* Every step keeps what is known of the rows ...
LEMMA ItemRowsStep ==
  ASSUME ItemTypes1, RowsInv, [ItemsNext]_itemVars
  PROVE  RowsInv'
<1>1. CASE UNCHANGED itemVars
  BY <1>1 DEF itemVars, stored, past, RowsInv, AddsUnused, AddsDiffer, UnusedFresh, UnmarksDead, Ageing
<1>2. ASSUME NEW t \in Jobs, Acts(t) PROVE RowsInv'
  <2>1. AddsUnused' /\ AddsDiffer'
    BY <1>2, AddsStep DEF RowsInv, ItemTypes1
  <2>2. ASSUME NEW i \in Tracked PROVE UnusedFresh(i)' /\ UnmarksDead(i)'
    BY <1>2, ItemMoves, RowsOfItem DEF RowsInv, ItemTypes1
  <2>3. QED
    BY <2>1, <2>2 DEF RowsInv
<1>3. QED
  BY <1>1, <1>2 DEF ItemsNext, Acts

\* ... which holds in the beginning.
LEMMA RowsInit ==
  ASSUME ItemsInit
  PROVE  RowsInv
BY RetentionAssumption DEF ItemsInit, RowsInv, AddsUnused, AddsDiffer, UnusedFresh, UnmarksDead, Ageing, Idle

-----------------------------------------------------------------------------
\* What a finished item has still to come through, in half turns: a message takes
\* one or two of them, and "spared" counts one ageing for it.
Due(i) == IF marker[i] = 0 THEN 2 * Retention ELSE 2 * marker[i] - (IF i \in flag THEN 1 ELSE 0)
Within(i) == spared[i] + Due(i) <= 2 * Retention
Share(u, i) ==
  /\ job[u].at = "backfill" => Within(i) /\ (i \notin job[u].todo => marker[i] > 0)
  /\ Awaits(u, i) => Within(i) /\ marker[i] = job[u].list[i]
  /\ Takes(u, i) => marker[i] = job[u].list[i] /\ spared[i] + 2 * marker[i] - 1 <= 2 * Retention
  /\ job[u].at # "backfill" /\ i \notin job[u].todo => spared[i] + Due(i) + 1 <= 2 * Retention

\* An ageing for which an item was undisturbed is the only one; any other one
\* has set the count of the item back.
AloneWith(i) == \A t, u \in Jobs : Ageing(t) /\ Ageing(u) /\ i \in job[t].steady => u = t
Budget(i) ==
  IsRipe(i) =>
    /\ (\A u \in Jobs : ~Ageing(u)) => Within(i)
    /\ \A u \in Jobs : Ageing(u) => IF i \in job[u].steady THEN Share(u, i) ELSE spared[i] = 0

\* The counts of an item are numbers within their bounds.
LEMMA ItemNumbers ==
  ASSUME ItemsTypeOK, NEW i \in Tracked
  PROVE  /\ Retention \in Nat /\ Retention >= 1
         /\ marker[i] \in Nat /\ marker[i] <= Retention /\ spared[i] \in Nat
         /\ Due(i) \in Nat /\ Due(i) >= 1 /\ Due(i) <= 2 * Retention
<1>1. Retention \in Nat /\ Retention >= 1
  BY RetentionAssumption
<1>2. marker[i] \in Nat /\ marker[i] <= Retention /\ spared[i] \in Nat
  BY <1>1 DEF ItemsTypeOK
<1>3. QED
  BY <1>1, <1>2 DEF Due

\* A pass that keeps an item keeps its share of it.
LEMMA ShareKept ==
  ASSUME NEW u \in Jobs, NEW i, Ageing(u), Keeps(job[u], job'[u], i), SameMark(i), spared'[i] = spared[i],
         Share(u, i)
  PROVE  Share(u, i)'
<1>1. Due(i)' = Due(i) /\ marker'[i] = marker[i]
  BY DEF SameMark, Due
<1>2. (Awaits(u, i)' <=> Awaits(u, i)) /\ (Takes(u, i)' <=> Takes(u, i))
  BY DEF Keeps, Sees, Awaits, Takes, Ageing
<1>3. job'[u].list[i] = job[u].list[i] /\ (job'[u].at = "backfill" <=> job[u].at = "backfill")
      /\ (i \in job'[u].todo <=> i \in job[u].todo)
  BY DEF Keeps, Sees, Ageing
<1>4. QED
  BY <1>1, <1>2, <1>3 DEF Share, Within

\* Who is ageing, and for whom the item was undisturbed.
LEMMA AloneStep ==
  ASSUME NEW t \in Jobs, NEW i \in Tracked, Moves1(t, i), AloneWith(i)
  PROVE  AloneWith(i)'
<1> DEFINE Sure(u) == Ageing(u) /\ i \in job[u].steady
<1>1. ASSUME NEW u \in Jobs, Keeps(job[u], job'[u], i) PROVE (Ageing(u)' <=> Ageing(u)) /\ (Sure(u)' <=> Sure(u))
  BY <1>1 DEF Keeps, Sees, Ageing
<1>2. CASE Apart(i)
  <2>1. \A u \in Jobs : (Ageing(u)' <=> Ageing(u)) /\ (Sure(u)' <=> Sure(u))
    BY <1>1, <1>2 DEF Apart, AllKeep
  <2>2. QED
    BY <2>1 DEF AloneWith
<1>3. CASE Written(i)
  <2>1. \A u \in Jobs : ~Sure(u)'
    BY <1>3 DEF Written, Sees, Ageing
  <2>2. QED
    BY <2>1 DEF AloneWith
<1>4. CASE Arrives(t, i)
  <2>1. \A u \in Jobs \ {t} : ~Sure(u)'
    BY <1>4 DEF Arrives, Sees, Ageing
  <2>2. Sure(t)' => \A u \in Jobs \ {t} : ~Ageing(u)'
    BY <1>4 DEF Arrives, Sees, Ageing
  <2>3. QED
    BY <2>1, <2>2 DEF AloneWith
<1>5. CASE OthersKeep(t, i) /\ (Ageing(t)' => Ageing(t)) /\ (Sure(t)' => Sure(t))
  <2>1. \A u \in Jobs : (Ageing(u)' => Ageing(u)) /\ (Sure(u)' => Sure(u))
    BY <1>1, <1>5 DEF OthersKeep
  <2>2. QED
    BY <2>1 DEF AloneWith
<1>6. ASSUME Goes1(t, i) \/ ~Ageing(t)' \/ AllKeep(i) PROVE (Ageing(t)' => Ageing(t)) /\ (Sure(t)' => Sure(t))
  BY <1>1, <1>6 DEF Goes1, Ageing, AllKeep
<1>7. ASSUME Shelved(t, i) \/ Filled(t, i) \/ Listed(t, i) \/ Looked(t, i) \/ Counted(t, i) \/ Retired(t, i)
             \/ Unmarked1(t, i) \/ Survives(t, i) \/ BreaksOff(t, i)
      PROVE  OthersKeep(t, i) /\ (Goes1(t, i) \/ ~Ageing(t)' \/ AllKeep(i))
  BY <1>7 DEF Shelved, Filled, Listed, Looked, Counted, Retired, Unmarked1, Survives, BreaksOff, StaysOn
<1>8. QED
  BY <1>2, <1>3, <1>4, <1>5, <1>6, <1>7 DEF Moves1

\* The budget of an item holds after every move of it.
LEMMA BudgetStep ==
  ASSUME ItemsTypeOK, ItemsTypeOK', Shape, NEW t \in Jobs, NEW i \in Tracked, Moves1(t, i),
         UnmarksDead(i), AloneWith(i), Budget(i)
  PROVE  Budget(i)'
<1> DEFINE Sure(u) == Ageing(u) /\ i \in job[u].steady
<1>1. /\ Retention \in Nat /\ Retention >= 1
      /\ marker[i] \in Nat /\ marker[i] <= Retention /\ spared[i] \in Nat
      /\ Due(i) \in Nat /\ Due(i) >= 1 /\ Due(i) <= 2 * Retention
      /\ marker'[i] \in Nat /\ marker'[i] <= Retention /\ spared'[i] \in Nat
      /\ Due(i)' \in Nat /\ Due(i)' >= 1 /\ Due(i)' <= 2 * Retention
  <2>1. /\ Retention \in Nat /\ Retention >= 1
        /\ marker[i] \in Nat /\ marker[i] <= Retention /\ spared[i] \in Nat
        /\ Due(i) \in Nat /\ Due(i) >= 1 /\ Due(i) <= 2 * Retention
    BY ItemNumbers
  <2>2. marker'[i] \in Nat /\ marker'[i] <= Retention /\ spared'[i] \in Nat
    BY <2>1 DEF ItemsTypeOK
  <2>3. QED
    BY <2>1, <2>2 DEF Due
<1>2. SUFFICES ASSUME IsRipe(i)'
               PROVE  /\ (\A u \in Jobs : ~Ageing(u)') => Within(i)'
                      /\ \A u \in Jobs : Ageing(u)' => IF Sure(u)' THEN Share(u, i)' ELSE spared'[i] = 0
  BY Zenon DEF Budget
<1>3. spared'[i] = 0 => Within(i)'
  BY <1>1 DEF Within
<1>4. SUFFICES ASSUME spared'[i] # 0 \/ \E u \in Jobs : Sure(u)'
               PROVE  /\ (\A u \in Jobs : ~Ageing(u)') => Within(i)'
                      /\ \A u \in Jobs : Ageing(u)' => IF Sure(u)' THEN Share(u, i)' ELSE spared'[i] = 0
  BY <1>3
<1>5. ASSUME NEW u \in Jobs, Keeps(job[u], job'[u], i) PROVE (Ageing(u)' <=> Ageing(u)) /\ (Sure(u)' <=> Sure(u))
  BY <1>5 DEF Keeps, Sees, Ageing
<1>6. ~Written(i)
  BY <1>4 DEF Written, Sees, Ageing
<1>7. ~Shelved(t, i) /\ ~Retired(t, i)
  BY <1>2 DEF Shelved, Retired, IsRipe
<1>8. SameRow(i) /\ IsRipe(i)
  BY <1>2, <1>6, <1>7
     DEF Moves1, Apart, Arrives, SameItem, SameRow, Filled, Listed, Looked, Counted, Unmarked1, Survives, BreaksOff, IsRipe
<1>9. /\ (\A u \in Jobs : ~Ageing(u)) => Within(i)
      /\ \A u \in Jobs : Ageing(u) => IF Sure(u) THEN Share(u, i) ELSE spared[i] = 0
  BY <1>8 DEF Budget
<1>10. ASSUME NEW u \in Jobs, Keeps(job[u], job'[u], i), SameMark(i), spared'[i] = spared[i], Sure(u)
       PROVE  Share(u, i)'
  BY <1>9, <1>10, ShareKept
<1>11. CASE Apart(i)
  <2>1. SameMark(i) /\ spared'[i] = spared[i] /\ \A u \in Jobs : Keeps(job[u], job'[u], i)
    BY <1>11 DEF Apart, SameItem, AllKeep
  <2>2. Due(i)' = Due(i)
    BY <2>1 DEF Due, SameMark
  <2>3. Within(i)' <=> Within(i)
    BY <2>1, <2>2 DEF Within
  <2>4. \A u \in Jobs : (Ageing(u)' <=> Ageing(u)) /\ (Sure(u)' <=> Sure(u))
    BY <1>5, <2>1
  <2>5. \A u \in Jobs : Sure(u) => Share(u, i)'
    BY <1>10, <2>1
  <2>6. QED
    BY <1>9, <2>1, <2>3, <2>4, <2>5
<1>12. CASE Arrives(t, i)
  <2>1. Ageing(t)' /\ ~Ageing(t) /\ SameMark(i) /\ \A u \in Jobs \ {t} : ~Sure(u)' /\ (Ageing(u)' <=> Ageing(u))
    BY <1>12 DEF Arrives, Sees, Ageing, SameItem
  <2>2. CASE \A u \in Jobs \ {t} : ~Ageing(u)
    <3>1. Sure(t)' /\ spared'[i] = spared[i] /\ job'[t].at = "backfill" /\ i \in job'[t].todo
      BY <1>8, <1>12, <2>1, <2>2 DEF Arrives
    <3>2. Due(i)' = Due(i)
      BY <2>1 DEF Due, SameMark
    <3>3. Within(i)'
      BY <1>9, <2>1, <2>2, <3>1, <3>2 DEF Within
    <3>4. Share(t, i)'
      BY <3>1, <3>3 DEF Share, Awaits, Takes
    <3>5. QED
      BY <2>1, <2>2, <3>1, <3>4
  <2>3. CASE ~\A u \in Jobs \ {t} : ~Ageing(u)
    <3>1. spared'[i] = 0 /\ ~Sure(t)'
      BY <1>12, <2>3 DEF Arrives
    <3>2. QED
      BY <1>4, <2>1, <3>1
  <2>4. QED
    BY <2>2, <2>3
\* From here on one ageing moves, and by AloneWith no other one is sure of the item.
<1>13. ASSUME OthersKeep(t, i), Ageing(t), spared'[i] = spared[i], ~Sure(t), Ageing(t)' => ~Sure(t)'
       PROVE  spared'[i] = 0
  <2>1. spared[i] = 0
    BY <1>9, <1>13
  <2>2. QED
    BY <1>13, <2>1
<1>14. ASSUME OthersKeep(t, i), Ageing(t), Sure(t) PROVE \A u \in Jobs \ {t} : ~Ageing(u) /\ ~Ageing(u)'
  <2>1. \A u \in Jobs \ {t} : ~Ageing(u)
    BY <1>14 DEF AloneWith
  <2>2. QED
    BY <1>5, <1>14, <2>1 DEF OthersKeep
<1>15. ASSUME OthersKeep(t, i), Goes1(t, i), spared'[i] = spared[i], Sure(t) => Share(t, i)'
       PROVE  /\ (\A u \in Jobs : ~Ageing(u)') => Within(i)'
              /\ \A u \in Jobs : Ageing(u)' => IF Sure(u)' THEN Share(u, i)' ELSE spared'[i] = 0
  <2>1. Ageing(t) /\ Ageing(t)' /\ (Sure(t)' <=> Sure(t))
    BY <1>15 DEF Goes1, Ageing
  <2>2. CASE Sure(t)
    BY <1>14, <1>15, <2>1, <2>2
  <2>3. CASE ~Sure(t)
    <3>1. spared'[i] = 0
      BY <1>13, <1>15, <2>1, <2>3
    <3>2. PICK u \in Jobs : Sure(u)'
      BY <1>4, <3>1
    <3>3. u # t /\ Sure(u)
      BY <1>5, <1>15, <2>1, <2>3, <3>2 DEF OthersKeep
    <3>4. QED
      BY <2>1, <3>3 DEF AloneWith
  <2>4. QED
    BY <2>2, <2>3
<1>16. Sure(t) => Share(t, i)
  BY <1>9
<1>17. CASE Filled(t, i)
  <2>1. ASSUME Sure(t) PROVE Share(t, i)'
    <3>1. Within(i) /\ spared'[i] = spared[i] /\ job'[t].at = "backfill"
      BY <1>16, <1>17, <2>1 DEF Share, Filled
    <3>2. Due(i)' = Due(i) /\ marker'[i] > 0
      BY <1>1, <1>17 DEF Filled, SameMark, Remark, Due
    <3>3. QED
      BY <3>1, <3>2 DEF Share, Within, Awaits, Takes
  <2>2. QED
    BY <1>15, <1>17, <2>1 DEF Filled, StaysOn
<1>18. CASE Listed(t, i)
  <2>1. ASSUME Sure(t) PROVE Share(t, i)'
    <3>1. Within(i) /\ marker[i] > 0 /\ spared'[i] = spared[i] /\ SameMark(i)
      BY <1>16, <1>18, <2>1 DEF Share, Listed
    <3>2. Due(i)' = Due(i)
      BY <3>1 DEF SameMark, Due
    <3>3. job'[t].at = "look" /\ i \in job'[t].todo /\ job'[t].list[i] = marker'[i]
      BY <1>18, <3>1 DEF Listed, SameMark
    <3>4. QED
      BY <3>1, <3>2, <3>3 DEF Share, Within, Takes
  <2>2. QED
    BY <1>15, <1>18, <2>1 DEF Listed
<1>19. CASE Looked(t, i)
  <2>1. ASSUME Sure(t) PROVE Share(t, i)'
    <3>1. Within(i) /\ marker[i] = job[t].list[i] /\ spared'[i] = spared[i]
      BY <1>16, <1>19, <2>1 DEF Share, Looked, Awaits
    <3>2. marker[i] > 0 /\ marker'[i] = marker[i] /\ job'[t].list[i] = job[t].list[i] /\ Ageing(t)
      BY <1>8, <1>19, <2>1, <3>1 DEF Looked, Shape, ShapeOf, StaysOn, Ageing
    <3>3. CASE Aside(t, i)
      <4>1. Due(i) = 2 * marker[i] /\ Due(i)' = 2 * marker[i] - 1
        BY <1>1, <1>8, <1>19, <3>2, <3>3 DEF Looked, Due, Aside
      <4>2. QED
        BY <1>1, <3>1, <3>3, <4>1 DEF Share, Aside, Awaits, Takes, Within
    <3>4. CASE job'[t].at = "count" /\ job'[t].item = i /\ i \in job'[t].todo
      <4>1. Due(i) >= 2 * marker[i] - 1
        BY <1>1, <3>2 DEF Due
      <4>2. spared'[i] + 2 * marker'[i] - 1 <= 2 * Retention
        BY <1>1, <3>1, <3>2, <4>1 DEF Within
      <4>3. QED
        BY <3>1, <3>2, <3>4, <4>2 DEF Share, Awaits
    <3>5. QED
      BY <1>8, <1>19, <3>3, <3>4 DEF Looked
  <2>2. QED
    BY <1>15, <1>19, <2>1 DEF Looked, StaysOn
<1>20. CASE Counted(t, i)
  <2>1. ASSUME Sure(t) PROVE Share(t, i)'
    <3>1. /\ marker[i] = job[t].list[i] /\ spared[i] + 2 * marker[i] - 1 <= 2 * Retention
          /\ spared'[i] = spared[i] /\ job'[t].list[i] = job[t].list[i]
      BY <1>16, <1>20, <2>1 DEF Share, Counted, Takes, StaysOn
    <3>2. CASE Aside(t, i)
      <4>1. marker'[i] = marker[i] - 1 /\ marker[i] > 1
        BY <1>20, <3>1, <3>2 DEF Counted, Aside
      <4>2. Due(i)' <= 2 * (marker[i] - 1)
        BY <1>1, <4>1 DEF Due
      <4>3. QED
        BY <1>1, <3>1, <3>2, <4>2 DEF Share, Aside, Awaits, Takes
    <3>3. CASE marker'[i] = marker[i] /\ job'[t].at \in {"archive", "delete"} /\ job'[t].item = i /\ i \in job'[t].todo
      BY <3>1, <3>3 DEF Share, Awaits
    <3>4. QED
      BY <1>20, <3>2, <3>3 DEF Counted
  <2>2. QED
    BY <1>15, <1>20, <2>1 DEF Counted, StaysOn
<1>21. CASE Unmarked1(t, i)
  BY <1>8, <1>21 DEF Unmarked1, StaysOn, Goes1, UnmarksDead, Ageing, IsRipe
<1>22. CASE Survives(t, i)
  <2>1. OthersKeep(t, i) /\ Ageing(t) /\ ~Ageing(t)' /\ SameMark(i) /\ job[t].at = "look" /\ i \notin job[t].todo
        /\ spared'[i] = IF i \in job[t].steady THEN Capped(spared[i] + 1) ELSE spared[i]
    BY <1>22 DEF Survives, SameItem
  <2>2. CASE Sure(t)
    <3>1. spared[i] + Due(i) + 1 <= 2 * Retention /\ Due(i)' = Due(i)
      BY <1>16, <2>1, <2>2 DEF Share, SameMark, Due
    <3>2. spared'[i] = spared[i] + 1
      BY <1>1, <2>1, <2>2, <3>1 DEF Capped
    <3>3. Within(i)'
      BY <1>1, <3>1, <3>2 DEF Within
    <3>4. QED
      BY <1>14, <2>1, <2>2, <3>3
  <2>3. CASE ~Sure(t)
    <3>1. spared'[i] = 0
      BY <1>13, <2>1, <2>3
    <3>2. PICK u \in Jobs : Sure(u)'
      BY <1>4, <3>1
    <3>3. u # t /\ Sure(u)
      BY <1>5, <2>1, <3>2 DEF OthersKeep
    <3>4. QED
      BY <2>1, <3>3 DEF AloneWith
  <2>4. QED
    BY <2>2, <2>3
<1>23. CASE BreaksOff(t, i)
  <2>1. OthersKeep(t, i) /\ Ageing(t) /\ ~Ageing(t)' /\ SameMark(i)
    BY <1>23 DEF BreaksOff, SameItem
  <2>2. CASE spared'[i] = spared[i] /\ Sure(t)
    <3>1. ~Takes(t, i)
      BY <1>4, <1>8, <1>14, <1>23, <2>1, <2>2 DEF BreaksOff, IsRipe, Live
    <3>2. Share(t, i) /\ ShapeOf(job[t]) /\ JobTypes /\ job[t].op = "age"
      BY <1>16, <2>2 DEF Shape, ItemsTypeOK, JobTypes, Ageing
    <3>3. job[t].at \in {"backfill", "look", "count", "delete", "archive", "unmark"}
      BY <3>2, WorkKinds DEF JobTypes, AgeWork
    <3>4. job[t].item = i => job[t].at \in {"count", "delete", "archive"}
      BY <1>8, <2>1, <3>2, <3>3, JobsAssumption DEF ShapeOf, UnmarksDead, IsRipe
    <3>5. Within(i)
      BY <1>1, <2>1, <3>1, <3>2, <3>3, <3>4 DEF Share, Awaits, Takes, Within
    <3>6. Due(i)' = Due(i)
      BY <2>1 DEF SameMark, Due
    <3>7. Within(i)'
      BY <2>2, <3>5, <3>6 DEF Within
    <3>8. QED
      BY <1>14, <2>1, <2>2, <3>7
  <2>3. ASSUME spared'[i] = 0 PROVE \A u \in Jobs : Ageing(u)' => IF Sure(u)' THEN Share(u, i)' ELSE spared'[i] = 0
    <3>1. PICK u \in Jobs : Sure(u)'
      BY <1>4, <2>3
    <3>2. u # t /\ Sure(u)
      BY <1>5, <2>1, <3>1 DEF OthersKeep
    <3>3. QED
      BY <2>1, <3>2 DEF AloneWith
  <2>4. CASE spared'[i] = spared[i] /\ ~Sure(t)
    BY <1>3, <1>13, <2>1, <2>3, <2>4
  <2>5. QED
    BY <1>3, <1>23, <2>2, <2>3, <2>4 DEF BreaksOff
<1>24. QED
  BY <1>6, <1>7, <1>11, <1>12, <1>17, <1>18, <1>19, <1>20, <1>21, <1>22, <1>23 DEF Moves1

\* One way to an invariant that is stated of each item: every move keeps it.
Mortal == \A i \in Tracked : AloneWith(i) /\ Budget(i)

\* Every step keeps what NotImmortal rests on ...
LEMMA MortalStep ==
  ASSUME ItemTypes1, ItemTypes1', RowsInv, Mortal, [ItemsNext]_itemVars
  PROVE  Mortal'
<1>1. CASE UNCHANGED itemVars
  <2>1. UNCHANGED <<row, marker, flag, archived, job, spared>>
    BY <1>1 DEF itemVars, stored, past
  <2>2. ASSUME NEW i \in Tracked PROVE AloneWith(i)'
    BY <2>1 DEF Mortal, AloneWith, Ageing
  <2>3. ASSUME NEW i \in Tracked PROVE Budget(i)'
    <3>1. Budget(i)
      BY DEF Mortal
    <3>2. QED
      BY <2>1, <3>1 DEF Budget, IsRipe, Within, Due, Share, Awaits, Takes, Ageing
  <2>4. QED
    BY <2>2, <2>3 DEF Mortal
<1>2. ASSUME NEW t \in Jobs, Acts(t), NEW i \in Tracked PROVE AloneWith(i)' /\ Budget(i)'
  <2>1. Moves1(t, i)
    BY <1>2, ItemMoves DEF ItemTypes1, RowsInv
  <2>2. QED
    BY <2>1, AloneStep, BudgetStep DEF ItemTypes1, RowsInv, Mortal
<1>3. QED
  BY <1>1, <1>2 DEF ItemsNext, Acts, Mortal

\* ... from which it follows.
LEMMA MortalHolds ==
  ASSUME ItemTypes1, RowsInv, Mortal, NEW i \in Tracked, IsRipe(i)
  PROVE  spared[i] < 2 * Retention
<1>1. /\ Retention \in Nat /\ Retention >= 1
      /\ marker[i] \in Nat /\ marker[i] <= Retention /\ spared[i] \in Nat
      /\ Due(i) \in Nat /\ Due(i) >= 1 /\ Due(i) <= 2 * Retention
  BY ItemNumbers DEF ItemTypes1
<1>2. Within(i) => spared[i] < 2 * Retention
  BY <1>1 DEF Within
<1>3. Budget(i)
  BY DEF Mortal
<1>4. CASE \A u \in Jobs : ~Ageing(u)
  BY <1>2, <1>3, <1>4 DEF Budget
<1>5. ASSUME NEW u \in Jobs, Ageing(u) PROVE spared[i] < 2 * Retention
  <2>1. CASE i \notin job[u].steady
    BY <1>1, <1>3, <1>5, <2>1 DEF Budget
  <2>2. CASE i \in job[u].steady
    <3>1. Share(u, i) /\ ShapeOf(job[u]) /\ JobTypes /\ job[u].op = "age"
      BY <1>3, <1>5, <2>2 DEF Budget, ItemTypes1, Shape, ItemsTypeOK, JobTypes, Ageing
    <3>2. job[u].at \in {"backfill", "look", "count", "delete", "archive", "unmark"}
      BY <3>1, WorkKinds DEF JobTypes, AgeWork
    <3>3. job[u].item = i => job[u].at \in {"count", "delete", "archive"}
      BY <1>5, <3>1, <3>2, JobsAssumption DEF ShapeOf, RowsInv, UnmarksDead, IsRipe
    <3>4. CASE Takes(u, i)
      <4>1. marker[i] > 0
        BY <3>1, <3>4 DEF Share, Takes, ShapeOf
      <4>2. spared[i] + 2 * marker[i] - 1 <= 2 * Retention
        BY <3>1, <3>4 DEF Share
      <4>3. QED
        BY <1>1, <4>1, <4>2
    <3>5. CASE ~Takes(u, i)
      <4>1. Within(i) \/ spared[i] + Due(i) + 1 <= 2 * Retention
        BY <1>5, <3>1, <3>2, <3>3, <3>5 DEF Share, Awaits, Takes
      <4>2. QED
        BY <1>1, <1>2, <4>1
    <3>6. QED
      BY <3>4, <3>5
  <2>3. QED
    BY <2>1, <2>2
<1>6. QED
  BY <1>4, <1>5

\* No finished row is immortal (age_finished_items_by): whatever commands and
\* messages did to its marker and its status meanwhile, a finished item that
\* nobody archived never comes through as many whole, undisturbed ageings as its
\* retention has half turns, for any number of items and jobs.
THEOREM NotImmortalHolds == ItemsSpec => []NotImmortal
<1> DEFINE Inv == ItemTypes1 /\ RowsInv /\ Mortal
<1>1. ItemsInit => Inv
  <2>1. ASSUME ItemsInit PROVE Mortal
    <3>1. \A u \in Jobs : ~Ageing(u)
      BY <2>1 DEF ItemsInit, Ageing, Idle
    <3>2. \A i \in Tracked : ~IsRipe(i)
      BY <2>1 DEF ItemsInit, IsRipe
    <3>3. QED
      BY <3>1, <3>2 DEF Mortal, AloneWith, Budget
  <2>2. QED
    BY <2>1, ItemTypesInit, RowsInit
<1>2. Inv /\ [ItemsNext]_itemVars => Inv'
  BY ItemTypesStep, ItemRowsStep, MortalStep
<1>3. Inv => NotImmortal
  BY MortalHolds DEF NotImmortal, IsRipe
<1>4. QED
  BY <1>1, <1>2, <1>3, PTL DEF ItemsSpec

-----------------------------------------------------------------------------
\* The half turns a finished item has been listed for pay for what its marker has
\* lost, for the half it holds in its flag, and for those messages within a turn
\* that have still to write theirs.
HalfDue(i) == {u \in Jobs : Awaits(u, i) /\ i \in job[u].current /\ job[u].mid}
Spent(i) == (IF i \in flag THEN 1 ELSE 0) + Cardinality(HalfDue(i))
Earned(i, n) == halves[i] = 2 * Retention \/ halves[i] >= n

\* An ageing that takes a turn from an item nobody has written since found it finished.
OnRow(i) == \A u \in Jobs : Takes(u, i) /\ i \in job[u].current => row[i] \in {"finished", "gone"}
Marked(i) ==
  IsRipe(i) /\ marker[i] = 0 => \A u \in Jobs : Awaits(u, i) \/ Takes(u, i) => i \notin job[u].current
Grace(i) ==
  i \notin misjudged =>
    /\ IsRipe(i) /\ marker[i] > 0 => Earned(i, 2 * (Retention - marker[i]) + Spent(i))
    /\ \A u \in Jobs : IsRipe(i) /\ Awaits(u, i) /\ i \in job[u].current =>
         Earned(i, 2 * (Retention - job[u].list[i]) + Spent(i) + (IF job[u].mid THEN 0 ELSE 2))
    /\ \A u \in Jobs : row[i] = "finished" /\ Takes(u, i) /\ i \in job[u].current =>
         Earned(i, 2 * (Retention - job[u].list[i]) + 2 + Spent(i))
Graced(i) == OnRow(i) /\ Marked(i) /\ Grace(i)

\* No ageing comes to await or to take the item, or to know more of it.
Follows(u, i) ==
  /\ Awaits(u, i)' /\ i \in job'[u].current =>
       /\ Awaits(u, i) /\ i \in job[u].current
       /\ job'[u].list[i] = job[u].list[i] /\ job'[u].mid = job[u].mid
  /\ Takes(u, i)' /\ i \in job'[u].current =>
       Takes(u, i) /\ i \in job[u].current /\ job'[u].list[i] = job[u].list[i]

\* Sets of jobs are finite.
LEMMA DueFinite ==
  ASSUME NEW S \in SUBSET Jobs
  PROVE  IsFiniteSet(S) /\ Cardinality(S) \in Nat
BY JobsAssumption, FS_Subset, FS_CardinalityType

\* The counts of GraceKept are numbers within their bounds.
LEMMA GraceNumbers ==
  ASSUME ItemsTypeOK, NEW i \in Tracked
  PROVE  /\ Retention \in Nat /\ Retention >= 1 /\ Spent(i) \in Nat
         /\ marker[i] \in Nat /\ marker[i] <= Retention
         /\ halves[i] \in Nat /\ halves[i] <= 2 * Retention
         /\ \A u \in Jobs : Ageing(u) => job[u].list[i] \in Nat /\ job[u].list[i] <= Retention /\ job[u].mid \in BOOLEAN
<1>1. Retention \in Nat /\ Retention >= 1
  BY RetentionAssumption
<1>2. marker[i] \in Nat /\ marker[i] <= Retention /\ halves[i] \in Nat /\ halves[i] <= 2 * Retention
  BY <1>1 DEF ItemsTypeOK
<1>3. Cardinality(HalfDue(i)) \in Nat
  BY DueFinite DEF HalfDue
<1>4. ASSUME NEW u \in Jobs, Ageing(u)
      PROVE  job[u].list[i] \in Nat /\ job[u].list[i] <= Retention /\ job[u].mid \in BOOLEAN
  <2>1. job[u] \in AgeWork
    BY <1>4, WorkKinds DEF ItemsTypeOK, Ageing
  <2>2. QED
    BY <1>1, <2>1 DEF AgeWork
<1>5. QED
  BY <1>1, <1>2, <1>3, <1>4 DEF Spent

\* A pass that keeps an item owes it what it owed.
LEMMA KeepsFollows ==
  ASSUME NEW u \in Jobs, NEW i, Keeps(job[u], job'[u], i)
  PROVE  /\ Follows(u, i)
         /\ u \in HalfDue(i)' <=> u \in HalfDue(i)
<1>1. (Ageing(u)' <=> Ageing(u)) /\ (Awaits(u, i)' <=> Awaits(u, i)) /\ (Takes(u, i)' <=> Takes(u, i))
  BY DEF Keeps, Sees, Awaits, Takes, Ageing
<1>2. Ageing(u) => /\ job'[u].list[i] = job[u].list[i] /\ job'[u].mid = job[u].mid
                   /\ (i \in job'[u].current <=> i \in job[u].current)
  BY DEF Keeps, Sees, Ageing
<1>3. QED
  BY <1>1, <1>2 DEF Follows, HalfDue, Awaits, Takes

\* What follows spends no more.
LEMMA SpentFewer ==
  ASSUME NEW i, \A u \in Jobs : Follows(u, i), i \in flag' => i \in flag
  PROVE  Spent(i)' <= Spent(i)
<1>1. HalfDue(i)' \subseteq HalfDue(i)
  BY DEF HalfDue, Follows
<1>2. Cardinality(HalfDue(i)') \in Nat /\ Cardinality(HalfDue(i)) \in Nat
  BY DueFinite DEF HalfDue
<1>3. Cardinality(HalfDue(i)') <= Cardinality(HalfDue(i))
  <2>1. IsFiniteSet(HalfDue(i))
    BY DueFinite DEF HalfDue
  <2>2. QED
    BY <1>1, <2>1, FS_Subset
<1>4. QED
  BY <1>2, <1>3 DEF Spent

\* What takes nothing from the marker, and nothing from what is earned.
LEMMA GraceFollows ==
  ASSUME ItemsTypeOK, ItemsTypeOK', NEW i \in Tracked, Graced(i), \A u \in Jobs : Follows(u, i),
         Spent(i)' <= Spent(i), Spent(i)' \in Nat, row'[i] = row[i], i \in archived => i \in archived',
         IsRipe(i)' => marker'[i] = marker[i], halves'[i] = halves[i], i \in misjudged => i \in misjudged'
  PROVE  Graced(i)'
<1>1. /\ Retention \in Nat /\ Retention >= 1 /\ Spent(i) \in Nat
      /\ marker[i] \in Nat /\ marker[i] <= Retention
      /\ halves[i] \in Nat /\ halves[i] <= 2 * Retention
      /\ \A u \in Jobs : Ageing(u) => job[u].list[i] \in Nat /\ job[u].list[i] <= Retention /\ job[u].mid \in BOOLEAN
  BY GraceNumbers
<1>2. IsRipe(i)' => IsRipe(i)
  BY DEF IsRipe
<1>3. OnRow(i)'
  BY DEF Graced, OnRow, Follows
<1>4. Marked(i)'
  BY <1>2 DEF Graced, Marked, Follows
<1>5. ASSUME NEW n \in Int, NEW k \in Int, k <= n, Earned(i, n) PROVE halves'[i] = 2 * Retention \/ halves'[i] >= k
  BY <1>1, <1>5 DEF Earned
<1>6. SUFFICES ASSUME i \notin misjudged'
               PROVE  /\ IsRipe(i)' /\ marker'[i] > 0 => Earned(i, 2 * (Retention - marker[i]) + Spent(i))'
                      /\ \A u \in Jobs : IsRipe(i)' /\ Awaits(u, i)' /\ i \in job'[u].current =>
                           Earned(i, 2 * (Retention - job[u].list[i]) + Spent(i) + (IF job[u].mid THEN 0 ELSE 2))'
                      /\ \A u \in Jobs : row'[i] = "finished" /\ Takes(u, i)' /\ i \in job'[u].current =>
                           Earned(i, 2 * (Retention - job[u].list[i]) + 2 + Spent(i))'
  BY <1>3, <1>4 DEF Graced, Grace
<1>7. /\ IsRipe(i) /\ marker[i] > 0 => Earned(i, 2 * (Retention - marker[i]) + Spent(i))
      /\ \A u \in Jobs : IsRipe(i) /\ Awaits(u, i) /\ i \in job[u].current =>
           Earned(i, 2 * (Retention - job[u].list[i]) + Spent(i) + (IF job[u].mid THEN 0 ELSE 2))
      /\ \A u \in Jobs : row[i] = "finished" /\ Takes(u, i) /\ i \in job[u].current =>
           Earned(i, 2 * (Retention - job[u].list[i]) + 2 + Spent(i))
  BY <1>6 DEF Graced, Grace
<1>8. IsRipe(i)' /\ marker'[i] > 0 => Earned(i, 2 * (Retention - marker[i]) + Spent(i))'
  <2>1. SUFFICES ASSUME IsRipe(i)', marker'[i] > 0 PROVE Earned(i, 2 * (Retention - marker[i]) + Spent(i))'
    OBVIOUS
  <2>2. Earned(i, 2 * (Retention - marker[i]) + Spent(i)) /\ marker'[i] = marker[i]
    BY <1>2, <1>7, <2>1
  <2>3. halves'[i] = 2 * Retention \/ halves'[i] >= 2 * (Retention - marker[i]) + Spent(i)'
    BY <1>1, <1>5, <2>2
  <2>4. QED
    BY <2>2, <2>3 DEF Earned
<1>9. ASSUME NEW u \in Jobs, IsRipe(i)', Awaits(u, i)', i \in job'[u].current
      PROVE  Earned(i, 2 * (Retention - job[u].list[i]) + Spent(i) + (IF job[u].mid THEN 0 ELSE 2))'
  <2>1. Awaits(u, i) /\ i \in job[u].current /\ job'[u].list[i] = job[u].list[i] /\ job'[u].mid = job[u].mid /\ Ageing(u)
    BY <1>9 DEF Follows, Awaits
  <2>2. Earned(i, 2 * (Retention - job[u].list[i]) + Spent(i) + (IF job[u].mid THEN 0 ELSE 2))
    BY <1>2, <1>7, <1>9, <2>1
  <2>3. \/ halves'[i] = 2 * Retention
        \/ halves'[i] >= 2 * (Retention - job[u].list[i]) + Spent(i)' + (IF job[u].mid THEN 0 ELSE 2)
    BY <1>1, <1>5, <2>1, <2>2
  <2>4. QED
    BY <2>1, <2>3 DEF Earned
<1>10. ASSUME NEW u \in Jobs, row'[i] = "finished", Takes(u, i)', i \in job'[u].current
       PROVE  Earned(i, 2 * (Retention - job[u].list[i]) + 2 + Spent(i))'
  <2>1. Takes(u, i) /\ i \in job[u].current /\ job'[u].list[i] = job[u].list[i] /\ Ageing(u)
    BY <1>10 DEF Follows, Takes
  <2>2. Earned(i, 2 * (Retention - job[u].list[i]) + 2 + Spent(i))
    BY <1>7, <1>10, <2>1
  <2>3. /\ 2 * (Retention - job[u].list[i]) + 2 + Spent(i) \in Int
        /\ 2 * (Retention - job[u].list[i]) + 2 + Spent(i)' \in Int
        /\ 2 * (Retention - job[u].list[i]) + 2 + Spent(i)' <= 2 * (Retention - job[u].list[i]) + 2 + Spent(i)
    BY <1>1, <2>1
  <2>4. \/ halves'[i] = 2 * Retention
        \/ halves'[i] >= 2 * (Retention - job[u].list[i]) + 2 + Spent(i)'
    BY <1>5, <2>2, <2>3
  <2>5. QED
    BY <2>1, <2>4 DEF Earned
<1>11. QED
  BY <1>8, <1>9, <1>10

\* The same with nothing more spent.
LEMMA GraceSame ==
  ASSUME ItemsTypeOK, ItemsTypeOK', NEW i \in Tracked, Graced(i), \A u \in Jobs : Follows(u, i),
         i \in flag' => i \in flag, row'[i] = row[i], i \in archived => i \in archived',
         IsRipe(i)' => marker'[i] = marker[i], halves'[i] = halves[i], i \in misjudged => i \in misjudged'
  PROVE  Graced(i)'
<1>1. Spent(i)' <= Spent(i)
  BY SpentFewer
<1>2. Cardinality(HalfDue(i)') \in Nat
  BY DueFinite DEF HalfDue
<1>3. Spent(i)' \in Nat
  BY <1>2 DEF Spent
<1>4. QED
  BY <1>1, <1>3, GraceFollows

\* One ageing does not await the item any more, or comes to, and the others go on.
LEMMA OthersFollow ==
  ASSUME NEW t \in Jobs, NEW i, OthersKeep(t, i), Follows(t, i)
  PROVE  \A u \in Jobs : Follows(u, i)
BY KeepsFollows DEF OthersKeep

\* The steps that take nothing from an item's grace.
LEMMA GraceQuiet ==
  ASSUME ItemsTypeOK, ItemsTypeOK', NEW t \in Jobs, NEW i \in Tracked, UnmarksDead(i), Graced(i),
         \/ Apart(i) \/ Shelved(t, i) \/ Arrives(t, i) \/ Unmarked1(t, i) \/ Survives(t, i) \/ BreaksOff(t, i)
         \/ Filled(t, i) /\ marker[i] # 0
         \/ Counted(t, i) /\ job[t].list[i] <= 1
         \/ Looked(t, i) /\ ~IsRipe(i)
  PROVE  Graced(i)'
<1>1. CASE Apart(i)
  <2>1. \A u \in Jobs : Follows(u, i)
    BY <1>1, KeepsFollows DEF Apart, AllKeep
  <2>2. QED
    BY <1>1, <2>1, GraceSame DEF Apart, SameItem, SameRow, SameMark, SamePast
<1>2. CASE Shelved(t, i)
  <2>1. Follows(t, i)
    BY <1>2, KeepsFollows DEF Shelved, AllKeep, Follows, Awaits, Takes
  <2>2. QED
    BY <1>2, <2>1, OthersFollow, GraceSame DEF Shelved, SameMark, SamePast
<1>3. CASE Arrives(t, i)
  <2>1. Follows(t, i)
    BY <1>3 DEF Arrives, Follows, Awaits, Takes
  <2>2. ASSUME NEW u \in Jobs \ {t} PROVE Follows(u, i)
    BY <1>3 DEF Arrives, Follows, Awaits, Takes, Sees, Ageing
  <2>3. QED
    BY <1>3, <2>1, <2>2, GraceSame DEF Arrives, SameItem, SameRow, SameMark, SamePast
<1>4. CASE Unmarked1(t, i)
  <2>1. Follows(t, i)
    BY <1>4 DEF Unmarked1, Aside, Follows, Awaits, Takes
  <2>2. ~IsRipe(i) /\ ~IsRipe(i)'
    BY <1>4 DEF Unmarked1, StaysOn, Goes1, UnmarksDead, IsRipe, SameRow, Ageing
  <2>3. QED
    BY <1>4, <2>1, <2>2, OthersFollow, GraceSame DEF Unmarked1, NoMark, SameRow, SamePast
<1>5. CASE Survives(t, i) \/ BreaksOff(t, i)
  <2>1. OthersKeep(t, i) /\ SameItem(i) /\ Follows(t, i)
    BY <1>5 DEF Survives, BreaksOff, Follows, Awaits, Takes
  <2>2. QED
    BY <2>1, OthersFollow, GraceSame DEF SameItem, SameRow, SameMark, SamePast
<1>6. CASE Filled(t, i) /\ marker[i] # 0
  <2>1. Follows(t, i)
    BY <1>6 DEF Filled, Follows, Awaits, Takes
  <2>2. QED
    BY <1>6, <2>1, OthersFollow, GraceSame DEF Filled, SameRow, SameMark
<1>7. CASE Counted(t, i) /\ job[t].list[i] <= 1
  <2>1. job[t].list[i] \in Nat
    BY <1>7, GraceNumbers DEF Counted, StaysOn, Goes1, Ageing
  <2>2. /\ marker'[i] = marker[i] /\ (i \in misjudged' <=> i \in misjudged)
        /\ job'[t].at \in {"archive", "delete"} /\ job'[t].item = i
    BY <1>7, <2>1 DEF Counted
  <2>3. Follows(t, i)
    BY <1>7, <2>2 DEF Counted, StaysOn, Goes1, Follows, Awaits, Takes, Ageing
  <2>4. QED
    BY <1>7, <2>2, <2>3, OthersFollow, GraceSame DEF Counted, SameRow
<1>8. CASE Looked(t, i) /\ ~IsRipe(i)
  <2>1. Follows(t, i) /\ SameRow(i) /\ NoMark(i) /\ halves'[i] = halves[i] /\ (i \in misjudged' <=> i \in misjudged)
    BY <1>8 DEF Looked, Aside, Follows, Awaits, Takes
  <2>2. ~IsRipe(i)'
    BY <1>8, <2>1 DEF IsRipe, SameRow
  <2>3. OthersKeep(t, i)
    BY <1>8 DEF Looked
  <2>4. QED
    BY <2>1, <2>2, <2>3, OthersFollow, GraceSame DEF SameRow, NoMark
<1>9. QED
  BY <1>1, <1>2, <1>3, <1>4, <1>5, <1>6, <1>7, <1>8

\* Whoever writes the item sees to it that no ageing knows of it.
LEMMA GraceWritten ==
  ASSUME ItemsTypeOK, ItemsTypeOK', NEW i \in Tracked, UnusedFresh(i), Graced(i), Written(i)
  PROVE  Graced(i)'
<1>1. /\ Retention \in Nat /\ Retention >= 1 /\ Spent(i) \in Nat
      /\ marker[i] \in Nat /\ marker[i] <= Retention
      /\ halves[i] \in Nat /\ halves[i] <= 2 * Retention
  BY GraceNumbers
<1>2. ASSUME NEW u \in Jobs PROVE ~(Awaits(u, i)' /\ i \in job'[u].current) /\ ~(Takes(u, i)' /\ i \in job'[u].current)
  BY DEF Written, Sees, Awaits, Takes, Ageing
<1>3. HalfDue(i)' = {}
  BY <1>2 DEF HalfDue
<1>4. Cardinality(HalfDue(i)') = 0 /\ Cardinality(HalfDue(i)) \in Nat
  BY <1>3, FS_EmptySet, DueFinite DEF HalfDue
<1>5. Spent(i)' = IF i \in flag' THEN 1 ELSE 0
  BY <1>4 DEF Spent
<1>6. halves'[i] \in Nat
  BY <1>1 DEF ItemsTypeOK
<1>7. SUFFICES ASSUME i \notin misjudged', IsRipe(i)', marker'[i] > 0
               PROVE  Earned(i, 2 * (Retention - marker[i]) + Spent(i))'
  BY <1>2 DEF Graced, OnRow, Marked, Grace
<1>8. ASSUME marker'[i] = Retention, i \notin flag' PROVE Earned(i, 2 * (Retention - marker[i]) + Spent(i))'
  BY <1>1, <1>5, <1>6, <1>8 DEF Earned
<1>9. CASE Remark(i)
  BY <1>8, <1>9 DEF Remark
<1>10. CASE NoMark(i)
  BY <1>1, <1>7, <1>10 DEF NoMark
<1>11. CASE SameMark(i) /\ row'[i] = "finished" /\ row[i] # "finished"
  <2>1. marker[i] \in {0, Retention} /\ i \notin flag
    BY <1>7, <1>11 DEF Written, Remark, NoMark, SameRow, Unaged, UnusedFresh
  <2>2. QED
    BY <1>1, <1>7, <1>8, <1>11, <2>1 DEF SameMark
<1>12. CASE SameMark(i) /\ row'[i] = "finished" /\ row[i] = "finished" /\ ~Remark(i) /\ ~NoMark(i)
  <2>1. /\ i \notin misjudged /\ halves'[i] = halves[i] /\ i \notin archived
        /\ marker'[i] = marker[i] /\ (i \in flag' <=> i \in flag)
    BY <1>7, <1>12 DEF Written, IsRipe, SameMark
  <2>2. Earned(i, 2 * (Retention - marker[i]) + Spent(i))
    BY <1>7, <1>12, <2>1 DEF Graced, Grace, IsRipe
  <2>3. Spent(i)' <= Spent(i) /\ Spent(i)' \in Nat
    BY <1>4, <1>5, <2>1 DEF Spent
  <2>4. QED
    BY <1>1, <2>1, <2>2, <2>3 DEF Earned
<1>13. QED
  BY <1>7, <1>9, <1>10, <1>11, <1>12 DEF Written, IsRipe

\* A pass that fills in a marker starts a whole grace.
LEMMA GraceFilled ==
  ASSUME ItemsTypeOK, ItemsTypeOK', NEW t \in Jobs, NEW i \in Tracked, Graced(i), Filled(t, i)
  PROVE  Graced(i)'
<1>1. /\ Retention \in Nat /\ Retention >= 1 /\ Spent(i) \in Nat
      /\ marker[i] \in Nat /\ marker[i] <= Retention
      /\ halves[i] \in Nat /\ halves[i] <= 2 * Retention
  BY GraceNumbers
<1>2. Follows(t, i)
  BY DEF Filled, Follows, Awaits, Takes
<1>3. \A u \in Jobs : Follows(u, i)
  BY <1>2, OthersFollow DEF Filled
<1>4. CASE marker[i] # 0
  BY <1>3, <1>4, GraceSame DEF Filled, SameRow, SameMark
<1>5. CASE marker[i] = 0 /\ ~IsRipe(i)
  <2>1. ~IsRipe(i)' /\ Remark(i) /\ (i \in misjudged' <=> i \in misjudged) /\ SameRow(i) /\ halves'[i] = halves[i]
    BY <1>5 DEF Filled, IsRipe, SameRow
  <2>2. QED
    BY <1>3, <2>1, GraceSame DEF SameRow, Remark
<1>6. CASE marker[i] = 0 /\ IsRipe(i)
  <2>1. \A u \in Jobs : Awaits(u, i) \/ Takes(u, i) => i \notin job[u].current
    BY <1>6 DEF Graced, Marked
  <2>2. \A u \in Jobs : Awaits(u, i)' \/ Takes(u, i)' => i \notin job'[u].current
    BY <1>3, <2>1 DEF Follows
  <2>3. HalfDue(i)' = {}
    BY <2>2 DEF HalfDue
  <2>4. Cardinality(HalfDue(i)') = 0
    BY <2>3, FS_EmptySet
  <2>5. marker'[i] = Retention /\ Spent(i)' = 0 /\ halves'[i] \in Nat
    BY <1>1, <1>6, <2>4 DEF Filled, Remark, Spent
  <2>6. Earned(i, 2 * (Retention - marker[i]) + Spent(i))'
    BY <1>1, <2>5 DEF Earned
  <2>7. QED
    BY <1>1, <2>2, <2>5, <2>6 DEF Graced, OnRow, Marked, Grace
<1>7. QED
  BY <1>4, <1>5, <1>6

\* A listing earns the halves that the message will take.
LEMMA GraceListed ==
  ASSUME ItemsTypeOK, ItemsTypeOK', NEW t \in Jobs, NEW i \in Tracked, Graced(i), Listed(t, i)
  PROVE  Graced(i)'
<1>1. /\ Retention \in Nat /\ Retention >= 1 /\ Spent(i) \in Nat
      /\ marker[i] \in Nat /\ marker[i] <= Retention
      /\ halves[i] \in Nat /\ halves[i] <= 2 * Retention
      /\ \A u \in Jobs : Ageing(u) => job[u].list[i] \in Nat /\ job[u].list[i] <= Retention /\ job[u].mid \in BOOLEAN
  BY GraceNumbers
<1>2. \A u \in Jobs \ {t} : Follows(u, i) /\ (u \in HalfDue(i)' <=> u \in HalfDue(i))
  BY KeepsFollows DEF Listed, OthersKeep
<1>3. Ageing(t) /\ Ageing(t)' /\ ~Takes(t, i)' /\ t \notin HalfDue(i) /\ job'[t].mid = job[t].mid /\ job[t].mid \in BOOLEAN
  BY <1>1 DEF Listed, Goes1, Takes, HalfDue, Awaits, Ageing
<1>4. /\ SameRow(i) /\ SameMark(i) /\ (i \in misjudged' <=> i \in misjudged)
      /\ IsRipe(i)' <=> IsRipe(i)
  BY DEF Listed, SameRow, IsRipe
<1>5. CASE marker[i] = 0
  <2>1. Follows(t, i)
    BY <1>1, <1>5 DEF Listed, Follows, Awaits, Takes
  <2>2. halves'[i] = halves[i]
    BY <1>5 DEF Listed
  <2>3. QED
    BY <1>2, <1>4, <2>1, <2>2, GraceSame DEF SameRow, SameMark
<1>6. CASE marker[i] > 0 /\ row[i] # "finished"
  <2>1. OnRow(i)'
    BY <1>2, <1>3, <1>4 DEF Graced, OnRow, Follows, SameRow
  <2>2. QED
    BY <1>4, <1>6, <2>1 DEF Graced, Marked, Grace, IsRipe, SameRow
<1>7. CASE marker[i] > 0 /\ row[i] = "finished"
  <2>1. OnRow(i)' /\ Marked(i)'
    BY <1>2, <1>3, <1>4, <1>7 DEF Graced, OnRow, Marked, Follows, SameRow, SameMark
  <2>2. job'[t].at = "look" /\ job'[t].item # i /\ job'[t].list[i] = marker[i] /\ i \in job'[t].todo
        /\ i \in job'[t].current /\ Awaits(t, i)'
    BY <1>3, <1>7 DEF Listed, Awaits
  <2>3. t \in HalfDue(i)' <=> job[t].mid
    BY <1>3, <2>2 DEF HalfDue
  <2>4. HalfDue(i)' = IF job[t].mid THEN HalfDue(i) \cup {t} ELSE HalfDue(i)
    <3>1. HalfDue(i)' \subseteq Jobs /\ HalfDue(i) \subseteq Jobs
      BY DEF HalfDue
    <3>2. QED
      BY <1>2, <1>3, <2>3, <3>1
  <2>5. Cardinality(HalfDue(i)') = Cardinality(HalfDue(i)) + (IF job[t].mid THEN 1 ELSE 0)
    <3>1. IsFiniteSet(HalfDue(i)) /\ Cardinality(HalfDue(i)) \in Nat
      BY DueFinite DEF HalfDue
    <3>2. Cardinality(HalfDue(i) \cup {t}) = Cardinality(HalfDue(i)) + 1
      BY <1>3, <3>1, FS_AddElement
    <3>3. QED
      BY <2>4, <3>1, <3>2
  <2>6. Spent(i)' = Spent(i) + (IF job[t].mid THEN 1 ELSE 0)
    <3>1. (IF i \in flag' THEN 1 ELSE 0) = (IF i \in flag THEN 1 ELSE 0)
      BY <1>4 DEF SameMark
    <3>2. Cardinality(HalfDue(i)) \in Nat
      BY DueFinite DEF HalfDue
    <3>3. QED
      BY <1>3, <2>5, <3>1, <3>2 DEF Spent
  <2>7. halves'[i] = 2 * Retention \/ halves'[i] = halves[i] + (IF job[t].mid THEN 1 ELSE 2)
    BY <1>1, <1>3, <1>7 DEF Listed, Capped
  <2>8. ASSUME NEW n \in Int, Earned(i, n)
        PROVE  halves'[i] = 2 * Retention \/ halves'[i] >= n + (IF job[t].mid THEN 1 ELSE 2)
    <3>1. CASE halves[i] = 2 * Retention
      <4>1. halves'[i] \in 0 .. 2 * Retention
        BY DEF ItemsTypeOK
      <4>2. halves'[i] = 2 * Retention
        BY <1>1, <1>3, <2>7, <3>1, <4>1
      <4>3. QED
        BY <4>2
    <3>2. CASE halves[i] >= n
      BY <1>1, <1>3, <2>7, <3>2
    <3>3. QED
      BY <2>8, <3>1, <3>2 DEF Earned
  <2>9. SUFFICES ASSUME i \notin misjudged
                 PROVE  /\ IsRipe(i) => Earned(i, 2 * (Retention - marker[i]) + Spent(i))'
                        /\ \A u \in Jobs : IsRipe(i) /\ Awaits(u, i)' /\ i \in job'[u].current =>
                             Earned(i, 2 * (Retention - job[u].list[i]) + Spent(i) + (IF job[u].mid THEN 0 ELSE 2))'
                        /\ \A u \in Jobs : Takes(u, i)' /\ i \in job'[u].current =>
                             Earned(i, 2 * (Retention - job[u].list[i]) + 2 + Spent(i))'
    BY <1>4, <2>1 DEF Graced, Grace
  <2>10. /\ IsRipe(i) => Earned(i, 2 * (Retention - marker[i]) + Spent(i))
         /\ \A u \in Jobs : IsRipe(i) /\ Awaits(u, i) /\ i \in job[u].current =>
              Earned(i, 2 * (Retention - job[u].list[i]) + Spent(i) + (IF job[u].mid THEN 0 ELSE 2))
         /\ \A u \in Jobs : Takes(u, i) /\ i \in job[u].current =>
              Earned(i, 2 * (Retention - job[u].list[i]) + 2 + Spent(i))
    BY <1>7, <2>9 DEF Graced, Grace
  <2>11. marker'[i] = marker[i]
    BY <1>4 DEF SameMark
  <2>12. ASSUME IsRipe(i) PROVE Earned(i, 2 * (Retention - marker[i]) + Spent(i))'
    <3>1. \/ halves'[i] = 2 * Retention
          \/ halves'[i] >= 2 * (Retention - marker[i]) + Spent(i) + (IF job[t].mid THEN 1 ELSE 2)
      BY <1>1, <2>8, <2>10, <2>12
    <3>2. halves'[i] = 2 * Retention \/ halves'[i] >= 2 * (Retention - marker[i]) + Spent(i)'
      BY <1>1, <2>6, <3>1 DEF ItemsTypeOK
    <3>3. QED
      BY <2>11, <3>2 DEF Earned
  <2>13. ASSUME NEW u \in Jobs, IsRipe(i), Awaits(u, i)', i \in job'[u].current
         PROVE  Earned(i, 2 * (Retention - job[u].list[i]) + Spent(i) + (IF job[u].mid THEN 0 ELSE 2))'
    <3>1. CASE u = t
      <4>1. \/ halves'[i] = 2 * Retention
            \/ halves'[i] >= 2 * (Retention - marker[i]) + Spent(i) + (IF job[t].mid THEN 1 ELSE 2)
        BY <1>1, <2>8, <2>10, <2>13
      <4>2. \/ halves'[i] = 2 * Retention
            \/ halves'[i] >= 2 * (Retention - marker[i]) + Spent(i)' + (IF job[t].mid THEN 0 ELSE 2)
        BY <1>1, <2>6, <4>1 DEF ItemsTypeOK
      <4>3. QED
        BY <1>3, <2>2, <3>1, <4>2 DEF Earned
    <3>2. CASE u # t
      <4>1. Awaits(u, i) /\ i \in job[u].current /\ job'[u].list[i] = job[u].list[i] /\ job'[u].mid = job[u].mid /\ Ageing(u)
        BY <1>2, <2>13, <3>2 DEF Follows, Awaits
      <4>2. job[u].list[i] \in Nat /\ job[u].mid \in BOOLEAN
        BY <1>1, <4>1
      <4>3. \/ halves'[i] = 2 * Retention
            \/ halves'[i] >= 2 * (Retention - job[u].list[i]) + Spent(i) + (IF job[u].mid THEN 0 ELSE 2) + (IF job[t].mid THEN 1 ELSE 2)
        BY <1>1, <2>8, <2>10, <2>13, <4>1, <4>2
      <4>4. \/ halves'[i] = 2 * Retention
            \/ halves'[i] >= 2 * (Retention - job[u].list[i]) + Spent(i)' + (IF job[u].mid THEN 0 ELSE 2)
        BY <1>1, <2>6, <4>2, <4>3 DEF ItemsTypeOK
      <4>5. QED
        BY <4>1, <4>4 DEF Earned
    <3>3. QED
      BY <3>1, <3>2
  <2>14. ASSUME NEW u \in Jobs, Takes(u, i)', i \in job'[u].current
         PROVE  Earned(i, 2 * (Retention - job[u].list[i]) + 2 + Spent(i))'
    <3>1. u # t /\ Takes(u, i) /\ i \in job[u].current /\ job'[u].list[i] = job[u].list[i] /\ Ageing(u)
      BY <1>2, <1>3, <2>14 DEF Follows, Takes
    <3>2. job[u].list[i] \in Nat
      BY <1>1, <3>1
    <3>3. \/ halves'[i] = 2 * Retention
          \/ halves'[i] >= 2 * (Retention - job[u].list[i]) + 2 + Spent(i) + (IF job[t].mid THEN 1 ELSE 2)
      BY <1>1, <2>8, <2>10, <3>1, <3>2
    <3>4. halves'[i] = 2 * Retention \/ halves'[i] >= 2 * (Retention - job[u].list[i]) + 2 + Spent(i)'
      BY <1>1, <2>6, <3>2, <3>3 DEF ItemsTypeOK
    <3>5. QED
      BY <3>1, <3>4 DEF Earned
  <2>15. QED
    BY <2>12, <2>13, <2>14
<1>8. QED
  BY <1>1, <1>5, <1>6, <1>7

\* A half turn is taken into the flag, or the flag makes it a whole one.
LEMMA GraceLooked ==
  ASSUME ItemsTypeOK, ItemsTypeOK', NEW t \in Jobs, NEW i \in Tracked, UnmarksDead(i), Graced(i), Looked(t, i)
  PROVE  Graced(i)'
<1>1. /\ Retention \in Nat /\ Retention >= 1 /\ Spent(i) \in Nat
      /\ marker[i] \in Nat /\ marker[i] <= Retention
      /\ halves[i] \in Nat /\ halves[i] <= 2 * Retention
      /\ \A u \in Jobs : Ageing(u) => job[u].list[i] \in Nat /\ job[u].list[i] <= Retention /\ job[u].mid \in BOOLEAN
  BY GraceNumbers
<1>2. \A u \in Jobs \ {t} : Follows(u, i) /\ (u \in HalfDue(i)' <=> u \in HalfDue(i))
  BY KeepsFollows DEF Looked, OthersKeep
<1>3. /\ Ageing(t) /\ Awaits(t, i) /\ ~Awaits(t, i)' /\ SameRow(i) /\ halves'[i] = halves[i]
      /\ job'[t].list[i] = job[t].list[i] /\ (i \in job'[t].current <=> i \in job[t].current)
      /\ job[t].mid \in BOOLEAN
  BY <1>1 DEF Looked, StaysOn, Goes1, Awaits, Ageing, Aside
<1>4. HalfDue(i)' = HalfDue(i) \ {t}
  <2>1. HalfDue(i)' \subseteq Jobs /\ HalfDue(i) \subseteq Jobs /\ t \notin HalfDue(i)'
    BY <1>3 DEF HalfDue
  <2>2. QED
    BY <1>2, <2>1
<1>5. IsFiniteSet(HalfDue(i)) /\ Cardinality(HalfDue(i)) \in Nat
  BY DueFinite DEF HalfDue
<1>6. t \in HalfDue(i) => Cardinality(HalfDue(i)') = Cardinality(HalfDue(i)) - 1
  BY <1>4, <1>5, FS_RemoveElement
<1>7. t \notin HalfDue(i) => HalfDue(i)' = HalfDue(i)
  BY <1>4
<1>8. Cardinality(HalfDue(i)') \in Nat
  BY DueFinite DEF HalfDue
<1>9. t \in HalfDue(i) <=> i \in job[t].current /\ job[t].mid
  BY <1>3 DEF HalfDue
<1>10. CASE ~IsRipe(i)
  BY <1>10, GraceQuiet
<1>11. CASE IsRipe(i) /\ Aside(t, i)
  <2>1. /\ job[t].mid /\ i \notin flag /\ i \in flag' /\ marker'[i] = marker[i] /\ JudgedOf(t, i)
    BY <1>11 DEF Looked, Aside
  <2>2. \A u \in Jobs : Follows(u, i)
    BY <1>2, <1>3, <1>11 DEF Follows, Takes, Aside
  <2>3. CASE i \in job[t].current
    <3>1. Spent(i)' = Spent(i)
      BY <1>5, <1>6, <1>9, <2>1, <2>3 DEF Spent
    <3>2. QED
      BY <1>1, <1>3, <2>1, <2>2, <2>3, <3>1, GraceFollows DEF SameRow, JudgedOf
  <2>4. CASE i \notin job[t].current
    <3>1. i \in misjudged'
      BY <2>1, <2>4 DEF JudgedOf
    <3>2. OnRow(i)' /\ Marked(i)'
      BY <1>3, <1>11, <2>1, <2>2 DEF Graced, OnRow, Marked, Follows, SameRow, IsRipe
    <3>3. QED
      BY <3>1, <3>2 DEF Graced, Grace
  <2>5. QED
    BY <2>3, <2>4
<1>12. CASE IsRipe(i) /\ ~Aside(t, i)
  <2>1. /\ job[t].mid => i \in flag
        /\ i \notin flag' /\ marker'[i] = marker[i] /\ (i \in misjudged' <=> i \in misjudged)
        /\ job'[t].at = "count" /\ job'[t].item = i /\ i \in job'[t].todo
    BY <1>12 DEF Looked
  <2>2. OnRow(i)' /\ Marked(i)'
    BY <1>2, <1>3, <1>12, <2>1 DEF Graced, OnRow, Marked, Follows, SameRow, IsRipe
  <2>3. Spent(i)' <= Spent(i) /\ Spent(i)' \in Nat
    BY <1>5, <1>6, <1>7, <1>8, <2>1 DEF Spent
  <2>4. i \in job[t].current => Spent(i)' + 2 <= Spent(i) + (IF job[t].mid THEN 0 ELSE 2)
    BY <1>1, <1>3, <1>5, <1>6, <1>9, <2>1, <2>3 DEF Spent
  <2>5. SUFFICES ASSUME i \notin misjudged
                 PROVE  /\ marker[i] > 0 => Earned(i, 2 * (Retention - marker[i]) + Spent(i))'
                        /\ \A u \in Jobs : Awaits(u, i)' /\ i \in job'[u].current =>
                             Earned(i, 2 * (Retention - job[u].list[i]) + Spent(i) + (IF job[u].mid THEN 0 ELSE 2))'
                        /\ \A u \in Jobs : Takes(u, i)' /\ i \in job'[u].current =>
                             Earned(i, 2 * (Retention - job[u].list[i]) + 2 + Spent(i))'
    BY <2>1, <2>2 DEF Graced, Grace
  <2>6. /\ marker[i] > 0 => Earned(i, 2 * (Retention - marker[i]) + Spent(i))
        /\ \A u \in Jobs : Awaits(u, i) /\ i \in job[u].current =>
             Earned(i, 2 * (Retention - job[u].list[i]) + Spent(i) + (IF job[u].mid THEN 0 ELSE 2))
        /\ \A u \in Jobs : Takes(u, i) /\ i \in job[u].current =>
             Earned(i, 2 * (Retention - job[u].list[i]) + 2 + Spent(i))
    BY <1>12, <2>5 DEF Graced, Grace, IsRipe
  <2>7. ASSUME NEW n \in Int, NEW k \in Int, k <= n, Earned(i, n) PROVE halves'[i] = 2 * Retention \/ halves'[i] >= k
    BY <1>1, <1>3, <2>7 DEF Earned
  <2>8. ASSUME marker[i] > 0 PROVE Earned(i, 2 * (Retention - marker[i]) + Spent(i))'
    <3>1. halves'[i] = 2 * Retention \/ halves'[i] >= 2 * (Retention - marker[i]) + Spent(i)'
      BY <1>1, <2>3, <2>6, <2>7, <2>8
    <3>2. QED
      BY <2>1, <3>1 DEF Earned
  <2>9. ASSUME NEW u \in Jobs, Awaits(u, i)', i \in job'[u].current
        PROVE  Earned(i, 2 * (Retention - job[u].list[i]) + Spent(i) + (IF job[u].mid THEN 0 ELSE 2))'
    <3>1. Awaits(u, i) /\ i \in job[u].current /\ job'[u].list[i] = job[u].list[i] /\ job'[u].mid = job[u].mid /\ Ageing(u)
      BY <1>2, <1>3, <2>9 DEF Follows, Awaits
    <3>2. \/ halves'[i] = 2 * Retention
          \/ halves'[i] >= 2 * (Retention - job[u].list[i]) + Spent(i)' + (IF job[u].mid THEN 0 ELSE 2)
      BY <1>1, <2>3, <2>6, <2>7, <3>1
    <3>3. QED
      BY <3>1, <3>2 DEF Earned
  <2>10. ASSUME NEW u \in Jobs, Takes(u, i)', i \in job'[u].current
         PROVE  Earned(i, 2 * (Retention - job[u].list[i]) + 2 + Spent(i))'
    <3>1. CASE u = t
      <4>1. \/ halves'[i] = 2 * Retention
            \/ halves'[i] >= 2 * (Retention - job[t].list[i]) + 2 + Spent(i)'
        BY <1>1, <1>3, <2>3, <2>4, <2>6, <2>7, <2>10, <3>1
      <4>2. QED
        BY <1>3, <3>1, <4>1 DEF Earned
    <3>2. CASE u # t
      <4>1. Takes(u, i) /\ i \in job[u].current /\ job'[u].list[i] = job[u].list[i] /\ Ageing(u)
        BY <1>2, <2>10, <3>2 DEF Follows, Takes
      <4>2. \/ halves'[i] = 2 * Retention
            \/ halves'[i] >= 2 * (Retention - job[u].list[i]) + 2 + Spent(i)'
        BY <1>1, <2>3, <2>6, <2>7, <4>1
      <4>3. QED
        BY <4>1, <4>2 DEF Earned
    <3>3. QED
      BY <3>1, <3>2
  <2>11. QED
    BY <2>8, <2>9, <2>10
<1>13. QED
  BY <1>10, <1>11, <1>12

\* A turn is taken from the marker of a message that has paid for it.
LEMMA GraceCounted ==
  ASSUME ItemsTypeOK, ItemsTypeOK', NEW t \in Jobs, NEW i \in Tracked, UnmarksDead(i), Graced(i), Counted(t, i)
  PROVE  Graced(i)'
<1>1. /\ Retention \in Nat /\ Retention >= 1 /\ Spent(i) \in Nat
      /\ marker[i] \in Nat /\ marker[i] <= Retention
      /\ halves[i] \in Nat /\ halves[i] <= 2 * Retention
      /\ \A u \in Jobs : Ageing(u) => job[u].list[i] \in Nat /\ job[u].list[i] <= Retention /\ job[u].mid \in BOOLEAN
  BY GraceNumbers
<1>2. CASE job[t].list[i] <= 1
  BY <1>2, GraceQuiet
<1>3. CASE ~(job[t].list[i] <= 1)
  <2>1. /\ marker'[i] = job[t].list[i] - 1 /\ JudgedOf(t, i) /\ Aside(t, i)
        /\ OthersKeep(t, i) /\ SameRow(i) /\ halves'[i] = halves[i] /\ (i \in flag' <=> i \in flag)
        /\ Ageing(t) /\ Takes(t, i) /\ job[t].list[i] \in Nat
    BY <1>1, <1>3 DEF Counted, StaysOn, Goes1, Ageing, Takes
  <2>2. \A u \in Jobs : Follows(u, i)
    BY <2>1, OthersFollow DEF Follows, Awaits, Takes, Aside
  <2>3. Spent(i)' <= Spent(i)
    BY <2>1, <2>2, SpentFewer
  <2>4. Cardinality(HalfDue(i)') \in Nat
    BY DueFinite DEF HalfDue
  <2>5. Spent(i)' \in Nat
    BY <2>4 DEF Spent
  <2>6. OnRow(i)' /\ Marked(i)'
    BY <1>1, <1>3, <2>1, <2>2 DEF Graced, OnRow, Marked, Follows, SameRow
  <2>7. SUFFICES ASSUME i \notin misjudged'
                 PROVE  /\ IsRipe(i)' /\ marker'[i] > 0 => Earned(i, 2 * (Retention - marker[i]) + Spent(i))'
                        /\ \A u \in Jobs : IsRipe(i)' /\ Awaits(u, i)' /\ i \in job'[u].current =>
                             Earned(i, 2 * (Retention - job[u].list[i]) + Spent(i) + (IF job[u].mid THEN 0 ELSE 2))'
                        /\ \A u \in Jobs : row'[i] = "finished" /\ Takes(u, i)' /\ i \in job'[u].current =>
                             Earned(i, 2 * (Retention - job[u].list[i]) + 2 + Spent(i))'
    BY <2>6 DEF Graced, Grace
  <2>8. i \notin misjudged /\ i \in job[t].current /\ (IsRipe(i)' <=> IsRipe(i)) /\ row'[i] = row[i]
    BY <2>1, <2>7 DEF JudgedOf, IsRipe, SameRow
  <2>9. /\ \A u \in Jobs : IsRipe(i) /\ Awaits(u, i) /\ i \in job[u].current =>
             Earned(i, 2 * (Retention - job[u].list[i]) + Spent(i) + (IF job[u].mid THEN 0 ELSE 2))
        /\ \A u \in Jobs : row[i] = "finished" /\ Takes(u, i) /\ i \in job[u].current =>
             Earned(i, 2 * (Retention - job[u].list[i]) + 2 + Spent(i))
    BY <2>8 DEF Graced, Grace
  <2>10. ASSUME NEW n \in Int, NEW k \in Int, k <= n, Earned(i, n) PROVE halves'[i] = 2 * Retention \/ halves'[i] >= k
    BY <1>1, <2>1, <2>10 DEF Earned
  <2>11. ASSUME IsRipe(i) PROVE Earned(i, 2 * (Retention - marker[i]) + Spent(i))'
    <3>1. Earned(i, 2 * (Retention - job[t].list[i]) + 2 + Spent(i))
      BY <2>1, <2>8, <2>9, <2>11 DEF IsRipe
    <3>2. \/ halves'[i] = 2 * Retention
          \/ halves'[i] >= 2 * (Retention - (job[t].list[i] - 1)) + Spent(i)'
      BY <1>1, <2>1, <2>3, <2>5, <2>10, <3>1
    <3>3. QED
      BY <2>1, <3>2 DEF Earned
  <2>12. ASSUME NEW u \in Jobs, IsRipe(i), Awaits(u, i)', i \in job'[u].current
         PROVE  Earned(i, 2 * (Retention - job[u].list[i]) + Spent(i) + (IF job[u].mid THEN 0 ELSE 2))'
    <3>1. Awaits(u, i) /\ i \in job[u].current /\ job'[u].list[i] = job[u].list[i] /\ job'[u].mid = job[u].mid /\ Ageing(u)
      BY <2>2, <2>12 DEF Follows, Awaits
    <3>2. \/ halves'[i] = 2 * Retention
          \/ halves'[i] >= 2 * (Retention - job[u].list[i]) + Spent(i)' + (IF job[u].mid THEN 0 ELSE 2)
      BY <1>1, <2>3, <2>5, <2>9, <2>10, <2>12, <3>1
    <3>3. QED
      BY <3>1, <3>2 DEF Earned
  <2>13. ASSUME NEW u \in Jobs, row[i] = "finished", Takes(u, i)', i \in job'[u].current
         PROVE  Earned(i, 2 * (Retention - job[u].list[i]) + 2 + Spent(i))'
    <3>1. Takes(u, i) /\ i \in job[u].current /\ job'[u].list[i] = job[u].list[i] /\ Ageing(u)
      BY <2>2, <2>13 DEF Follows, Takes
    <3>2. \/ halves'[i] = 2 * Retention
          \/ halves'[i] >= 2 * (Retention - job[u].list[i]) + 2 + Spent(i)'
      BY <1>1, <2>3, <2>5, <2>9, <2>10, <2>13, <3>1
    <3>3. QED
      BY <3>1, <3>2 DEF Earned
  <2>14. QED
    BY <2>8, <2>11, <2>12, <2>13
<1>4. QED
  BY <1>2, <1>3

\* What any step means to the grace of an item.
LEMMA GraceMoves ==
  ASSUME ItemsTypeOK, ItemsTypeOK', NEW t \in Jobs, NEW i \in Tracked, Moves1(t, i),
         UnusedFresh(i), UnmarksDead(i), Graced(i)
  PROVE  Graced(i)'
<1>1. CASE Retired(t, i)
  <2>1. row'[i] = "gone"
    BY <1>1 DEF Retired
  <2>2. QED
    BY <2>1 DEF Graced, OnRow, Marked, Grace, IsRipe
<1>2. CASE ~Retired(t, i)
  BY <1>2, GraceQuiet, GraceWritten, GraceFilled, GraceListed, GraceLooked, GraceCounted DEF Moves1
<1>3. QED
  BY <1>1, <1>2

AllGraced == \A i \in Tracked : Graced(i)

\* Every step keeps what GraceKept rests on.
LEMMA GraceStep ==
  ASSUME ItemTypes1, ItemTypes1', RowsInv, AllGraced, [ItemsNext]_itemVars
  PROVE  AllGraced'
<1>1. CASE UNCHANGED itemVars
  <2>1. UNCHANGED <<row, marker, flag, archived, job, halves, misjudged>>
    BY <1>1 DEF itemVars, stored, past
  <2>2. ASSUME NEW i \in Tracked PROVE Graced(i)'
    <3>1. AllKeep(i) /\ spared'[i] = spared[i]
      BY <1>1, <2>1 DEF AllKeep, Keeps, Sees, itemVars, past
    <3>2. Apart(i)
      BY <2>1, <3>1 DEF Apart, SameItem, SameRow, SameMark, SamePast
    <3>3. \A u \in Jobs : Follows(u, i)
      BY <3>1, KeepsFollows DEF AllKeep
    <3>4. Graced(i)
      BY DEF AllGraced
    <3>5. QED
      BY <3>2, <3>3, <3>4, GraceSame DEF ItemTypes1, Apart, SameItem, SameRow, SameMark, SamePast
  <2>3. QED
    BY <2>2 DEF AllGraced
<1>2. ASSUME NEW t \in Jobs, Acts(t), NEW i \in Tracked PROVE Graced(i)'
  <2>1. Moves1(t, i)
    BY <1>2, ItemMoves DEF ItemTypes1, RowsInv
  <2>2. QED
    BY <2>1, GraceMoves DEF ItemTypes1, RowsInv, AllGraced
<1>3. QED
  BY <1>1, <1>2 DEF ItemsNext, Acts, AllGraced

\* Where an ageing is about to take a row, its whole grace has been counted.
LEMMA GraceSpent ==
  ASSUME ItemTypes1, AllGraced, NEW t \in Jobs, Ageing(t), job[t].at \in {"archive", "delete"}
  PROVE  LET i == job[t].item IN
           \/ row[i] = "finished" /\ halves[i] = 2 * Retention
           \/ row[i] = "gone"
           \/ i \in misjudged \/ i \notin job[t].current
<1> DEFINE i == job[t].item
<1>1. JobTypes /\ job[t] \in AgeWork /\ ShapeOf(job[t]) /\ job[t].op = "age"
  BY WorkKinds DEF ItemTypes1, ItemsTypeOK, JobTypes, Shape, Ageing
<1>2. i \in job[t].todo /\ job[t].list[i] <= 1
  BY <1>1 DEF ShapeOf
<1>3. i \in Tracked
  BY <1>1, <1>2 DEF AgeWork
<1>4. SUFFICES ASSUME i \notin misjudged, i \in job[t].current, row[i] # "gone"
               PROVE  row[i] = "finished" /\ halves[i] = 2 * Retention
  OBVIOUS
<1>5. Takes(t, i) /\ Graced(i)
  BY <1>3 DEF Takes, AllGraced
<1>6. row[i] = "finished"
  BY <1>4, <1>5 DEF Graced, OnRow
<1>7. Earned(i, 2 * (Retention - job[t].list[i]) + 2 + Spent(i))
  BY <1>4, <1>5, <1>6 DEF Graced, Grace
<1>8. /\ Retention \in Nat /\ Spent(i) \in Nat /\ halves[i] \in Nat /\ halves[i] <= 2 * Retention
      /\ job[t].list[i] \in Nat
  BY <1>3, GraceNumbers DEF ItemTypes1
<1>9. halves[i] = 2 * Retention
  BY <1>2, <1>7, <1>8 DEF Earned
<1>10. QED
  BY <1>6, <1>9

\* An item keeps its grace (age_finished_items_by): an ageing takes a row only
\* where it is finished and as many turns have listed it as the owner set, two
\* messages within a turn being one, whatever other messages age it at once; the
\* exceptions are those the model counts, an item written after the ageing had
\* read its marker and one whose marker is not of the time it was finished.
THEOREM GraceKeptHolds == ItemsSpec => GraceKept
<1> DEFINE Inv == ItemTypes1 /\ RowsInv /\ AllGraced
           Kept == \A t \in Jobs :
             Ageing(t) /\ job[t].at \in {"archive", "delete"} /\ job'[t] = At(t, "unmark") =>
               LET i == job[t].item IN
                 \/ row[i] = "finished" /\ halves[i] = 2 * Retention
                 \/ row[i] = "gone"
                 \/ i \in misjudged \/ i \notin job[t].current
<1>1. ItemsInit => Inv
  <2>1. ASSUME ItemsInit PROVE AllGraced
    <3>1. \A u \in Jobs : ~Ageing(u)
      BY <2>1 DEF ItemsInit, Ageing, Idle
    <3>2. \A i \in Tracked : row[i] = "unused"
      BY <2>1 DEF ItemsInit
    <3>3. QED
      BY <3>1, <3>2 DEF AllGraced, Graced, OnRow, Marked, Grace, IsRipe, Takes
  <2>2. QED
    BY <2>1, ItemTypesInit, RowsInit
<1>2. Inv /\ [ItemsNext]_itemVars => Inv'
  BY ItemTypesStep, ItemRowsStep, GraceStep
<1>3. Inv => Kept
  BY GraceSpent, Zenon
<1>4. Inv /\ [ItemsNext]_itemVars => [Kept]_itemVars
  BY <1>3
<1>5. QED
  BY <1>1, <1>2, <1>4, PTL DEF ItemsSpec, GraceKept

-----------------------------------------------------------------------------
\* PullRequests.


\* Appending keeps a sequence of rows one, and its rows where they are.
LEMMA AppendRow ==
  ASSUME NEW s \in Seq(Row), NEW e \in Row
  PROVE  /\ Append(s, e) \in Seq(Row) /\ Len(Append(s, e)) = Len(s) + 1
         /\ \A r \in 1 .. Len(s) : Append(s, e)[r] = s[r]
         /\ Append(s, e)[Len(s) + 1] = e
OBVIOUS

\* What an insertion does: one more row.
LEMMA InsertEffect ==
  ASSUME RowTypes, NEW p \in Pulls, NEW state \in States, Insert(p, state)
  PROVE  /\ RowTypes' /\ Len(rows') = Len(rows) + 1
         /\ \A r \in 1 .. Len(rows) : rows'[r] = rows[r]
         /\ rows'[Len(rows) + 1].pull = p /\ rows'[Len(rows) + 1].state = state
<1> DEFINE new == [pull |-> p, state |-> state, dismissed |-> FALSE]
<1>1. new \in Row /\ new.pull = p /\ new.state = state
  BY DEF Row
<1>2. rows \in Seq(Row) /\ Len(rows) < MaxRows /\ rows' = Append(rows, new)
  BY Zenon DEF RowTypes, Insert
<1> HIDE DEF new
<1>3. MaxRows \in Nat /\ Len(rows) \in Nat
  BY <1>2, BoundsAssumption
<1>4. QED
  BY <1>1, <1>2, <1>3, AppendRow DEF RowTypes

\* What new facts do: the row says them, and is as visible as it was.
LEMMA FactsEffect ==
  ASSUME RowTypes, NEW r \in 1 .. Len(rows), NEW state \in States, Facts(r, state)
  PROVE  /\ RowTypes' /\ Len(rows') = Len(rows)
         /\ rows'[r] = [rows[r] EXCEPT !.state = state]
         /\ \A s \in 1 .. Len(rows) : s # r => rows'[s] = rows[s]
         /\ \A s \in 1 .. Len(rows) :
              rows'[s].pull = rows[s].pull /\ rows'[s].dismissed = rows[s].dismissed
<1>1. rows \in Seq(Row) /\ rows[r] \in Row /\ Len(rows) <= MaxRows
  BY DEF RowTypes
<1>2. rows' = [rows EXCEPT ![r].state = state]
  BY DEF Facts
<1>3. [rows[r] EXCEPT !.state = state] \in Row
  BY <1>1 DEF Row
<1>4. rows' \in Seq(Row) /\ Len(rows') = Len(rows)
  BY <1>1, <1>2, <1>3
<1>5. rows'[r] = [rows[r] EXCEPT !.state = state]
      /\ \A s \in 1 .. Len(rows) : s # r => rows'[s] = rows[s]
  BY <1>1, <1>2
<1>6. rows'[r].pull = rows[r].pull /\ rows'[r].dismissed = rows[r].dismissed
  BY <1>1, <1>5 DEF Row
<1>7. QED
  BY <1>1, <1>4, <1>5, <1>6 DEF RowTypes

\* Another row in the place of one.
LEMMA ReplaceRow ==
  ASSUME NEW s \in Seq(Row), NEW r \in 1 .. Len(s), NEW e \in Row
  PROVE  /\ [s EXCEPT ![r] = e] \in Seq(Row) /\ Len([s EXCEPT ![r] = e]) = Len(s)
         /\ [s EXCEPT ![r] = e][r] = e
         /\ \A q \in 1 .. Len(s) : q # r => [s EXCEPT ![r] = e][q] = s[q]
OBVIOUS

\* What hiding a row does.
LEMMA HideEffect ==
  ASSUME RowTypes, NEW r \in 1 .. Len(rows), Hides(r)
  PROVE  /\ RowTypes' /\ Len(rows') = Len(rows)
         /\ rows'[r].dismissed /\ \A s \in 1 .. Len(rows) : s # r => rows'[s] = rows[s]
         /\ \A s \in 1 .. Len(rows) :
              rows'[s].pull = rows[s].pull /\ rows'[s].state = rows[s].state
<1> DEFINE hidden == [rows[r] EXCEPT !.dismissed = TRUE]
<1>1. rows \in Seq(Row) /\ rows[r] \in Row /\ Len(rows) <= MaxRows
  BY DEF RowTypes
<1>2. /\ hidden \in Row /\ hidden.pull = rows[r].pull /\ hidden.state = rows[r].state
      /\ hidden.dismissed
  BY <1>1 DEF Row
<1>3. rows' = [rows EXCEPT ![r] = hidden]
  BY Zenon DEF Hides
<1> HIDE DEF hidden
<1>4. /\ rows' \in Seq(Row) /\ Len(rows') = Len(rows) /\ rows'[r] = hidden
      /\ \A s \in 1 .. Len(rows) : s # r => rows'[s] = rows[s]
  BY <1>1, <1>2, <1>3, ReplaceRow
<1>5. \A s \in 1 .. Len(rows) :
        rows'[s].pull = rows[s].pull /\ rows'[s].state = rows[s].state
  BY <1>2, <1>4
<1>6. rows'[r].dismissed
  BY <1>2, <1>4
<1>7. QED
  BY <1>1, <1>4, <1>5, <1>6 DEF RowTypes

-----------------------------------------------------------------------------
\* The steps, as the proofs take them apart.
RowSteps == \/ \E t \in Tasks : Record(t) \/ Hide(t)
            \/ Answer
Others ==
  \/ \E p \in Pulls : Moves(p)
  \/ \E t \in Tasks : \/ \E p \in Pulls, i \in Items, ship \in BOOLEAN : Direct(t, p, i, ship)
                      \/ Refer(t) \/ State(t) \/ (\E p \in Pulls : Dismiss(t, p))
  \/ Refresh \/ ReadRows \/ NoGh \/ Finish \/ UNCHANGED vars
  \/ \E table \in {"rows", "items"} : Stall(table)

\* Every step but a crash.
Onward ==
  (Runs /\ Stored) \/ (\E table \in {"rows", "items"} : Stall(table)) \/ UNCHANGED vars

\* There are no other steps.
LEMMA OnwardOrCrash == ASSUME [Next]_vars PROVE Onward \/ Crash
BY DEF Next, Onward
LEMMA NextCases == ASSUME Onward PROVE RowSteps \/ Others
BY DEF Onward, Runs, RowSteps, Others

\* A refresh that asks has its rows and repositories.
LEMMA AskingType ==
  ASSUME RefreshTypes, refresh.at \in {"asking", "finishing"}
  PROVE  /\ refresh.left \in SUBSET Pulls /\ refresh.known \in [Pulls -> 0 .. Len(rows)]
         /\ refresh.at = "finishing" => refresh.items \in SUBSET Items
BY DEF RefreshTypes, NoRefresh, Known

\* A task has its pull request, and what it does with it.
LEMMA TaskType ==
  ASSUME TaskTypes, NEW t \in Tasks
  PROVE  /\ task[t].op \in {"insert", "refer", "state"} =>
              task[t].pull \in Pulls /\ task[t].item \in Items /\ task[t].ship \in BOOLEAN
         /\ task[t].op = "dismiss" =>
              /\ task[t].pull \in Pulls
              /\ task[t].left \in SUBSET (1 .. Len(rows)) /\ task[t].left # {}
<1> DEFINE A == [op : {"insert", "refer", "state"}, pull : Pulls, item : Items, ship : BOOLEAN]
           B == [op : {"dismiss"}, pull : Pulls, left : (SUBSET (1 .. Len(rows))) \ {{}}]
<1>1. task[t] = NoTask \/ task[t] \in A \/ task[t] \in B
  BY DEF TaskTypes
<1>2. CASE task[t] = NoTask
  BY <1>2 DEF NoTask
<1>3. CASE task[t] \in A
  BY <1>3
<1>4. CASE task[t] \in B
  BY <1>4
<1>5. QED
  BY <1>1, <1>2, <1>3, <1>4

\* Rows are appended and changed, and never taken away.
LEMMA RowsStep ==
  ASSUME TypeOK, Onward
  PROVE  RowTypes' /\ Len(rows') \in Nat /\ Len(rows) \in Nat /\ Len(rows) <= Len(rows')
<1>1. RowTypes /\ rows \in Seq(Row) /\ Len(rows) \in Nat
  BY DEF TypeOK, RowTypes
<1>2. CASE Others
  <2>1. rows' = rows
    BY <1>2 DEF Others, Moves, Direct, Refer, State, Dismiss, Refresh, ReadRows, NoGh, Finish, Stall, vars
  <2>2. QED
    BY <1>1, <2>1 DEF RowTypes
<1>3. ASSUME NEW t \in Tasks, Record(t)
      PROVE  RowTypes' /\ Len(rows') \in Nat /\ Len(rows) <= Len(rows')
  <2>1. CASE UNCHANGED rows
    BY <1>1, <2>1 DEF RowTypes
  <2>2. CASE Insert(task[t].pull, "unknown")
    <3>1. task[t].pull \in Pulls /\ "unknown" \in States
      BY <1>3, TaskType DEF Record, TypeOK, States
    <3>2. QED
      BY <1>1, <2>2, <3>1, InsertEffect
  <2>3. QED
    BY <1>3, <2>1, <2>2 DEF Record
<1>4. ASSUME NEW t \in Tasks, Hide(t)
      PROVE  RowTypes' /\ Len(rows') \in Nat /\ Len(rows) <= Len(rows')
  <2>1. CASE UNCHANGED rows
    BY <1>1, <2>1 DEF RowTypes
  <2>2. ASSUME NEW r \in task[t].left, Hides(r)
        PROVE  RowTypes' /\ Len(rows') \in Nat /\ Len(rows) <= Len(rows')
    <3>1. r \in 1 .. Len(rows)
      BY <1>4, TaskType DEF Hide, TypeOK
    <3>2. QED
      BY <1>1, <2>2, <3>1, HideEffect
  <2>3. QED
    BY <1>4, <2>1, <2>2 DEF Hide
<1>5. CASE Answer
  <2> SUFFICES ASSUME NEW p \in refresh.left, Discover(p) \/ Update(p) \/ Gone(p) \/ Pass(p)
               PROVE  RowTypes' /\ Len(rows') \in Nat /\ Len(rows) <= Len(rows')
    BY <1>5 DEF Answer
  <2>1. p \in Pulls /\ refresh.known \in [Pulls -> 0 .. Len(rows)] /\ github[p] \in States
    BY <1>5, AskingType DEF Answer, TypeOK, OtherTypes
  <2>2. CASE UNCHANGED rows
    BY <1>1, <2>2 DEF RowTypes
  <2>3. CASE Insert(p, "OPEN")
    BY <1>1, <2>1, <2>3, InsertEffect DEF States
  <2>4. ASSUME NEW state \in States, Facts(refresh.known[p], state), refresh.known[p] # NoRow
        PROVE  RowTypes' /\ Len(rows') \in Nat /\ Len(rows) <= Len(rows')
    <3>1. refresh.known[p] \in 1 .. Len(rows)
      BY <2>1, <2>4, <1>1 DEF NoRow
    <3>2. RowTypes' /\ Len(rows') = Len(rows)
      BY Zenon, <1>1, <2>4, <3>1, FactsEffect
    <3>3. QED
      BY <1>1, <3>2
  <2>5. QED
    BY <2>1, <2>2, <2>3, <2>4 DEF Discover, Update, Gone, Pass, Unknown, States
<1>6. QED
  BY <1>1, <1>2, <1>3, <1>4, <1>5, NextCases DEF RowSteps

-----------------------------------------------------------------------------
\* What a refresh and a task can be while there are n rows.
KnownOf(n) == [Pulls -> 0 .. n]
RefreshSet(n) ==
  {NoRefresh, [at |-> "leased"]}
    \cup [at : {"asking"}, left : SUBSET Pulls, known : KnownOf(n)]
    \cup [at : {"finishing"}, left : SUBSET Pulls, known : KnownOf(n), items : SUBSET Items]
TaskSet(n) ==
  {NoTask}
    \cup [op : {"insert", "refer", "state"}, pull : Pulls, item : Items, ship : BOOLEAN]
    \cup [op : {"dismiss"}, pull : Pulls, left : (SUBSET (1 .. n)) \ {{}}]

\* What is under way stays well typed when rows are added.
LEMMA MoreRows ==
  ASSUME NEW n \in Nat, NEW m \in Nat, n <= m
  PROVE  RefreshSet(n) \subseteq RefreshSet(m) /\ TaskSet(n) \subseteq TaskSet(m)
<1>1. 0 .. n \subseteq 0 .. m /\ 1 .. n \subseteq 1 .. m
  OBVIOUS
<1>2. KnownOf(n) \subseteq KnownOf(m)
  BY <1>1 DEF KnownOf
<1>3. RefreshSet(n) \subseteq RefreshSet(m)
  BY <1>2 DEF RefreshSet
<1>4. TaskSet(n) \subseteq TaskSet(m)
  BY <1>1 DEF TaskSet
<1>5. QED
  BY <1>3, <1>4

\* The row that stands for a pull request is one of its rows.
LEMMA CanonicalRow ==
  ASSUME RowTypes, NEW p \in Pulls
  PROVE  /\ Canonical(p) \in 0 .. Len(rows)
         /\ Canonical(p) # NoRow => Canonical(p) \in RowsOf(p)
<1>1. Best(p) \subseteq RowsOf(p) /\ RowsOf(p) \subseteq 1 .. Len(rows) /\ Len(rows) \in Nat
  BY DEF Best, RowsOf, RowTypes
<1>2. QED
  BY <1>1 DEF Canonical, NoRow

\* On to the next repository.
LEMMA AfterType ==
  ASSUME NEW n \in Nat, refresh.known \in KnownOf(n), NEW left \in SUBSET Pulls
  PROVE  After(left) \in RefreshSet(n)
<1>1. NoRefresh \in RefreshSet(n)
  BY DEF RefreshSet
<1>2. [at |-> "asking", left |-> left, known |-> refresh.known] \in RefreshSet(n)
  BY DEF RefreshSet
<1>3. QED
  BY <1>1, <1>2 DEF After

\* Every step leaves a refresh that names rows there were.
LEMMA RefreshStep ==
  ASSUME TypeOK, Onward
  PROVE  refresh' \in RefreshSet(Len(rows))
<1>1. refresh \in RefreshSet(Len(rows)) /\ Len(rows) \in Nat /\ RowTypes
  BY DEF TypeOK, RefreshTypes, RowTypes, RefreshSet, KnownOf, Known
<1>2. refresh.at \in {"asking", "finishing"} =>
        refresh.left \in SUBSET Pulls /\ refresh.known \in KnownOf(Len(rows))
  BY AskingType DEF TypeOK, KnownOf
<1>3. CASE UNCHANGED refresh
  BY <1>1, <1>3
<1>4. CASE Begin
  BY <1>1, <1>4 DEF Begin, RefreshSet
<1>5. CASE refresh' = NoRefresh
  BY <1>5 DEF RefreshSet
<1>6. CASE ReadRows
  <2> DEFINE known == [p \in Pulls |-> LET r == Canonical(p) IN
                IF r = NoRow THEN NoRow ELSE IF ~Visible(r) \/ Ended(r) THEN NoRow ELSE r]
             asked == {p \in Pulls : RowsOf(p) # {}} \cup Checkouts
  <2>1. \A p \in Pulls : known[p] \in 0 .. Len(rows)
    BY <1>1, CanonicalRow DEF NoRow
  <2>2. known \in KnownOf(Len(rows))
    BY <2>1 DEF KnownOf
  <2>3. asked \in SUBSET Pulls
    BY PullsAssumption
  <2>4. refresh' = NoRefresh \/ refresh' = [at |-> "asking", left |-> asked, known |-> known]
    BY <1>6 DEF ReadRows
  <2> HIDE DEF known, asked
  <2>5. QED
    BY <2>2, <2>3, <2>4 DEF RefreshSet
<1>7. CASE Answer
  <2>1. PICK p \in refresh.left : Discover(p) \/ Update(p) \/ Gone(p) \/ Pass(p)
    BY <1>7 DEF Answer
  <2>2. refresh.left \ {p} \in SUBSET Pulls /\ refresh.known \in KnownOf(Len(rows))
    BY <1>2, <1>7 DEF Answer
  <2>3. After(refresh.left \ {p}) \in RefreshSet(Len(rows))
    BY <1>1, <2>2, AfterType
  <2>4. Shipped(Number[p]) \in SUBSET Items
    BY DEF Shipped
  <2>5. [at |-> "finishing", left |-> refresh.left \ {p}, known |-> refresh.known,
         items |-> Shipped(Number[p])] \in RefreshSet(Len(rows))
    BY <2>2, <2>4 DEF RefreshSet
  <2>6. QED
    BY <2>1, <2>3, <2>5 DEF Discover, Update, Gone, Pass
<1>8. CASE Finish
  <2>1. /\ refresh \in [at : {"finishing"}, left : SUBSET Pulls, known : KnownOf(Len(rows)),
                        items : SUBSET Items]
    BY <1>1, <1>8 DEF Finish, RefreshSet, NoRefresh
  <2>2. After(refresh.left) \in RefreshSet(Len(rows))
    BY <1>1, <2>1, AfterType
  <2>3. ASSUME NEW i \in refresh.items, refresh' = [refresh EXCEPT !.items = @ \ {i}]
        PROVE  refresh' \in RefreshSet(Len(rows))
    BY <2>1, <2>3 DEF RefreshSet
  <2>4. QED
    BY <1>8, <2>2, <2>3 DEF Finish
<1>9. QED
  <2>1. CASE RowSteps
    BY <2>1, <1>3, <1>4, <1>7 DEF RowSteps, Record, Hide
  <2>2. CASE Others
    BY <2>2, <1>3, <1>4, <1>5, <1>6, <1>8 DEF Others, Moves, Direct, Refer, State, Dismiss,
      Refresh, NoGh, Stall, vars
  <2>3. QED
    BY <2>1, <2>2, NextCases

\* A task that goes on is one.
LEMMA GoesType ==
  ASSUME NEW n \in Nat, task \in [Tasks -> TaskSet(n)], NEW t \in Tasks, NEW what \in TaskSet(n),
         Goes(t, what)
  PROVE  task' \in [Tasks -> TaskSet(n)]
BY DEF Goes

\* Every step leaves tasks that name rows there were.
LEMMA TaskStep ==
  ASSUME TypeOK, Onward
  PROVE  task' \in [Tasks -> TaskSet(Len(rows))]
<1>1. task \in [Tasks -> TaskSet(Len(rows))] /\ Len(rows) \in Nat /\ RowTypes /\ TaskTypes
  BY DEF TypeOK, TaskTypes, RowTypes, TaskSet
<1>2. NoTask \in TaskSet(Len(rows))
  BY DEF TaskSet
<1>3. ASSUME NEW t \in Tasks, Goes(t, NoTask) PROVE task' \in [Tasks -> TaskSet(Len(rows))]
  BY <1>1, <1>2, <1>3, GoesType
<1>4. CASE UNCHANGED task
  BY <1>1, <1>4
<1>6. ASSUME NEW t \in Tasks, task[t].op \in {"insert", "refer", "state"},
             NEW op \in {"insert", "refer", "state"}, Goes(t, [task[t] EXCEPT !.op = op])
      PROVE  task' \in [Tasks -> TaskSet(Len(rows))]
  <2>1. task[t] \in [op : {"insert", "refer", "state"}, pull : Pulls, item : Items, ship : BOOLEAN]
    <3>1. task[t] \in TaskSet(Len(rows))
      BY <1>1
    <3>2. QED
      BY <1>6, <3>1 DEF TaskSet, NoTask
  <2>2. [task[t] EXCEPT !.op = op] \in TaskSet(Len(rows))
    BY <2>1 DEF TaskSet
  <2>3. QED
    BY <1>1, <1>6, <2>2, GoesType
<1>7. ASSUME NEW t \in Tasks, NEW p \in Pulls, NEW i \in Items, NEW ship \in BOOLEAN,
             NEW op \in {"insert", "refer"},
             Goes(t, [op |-> op, pull |-> p, item |-> i, ship |-> ship])
      PROVE  task' \in [Tasks -> TaskSet(Len(rows))]
  <2>1. [op |-> op, pull |-> p, item |-> i, ship |-> ship] \in TaskSet(Len(rows))
    BY DEF TaskSet
  <2>2. QED
    BY <1>1, <1>7, <2>1, GoesType
<1>8. ASSUME NEW t \in Tasks, NEW p \in Pulls, Dismiss(t, p)
      PROVE  task' \in [Tasks -> TaskSet(Len(rows))]
  <2>1. RowsOf(p) # {} /\ RowsOf(p) \subseteq 1 .. Len(rows)
    BY <1>1, <1>8 DEF Dismiss, RowsOf, RowTypes
  <2>2. [op |-> "dismiss", pull |-> p, left |-> RowsOf(p)] \in TaskSet(Len(rows))
    BY <2>1 DEF TaskSet
  <2>3. QED
    BY <1>1, <1>8, <2>2, GoesType DEF Dismiss
<1>9. ASSUME NEW t \in Tasks, Hide(t) PROVE task' \in [Tasks -> TaskSet(Len(rows))]
  <2>1. task[t] \in [op : {"dismiss"}, pull : Pulls, left : (SUBSET (1 .. Len(rows))) \ {{}}]
    <3>1. task[t] \in TaskSet(Len(rows))
      BY <1>1
    <3>2. QED
      BY <1>9, <3>1 DEF TaskSet, NoTask, Hide
  <2>2. ASSUME NEW r \in task[t].left, task[t].left # {r},
               Goes(t, [task[t] EXCEPT !.left = @ \ {r}])
        PROVE  task' \in [Tasks -> TaskSet(Len(rows))]
    <3>1. task[t].left \ {r} \in (SUBSET (1 .. Len(rows))) \ {{}}
      BY <2>1, <2>2
    <3>2. [task[t] EXCEPT !.left = @ \ {r}] \in TaskSet(Len(rows))
      BY <2>1, <3>1 DEF TaskSet
    <3>3. QED
      BY <1>1, <2>2, <3>2, GoesType
  <2>3. QED
    BY <1>3, <1>9, <2>2 DEF Hide
<1>10. QED
  <2>1. CASE RowSteps
    <3>1. ASSUME NEW t \in Tasks, Record(t) PROVE task' \in [Tasks -> TaskSet(Len(rows))]
      BY <1>3, <1>6, <3>1 DEF Record
    <3>2. QED
      BY <2>1, <1>4, <1>9, <3>1 DEF RowSteps, Answer, Discover, Update, Gone, Pass
  <2>2. CASE Others
    <3>1. ASSUME NEW t \in Tasks, NEW p \in Pulls, NEW i \in Items, NEW ship \in BOOLEAN,
                 Direct(t, p, i, ship)
          PROVE  task' \in [Tasks -> TaskSet(Len(rows))]
      BY <1>7, <3>1 DEF Direct
    <3>2. ASSUME NEW t \in Tasks, Refer(t) PROVE task' \in [Tasks -> TaskSet(Len(rows))]
      BY <1>3, <1>6, <3>2 DEF Refer
    <3>3. ASSUME NEW t \in Tasks, State(t) PROVE task' \in [Tasks -> TaskSet(Len(rows))]
      BY <1>3, <3>3 DEF State
    <3>4. QED
      BY <2>2, <1>4, <1>8, <3>1, <3>2, <3>3 DEF Others, Moves,
        Refresh, ReadRows, NoGh, Finish, Stall, vars
  <2>3. QED
    BY <2>1, <2>2, NextCases

\* Items change their status and reference and nothing else.
LEMMA ItemStep ==
  ASSUME TypeOK, Onward
  PROVE  ItemTypes'
<1>1. ItemTypes /\ RefreshTypes /\ TaskTypes
  BY DEF TypeOK
<1>2. CASE UNCHANGED items
  BY <1>1, <1>2 DEF ItemTypes, items
<1>3. ASSUME NEW i \in Items, NEW to, Becomes(i, to),
             to.status \in {"active", "shipped", "finished"},
             to \in Item
      PROVE  ItemTypes'
  BY <1>1, <1>3 DEF ItemTypes, Item, Becomes
<1>4. ASSUME NEW t \in Tasks, Refer(t) \/ State(t) PROVE ItemTypes'
  <2>1. task[t].pull \in Pulls /\ task[t].item \in Items
    BY <1>1, <1>4, TaskType DEF Refer, State
  <2> DEFINE i == task[t].item
  <2>2. item[i] \in Item
    BY <1>1, <2>1 DEF ItemTypes
  <2>3. CASE Becomes(i, [item[i] EXCEPT !.reference = Number[task[t].pull]])
    BY <1>3, <2>1, <2>2, <2>3 DEF Item
  <2>4. CASE Becomes(i, [item[i] EXCEPT !.status = "shipped"])
    BY <1>3, <2>1, <2>2, <2>4 DEF Item
  <2>5. QED
    BY <1>2, <1>4, <2>3, <2>4 DEF Refer, State
<1>5. CASE Finish
  <2>1. refresh.items \in SUBSET Items
    BY <1>1, <1>5, AskingType DEF Finish
  <2>2. QED
    BY <1>1, <1>5, <2>1 DEF ItemTypes, Item, Finish, items
<1>7. QED
  <2>1. CASE RowSteps
    BY <2>1, <1>2 DEF RowSteps, Record, Hide, Answer, Discover, Update, Gone, Pass
  <2>2. CASE Others
    BY <2>2, <1>2, <1>4, <1>5 DEF Others, Moves, Direct, Dismiss, Refresh, ReadRows,
      NoGh, Stall, vars
  <2>3. QED
    BY <2>1, <2>2, NextCases

\* What GitHub says, the bounds, and what is remembered of them.
LEMMA OtherStep ==
  ASSUME TypeOK, Onward
  PROVE  OtherTypes'
<1>1. OtherTypes /\ TaskTypes /\ RefreshTypes /\ MaxMoves \in Nat /\ MaxFailures \in Nat
  BY BoundsAssumption DEF TypeOK
<1>2. failures' \in 0 .. MaxFailures \/ ~(Fails \/ Fine)
  BY <1>1 DEF OtherTypes, Fails, Fine
<1>3. CASE Others
  <2>1. ASSUME NEW p \in Pulls, Moves(p) PROVE OtherTypes'
    BY <1>1, <2>1 DEF OtherTypes, Moves, States, items, answers, doubles
  <2>2. ASSUME UNCHANGED <<github, said, moves>>, UNCHANGED <<unwritten, doubles, waved>>,
               UNCHANGED failures \/ Fails \/ Fine
        PROVE  OtherTypes'
    BY <1>1, <1>2, <2>2 DEF OtherTypes, doubles, Fine
  <2>3. QED
    BY <1>3, <2>1, <2>2 DEF Others, Direct, Refer, State, Dismiss, Refresh, ReadRows, NoGh,
      Finish, Stall, vars, answers, doubles
<1>4. ASSUME NEW t \in Tasks, Record(t) PROVE OtherTypes'
  <2>1. task[t].pull \in Pulls
    BY <1>1, <1>4, TaskType DEF Record
  <2>2. QED
    BY <1>1, <1>2, <1>4, <2>1 DEF OtherTypes, Record, answers
<1>5. ASSUME NEW t \in Tasks, Hide(t) PROVE OtherTypes'
  <2>1. task[t].pull \in Pulls
    BY <1>1, <1>5, TaskType DEF Hide
  <2>2. QED
    BY <1>1, <1>2, <1>5, <2>1 DEF OtherTypes, Hide, answers, doubles
<1>6. CASE Answer
  <2> SUFFICES ASSUME NEW p \in refresh.left, Discover(p) \/ Update(p) \/ Gone(p) \/ Pass(p)
               PROVE  OtherTypes'
    BY <1>6 DEF Answer
  <2>1. p \in Pulls /\ github[p] \in States
    BY <1>1, <1>6, AskingType DEF Answer, OtherTypes
  <2>2. CASE Discover(p)
    BY <1>1, <1>2, <2>1, <2>2 DEF OtherTypes, Discover, Again, With, doubles, States
  <2>3. CASE Update(p)
    BY <1>1, <1>2, <2>1, <2>3 DEF OtherTypes, Update, doubles
  <2>4. CASE Gone(p)
    BY <1>1, <1>2, <2>1, <2>4 DEF OtherTypes, Gone, doubles, States
  <2>5. CASE Pass(p)
    BY <1>1, <1>2, <2>5 DEF OtherTypes, Pass, doubles, answers
  <2>6. QED
    BY <2>2, <2>3, <2>4, <2>5
<1>7. QED
  BY <1>3, <1>4, <1>5, <1>6, NextCases DEF RowSteps

\* The disk has a table as it was, or as it is.
LEMMA StoredFollows ==
  ASSUME TypeOK, Onward
  PROVE  /\ disk'.rows \in {disk.rows, rows'} /\ disk'.item \in {disk.item, item'}
         /\ disk' = [rows |-> disk'.rows, item |-> disk'.item]
         /\ stalled' \subseteq {"rows", "items"}
<1>1. /\ disk \in [rows : Seq(Row), item : [Items -> Item]]
      /\ stalled \subseteq {"rows", "items"}
  BY DEF TypeOK, StoredTypes
<1>2. disk = [rows |-> disk.rows, item |-> disk.item]
  BY <1>1
<1>3. CASE Stored
  BY <1>1, <1>3 DEF Stored
<1>4. CASE UNCHANGED <<disk, stalled>>
  BY <1>1, <1>2, <1>4
<1>5. CASE \E table \in {"rows", "items"} : Stall(table)
  BY <1>1, <1>2, <1>5 DEF Stall
<1>6. QED
  BY <1>3, <1>4, <1>5 DEF Onward, vars

\* So what is on disk has the types of what there is.
LEMMA StoredStep ==
  ASSUME TypeOK, Onward, RowTypes', ItemTypes'
  PROVE  StoredTypes'
<1>1. disk.rows \in Seq(Row) /\ Len(disk.rows) <= MaxRows /\ disk.item \in [Items -> Item]
  BY DEF TypeOK, StoredTypes
<1>2. rows' \in Seq(Row) /\ Len(rows') <= MaxRows /\ item' \in [Items -> Item]
  BY DEF RowTypes, ItemTypes, Item
<1>3. disk'.rows \in Seq(Row) /\ Len(disk'.rows) <= MaxRows /\ disk'.item \in [Items -> Item]
  BY <1>1, <1>2, StoredFollows
<1>4. disk' = [rows |-> disk'.rows, item |-> disk'.item] /\ stalled' \subseteq {"rows", "items"}
  BY StoredFollows
<1>5. disk' \in [rows : Seq(Row), item : [Items -> Item]]
  BY <1>3, <1>4
<1>6. QED
  BY <1>3, <1>4, <1>5 DEF StoredTypes, Row, Item

\* A crash leaves what is on disk, and nothing under way.
LEMMA CrashTypes ==
  ASSUME TypeOK, Crash
  PROVE  TypeOK'
<1>1. disk.rows \in Seq(Row) /\ Len(disk.rows) <= MaxRows /\ disk.item \in [Items -> Item]
  BY DEF TypeOK, StoredTypes
<1>2. RowTypes'
  BY <1>1 DEF Crash, RowTypes, Row
<1>3. RefreshTypes' /\ TaskTypes'
  BY DEF Crash, RefreshTypes, TaskTypes
<1>4. ItemTypes'
  BY <1>1, AskingType DEF TypeOK, ItemTypes, Item, LostItems, Crash
<1>5. OtherTypes'
  BY BoundsAssumption DEF TypeOK, OtherTypes, Crash, Fails, Fine, doubles, LostPulls
<1>6. StoredTypes'
  BY DEF TypeOK, StoredTypes, Crash
<1>7. QED
  BY <1>2, <1>3, <1>4, <1>5, <1>6 DEF TypeOK

\* Every step keeps the types.
LEMMA TypeStep ==
  ASSUME TypeOK, [Next]_vars
  PROVE  TypeOK'
<1>1. CASE Onward
  <2>1. RowTypes' /\ Len(rows') \in Nat /\ Len(rows) \in Nat /\ Len(rows) <= Len(rows')
    BY <1>1, RowsStep
  <2>2. refresh' \in RefreshSet(Len(rows')) /\ task' \in [Tasks -> TaskSet(Len(rows'))]
    BY <1>1, <2>1, MoreRows, RefreshStep, TaskStep
  <2>3. RefreshTypes'
    BY <2>2 DEF RefreshTypes, RefreshSet, KnownOf, Known
  <2>4. TaskTypes'
    BY <2>2 DEF TaskTypes, TaskSet
  <2>5. ItemTypes'
    BY <1>1, ItemStep
  <2>6. StoredTypes'
    BY <1>1, <2>1, <2>5, StoredStep
  <2>7. QED
    BY <1>1, <2>1, <2>3, <2>4, <2>5, <2>6, OtherStep DEF TypeOK
<1>2. CASE Crash
  BY <1>2, CrashTypes
<1>3. QED
  BY <1>1, <1>2, OnwardOrCrash

\* The variables have their types.
THEOREM TypeCorrect == Spec => []TypeOK
<1>1. Init => TypeOK
  <2> SUFFICES ASSUME Init PROVE TypeOK
    OBVIOUS
  <2>1. RowTypes
    BY BoundsAssumption DEF Init, RowTypes
  <2>2. RefreshTypes /\ TaskTypes
    BY DEF Init, RefreshTypes, TaskTypes
  <2>3. ItemTypes
    BY DEF Init, ItemTypes, Item
  <2>4. OtherTypes
    BY BoundsAssumption DEF Init, OtherTypes, States
  <2>5. StoredTypes
    <3>1. rows \in Seq(Row) /\ Len(rows) <= MaxRows /\ item \in [Items -> Item]
      BY <2>1, <2>3 DEF RowTypes, ItemTypes
    <3>2. disk = [rows |-> rows, item |-> item] /\ stalled = {}
      BY DEF Init
    <3>3. QED
      BY <3>1, <3>2 DEF StoredTypes
  <2>6. QED
    BY <2>1, <2>2, <2>3, <2>4, <2>5 DEF TypeOK
<1>2. TypeOK /\ [Next]_vars => TypeOK'
  BY TypeStep
<1>3. QED
  BY <1>1, <1>2, PTL DEF Spec

-----------------------------------------------------------------------------
\* A row stays the row of its pull request; and no merge is noticed.
PullsKept == \A r \in 1 .. Len(rows) : rows'[r].pull = rows[r].pull
NothingNoticed == \A n \in Nat : Noticed(n)' => Noticed(n)

\* Nothing is noticed where the merged rows are those there were.
LEMMA NoticedRows ==
  ASSUME RowTypes, RowTypes', PullsKept, Len(rows) <= Len(rows'),
         \A r \in 1 .. Len(rows') :
           rows'[r].state = "MERGED" => r \in 1 .. Len(rows) /\ rows[r].state = "MERGED"
  PROVE  NothingNoticed
BY DEF RowTypes, NothingNoticed, Noticed, PullsKept

\* An insertion notices no merge.
LEMMA InsertRows ==
  ASSUME RowTypes, NEW p \in Pulls, NEW state \in {"unknown", "OPEN"}, Insert(p, state)
  PROVE  PullsKept /\ NothingNoticed
<1>1. state \in States
  BY DEF States
<1>2. /\ RowTypes' /\ Len(rows') = Len(rows) + 1
      /\ \A r \in 1 .. Len(rows) : rows'[r] = rows[r]
      /\ rows'[Len(rows) + 1].state = state
  BY <1>1, InsertEffect
<1>3. Len(rows) \in Nat
  BY DEF RowTypes
<1>4. PullsKept
  BY <1>2 DEF PullsKept
<1>5. \A r \in 1 .. Len(rows') :
        rows'[r].state = "MERGED" => r \in 1 .. Len(rows) /\ rows[r].state = "MERGED"
  BY <1>2, <1>3
<1>6. QED
  BY <1>2, <1>3, <1>4, <1>5, NoticedRows

\* Facts notice a merge of their pull request only.
LEMMA FactsRows ==
  ASSUME RowTypes, NEW r \in 1 .. Len(rows), NEW state \in States, Facts(r, state)
  PROVE  /\ PullsKept
         /\ \A n \in Nat : Noticed(n)' => \/ Noticed(n)
                                        \/ (state = "MERGED" /\ n = Number[rows[r].pull])
<1>1. /\ RowTypes' /\ Len(rows') = Len(rows)
      /\ \A s \in 1 .. Len(rows) : s # r => rows'[s] = rows[s]
      /\ \A s \in 1 .. Len(rows) : rows'[s].pull = rows[s].pull
  BY Zenon, FactsEffect
<1>2. rows'[r].state = state
  <2>1. rows'[r] = [rows[r] EXCEPT !.state = state]
    BY Zenon, FactsEffect
  <2>2. rows[r] \in Row
    BY DEF RowTypes
  <2>3. QED
    BY <2>1, <2>2 DEF Row
<1>3. DOMAIN rows' = 1 .. Len(rows) /\ DOMAIN rows = 1 .. Len(rows)
  BY <1>1 DEF RowTypes
<1>4. QED
  BY <1>1, <1>2, <1>3 DEF PullsKept, Noticed

\* Hiding a row notices no merge.
LEMMA HideRows ==
  ASSUME RowTypes, NEW r \in 1 .. Len(rows), Hides(r)
  PROVE  PullsKept /\ NothingNoticed
<1>1. /\ RowTypes' /\ Len(rows') = Len(rows)
      /\ \A s \in 1 .. Len(rows) :
           rows'[s].pull = rows[s].pull /\ rows'[s].state = rows[s].state
  BY HideEffect
<1>2. PullsKept
  BY <1>1 DEF PullsKept
<1>3. QED
  BY <1>1, <1>2, NoticedRows DEF RowTypes

\* A directive and a dismissal notice no merge.
LEMMA TaskRows ==
  ASSUME TypeOK, NEW t \in Tasks, Record(t) \/ Hide(t)
  PROVE  PullsKept /\ NothingNoticed
<1>1. RowTypes /\ TaskTypes /\ Len(rows) \in Nat
  BY DEF TypeOK, RowTypes
<1>2. CASE Record(t)
  <2>1. task[t].pull \in Pulls
    BY <1>1, <1>2, TaskType DEF Record
  <2>2. Insert(task[t].pull, "unknown") \/ UNCHANGED rows
    BY <1>2 DEF Record
  <2>3. QED
    BY <1>1, <2>1, <2>2, InsertRows DEF PullsKept, NothingNoticed, Noticed
<1>3. CASE Hide(t)
  <2>1. task[t].left \subseteq 1 .. Len(rows)
    BY <1>1, <1>3, TaskType DEF Hide
  <2>2. (\E r \in task[t].left : Hides(r)) \/ UNCHANGED rows
    BY <1>3 DEF Hide
  <2>3. CASE UNCHANGED rows
    BY <2>3 DEF PullsKept, NothingNoticed, Noticed
  <2>4. CASE \E r \in task[t].left : Hides(r)
    BY <1>1, <2>1, <2>4, HideRows
  <2>5. QED
    BY <2>2, <2>3, <2>4
<1>4. QED
  BY <1>2, <1>3

\* What a step does to the rows: only an answer can notice a merge.
LEMMA RowsCases ==
  ASSUME TypeOK, Onward
  PROVE  /\ PullsKept
         /\ \/ NothingNoticed
            \/ \E p \in Pulls : /\ refresh.at = "asking" /\ Update(p)
                                /\ Facts(refresh.known[p], github[p])
<1> DEFINE Noticing == \E p \in Pulls : /\ refresh.at = "asking" /\ Update(p)
                                        /\ Facts(refresh.known[p], github[p])
<1>1. RowTypes /\ TaskTypes /\ RefreshTypes /\ Len(rows) \in Nat
  BY DEF TypeOK, RowTypes
<1>2. CASE UNCHANGED rows
  BY <1>2 DEF PullsKept, NothingNoticed, Noticed
<1>3. CASE Others
  BY <1>2, <1>3 DEF Others, Moves, Direct, Refer, State, Dismiss, Refresh, ReadRows, NoGh,
    Finish, Stall, vars
<1>4. ASSUME NEW t \in Tasks, Record(t) \/ Hide(t) PROVE PullsKept /\ NothingNoticed
  BY <1>4, TaskRows
<1>5. CASE Answer
  <2> SUFFICES ASSUME NEW p \in refresh.left, Discover(p) \/ Update(p) \/ Gone(p) \/ Pass(p)
               PROVE  PullsKept /\ (NothingNoticed \/ Noticing)
    BY <1>5 DEF Answer
  <2>1. /\ p \in Pulls /\ refresh.known[p] \in 0 .. Len(rows) /\ github[p] \in States
        /\ refresh.at = "asking"
    BY <1>1, <1>5, AskingType DEF Answer, TypeOK, OtherTypes
  <2>2. CASE UNCHANGED rows
    BY <2>2 DEF PullsKept, NothingNoticed, Noticed
  <2>3. CASE Insert(p, "OPEN")
    BY <1>1, <2>1, <2>3, InsertRows
  <2>4. CASE Update(p) /\ Facts(refresh.known[p], github[p])
    <3>1. refresh.known[p] \in 1 .. Len(rows)
      BY <1>1, <2>1, <2>4 DEF Update, NoRow
    <3>2. PullsKept
      BY Zenon, <1>1, <2>1, <2>4, <3>1, FactsRows
    <3>3. QED
      BY <2>1, <2>4, <3>2
  <2>5. CASE Gone(p) /\ Unknown(refresh.known[p])
    <3>1. refresh.known[p] \in 1 .. Len(rows) /\ "unknown" \in States
      BY <1>1, <2>1, <2>5 DEF Gone, NoRow, States
    <3>2. Facts(refresh.known[p], "unknown")
      BY <2>5 DEF Unknown
    <3>3. /\ PullsKept
          /\ \A n \in Nat : Noticed(n)' =>
               \/ Noticed(n)
               \/ ("unknown" = "MERGED" /\ n = Number[rows[refresh.known[p]].pull])
      BY Zenon, <1>1, <3>1, <3>2, FactsRows
    <3>4. QED
      BY <3>3 DEF NothingNoticed
  <2>6. QED
    BY <2>2, <2>3, <2>4, <2>5 DEF Discover, Update, Gone, Pass
<1>6. QED
  BY <1>3, <1>4, <1>5, NextCases DEF RowSteps

-----------------------------------------------------------------------------
\* A refresh that asks holds rows of the pull requests it asks about.
KnownRows ==
  refresh.at \in {"asking", "finishing"} =>
    \A p \in Pulls : refresh.known[p] # NoRow => rows[refresh.known[p]].pull = p

\* What a step makes of the rows a refresh holds.
LEMMA KnownCases ==
  ASSUME TypeOK, Onward, refresh'.at \in {"asking", "finishing"}
  PROVE  \/ /\ refresh.at \in {"asking", "finishing"} /\ refresh'.known = refresh.known
            /\ refresh'.left \subseteq refresh.left
         \/ ReadRows
<1>1. CASE UNCHANGED refresh
  BY <1>1
<1>2. CASE Begin
  BY <1>2 DEF Begin
<1>3. CASE refresh' = NoRefresh
  BY <1>3 DEF NoRefresh
<1>4. ASSUME NEW left, refresh' = After(left)
      PROVE  refresh'.known = refresh.known /\ refresh'.left = left
  BY <1>4 DEF After, NoRefresh
<1>5. CASE Answer
  BY <1>4, <1>5 DEF Answer, Discover, Update, Gone, Pass
<1>6. CASE Finish
  <2>1. refresh.at = "finishing"
    BY <1>6 DEF Finish
  <2>2. refresh \in [at : {"finishing"}, left : SUBSET Pulls, known : Known, items : SUBSET Items]
    BY <2>1 DEF TypeOK, RefreshTypes, NoRefresh
  <2>3. ASSUME NEW i, refresh' = [refresh EXCEPT !.items = @ \ {i}]
        PROVE  refresh'.known = refresh.known /\ refresh'.left = refresh.left
    BY <2>2, <2>3
  <2>4. QED
    BY <1>4, <1>6, <2>1, <2>3 DEF Finish
<1>7. QED
  <2>1. CASE RowSteps
    BY <2>1, <1>1, <1>2, <1>5 DEF RowSteps, Record, Hide
  <2>2. CASE Others
    BY <2>2, <1>1, <1>2, <1>3, <1>6 DEF Others, Moves, Direct, Refer, State, Dismiss,
      Refresh, NoGh, Stall, vars
  <2>3. QED
    BY <2>1, <2>2, NextCases

\* Every step keeps them.
LEMMA KnownStep ==
  ASSUME TypeOK, KnownRows, Onward
  PROVE  KnownRows'
<1> SUFFICES ASSUME refresh'.at \in {"asking", "finishing"},
                    NEW p \in Pulls, refresh'.known[p] # NoRow
             PROVE  rows'[refresh'.known[p]].pull = p
  BY DEF KnownRows
<1>1. PullsKept /\ RowTypes /\ RefreshTypes /\ Len(rows) \in Nat
  BY RowsCases DEF TypeOK, RowTypes
<1>2. CASE refresh.at \in {"asking", "finishing"} /\ refresh'.known = refresh.known
  <2>1. refresh.known[p] \in 1 .. Len(rows) /\ rows[refresh.known[p]].pull = p
    BY <1>1, <1>2, AskingType DEF KnownRows, NoRow
  <2>2. QED
    BY <1>1, <1>2, <2>1 DEF PullsKept
<1>3. CASE ReadRows
  <2>1. refresh' # NoRefresh
    BY DEF NoRefresh
  <2>2. refresh'.known[p] = Canonical(p)
    BY <1>3, <2>1 DEF ReadRows, NoRow
  <2>3. Canonical(p) \in RowsOf(p)
    BY <1>1, <2>2, CanonicalRow
  <2>4. QED
    BY <1>1, <2>2, <2>3 DEF RowsOf, PullsKept, RowTypes
<1>4. QED
  BY <1>2, <1>3, KnownCases

\* A crash ends the refresh.
LEMMA KnownCrash ==
  ASSUME Crash
  PROVE  refresh'.at \notin {"asking", "finishing"}
BY DEF Crash, NoRefresh

\* The state of a row changes by an answer about the row the refresh holds.
LEMMA StateWritten ==
  ASSUME TypeOK, Onward, NEW r \in 1 .. Len(rows)
  PROVE  \/ rows'[r].state = rows[r].state
         \/ \E p \in refresh.left :
              /\ refresh.at = "asking" /\ refresh.known[p] = r /\ r # NoRow
              /\ refresh'.at \in {"asking", "finishing"} => p \notin refresh'.left
<1>1. RowTypes /\ TaskTypes /\ RefreshTypes /\ Len(rows) \in Nat
  BY DEF TypeOK, RowTypes
<1>2. CASE UNCHANGED rows
  BY <1>2
<1>3. CASE Others
  BY <1>2, <1>3 DEF Others, Moves, Direct, Refer, State, Dismiss, Refresh, ReadRows, NoGh,
    Finish, Stall, vars
<1>4. ASSUME NEW p \in Pulls, NEW state \in States, Insert(p, state)
      PROVE  rows'[r].state = rows[r].state
  BY <1>1, <1>4, InsertEffect
<1>5. ASSUME NEW t \in Tasks, Record(t) PROVE rows'[r].state = rows[r].state
  BY <1>1, <1>4, <1>5, TaskType DEF Record, States
<1>6. ASSUME NEW t \in Tasks, Hide(t) PROVE rows'[r].state = rows[r].state
  <2>1. task[t].left \subseteq 1 .. Len(rows)
    BY <1>1, <1>6, TaskType DEF Hide
  <2>2. (\E q \in task[t].left : Hides(q)) \/ UNCHANGED rows
    BY <1>6 DEF Hide
  <2>3. ASSUME NEW q \in 1 .. Len(rows), Hides(q) PROVE rows'[r].state = rows[r].state
    BY <1>1, <2>3, HideEffect
  <2>4. QED
    BY <2>1, <2>2, <2>3
<1>7. CASE Answer
  <2>1. PICK p \in refresh.left : Discover(p) \/ Update(p) \/ Gone(p) \/ Pass(p)
    BY <1>7 DEF Answer
  <2>2. /\ p \in Pulls /\ refresh.known[p] \in 0 .. Len(rows) /\ github[p] \in States
        /\ refresh.at = "asking" /\ r # NoRow
    BY <1>1, <1>7, AskingType DEF Answer, TypeOK, OtherTypes, NoRow
  <2>3. CASE Insert(p, "OPEN")
    BY <1>4, <2>2, <2>3 DEF States
  <2>4. ASSUME NEW state \in States, Facts(refresh.known[p], state), refresh.known[p] # NoRow,
               refresh.known[p] # r
        PROVE  rows'[r].state = rows[r].state
    <3>1. refresh.known[p] \in 1 .. Len(rows)
      BY <1>1, <2>2, <2>4 DEF NoRow
    <3>2. rows'[r] = rows[r]
      BY Zenon, <1>1, <2>4, <3>1, FactsEffect
    <3>3. QED
      BY <3>2
  <2>5. refresh'.at \in {"asking", "finishing"} => p \notin refresh'.left
    BY <2>1 DEF Discover, Update, Gone, Pass, After, NoRefresh
  <2>6. \/ UNCHANGED rows \/ Insert(p, "OPEN")
        \/ refresh.known[p] # NoRow /\ \E state \in States : Facts(refresh.known[p], state)
    BY <2>1, <2>2 DEF Discover, Update, Gone, Pass, Unknown, States
  <2>7. QED
    BY <1>2, <2>2, <2>3, <2>4, <2>5, <2>6
<1>8. QED
  BY <1>3, <1>5, <1>6, <1>7, NextCases DEF RowSteps

\* A refresh has yet to ask only about rows of which no merge is stored.
KnownOpen ==
  refresh.at \in {"asking", "finishing"} =>
    \A p \in refresh.left : refresh.known[p] # NoRow => rows[refresh.known[p]].state # "MERGED"

\* Every step keeps it so.
LEMMA KnownOpenStep ==
  ASSUME TypeOK, KnownRows, KnownOpen, Onward
  PROVE  KnownOpen'
<1> SUFFICES ASSUME refresh'.at \in {"asking", "finishing"}, NEW p \in refresh'.left,
                    refresh'.known[p] # NoRow
             PROVE  rows'[refresh'.known[p]].state # "MERGED"
  BY DEF KnownOpen
<1>1. RefreshTypes /\ RowTypes /\ Len(rows) \in Nat
  BY DEF TypeOK, RowTypes
<1>2. CASE /\ refresh.at \in {"asking", "finishing"} /\ refresh'.known = refresh.known
           /\ refresh'.left \subseteq refresh.left
  <2> DEFINE r == refresh.known[p]
  <2>1. p \in refresh.left /\ p \in Pulls /\ r \in 1 .. Len(rows) /\ rows[r].pull = p
    BY <1>1, <1>2, AskingType DEF KnownRows, NoRow
  <2>2. rows[r].state # "MERGED"
    BY <1>2, <2>1 DEF KnownOpen
  <2>3. ASSUME NEW q \in refresh.left, refresh.known[q] = r, q \notin refresh'.left PROVE FALSE
    BY <1>1, <1>2, <2>1, <2>3, AskingType DEF KnownRows
  <2>4. rows'[r].state = rows[r].state
    BY <2>1, <2>3, StateWritten
  <2>5. QED
    BY <1>2, <2>2, <2>4
<1>3. CASE ReadRows
  <2>1. refresh' # NoRefresh /\ UNCHANGED rows
    BY <1>3 DEF NoRefresh, ReadRows
  <2>2. p \in Pulls
    BY <1>3, <2>1, PullsAssumption DEF ReadRows
  <2>3. refresh'.known[p] = Canonical(p) /\ ~Ended(Canonical(p))
    BY <1>3, <2>1, <2>2 DEF ReadRows, NoRow
  <2>4. QED
    BY <2>1, <2>3 DEF Ended
<1>4. QED
  BY <1>2, <1>3, KnownCases

\* A merge that is stored stays stored, until the application dies.
LEMMA NoticedStays ==
  ASSUME TypeOK, KnownOpen, Onward, NEW n, Noticed(n)
  PROVE  Noticed(n)'
<1>1. PullsKept /\ RowTypes /\ RowTypes' /\ Len(rows) <= Len(rows')
      /\ Len(rows) \in Nat /\ Len(rows') \in Nat
  BY RowsCases, RowsStep DEF TypeOK
<1>2. PICK r \in 1 .. Len(rows) : Number[rows[r].pull] = n /\ rows[r].state = "MERGED"
  BY <1>1 DEF Noticed, RowTypes
<1>3. rows'[r].state = "MERGED" /\ rows'[r].pull = rows[r].pull
  BY <1>1, <1>2, StateWritten DEF KnownOpen, PullsKept
<1>4. r \in DOMAIN rows'
  BY <1>1 DEF RowTypes
<1>5. QED
  BY <1>2, <1>3, <1>4 DEF Noticed

\* A merge that is on disk is noticed.
DiskNoticed ==
  \A r \in DOMAIN disk.rows :
    disk.rows[r].state = "MERGED" => Noticed(Number[disk.rows[r].pull])

\* Every step keeps it so.
LEMMA DiskNoticedStep ==
  ASSUME TypeOK, KnownOpen, DiskNoticed, [Next]_vars
  PROVE  DiskNoticed'
<1>1. CASE Onward
  <2>1. CASE disk'.rows = disk.rows
    BY <1>1, <2>1, NoticedStays DEF DiskNoticed
  <2>2. CASE disk'.rows = rows'
    BY <2>2 DEF DiskNoticed, Noticed
  <2>3. QED
    BY <1>1, <2>1, <2>2, StoredFollows
<1>2. CASE Crash
  BY <1>2 DEF Crash, DiskNoticed, Noticed
<1>3. QED
  BY <1>1, <1>2, OnwardOrCrash

\* A crash leaves nothing shipped with a stored merge but what it missed.
LEMMA MergeCrash ==
  ASSUME TypeOK, DiskNoticed, MergeFinishes, Crash
  PROVE  MergeFinishes'
<1> SUFFICES ASSUME NEW i \in Items, i \notin late', i \notin missed',
                    item'[i].status = "shipped", Noticed(item[i].reference)'
             PROVE  FALSE
  BY DEF MergeFinishes
<1>1. item'[i] = item[i] /\ i \notin late \cup missed
  BY DEF Crash, LostItems
<1>2. Noticed(item[i].reference)
  BY <1>1 DEF Crash, DiskNoticed, Noticed
<1>3. refresh.at = "finishing" /\ i \in refresh.items
  BY <1>1, <1>2 DEF MergeFinishes
<1>4. QED
  BY <1>3 DEF Crash

\* The invariant: the types, the rows a refresh holds, and the promise itself.
MergeInv == TypeOK /\ KnownRows /\ MergeFinishes

\* An item of which a merge is noticed is finished, or is being finished.
Settled(i) ==
  item[i].status = "shipped" /\ Noticed(item[i].reference)
    => refresh.at = "finishing" /\ i \in refresh.items

\* Every step keeps the promise.
LEMMA MergeStep ==
  ASSUME MergeInv, Onward
  PROVE  MergeFinishes'
<1> SUFFICES ASSUME NEW i \in Items, i \notin late', i \notin missed',
                    item'[i].status = "shipped", Noticed(item[i].reference)'
             PROVE  refresh'.at = "finishing" /\ i \in refresh'.items
  BY DEF MergeFinishes
<1>1. TypeOK /\ RowTypes /\ TaskTypes /\ RefreshTypes /\ ItemTypes
  BY DEF MergeInv, TypeOK
<1>2. \A n \in {item[i].reference, item'[i].reference} : n \in Nat
  BY <1>1, ItemStep, PullsAssumption DEF ItemTypes, Item
<1>3. i \notin late \cup missed => Settled(i)
  BY DEF MergeInv, MergeFinishes, Settled
<1>4. CASE /\ UNCHANGED <<item, late, missed>> /\ NothingNoticed
           /\ refresh.at = "finishing" => UNCHANGED refresh
  BY <1>2, <1>3, <1>4 DEF NothingNoticed, Settled
<1>5. ASSUME NEW t \in Tasks, Refer(t) \/ State(t)
      PROVE  refresh'.at = "finishing" /\ i \in refresh'.items
  <2>1. UNCHANGED <<rows, refresh, missed>>
    BY <1>5 DEF Refer, State, Becomes, items
  <2>2. \A n : Noticed(n)' = Noticed(n)
    BY <2>1 DEF Noticed
  <2>3. CASE UNCHANGED <<item, late>>
    BY <1>3, <2>1, <2>2, <2>3 DEF Settled
  <2>4. ASSUME NEW j \in Items, NEW to, Becomes(j, to)
        PROVE  refresh'.at = "finishing" /\ i \in refresh'.items
    <3>1. item \in [Items -> {item[k] : k \in Items}]
      BY <1>1 DEF ItemTypes
    <3>2. CASE i = j
      <4>1. item'[i] = to
        BY <2>4, <3>1, <3>2 DEF Becomes
      <4>2. QED
        BY <2>2, <2>4, <3>2, <4>1 DEF Becomes
    <3>3. CASE i # j
      <4>1. item'[i] = item[i] /\ i \notin late
        BY <2>4, <3>1, <3>3 DEF Becomes
      <4>2. QED
        BY <1>3, <2>1, <2>2, <4>1 DEF Settled
    <3>4. QED
      BY <3>2, <3>3
  <2>5. task[t].item \in Items
    BY <1>1, <1>5, TaskType DEF Refer, State
  <2>6. QED
    BY <1>5, <2>3, <2>4, <2>5 DEF Refer, State, items
<1>6. CASE Finish
  <2>1. UNCHANGED <<rows, late>> /\ refresh.at = "finishing"
    BY <1>6 DEF Finish, items
  <2>2. refresh \in [at : {"finishing"}, left : SUBSET Pulls, known : Known, items : SUBSET Items]
    BY <1>1, <2>1 DEF RefreshTypes, NoRefresh
  <2>3. \A n : Noticed(n)' = Noticed(n)
    BY <2>1 DEF Noticed
  <2>4. ASSUME NEW j \in refresh.items, item' = [item EXCEPT ![j].status = "finished"],
               refresh' = [refresh EXCEPT !.items = @ \ {j}], UNCHANGED missed
        PROVE  refresh'.at = "finishing" /\ i \in refresh'.items
    <3>1. j \in Items /\ item[j] \in Item
      BY <1>1, <2>2 DEF ItemTypes
    <3>2. i # j
      BY <1>1, <2>4, <3>1 DEF ItemTypes
    <3>3. item'[i] = item[i]
      BY <1>1, <2>4, <3>1, <3>2 DEF ItemTypes
    <3>4. i \in refresh.items
      BY <1>3, <2>1, <2>3, <2>4, <3>3 DEF Settled
    <3>5. QED
      BY <2>2, <2>4, <3>2, <3>4
  <2>5. CASE UNCHANGED item /\ refresh.items \subseteq missed'
              /\ missed \subseteq missed'
    BY <1>3, <2>1, <2>3, <2>5 DEF Settled
  <2>6. QED
    BY <1>6, <2>4, <2>5 DEF Finish, items
<1>8. CASE Answer
  <2>1. refresh.at = "asking" /\ UNCHANGED <<item, late, missed>>
    BY <1>8 DEF Answer, Discover, Update, Gone, Pass, items
  <2>2. CASE NothingNoticed
    BY <1>4, <2>1, <2>2
  <2>3. CASE \E p \in Pulls : refresh.at = "asking" /\ Update(p) /\ Facts(refresh.known[p], github[p])
    <3>1. PICK p \in Pulls : Update(p) /\ Facts(refresh.known[p], github[p])
      BY <2>3
    <3>2. /\ refresh.known[p] \in 1 .. Len(rows) /\ rows[refresh.known[p]].pull = p
          /\ github[p] \in States
      BY <1>1, <2>1, <3>1, AskingType DEF Update, NoRow, MergeInv, KnownRows, TypeOK,
        OtherTypes, RowTypes
    <3>3. \A n \in Nat : Noticed(n)' =>
            \/ Noticed(n)
            \/ (github[p] = "MERGED" /\ n = Number[rows[refresh.known[p]].pull])
      BY Zenon, <1>1, <3>1, <3>2, FactsRows
    <3>4. github[p] = "MERGED" /\ item[i].reference = Number[p] /\ item[i].status = "shipped"
      BY <1>2, <1>3, <2>1, <3>2, <3>3 DEF Settled
    <3>5. i \in Shipped(Number[p])
      BY <3>4 DEF Shipped
    <3>6. CASE UNCHANGED rows
      BY <1>4, <2>1, <3>6 DEF NothingNoticed, Noticed
    <3>7. CASE ~UNCHANGED rows
      <4>1. refresh' = [at |-> "finishing", left |-> refresh.left \ {p}, known |-> refresh.known,
                        items |-> Shipped(Number[p])]
        BY <3>1, <3>4, <3>7 DEF Update, Delivers
      <4>2. QED
        BY <3>5, <4>1
    <3>8. QED
      BY <3>6, <3>7
  <2>4. QED
    BY <1>1, <2>2, <2>3, RowsCases
<1>9. QED
  <2>1. CASE RowSteps
    <3>1. ASSUME NEW t \in Tasks, Record(t) \/ Hide(t)
          PROVE  UNCHANGED <<item, late, missed>> /\ (refresh.at = "finishing" => UNCHANGED refresh)
      BY <3>1 DEF Record, Hide, Begin, items, NoRefresh
    <3>2. ASSUME NEW t \in Tasks, Record(t) \/ Hide(t) PROVE NothingNoticed
      BY <1>1, <3>2, TaskRows
    <3>3. QED
      BY <2>1, <1>4, <1>8, <3>1, <3>2 DEF RowSteps
  <2>2. CASE Others
    <3>1. ASSUME UNCHANGED <<rows, item, late, missed>>, refresh.at = "finishing" => UNCHANGED refresh
          PROVE  refresh'.at = "finishing" /\ i \in refresh'.items
      BY <1>4, <3>1 DEF NothingNoticed, Noticed
    <3>2. CASE NoGh
      BY <3>1, <3>2 DEF NoGh, items
    <3>3. ASSUME NEW t \in Tasks, NEW p \in Pulls, NEW j \in Items, NEW ship \in BOOLEAN,
                 Direct(t, p, j, ship)
          PROVE  refresh'.at = "finishing" /\ i \in refresh'.items
      BY <3>1, <3>3 DEF Direct, Begin, items, NoRefresh
    <3>4. CASE Refresh \/ ReadRows \/ (\E table \in {"rows", "items"} : Stall(table)) \/ UNCHANGED vars
      BY <3>1, <3>4 DEF Refresh, Begin, ReadRows, Stall, NoRefresh, items, vars
    <3>5. ASSUME NEW p \in Pulls, Moves(p)
          PROVE  refresh'.at = "finishing" /\ i \in refresh'.items
      BY <3>1, <3>5 DEF Moves, items
    <3>6. ASSUME NEW t \in Tasks, NEW p \in Pulls, Dismiss(t, p)
          PROVE  refresh'.at = "finishing" /\ i \in refresh'.items
      BY <3>1, <3>6 DEF Dismiss, items
    <3>7. QED
      BY <2>2, <1>5, <1>6, <3>2, <3>3, <3>4, <3>5, <3>6 DEF Others, NoGh
  <2>3. QED
    BY <2>1, <2>2, NextCases

\* Once a merge is stored, what was shipped with it is finished, or is just being
\* finished (finish_shipped_items_for_pr after the stored row says MERGED).
THEOREM MergeFinishesHolds == Spec => []MergeFinishes
<1> DEFINE Held == KnownRows /\ KnownOpen /\ DiskNoticed /\ MergeFinishes
<1>1. Init => Held
  BY DEF Init, KnownRows, KnownOpen, DiskNoticed, MergeFinishes, Noticed, NoRefresh
<1>2. TypeOK /\ Held /\ [Next]_vars => Held'
  <2> SUFFICES ASSUME TypeOK, Held, [Next]_vars PROVE Held'
    OBVIOUS
  <2>1. CASE Onward
    BY <2>1, KnownStep, KnownOpenStep, DiskNoticedStep, MergeStep DEF MergeInv
  <2>2. CASE Crash
    BY <2>2, KnownCrash, DiskNoticedStep, MergeCrash DEF KnownRows, KnownOpen
  <2>3. QED
    BY <2>1, <2>2, OnwardOrCrash
<1>3. Held => MergeFinishes
  OBVIOUS
<1> HIDE DEF Held
<1>4. QED
  BY <1>1, <1>2, <1>3, TypeCorrect, PTL DEF Spec

-----------------------------------------------------------------------------
\* What the promise about dismissals leaves out: pull requests of which a row
\* was inserted beside one they had.
Excepted == rediscovered \cup crossed \cup reopened

\* The rows of a pull request that are visible are among these.
ShownAre(p, left) == \A r \in RowsOf(p) : r \in left \/ ~Visible(r)

\* What was waved away has rows, and a dismissal still has every row to hide that
\* is visible.
Hiding ==
  /\ \A p \in waved : RowsOf(p) # {}
  /\ \A t \in Tasks, p \in Pulls : task[t].op = "dismiss" /\ task[t].pull = p =>
       /\ task[t].left \subseteq RowsOf(p)
       /\ p \in Excepted \/ ShownAre(p, task[t].left)

\* A pull request gets no row beside those it has, and none is shown again.
Calm(p) == RowsOf(p)' = RowsOf(p) /\ \A r \in RowsOf(p) : Visible(r)' => Visible(r)

\* An insertion leaves the others calm.
LEMMA InsertCalm ==
  ASSUME RowTypes, NEW p \in Pulls, NEW state \in {"unknown", "OPEN"}, Insert(p, state),
         NEW q \in Pulls
  PROVE  RowsOf(q) \subseteq RowsOf(q)' /\ (q # p => Calm(q))
<1>1. state \in States
  BY DEF States
<1>2. /\ RowTypes' /\ Len(rows') = Len(rows) + 1
      /\ \A r \in 1 .. Len(rows) : rows'[r] = rows[r]
      /\ rows'[Len(rows) + 1].pull = p
  BY <1>1, InsertEffect
<1>3. /\ Len(rows) \in Nat /\ DOMAIN rows = 1 .. Len(rows)
      /\ DOMAIN rows' = 1 .. Len(rows) + 1
  BY <1>2 DEF RowTypes
<1>4. RowsOf(q) \subseteq RowsOf(q)' /\ (q # p => RowsOf(q)' = RowsOf(q))
  BY <1>2, <1>3 DEF RowsOf
<1>5. \A r \in 1 .. Len(rows) : Visible(r)' => Visible(r)
  BY <1>2 DEF Visible
<1>6. QED
  BY <1>3, <1>4, <1>5 DEF Calm, RowsOf

\* What is written to rows there are leaves every pull request calm.
LEMMA WriteCalm ==
  ASSUME RowTypes, RowTypes', Len(rows') = Len(rows),
         \A r \in 1 .. Len(rows) : rows'[r].pull = rows[r].pull,
         \A r \in 1 .. Len(rows) : Visible(r)' => Visible(r)
  PROVE  \A q \in Pulls : Calm(q)
BY DEF RowTypes, RowsOf, Calm

\* And so do facts.
LEMMA FactsCalm ==
  ASSUME RowTypes, NEW r \in 1 .. Len(rows), NEW state \in States, Facts(r, state)
  PROVE  \A q \in Pulls : Calm(q)
<1>1. /\ RowTypes' /\ Len(rows') = Len(rows)
      /\ \A s \in 1 .. Len(rows) :
           rows'[s].pull = rows[s].pull /\ rows'[s].dismissed = rows[s].dismissed
  BY Zenon, FactsEffect
<1>2. \A s \in 1 .. Len(rows) : Visible(s)' => Visible(s)
  BY Zenon, <1>1 DEF Visible
<1>3. QED
  BY <1>1, <1>2, WriteCalm

\* And the hiding of a row, which is then hidden.
LEMMA HideCalm ==
  ASSUME RowTypes, NEW r \in 1 .. Len(rows), Hides(r)
  PROVE  ~Visible(r)' /\ \A q \in Pulls : Calm(q)
<1>1. /\ RowTypes' /\ Len(rows') = Len(rows)
      /\ rows'[r].dismissed /\ \A s \in 1 .. Len(rows) : s # r => rows'[s] = rows[s]
      /\ \A s \in 1 .. Len(rows) : rows'[s].pull = rows[s].pull
  BY HideEffect
<1>2. ~Visible(r)' /\ \A s \in 1 .. Len(rows) : Visible(s)' => Visible(s)
  BY <1>1 DEF Visible
<1>3. QED
  BY <1>1, <1>2, WriteCalm

\* Nothing written, nothing shown.
LEMMA SameCalm ==
  ASSUME UNCHANGED rows
  PROVE  \A q \in Pulls : Calm(q)
BY DEF Calm, RowsOf, Visible

\* A pull request that gets a row beside those it has is excepted.
LEMMA CalmStep ==
  ASSUME TypeOK, Onward, NEW q \in Pulls
  PROVE  /\ Excepted \subseteq Excepted' /\ RowsOf(q) \subseteq RowsOf(q)'
         /\ RowsOf(q) # {} => q \in Excepted' \/ Calm(q)
<1> DEFINE Goal == /\ Excepted \subseteq Excepted' /\ RowsOf(q) \subseteq RowsOf(q)'
                   /\ RowsOf(q) # {} => q \in Excepted' \/ Calm(q)
<1>1. RowTypes /\ TaskTypes /\ RefreshTypes /\ Len(rows) \in Nat
  BY DEF TypeOK, RowTypes
<1>2. ASSUME Calm(q), UNCHANGED doubles PROVE Goal
  BY <1>2 DEF Calm, Excepted, doubles
<1>3. CASE Others
  <2>1. UNCHANGED rows /\ UNCHANGED doubles
    BY <1>3 DEF Others, Moves, Direct, Refer, State, Dismiss, Refresh, ReadRows, NoGh,
      Finish, Stall, vars
  <2>2. QED
    BY <1>2, <2>1, SameCalm
<1>4. ASSUME NEW t \in Tasks, Record(t) PROVE Goal
  <2>1. task[t].pull \in Pulls
    BY <1>1, <1>4, TaskType DEF Record
  <2>2. CASE UNCHANGED <<rows, crossed>>
    BY <1>2, <1>4, <2>2, SameCalm DEF Record, doubles
  <2>3. CASE /\ Insert(task[t].pull, "unknown")
             /\ crossed' = IF RowsOf(task[t].pull) = {} THEN crossed ELSE crossed \cup {task[t].pull}
    <3>1. Excepted \subseteq Excepted' /\ (RowsOf(task[t].pull) # {} => task[t].pull \in Excepted')
      BY <1>4, <2>3 DEF Record, Excepted
    <3>2. QED
      BY <1>1, <2>1, <2>3, <3>1, InsertCalm
  <2>4. QED
    BY <1>4, <2>2, <2>3 DEF Record
<1>5. ASSUME NEW t \in Tasks, Hide(t) PROVE Goal
  <2>1. task[t].left \subseteq 1 .. Len(rows) /\ UNCHANGED doubles
    BY <1>1, <1>5, TaskType DEF Hide
  <2>2. (\E r \in task[t].left : Hides(r)) \/ UNCHANGED rows
    BY <1>5 DEF Hide
  <2>3. Calm(q)
    BY <1>1, <2>1, <2>2, HideCalm, SameCalm
  <2>4. QED
    BY <1>2, <2>1, <2>3
<1>6. CASE Answer
  <2> SUFFICES ASSUME NEW p \in refresh.left, Discover(p) \/ Update(p) \/ Gone(p) \/ Pass(p)
               PROVE  Goal
    BY <1>6 DEF Answer
  <2>1. p \in Pulls /\ refresh.known[p] \in 0 .. Len(rows) /\ github[p] \in States
    BY <1>1, <1>6, AskingType DEF Answer, TypeOK, OtherTypes
  <2>2. CASE UNCHANGED <<rows, doubles>>
    BY <1>2, <2>2, SameCalm
  <2>3. CASE Undiscovered(p) /\ Insert(p, "OPEN") /\ Again(p)
    <3>1. Excepted \subseteq Excepted' /\ (RowsOf(p) # {} => p \in Excepted')
      BY <2>3 DEF Again, With, Undiscovered, Excepted
    <3>2. QED
      BY <1>1, <2>1, <2>3, <3>1, InsertCalm
  <2>4. ASSUME NEW state \in States, Facts(refresh.known[p], state), refresh.known[p] # NoRow,
               UNCHANGED doubles
        PROVE  Goal
    <3>1. refresh.known[p] \in 1 .. Len(rows)
      BY <1>1, <2>1, <2>4 DEF NoRow
    <3>2. Calm(q)
      BY Zenon, <1>1, <2>4, <3>1, FactsCalm
    <3>3. QED
      BY <1>2, <2>4, <3>2
  <2>5. "unknown" \in States
    BY DEF States
  <2>6. QED
    BY <2>1, <2>2, <2>3, <2>4, <2>5 DEF Discover, Update, Gone, Pass, Unknown
<1>7. QED
  BY <1>3, <1>4, <1>5, <1>6, NextCases DEF RowSteps

\* What a step makes of a dismissal: it stays, begins with all the rows, or has
\* hidden one of them.
LEMMA DismissalCases ==
  ASSUME TypeOK, Onward, NEW t \in Tasks, task'[t].op = "dismiss"
  PROVE  \/ task'[t] = task[t]
         \/ /\ task'[t].pull \in Pulls /\ task'[t].left = RowsOf(task'[t].pull)
            /\ UNCHANGED <<rows, doubles>>
         \/ \E r \in task[t].left :
              /\ task[t].op = "dismiss" /\ Hides(r) /\ UNCHANGED doubles
              /\ task'[t].left = task[t].left \ {r} /\ task'[t].pull = task[t].pull
<1> DEFINE Goal == \/ task'[t] = task[t]
                   \/ /\ task'[t].pull \in Pulls /\ task'[t].left = RowsOf(task'[t].pull)
                      /\ UNCHANGED <<rows, doubles>>
                   \/ \E r \in task[t].left :
                        /\ task[t].op = "dismiss" /\ Hides(r) /\ UNCHANGED doubles
                        /\ task'[t].left = task[t].left \ {r} /\ task'[t].pull = task[t].pull
<1>1. task \in [Tasks -> TaskSet(Len(rows))] /\ TaskTypes
  BY DEF TypeOK, TaskTypes, TaskSet
<1>2. ASSUME NEW s \in Tasks, NEW what, Goes(s, what), what.op # "dismiss" PROVE Goal
  <2>1. s # t
    BY <1>1, <1>2 DEF Goes
  <2>2. QED
    BY <1>1, <1>2, <2>1 DEF Goes
<1>3. ASSUME NEW s \in Tasks, NEW op \in {"refer", "state"},
             task[s].op \in {"insert", "refer", "state"}, Goes(s, [task[s] EXCEPT !.op = op])
      PROVE  Goal
  <2>1. task[s] \in [op : {"insert", "refer", "state"}, pull : Pulls, item : Items, ship : BOOLEAN]
    <3>1. task[s] \in TaskSet(Len(rows))
      BY <1>1
    <3>2. QED
      BY <1>3, <3>1 DEF TaskSet, NoTask
  <2>2. [task[s] EXCEPT !.op = op].op # "dismiss"
    BY <2>1
  <2>3. QED
    BY <1>2, <1>3, <2>2
<1>4. ASSUME NEW s \in Tasks, Goes(s, NoTask) PROVE Goal
  BY <1>2, <1>4 DEF NoTask
<1>5. CASE UNCHANGED task
  BY <1>5
<1>6. ASSUME NEW s \in Tasks, NEW p \in Pulls, Dismiss(s, p) PROVE Goal
  <2>1. CASE s = t
    <3>1. task'[t] = [op |-> "dismiss", pull |-> p, left |-> RowsOf(p)]
      BY <1>1, <1>6, <2>1 DEF Dismiss, Goes
    <3>2. QED
      BY <1>6, <3>1 DEF Dismiss
  <2>2. CASE s # t
    BY <1>1, <1>6, <2>2 DEF Dismiss, Goes
  <2>3. QED
    BY <2>1, <2>2
<1>7. ASSUME NEW s \in Tasks, Hide(s) PROVE Goal
  <2>1. task[s] \in [op : {"dismiss"}, pull : Pulls, left : (SUBSET (1 .. Len(rows))) \ {{}}]
    <3>1. task[s] \in TaskSet(Len(rows))
      BY <1>1
    <3>2. QED
      BY <1>7, <3>1 DEF TaskSet, NoTask, Hide
  <2>2. ASSUME NEW r \in task[s].left, Hides(r), Goes(s, [task[s] EXCEPT !.left = @ \ {r}])
        PROVE  Goal
    <3>1. CASE s = t
      <4>1. task'[t] = [task[t] EXCEPT !.left = @ \ {r}]
        BY <1>1, <2>2, <3>1 DEF Goes
      <4>2. /\ task'[t].left = task[t].left \ {r} /\ task'[t].pull = task[t].pull
            /\ task[t].op = "dismiss"
        BY <2>1, <3>1, <4>1
      <4>3. UNCHANGED doubles
        BY <1>7 DEF Hide
      <4>4. QED
        BY Zenon, <2>2, <3>1, <4>2, <4>3
    <3>2. CASE s # t
      BY <1>1, <2>2, <3>2 DEF Goes
    <3>3. QED
      BY <3>1, <3>2
  <2>3. (\E r \in task[s].left : Hides(r) /\ Goes(s, [task[s] EXCEPT !.left = @ \ {r}]))
        \/ Goes(s, NoTask)
    BY Zenon, <1>7 DEF Hide
  <2>4. QED
    BY Zenon, <1>4, <2>2, <2>3
<1>9. QED
  <2>1. CASE RowSteps
    <3>1. ASSUME NEW s \in Tasks, Record(s) PROVE Goal
      BY <1>3, <1>4, <3>1 DEF Record
    <3>2. QED
      BY <2>1, <1>5, <1>7, <3>1 DEF RowSteps, Answer, Discover, Update, Gone, Pass
  <2>2. CASE Others
    <3>1. ASSUME NEW s \in Tasks, NEW p \in Pulls, NEW i \in Items, NEW ship \in BOOLEAN,
                 Direct(s, p, i, ship)
          PROVE  Goal
      BY <1>2, <3>1 DEF Direct
    <3>2. ASSUME NEW s \in Tasks, Refer(s) \/ State(s) PROVE Goal
      BY <1>3, <1>4, <3>2 DEF Refer, State
    <3>3. QED
      BY <2>2, <1>5, <1>6, <3>1, <3>2 DEF Others, Moves, Refresh, ReadRows, NoGh, Finish,
        Stall, vars
  <2>3. QED
    BY <2>1, <2>2, NextCases

\* What a step adds to what was waved away: the pull request of a dismissal of
\* which the last row is hidden.
LEMMA WavedCases ==
  ASSUME Onward
  PROVE  \/ UNCHANGED waved
         \/ \E t \in Tasks : \E r \in task[t].left :
              /\ task[t].op = "dismiss" /\ task[t].left = {r} /\ Hides(r)
              /\ waved' = waved \cup {task[t].pull}
<1>1. CASE RowSteps
  <2>1. ASSUME NEW t \in Tasks, Hide(t)
        PROVE  \/ UNCHANGED waved
               \/ \E r \in task[t].left :
                    /\ task[t].op = "dismiss" /\ task[t].left = {r} /\ Hides(r)
                    /\ waved' = waved \cup {task[t].pull}
    BY Zenon, <2>1 DEF Hide
  <2>2. CASE UNCHANGED waved
    BY <2>2
  <2>3. (\E t \in Tasks : Hide(t)) \/ UNCHANGED waved
    BY <1>1 DEF RowSteps, Record, Answer, Discover, Update, Gone, Pass
  <2>4. QED
    BY Zenon, <2>1, <2>3
<1>2. CASE Others
  BY <1>2 DEF Others, Moves, Direct, Refer, State, Dismiss, Refresh, ReadRows, NoGh,
    Finish, Stall, vars
<1>3. QED
  BY <1>1, <1>2, NextCases

\* In a calm step the visible rows stay among those they were among.
LEMMA CalmKeeps ==
  ASSUME NEW p \in Pulls, Calm(p), NEW left, ShownAre(p, left)
  PROVE  \A r \in RowsOf(p)' : r \in left \/ ~Visible(r)'
BY DEF Calm, ShownAre, RowsOf, Visible

\* What was waved away stays hidden in every step.
LEMMA WavedKept ==
  ASSUME TypeOK, Hiding, WavedStays, Onward, NEW p \in waved
  PROVE  /\ p \in Pulls /\ RowsOf(p)' # {}
         /\ p \in Excepted' \/ \A r \in RowsOf(p)' : ~Visible(r)'
<1>1. p \in Pulls /\ RowsOf(p) # {}
  BY DEF TypeOK, OtherTypes, Hiding
<1>2. RowsOf(p) \subseteq RowsOf(p)' /\ (p \in Excepted' \/ (Calm(p) /\ p \notin Excepted))
  BY <1>1, CalmStep
<1>3. ASSUME Calm(p), p \notin Excepted PROVE \A r \in RowsOf(p)' : ~Visible(r)'
  <2>1. ShownAre(p, {})
    BY <1>3 DEF WavedStays, ShownAre, Excepted
  <2>2. \A r \in RowsOf(p)' : r \in {} \/ ~Visible(r)'
    BY <1>1, <1>3, <2>1, CalmKeeps
  <2>3. QED
    BY <2>2
<1>4. QED
  BY <1>1, <1>2, <1>3

\* A dismissal that hides a row leaves the visible ones among its others.
LEMMA HidesOne ==
  ASSUME TypeOK, Hiding, Onward, NEW t \in Tasks, NEW p \in Pulls, NEW r \in task[t].left,
         task[t].op = "dismiss", task[t].pull = p, Hides(r)
  PROVE  /\ task[t].left \ {r} \subseteq RowsOf(p)' /\ RowsOf(p)' # {}
         /\ p \in Excepted' \/ \A s \in RowsOf(p)' : s \in task[t].left \ {r} \/ ~Visible(s)'
<1>1. r \in 1 .. Len(rows) /\ RowTypes
  BY TaskType DEF TypeOK
<1>2. /\ task[t].left \subseteq RowsOf(p) /\ RowsOf(p) \subseteq RowsOf(p)'
      /\ Excepted \subseteq Excepted'
  BY CalmStep DEF Hiding
<1>3. Calm(p) /\ ~Visible(r)'
  BY <1>1, HideCalm
<1>4. CASE p \in Excepted
  BY <1>2, <1>4
<1>5. CASE ShownAre(p, task[t].left)
  <2>1. \A s \in RowsOf(p)' : s \in task[t].left \/ ~Visible(s)'
    BY <1>3, <1>5, CalmKeeps
  <2>2. \A s \in RowsOf(p)' : s \in task[t].left \ {r} \/ ~Visible(s)'
    BY <1>3, <2>1 DEF Visible
  <2>3. QED
    BY <1>2, <2>2
<1>6. QED
  BY <1>4, <1>5 DEF Hiding

\* Every step keeps what is hidden.
LEMMA HidingStep ==
  ASSUME TypeOK, Hiding, WavedStays, Onward
  PROVE  Hiding' /\ WavedStays'
<1>1. TaskTypes /\ task' \in [Tasks -> TaskSet(Len(rows))]
  BY TaskStep DEF TypeOK
<1>2. ASSUME NEW p \in waved'
      PROVE  RowsOf(p)' # {} /\ (p \in Excepted' \/ \A r \in RowsOf(p)' : ~Visible(r)')
  <2>1. CASE p \in waved
    BY <2>1, WavedKept
  <2>2. ASSUME NEW t \in Tasks, NEW r \in task[t].left, task[t].op = "dismiss",
               task[t].left = {r}, Hides(r), task[t].pull = p
        PROVE  RowsOf(p)' # {} /\ (p \in Excepted' \/ \A s \in RowsOf(p)' : ~Visible(s)')
    <3>1. p \in Pulls
      BY <1>1, <2>2, TaskType
    <3>2. /\ RowsOf(p)' # {}
          /\ p \in Excepted' \/ \A s \in RowsOf(p)' : s \in task[t].left \ {r} \/ ~Visible(s)'
      BY <2>2, <3>1, HidesOne
    <3>3. task[t].left \ {r} = {}
      BY <2>2
    <3>4. QED
      BY <3>2, <3>3
  <2>3. QED
    BY <1>2, <2>1, <2>2, WavedCases
<1>3. WavedStays'
  BY <1>2 DEF WavedStays, Excepted
<1>4. ASSUME NEW t \in Tasks, NEW p \in Pulls, task'[t].op = "dismiss", task'[t].pull = p
      PROVE  /\ task'[t].left \subseteq RowsOf(p)'
             /\ p \in Excepted' \/ \A r \in RowsOf(p)' : r \in task'[t].left \/ ~Visible(r)'
  <2>1. CASE task'[t] = task[t]
    <3>1. /\ task[t].left # {} /\ task[t].left \subseteq RowsOf(p)
          /\ p \in Excepted \/ ShownAre(p, task[t].left)
      BY <1>1, <1>4, <2>1, TaskType DEF Hiding
    <3>2. /\ RowsOf(p) \subseteq RowsOf(p)' /\ (p \in Excepted' \/ Calm(p))
          /\ Excepted \subseteq Excepted'
      BY <3>1, CalmStep
    <3>3. ASSUME Calm(p), ShownAre(p, task[t].left)
          PROVE  \A r \in RowsOf(p)' : r \in task[t].left \/ ~Visible(r)'
      BY <3>3, CalmKeeps
    <3>4. QED
      BY <2>1, <3>1, <3>2, <3>3
  <2>2. ASSUME task'[t].left = RowsOf(p), UNCHANGED rows
        PROVE  /\ task'[t].left \subseteq RowsOf(p)'
               /\ \A r \in RowsOf(p)' : r \in task'[t].left
    BY <2>2 DEF RowsOf
  <2>3. ASSUME NEW r \in task[t].left, task[t].op = "dismiss", Hides(r),
               task'[t].left = task[t].left \ {r}, task[t].pull = p
        PROVE  /\ task'[t].left \subseteq RowsOf(p)'
               /\ p \in Excepted' \/ \A s \in RowsOf(p)' : s \in task'[t].left \/ ~Visible(s)'
    BY <2>3, HidesOne
  <2>4. QED
    BY <1>4, <2>1, <2>2, <2>3, DismissalCases
<1>5. QED
  BY <1>2, <1>3, <1>4 DEF Hiding, ShownAre

\* A pull request of which a crash loses no write has its rows as they were.
LEMMA CrashKeeps ==
  ASSUME Crash, NEW p \in Pulls, p \notin LostPulls
  PROVE  RowsOf(p)' = RowsOf(p) /\ \A r \in RowsOf(p) : rows'[r] = rows[r]
BY DEF Crash, LostPulls, StoredOf, RowsOf

\* A dismissal that is on disk outlives a crash.
LEMMA HidingCrash ==
  ASSUME TypeOK, Hiding, WavedStays, Crash
  PROVE  Hiding' /\ WavedStays'
<1>1. \A t \in Tasks : task'[t].op # "dismiss"
  BY DEF Crash, NoTask
<1>2. ASSUME NEW p \in waved'
      PROVE  RowsOf(p)' # {} /\ (p \in Excepted' \/ \A r \in RowsOf(p)' : ~Visible(r)')
  <2>1. p \in waved /\ p \in Pulls /\ p \notin LostPulls /\ (p \in Excepted => p \in Excepted')
    BY <1>2 DEF Crash, TypeOK, OtherTypes, Excepted, doubles
  <2>2. RowsOf(p)' = RowsOf(p) /\ \A r \in RowsOf(p) : rows'[r] = rows[r]
    BY <2>1, CrashKeeps
  <2>3. QED
    BY <2>1, <2>2 DEF Hiding, WavedStays, Visible, Excepted
<1>3. QED
  BY <1>1, <1>2 DEF Hiding, WavedStays, Excepted

\* What the owner waves away stays away (dismiss_association hides every row, and
\* a refresh writes the facts of a row and not whether it is shown).
THEOREM WavedStaysHolds == Spec => []WavedStays
<1>1. Init => Hiding /\ WavedStays
  BY DEF Init, Hiding, WavedStays, NoTask
<1>2. TypeOK /\ Hiding /\ WavedStays /\ [Next]_vars => (Hiding /\ WavedStays)'
  BY HidingStep, HidingCrash, OnwardOrCrash
<1>3. QED
  BY <1>1, <1>2, TypeCorrect, PTL DEF Spec

-----------------------------------------------------------------------------
\* A set of numbers that is not empty has a least one.
LEMMA LeastNumber ==
  ASSUME NEW S \in SUBSET Nat, S # {}
  PROVE  \E m \in S : \A n \in S : m <= n
<1> DEFINE R == {ss \in Nat \X Nat : ss[1] < ss[2]}
<1>1. IsWellFoundedOn(R, Nat)
  BY NatLessThanWellFounded, Zenon DEF OpToRel
<1>2. PICK m \in S : \A n \in S : ~ (<<n, m>> \in R)
  <2> HIDE DEF R
  <2>1. S \subseteq Nat
    OBVIOUS
  <2>2. QED
    BY <1>1, <2>1, WFMin, Zenon
<1>3. ASSUME NEW n \in S PROVE m <= n
  <2>1. n \in Nat /\ m \in Nat /\ <<n, m>> \notin R
    BY <1>2
  <2>2. ~(n < m)
    BY <2>1
  <2>3. QED
    BY <2>1, <2>2
<1>4. QED
  BY <1>3

\* The ranks: a visible row is above every hidden one.
LEMMA RankType ==
  ASSUME RowTypes, NEW r \in 1 .. Len(rows)
  PROVE  /\ Rank(r) \in Nat /\ Rank(r) <= 9
         /\ Visible(r) <=> Rank(r) > 5
<1>1. rows[r].state \in States /\ rows[r].dismissed \in BOOLEAN
  <2>1. rows[r] \in Row
    BY DEF RowTypes
  <2>2. QED
    BY <2>1 DEF Row
<1>2. (CASE rows[r].state = "MERGED" -> 4 [] rows[r].state = "CLOSED" -> 3
         [] rows[r].state = "OPEN" -> 2 [] OTHER -> 1) \in 1 .. 4
  BY <1>1 DEF States
<1>3. QED
  BY <1>1, <1>2 DEF Rank

\* canonical_rows finds a row wherever there is one: the order is total.
LEMMA CanonicalIsBest ==
  ASSUME RowTypes, NEW p \in Pulls, RowsOf(p) # {}
  PROVE  /\ Canonical(p) \in RowsOf(p) /\ Canonical(p) # NoRow
         /\ \A s \in RowsOf(p) : Rank(s) <= Rank(Canonical(p))
<1>0. RowsOf(p) \subseteq 1 .. Len(rows) /\ Len(rows) \in Nat
  BY DEF RowsOf, RowTypes
<1>1. \A r \in RowsOf(p) : Rank(r) \in Nat /\ Rank(r) <= 9
  BY <1>0, RankType
<1>2. PICK top \in RowsOf(p) : \A s \in RowsOf(p) : Rank(s) <= Rank(top)
  <2> DEFINE depths == {9 - Rank(r) : r \in RowsOf(p)}
  <2>1. depths \in SUBSET Nat /\ depths # {}
    BY <1>1
  <2>2. PICK least \in depths : \A n \in depths : least <= n
    <3> HIDE DEF depths
    <3> QED BY <2>1, LeastNumber
  <2>3. PICK r \in RowsOf(p) : least = 9 - Rank(r)
    BY <2>2
  <2>4. \A s \in RowsOf(p) : 9 - Rank(r) <= 9 - Rank(s)
    BY <2>2, <2>3
  <2>5. QED
    BY <1>1, <2>4
<1>3. PICK r \in RowsOf(p) : /\ Rank(r) = Rank(top)
                             /\ \A s \in RowsOf(p) : Rank(s) = Rank(top) => r <= s
  <2> DEFINE tops == {r \in RowsOf(p) : Rank(r) = Rank(top)}
  <2>1. tops \in SUBSET Nat /\ tops # {}
    BY <1>0, <1>2
  <2>2. \E r \in tops : \A s \in tops : r <= s
    <3> HIDE DEF tops
    <3> QED BY <2>1, LeastNumber
  <2>3. QED
    BY <2>2
<1>4. r \in Best(p)
  <2>1. ASSUME NEW s \in RowsOf(p) \ {r} PROVE Rank(r) > Rank(s) \/ (Rank(r) = Rank(s) /\ r < s)
    <3>1. Rank(s) <= Rank(r) /\ Rank(s) \in Nat /\ Rank(r) \in Nat /\ s \in Nat /\ r \in Nat /\ s # r
      BY <1>0, <1>1, <1>2, <1>3, <2>1
    <3>2. Rank(s) = Rank(r) => r <= s
      BY <1>3, <2>1
    <3>3. QED
      BY <3>1, <3>2
  <2>2. QED
    BY <2>1 DEF Best
<1>5. Canonical(p) \in Best(p)
  BY <1>4 DEF Canonical
<1>6. Canonical(p) \in RowsOf(p)
  BY <1>5 DEF Best
<1>7. ASSUME NEW s \in RowsOf(p) PROVE Rank(s) <= Rank(Canonical(p))
  <2>1. s = Canonical(p) \/ Rank(Canonical(p)) > Rank(s) \/ Rank(Canonical(p)) = Rank(s)
    BY <1>5 DEF Best
  <2>2. QED
    BY <1>1, <1>6, <2>1
<1>8. QED
  BY <1>0, <1>6, <1>7 DEF NoRow

\* Where the row that stands for a pull request is hidden, all of them are.
LEMMA CanonicalShows ==
  ASSUME RowTypes, NEW p \in Pulls, NEW s \in RowsOf(p), Visible(s)
  PROVE  Visible(Canonical(p))
<1>1. RowsOf(p) \subseteq 1 .. Len(rows) /\ RowsOf(p) # {}
  BY DEF RowsOf, RowTypes
<1>2. Canonical(p) \in RowsOf(p) /\ Rank(s) <= Rank(Canonical(p))
  BY <1>1, CanonicalIsBest
<1>3. Rank(s) > 5 /\ Rank(s) \in Nat /\ Rank(Canonical(p)) \in Nat
  BY <1>1, <1>2, RankType
<1>4. Rank(Canonical(p)) > 5
  BY <1>2, <1>3
<1>5. QED
  BY <1>1, <1>2, <1>4, RankType

-----------------------------------------------------------------------------
\* Those of which two rows may be visible.
Doubled == crossed \cup reopened

\* A pull request has got one more row, and none that it had is shown again.
Grown(p) ==
  /\ RowsOf(p)' = RowsOf(p) \cup {Len(rows) + 1}
  /\ \A r \in RowsOf(p) : Visible(r)' => Visible(r)

\* What an insertion does to the rows of its pull request.
LEMMA InsertGrown ==
  ASSUME RowTypes, NEW p \in Pulls, NEW state \in {"unknown", "OPEN"}, Insert(p, state)
  PROVE  Grown(p)
<1>1. state \in States
  BY DEF States
<1>2. /\ RowTypes' /\ Len(rows') = Len(rows) + 1
      /\ \A r \in 1 .. Len(rows) : rows'[r] = rows[r]
      /\ rows'[Len(rows) + 1].pull = p
  BY <1>1, InsertEffect
<1>3. /\ Len(rows) \in Nat /\ DOMAIN rows = 1 .. Len(rows)
      /\ DOMAIN rows' = 1 .. Len(rows) + 1
  BY <1>2 DEF RowTypes
<1>4. RowsOf(p)' = RowsOf(p) \cup {Len(rows) + 1}
  BY <1>2, <1>3 DEF RowsOf
<1>5. \A r \in RowsOf(p) : Visible(r)' => Visible(r)
  BY <1>2, <1>3 DEF Visible, RowsOf
<1>6. QED
  BY <1>4, <1>5 DEF Grown

\* A pull request gets another row only if none of its rows is visible, of which
\* a refresh that asks then holds none; or it is one of the doubled.
LEMMA ShownStep ==
  ASSUME TypeOK, Onward, NEW q \in Pulls
  PROVE  /\ Doubled \subseteq Doubled'
         /\ \/ Calm(q)
            \/ /\ Grown(q)
               /\ \/ q \in Doubled'
                  \/ /\ \A r \in RowsOf(q) : ~Visible(r)
                     /\ \/ RowsOf(q) = {}
                        \/ refresh.at = "asking" /\ refresh.known[q] = NoRow
<1> DEFINE Alone == /\ \A r \in RowsOf(q) : ~Visible(r)
                    /\ RowsOf(q) = {} \/ (refresh.at = "asking" /\ refresh.known[q] = NoRow)
           Goal == Doubled \subseteq Doubled' /\ (Calm(q) \/ (Grown(q) /\ (q \in Doubled' \/ Alone)))
<1>0. RowTypes /\ TaskTypes /\ RefreshTypes /\ Len(rows) \in Nat
  BY DEF TypeOK, RowTypes
<1>1. ASSUME Calm(q), UNCHANGED doubles PROVE Goal
  BY <1>1 DEF Doubled, doubles
<1>2. ASSUME NEW t \in Tasks, Record(t) PROVE Goal
  <2>1. task[t].pull \in Pulls
    BY <1>0, <1>2, TaskType DEF Record
  <2>2. CASE UNCHANGED <<rows, crossed>>
    BY <1>1, <1>2, <2>2, SameCalm DEF Record, doubles
  <2>3. CASE /\ Insert(task[t].pull, "unknown")
             /\ crossed' = IF RowsOf(task[t].pull) = {} THEN crossed ELSE crossed \cup {task[t].pull}
    <3>1. /\ Doubled \subseteq Doubled'
          /\ RowsOf(task[t].pull) = {} \/ task[t].pull \in Doubled'
      BY <1>2, <2>3 DEF Record, Doubled
    <3>2. CASE q = task[t].pull
      BY <1>0, <2>3, <3>1, <3>2, InsertGrown
    <3>3. CASE q # task[t].pull
      BY <1>0, <2>1, <2>3, <3>1, <3>3, InsertCalm
    <3>4. QED
      BY <3>2, <3>3
  <2>4. QED
    BY <1>2, <2>2, <2>3 DEF Record
<1>3. ASSUME NEW t \in Tasks, Hide(t) PROVE Goal
  <2>1. task[t].left \subseteq 1 .. Len(rows) /\ UNCHANGED doubles
    BY <1>0, <1>3, TaskType DEF Hide
  <2>2. (\E r \in task[t].left : Hides(r)) \/ UNCHANGED rows
    BY <1>3 DEF Hide
  <2>3. Calm(q)
    BY <1>0, <2>1, <2>2, HideCalm, SameCalm
  <2>4. QED
    BY <1>1, <2>1, <2>3
<1>4. CASE Answer
  <2> SUFFICES ASSUME NEW p \in refresh.left, Discover(p) \/ Update(p) \/ Gone(p) \/ Pass(p)
               PROVE  Goal
    BY <1>4 DEF Answer
  <2>1. p \in Pulls /\ refresh.known[p] \in 0 .. Len(rows) /\ github[p] \in States
    BY <1>0, <1>4, AskingType DEF Answer, TypeOK, OtherTypes
  <2>2. CASE UNCHANGED <<rows, doubles>>
    BY <1>1, <2>2, SameCalm
  <2>3. CASE Undiscovered(p) /\ Insert(p, "OPEN") /\ Again(p)
    <3>1. Doubled \subseteq Doubled'
      BY <2>3 DEF Again, With, Doubled
    <3>2. CASE q # p
      BY <1>0, <2>1, <2>3, <3>1, <3>2, InsertCalm
    <3>3. CASE q = p
      <4>1. Grown(q)
        BY <1>0, <2>3, <3>3, InsertGrown
      <4>2. ASSUME q \notin Doubled' PROVE \A r \in RowsOf(q) : ~Visible(r)
        <5>1. ~(RowsOf(q) # {} /\ Visible(Canonical(q)))
          BY <2>3, <3>3, <4>2 DEF Again, With, Doubled, Undiscovered
        <5>2. QED
          BY <1>0, <5>1, CanonicalShows
      <4>3. refresh.at = "asking" /\ refresh.known[q] = NoRow
        BY <1>4, <2>3, <3>3 DEF Answer, Undiscovered
      <4>4. QED
        BY <3>1, <4>1, <4>2, <4>3
    <3>4. QED
      BY <3>2, <3>3
  <2>4. ASSUME NEW state \in States, Facts(refresh.known[p], state), refresh.known[p] # NoRow,
               UNCHANGED doubles
        PROVE  Goal
    <3>1. refresh.known[p] \in 1 .. Len(rows)
      BY <1>0, <2>1, <2>4 DEF NoRow
    <3>2. Calm(q)
      BY Zenon, <1>0, <2>4, <3>1, FactsCalm
    <3>3. QED
      BY <1>1, <2>4, <3>2
  <2>5. "unknown" \in States
    BY DEF States
  <2>6. QED
    BY <2>1, <2>2, <2>3, <2>4, <2>5 DEF Discover, Update, Gone, Pass, Unknown
<1>5. CASE Others
  <2>1. UNCHANGED rows /\ UNCHANGED doubles
    BY <1>5 DEF Others, Moves, Direct, Refer, State, Dismiss, Refresh, ReadRows, NoGh,
      Finish, Stall, vars
  <2>2. QED
    BY <1>1, <2>1, SameCalm
<1>6. QED
  BY <1>2, <1>3, <1>4, <1>5, NextCases DEF RowSteps

\* A pull request that is not doubled keeps at most one visible row.
LEMMA OneVisibleStep ==
  ASSUME TypeOK, OneVisible, Onward
  PROVE  OneVisible'
<1> SUFFICES ASSUME NEW p \in Pulls, p \notin Doubled', NEW r \in RowsOf(p)', NEW s \in RowsOf(p)',
                    Visible(r)', Visible(s)'
             PROVE  r = s
  BY DEF OneVisible, Doubled
<1>1. p \notin Doubled /\ (Calm(p) \/ (Grown(p) /\ \A u \in RowsOf(p) : ~Visible(u)))
  BY ShownStep
<1>2. CASE Calm(p)
  BY <1>1, <1>2 DEF Calm, OneVisible, Doubled
<1>3. CASE Grown(p) /\ \A u \in RowsOf(p) : ~Visible(u)
  <2>1. \A u \in RowsOf(p)' : Visible(u)' => u = Len(rows) + 1
    BY <1>3 DEF Grown
  <2>2. QED
    BY <2>1
<1>4. QED
  BY <1>1, <1>2, <1>3

\* On disk there is one visible row as well.
DiskOne ==
  \A p \in Pulls \ Doubled : \A r, s \in StoredOf(p) :
    ~disk.rows[r].dismissed /\ ~disk.rows[s].dismissed => r = s

\* Every step but a crash keeps it so.
LEMMA DiskOneStep ==
  ASSUME TypeOK, OneVisible, DiskOne, Onward
  PROVE  DiskOne'
<1>1. \A p \in Pulls : p \notin Doubled' => p \notin Doubled
  BY ShownStep
<1>2. CASE disk'.rows = disk.rows
  BY <1>1, <1>2 DEF DiskOne, StoredOf
<1>3. CASE disk'.rows = rows'
  <2>1. OneVisible'
    BY OneVisibleStep
  <2>2. QED
    BY <1>3, <2>1 DEF OneVisible, DiskOne, StoredOf, RowsOf, Visible, Doubled
<1>4. QED
  BY <1>2, <1>3, StoredFollows

\* A crash leaves the rows that are on disk.
LEMMA OneVisibleCrash ==
  ASSUME DiskOne, Crash
  PROVE  OneVisible' /\ DiskOne'
BY DEF DiskOne, OneVisible, Crash, StoredOf, RowsOf, Visible, Doubled, doubles

\* The list shows one chip of a pull request, for any number of directives,
\* dismissals and refreshes, but of one that was recorded twice or reopened.
THEOREM OneVisibleHolds == Spec => []OneVisible
<1>1. Init => OneVisible /\ DiskOne
  BY DEF Init, OneVisible, RowsOf, DiskOne, StoredOf
<1>2. TypeOK /\ OneVisible /\ DiskOne /\ [Next]_vars => (OneVisible /\ DiskOne)'
  BY OneVisibleStep, DiskOneStep, OneVisibleCrash, OnwardOrCrash
<1>3. QED
  BY <1>1, <1>2, TypeCorrect, PTL DEF Spec

-----------------------------------------------------------------------------
\* The row a refresh holds is the only one of its pull request that may be
\* visible: discovery leaves that pull request alone.
KnownSole ==
  refresh.at \in {"asking", "finishing"} =>
    \A p \in Pulls \ Doubled : refresh.known[p] # NoRow =>
      \A s \in RowsOf(p) : s # refresh.known[p] => ~Visible(s)

\* Every step keeps it so.
LEMMA KnownSoleStep ==
  ASSUME TypeOK, KnownRows, OneVisible, KnownSole, Onward
  PROVE  KnownSole'
<1> SUFFICES ASSUME refresh'.at \in {"asking", "finishing"}, NEW p \in Pulls, p \notin Doubled',
                    refresh'.known[p] # NoRow, NEW s \in RowsOf(p)', s # refresh'.known[p]
             PROVE  ~Visible(s)'
  BY DEF KnownSole
<1>1. RowTypes /\ RefreshTypes /\ Len(rows) \in Nat
  BY DEF TypeOK, RowTypes
<1>2. p \notin Doubled
  BY ShownStep
<1>3. CASE refresh.at \in {"asking", "finishing"} /\ refresh'.known = refresh.known
  <2>1. refresh.known[p] \in 1 .. Len(rows) /\ rows[refresh.known[p]].pull = p
    BY <1>1, <1>3, AskingType DEF KnownRows, NoRow
  <2>2. refresh.known[p] \in RowsOf(p)
    BY <1>1, <2>1 DEF RowsOf, RowTypes
  <2>3. Calm(p)
    BY <1>3, <2>2, ShownStep
  <2>4. s \in RowsOf(p) /\ (Visible(s)' => Visible(s))
    BY <2>3 DEF Calm
  <2>5. QED
    BY <1>2, <1>3, <2>4 DEF KnownSole
<1>4. CASE ReadRows
  <2>1. refresh' # NoRefresh /\ UNCHANGED rows
    BY <1>4 DEF NoRefresh, ReadRows
  <2>2. refresh'.known[p] = Canonical(p) /\ Visible(Canonical(p)) /\ Canonical(p) # NoRow
    BY <1>4, <2>1 DEF ReadRows, NoRow
  <2>3. Canonical(p) \in RowsOf(p)
    BY <1>1, <2>2, CanonicalRow
  <2>4. s \in RowsOf(p) /\ (Visible(s)' <=> Visible(s))
    BY <2>1 DEF RowsOf, Visible
  <2>5. QED
    BY <1>2, <2>2, <2>3, <2>4 DEF OneVisible, Doubled
<1>5. QED
  BY <1>3, <1>4, KnownCases

\* What a visible row says of its pull request is nothing, or the last answer.
Honest(p) == \A r \in RowsOf(p) : Visible(r) => rows[r].state \in {"unknown", said[p]}
AllHonest == \A p \in Pulls \ (unwritten \cup Doubled) : Honest(p)

\* What a row inserted says is all that is new of its pull request.
LEMMA InsertHonest ==
  ASSUME RowTypes, NEW p \in Pulls, NEW state \in {"unknown", "OPEN"}, Insert(p, state),
         NEW q \in Pulls, NEW r \in RowsOf(q)', Visible(r)'
  PROVE  \/ r \in RowsOf(q) /\ Visible(r) /\ rows'[r].state = rows[r].state
         \/ q = p /\ r = Len(rows) + 1 /\ r \notin RowsOf(q) /\ rows'[r].state = state
<1>1. state \in States
  BY DEF States
<1>2. /\ RowTypes' /\ Len(rows') = Len(rows) + 1
      /\ \A u \in 1 .. Len(rows) : rows'[u] = rows[u]
      /\ rows'[Len(rows) + 1].pull = p /\ rows'[Len(rows) + 1].state = state
  BY <1>1, InsertEffect
<1>3. /\ Len(rows) \in Nat /\ DOMAIN rows = 1 .. Len(rows)
      /\ DOMAIN rows' = 1 .. Len(rows) + 1
  BY <1>2 DEF RowTypes
<1>4. r \in 1 .. Len(rows) + 1 /\ rows'[r].pull = q
  BY <1>3 DEF RowsOf
<1>5. CASE r \in 1 .. Len(rows)
  <2>1. rows'[r] = rows[r]
    BY <1>2, <1>5
  <2>2. QED
    BY <1>3, <1>4, <1>5, <2>1 DEF RowsOf, Visible
<1>6. CASE r = Len(rows) + 1
  BY <1>2, <1>3, <1>4, <1>6 DEF RowsOf
<1>7. QED
  BY <1>3, <1>4, <1>5, <1>6

\* New facts are all that is new of the pull request whose row gets them.
LEMMA FactsHonest ==
  ASSUME RowTypes, NEW k \in 1 .. Len(rows), NEW state \in States, Facts(k, state),
         NEW q \in Pulls, NEW r \in RowsOf(q)', Visible(r)'
  PROVE  /\ r \in RowsOf(q) /\ Visible(r)
         /\ r # k => rows'[r].state = rows[r].state
         /\ r = k => rows'[r].state = state
<1>1. /\ RowTypes' /\ Len(rows') = Len(rows)
      /\ \A u \in 1 .. Len(rows) : u # k => rows'[u] = rows[u]
      /\ \A u \in 1 .. Len(rows) : rows'[u].pull = rows[u].pull /\ rows'[u].dismissed = rows[u].dismissed
  BY Zenon, FactsEffect
<1>2. rows'[k].state = state
  <2>1. rows'[k] = [rows[k] EXCEPT !.state = state]
    BY Zenon, FactsEffect
  <2>2. rows[k] \in Row
    BY DEF RowTypes
  <2>3. QED
    BY <2>1, <2>2 DEF Row
<1>3. DOMAIN rows' = 1 .. Len(rows) /\ DOMAIN rows = 1 .. Len(rows)
  BY <1>1 DEF RowTypes
<1>4. r \in 1 .. Len(rows) /\ rows'[r].pull = q
  BY <1>3 DEF RowsOf
<1>5. r \in RowsOf(q)
  BY <1>1, <1>3, <1>4 DEF RowsOf
<1>6. Visible(r)
  BY Zenon, <1>1, <1>4 DEF Visible
<1>7. QED
  BY <1>1, <1>2, <1>4, <1>5, <1>6

\* What an answer about p may say of the pull requests: nothing but of p itself.
LEMMA AnswerHonest ==
  ASSUME TypeOK, KnownRows, KnownSole, AllHonest, Onward, refresh.at = "asking",
         NEW p \in refresh.left, Discover(p) \/ Update(p) \/ Gone(p) \/ Pass(p)
  PROVE  AllHonest'
<1> SUFFICES ASSUME NEW q \in Pulls, q \notin unwritten', q \notin Doubled' PROVE Honest(q)'
  BY DEF AllHonest
<1>0. /\ RowTypes /\ Len(rows) \in Nat /\ said \in [Pulls -> States]
      /\ p \in Pulls /\ refresh.known[p] \in 0 .. Len(rows) /\ github[p] \in States
  BY AskingType DEF TypeOK, RowTypes, OtherTypes
<1>1. q \notin Doubled
  BY ShownStep
<1>2. CASE UNCHANGED <<rows, said, unwritten>>
  BY <1>1, <1>2 DEF AllHonest, Honest, RowsOf, Visible
<1>3. CASE Insert(p, "OPEN") /\ Undiscovered(p) /\ said' = [said EXCEPT ![p] = "OPEN"]
           /\ UNCHANGED unwritten
  <2>1. ASSUME NEW r \in RowsOf(q)', Visible(r)' PROVE rows'[r].state \in {"unknown", said'[q]}
    <3>1. \/ r \in RowsOf(q) /\ Visible(r) /\ rows'[r].state = rows[r].state
          \/ q = p /\ r = Len(rows) + 1 /\ r \notin RowsOf(q) /\ rows'[r].state = "OPEN"
      BY <1>0, <1>3, <2>1, InsertHonest
    <3>2. CASE q = p
      <4>1. Grown(q)
        BY <1>0, <1>3, <3>2, InsertGrown
      <4>2. Len(rows) + 1 \notin RowsOf(q)
        BY <1>0 DEF RowsOf, RowTypes
      <4>3. ~Calm(q)
        BY <4>1, <4>2 DEF Grown, Calm
      <4>4. \A u \in RowsOf(q) : ~Visible(u)
        BY <4>3, ShownStep
      <4>5. rows'[r].state = "OPEN"
        BY <3>1, <4>4
      <4>6. QED
        BY <1>0, <1>3, <3>2, <4>5
    <3>3. CASE q # p
      <4>1. r \in RowsOf(q) /\ Visible(r) /\ rows'[r].state = rows[r].state /\ said'[q] = said[q]
        BY <1>0, <1>3, <3>1, <3>3
      <4>2. Honest(q)
        BY <1>1, <1>3 DEF AllHonest
      <4>3. QED
        BY <4>1, <4>2 DEF Honest
    <3>4. QED
      BY <3>2, <3>3
  <2>2. QED
    BY <2>1 DEF Honest
<1>4. ASSUME NEW state \in States, Facts(refresh.known[p], state), refresh.known[p] # NoRow,
             said' = [said EXCEPT ![p] = state], unwritten' = unwritten \ {p}
      PROVE  Honest(q)'
  <2>1. refresh.known[p] \in 1 .. Len(rows) /\ rows[refresh.known[p]].pull = p
    BY <1>0, <1>4 DEF NoRow, KnownRows
  <2>2. ASSUME NEW r \in RowsOf(q)', Visible(r)' PROVE rows'[r].state \in {"unknown", said'[q]}
    <3>1. /\ r \in RowsOf(q) /\ Visible(r)
          /\ r # refresh.known[p] => rows'[r].state = rows[r].state
          /\ r = refresh.known[p] => rows'[r].state = state
      BY <1>0, <1>4, <2>1, <2>2, FactsHonest
    <3>2. CASE q = p
      <4>1. r = refresh.known[p]
        BY <1>1, <1>4, <3>1, <3>2 DEF KnownSole
      <4>2. QED
        BY <1>0, <1>4, <3>1, <3>2, <4>1
    <3>3. CASE q # p
      <4>1. r # refresh.known[p]
        BY <2>1, <3>1, <3>3 DEF RowsOf
      <4>2. said'[q] = said[q] /\ q \notin unwritten
        BY <1>0, <1>4, <3>3
      <4>3. Honest(q)
        BY <1>1, <4>2 DEF AllHonest
      <4>4. QED
        BY <3>1, <4>1, <4>2, <4>3 DEF Honest
    <3>4. QED
      BY <3>2, <3>3
  <2>3. QED
    BY <2>2 DEF Honest
<1>5. ASSUME UNCHANGED rows, unwritten' = unwritten \cup {p}, NEW what, said' = [said EXCEPT ![p] = what]
      PROVE  Honest(q)'
  <2>1. q # p /\ q \notin unwritten /\ said'[q] = said[q]
    BY <1>0, <1>5
  <2>2. Honest(q)
    BY <1>1, <2>1 DEF AllHonest
  <2>3. QED
    BY <1>5, <2>1, <2>2 DEF Honest, RowsOf, Visible
<1>6. CASE Discover(p)
  BY <1>2, <1>3, <1>6 DEF Discover
<1>7. CASE Update(p)
  <2>1. CASE Facts(refresh.known[p], github[p]) /\ unwritten' = unwritten \ {p}
    <3>1. said' = [said EXCEPT ![p] = github[p]] /\ refresh.known[p] # NoRow
      BY <1>7 DEF Update
    <3>2. QED
      BY <1>0, <1>4, <2>1, <3>1
  <2>2. CASE UNCHANGED rows /\ unwritten' = unwritten \cup {p}
    <3>1. said' = [said EXCEPT ![p] = github[p]]
      BY <1>7 DEF Update
    <3>2. QED
      BY <1>5, <2>2, <3>1
  <2>3. QED
    BY <1>7, <2>1, <2>2 DEF Update
<1>8. CASE Gone(p)
  <2>1. said' = [said EXCEPT ![p] = "unknown"] /\ refresh.known[p] # NoRow /\ "unknown" \in States
    BY <1>8 DEF Gone, States
  <2>2. \/ Facts(refresh.known[p], "unknown") /\ unwritten' = unwritten \ {p}
        \/ UNCHANGED rows /\ unwritten' = unwritten \cup {p}
    BY <1>8 DEF Gone, Unknown
  <2>3. QED
    BY <1>4, <1>5, <2>1, <2>2
<1>9. CASE Pass(p)
  BY <1>2, <1>9 DEF Pass, answers
<1>10. QED
  BY <1>6, <1>7, <1>8, <1>9

\* Every step keeps the chips honest.
LEMMA HonestStep ==
  ASSUME TypeOK, KnownRows, KnownSole, AllHonest, Onward
  PROVE  AllHonest'
<1>0. RowTypes /\ TaskTypes /\ Len(rows) \in Nat
  BY DEF TypeOK, RowTypes
<1>1. Doubled \subseteq Doubled'
  <2>1. Doubled \subseteq Pulls
    BY DEF TypeOK, OtherTypes, Doubled
  <2>2. QED
    BY <2>1, ShownStep
<1>2. ASSUME UNCHANGED answers,
             \A q \in Pulls : \A r \in RowsOf(q)' : Visible(r)' =>
               rows'[r].state = "unknown" \/ (r \in RowsOf(q) /\ Visible(r) /\ rows'[r].state = rows[r].state)
      PROVE  AllHonest'
  BY <1>1, <1>2 DEF AllHonest, Honest, answers
<1>3. CASE UNCHANGED <<rows, answers>>
  BY <1>2, <1>3 DEF RowsOf, Visible
<1>4. ASSUME NEW t \in Tasks, Record(t) PROVE AllHonest'
  <2>1. task[t].pull \in Pulls /\ UNCHANGED answers
    BY <1>0, <1>4, TaskType DEF Record
  <2>2. CASE UNCHANGED rows
    BY <1>3, <2>1, <2>2
  <2>3. CASE Insert(task[t].pull, "unknown")
    BY <1>0, <1>2, <2>1, <2>3, InsertHonest
  <2>4. QED
    BY <1>4, <2>2, <2>3 DEF Record
<1>5. ASSUME NEW t \in Tasks, Hide(t) PROVE AllHonest'
  <2>1. task[t].left \subseteq 1 .. Len(rows) /\ UNCHANGED answers
    BY <1>0, <1>5, TaskType DEF Hide
  <2>2. ASSUME NEW k \in 1 .. Len(rows), Hides(k) PROVE AllHonest'
    <3>1. /\ RowTypes' /\ Len(rows') = Len(rows)
          /\ \A s \in 1 .. Len(rows) :
               rows'[s].pull = rows[s].pull /\ rows'[s].state = rows[s].state
      BY <1>0, <2>2, HideEffect
    <3>2. \A q \in Pulls : Calm(q)
      BY <1>0, <2>2, HideCalm
    <3>3. ASSUME NEW q \in Pulls, NEW r \in RowsOf(q)', Visible(r)'
          PROVE  r \in RowsOf(q) /\ Visible(r) /\ rows'[r].state = rows[r].state
      <4>1. r \in RowsOf(q) /\ Visible(r)
        BY <3>2, <3>3 DEF Calm
      <4>2. r \in 1 .. Len(rows)
        BY <1>0, <4>1 DEF RowsOf, RowTypes
      <4>3. QED
        BY <3>1, <4>1, <4>2
    <3>4. QED
      BY <1>2, <2>1, <3>3
  <2>3. QED
    BY <1>3, <1>5, <2>1, <2>2 DEF Hide
<1>6. CASE Answer
  BY <1>6, AnswerHonest DEF Answer
<1>7. CASE Others
  BY <1>3, <1>7 DEF Others, Moves, Direct, Refer, State, Dismiss, Refresh, ReadRows, NoGh,
    Finish, Stall, vars
<1>8. QED
  BY <1>4, <1>5, <1>6, <1>7, NextCases DEF RowSteps

\* After a crash the chips are honest but where it lost what was written.
LEMMA HonestCrash ==
  ASSUME TypeOK, AllHonest, Crash
  PROVE  AllHonest'
<1> SUFFICES ASSUME NEW p \in Pulls, p \notin unwritten', p \notin Doubled'
             PROVE  Honest(p)'
  BY DEF AllHonest
<1>1. p \notin unwritten /\ p \notin Doubled /\ p \notin LostPulls /\ UNCHANGED said
  BY DEF Crash, Doubled, doubles
<1>2. RowsOf(p)' = RowsOf(p) /\ \A r \in RowsOf(p) : rows'[r] = rows[r]
  BY <1>1, CrashKeeps
<1>3. QED
  BY <1>1, <1>2 DEF AllHonest, Honest, Visible

\* A chip says what GitHub last said of its pull request, or that nothing is
\* known, for any number of refreshes, dismissals and failures; but where the
\* answer could not be stored, or the pull request is doubled.
THEOREM ChipIsHonestHolds == Spec => []ChipIsHonest
<1>1. Init => KnownRows /\ KnownSole /\ AllHonest
  BY DEF Init, KnownRows, KnownSole, AllHonest, Honest, RowsOf, NoRefresh
<1>2. TypeOK /\ OneVisible /\ KnownRows /\ KnownSole /\ AllHonest /\ [Next]_vars
        => (KnownRows /\ KnownSole /\ AllHonest)'
  <2> SUFFICES ASSUME TypeOK, OneVisible, KnownRows, KnownSole, AllHonest, [Next]_vars
               PROVE  (KnownRows /\ KnownSole /\ AllHonest)'
    OBVIOUS
  <2>1. CASE Onward
    BY <2>1, KnownStep, KnownSoleStep, HonestStep
  <2>2. CASE Crash
    BY <2>2, KnownCrash, HonestCrash DEF KnownRows, KnownSole
  <2>3. QED
    BY <2>1, <2>2, OnwardOrCrash
<1>3. TypeOK /\ AllHonest => ChipIsHonest
  BY CanonicalRow DEF TypeOK, AllHonest, Honest, ChipIsHonest, Doubled
<1>4. QED
  BY <1>1, <1>2, <1>3, TypeCorrect, OneVisibleHolds, PTL DEF Spec
=============================================================================
