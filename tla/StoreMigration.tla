----------------------------- MODULE StoreMigration -----------------------------
(***************************************************************************)
(* What happens to the owner's store between a launch and a session: the   *)
(* resumable conversion from page format v2 (wt-migrate), the migration    *)
(* and the rebuild beside the live store (main.rs), and the restore of a   *)
(* package by the restart angel (store_backup.rs, angel.rs).               *)
(*                                                                         *)
(* A name is an entry of the directory that holds the store and leads to a *)
(* tree.  A process may die between two steps, an operation may fail, and  *)
(* power may go: then any directory since the last sync of the parent may  *)
(* be what is left, and a tree that was not synced may be torn.            *)
(***************************************************************************)
EXTENDS Integers

CONSTANTS
  MaxTrees,     \* bound: trees there are at one time
  MaxIncidents, \* bound: deaths, power losses and failed operations
  MaxRestores   \* bound: packages the owner restores

ASSUME BoundsAssumption == MaxTrees \in Nat \ {0} /\ MaxIncidents \in Nat /\ MaxRestores \in Nat

VARIABLES
  dir,       \* the parent directory as processes see it: names, kept trees, phase
  survivors, \* the directories a power loss may leave
  tree,      \* what each tree holds
  pc,        \* where the app's process is
  aside,     \* the tree it moved away from the live name
  angel,     \* where the angel is
  displaced, \* the tree the angel moved away from the live name
  incidents, restores

disk == <<dir, survivors, tree>>
app == <<pc, aside>>
helper == <<angel, displaced>>
bounds == <<incidents, restores>>
vars == <<disk, app, helper, bounds>>

Trees == 1 .. MaxTrees
Absent == 0
Names == {"db", "stage", "backup", "next", "staging"}
Phases == {"none", "exporting", "validated", "source-preserved", "complete"}
\* The files of a tree: all the owner's rows, some of them, those a rebuild could
\* read, or those of a first launch.
Contents == [form : {"v2", "old", "now"}, data : {"whole", "torn", "salvaged", "fresh"},
             synced : BOOLEAN, sentinel : BOOLEAN]
Directories == [at : [Names -> Trees \cup {Absent}], kept : SUBSET Trees, phase : Phases]

There(n) == dir.at[n] # Absent

\* ... and a tree has one name.
TypeOK ==
  /\ dir \in Directories /\ dir \in survivors /\ \A d \in survivors : d \in Directories
  /\ tree \in [Trees -> Contents]
  /\ pc \in {"off", "refused", "resume", "discard", "unphase", "finish", "preserved",
             "promote", "rollback", "complete", "reclaim", "settle", "peek", "export",
             "exporting", "import", "validate", "build", "set aside", "publish",
             "put back", "drop next", "open", "scratch"}
  /\ angel \in {"none", "extract", "set aside", "install", "put back", "drop"}
  /\ aside \in Trees \cup {Absent} /\ displaced \in Trees \cup {Absent}
  /\ \A n \in Names : There(n) =>
       dir.at[n] \notin dir.kept /\ \A m \in Names \ {n} : dir.at[m] # dir.at[n]
  /\ incidents \in 0 .. MaxIncidents /\ restores \in 0 .. MaxRestores

\* An ordinary store, or one that was converted from v2 before.
Init ==
  /\ \E form \in {"v2", "old", "now"}, phase \in {"none", "complete"} :
       /\ form = "v2" => phase = "none"
       /\ dir = [at |-> [n \in Names |-> IF n = "db" THEN 1 ELSE Absent],
                 kept |-> {}, phase |-> phase]
       /\ tree = [t \in Trees |->
            [form |-> form, data |-> "whole", synced |-> TRUE, sentinel |-> FALSE]]
  /\ survivors = {dir}
  /\ pc = "off" /\ aside = Absent /\ angel = "none" /\ displaced = Absent
  /\ incidents = 0 /\ restores = 0

-----------------------------------------------------------------------------
Put(n, t) == [dir EXCEPT !.at[n] = t]
Unlinked(n) == Put(n, Absent)
\* A directory does not replace another.
CanRename(from, to) == There(from) /\ ~There(to)
Renamed(from, to) == [dir EXCEPT !.at[to] = dir.at[from], !.at[from] = Absent]
\* Names that carry a stamp are never used again.
\* Mutant of KeptAs: what makes room is deleted.
KeptNowhere(n) == [dir EXCEPT !.at[n] = Absent]
KeptAs(n) == [dir EXCEPT !.kept = @ \cup {dir.at[n]}, !.at[n] = Absent]
BackAt(t) == [dir EXCEPT !.at["db"] = t, !.kept = @ \ {t}]

\* An operation that is not synced, and one that is followed by sync_parent.
Changes(d) == dir' = d /\ survivors' = survivors \cup {d}
Syncs(d) == dir' = d /\ survivors' = {d}
Incident == incidents < MaxIncidents /\ incidents' = incidents + 1
Goes(at) == pc' = at /\ UNCHANGED aside
OnlyApp == UNCHANGED <<helper, restores>>

\* The next step of the app, or an error of it, that ends the launch with the
\* change made or not.
Step(from, d, to) ==
  /\ pc = from /\ OnlyApp /\ UNCHANGED tree
  /\ \/ Syncs(d) /\ Goes(to) /\ UNCHANGED incidents
     \/ Incident /\ Goes("off") /\ (Changes(d) \/ Changes(dir))
\* The same for a removal, which is not synced and may stop halfway.
Removal(from, n, to) ==
  /\ pc = from /\ OnlyApp
  /\ \/ Changes(Unlinked(n)) /\ Goes(to) /\ UNCHANGED <<tree, incidents>>
     \/ /\ There(n) /\ Incident /\ Goes("off")
        /\ tree' = [tree EXCEPT ![dir.at[n]].data = "torn"] /\ Changes(dir)
Decides(from, to) ==
  pc = from /\ Goes(to) /\ UNCHANGED <<disk, incidents>> /\ OnlyApp

-----------------------------------------------------------------------------
\* resume_page_format_migration and finish_page_format_promotion.

\* The lock keeps a second app out; the angel takes none.
Launch ==
  /\ pc \in {"off", "refused"} /\ pc' = "resume" /\ aside' = Absent
  /\ UNCHANGED <<disk, incidents>> /\ OnlyApp

Resume ==
  Decides("resume",
    CASE dir.phase = "none" ->
           IF ~There("db") /\ There("backup") THEN "finish" ELSE "peek"
      [] dir.phase = "exporting" ->
           IF There("db") /\ ~There("backup") THEN "discard" ELSE "refused"
      [] dir.phase \in {"validated", "source-preserved"} -> "finish"
      [] dir.phase = "complete" ->
           IF There("db") /\ ~There("stage") THEN "reclaim" ELSE "refused")

\* What an interrupted export left is derived; the v2 source is still there.
Discard == Removal("discard", "stage", "unphase")
Unphase == Step("unphase", [dir EXCEPT !.phase = "none"], "peek")

Promoted == tree[dir.at["db"]].sentinel

FinishDecides ==
  /\ There("db") => There("backup")
  /\ Decides("finish",
       IF There("db") THEN IF ~There("stage") /\ Promoted THEN "complete" ELSE "refused"
       ELSE IF There("backup") THEN "preserved" ELSE "refused")

Preserve ==
  /\ There("db") /\ ~There("backup") /\ Step("finish", Renamed("db", "backup"), "preserved")

MarkPreserved ==
  Step("preserved", [dir EXCEPT !.phase = "source-preserved"],
       IF There("stage") THEN "promote"
       ELSE IF There("db") /\ There("backup") THEN "complete" ELSE "refused")

\* The sentinel is in the tree before the rename that publishes it.
\* Mutant of Sentinel: it is written nowhere.
SentinelLater == tree
Sentinel == [tree EXCEPT ![dir.at["stage"]].sentinel = TRUE]

Promote ==
  /\ pc = "promote" /\ OnlyApp
  /\ tree' = Sentinel
  /\ \/ /\ CanRename("stage", "db") /\ Syncs(Renamed("stage", "db"))
        /\ Goes("complete") /\ UNCHANGED incidents
     \/ /\ CanRename("stage", "db") /\ Incident /\ Changes(Renamed("stage", "db"))
        /\ Goes("off")
     \/ /\ Incident \/ (~CanRename("stage", "db") /\ UNCHANGED incidents)
        /\ Goes(IF There("db") THEN "off" ELSE "rollback") /\ Changes(dir)

\* The sentinel itself cannot be written.
Unmarked ==
  pc = "promote" /\ OnlyApp /\ UNCHANGED <<disk, aside>> /\ Incident /\ pc' = "off"

\* The v2 source goes back to its name, and the phase to what it was.
Rollback ==
  /\ pc = "rollback" /\ OnlyApp /\ Goes("off") /\ UNCHANGED tree
  /\ \/ /\ CanRename("backup", "db") /\ UNCHANGED incidents
        /\ Syncs([Renamed("backup", "db") EXCEPT !.phase = "validated"])
     \/ /\ Incident
        /\ \/ Changes(dir)
           \/ CanRename("backup", "db") /\ Changes(Renamed("backup", "db"))

MarkComplete == Step("complete", [dir EXCEPT !.phase = "complete"], "reclaim")
Reclaim == Removal("reclaim", "backup", "settle")
Settle == Step("settle", dir, "peek")

-----------------------------------------------------------------------------
\* The boot's look at the store, and migrate_page_format_v2.

Unused == {t \in Trees : \A d \in survivors : t \notin d.kept /\ \A n \in Names : d.at[n] # t}
NewTree(form, data) == [form |-> form, data |-> data, synced |-> FALSE, sentinel |-> FALSE]
\* The first tree nothing leads to is made under the name.
Makes(n, form, data) ==
  /\ Unused # {}
  /\ LET t == CHOOSE t \in Unused : \A u \in Unused : t <= u IN
       tree' = [tree EXCEPT ![t] = NewTree(form, data)] /\ Changes(Put(n, t))

\* No store at all is a first launch.
FirstLaunch ==
  /\ pc = "peek" /\ ~There("db") /\ Makes("db", "now", "fresh")
  /\ Goes("open") /\ UNCHANGED incidents /\ OnlyApp

\* One that cannot be read, or that the owner keeps from migrating, is left.
Peek ==
  /\ There("db")
  /\ LET found == tree[dir.at["db"]] IN
       \/ Decides("peek",
            IF found.form = "v2" THEN (IF There("backup") THEN "refused" ELSE "export")
            ELSE IF found.form = "old" \/ found.data = "torn" THEN "build" ELSE "open")
       \/ (found.form # "now" \/ found.data = "torn") /\ Decides("peek", "scratch")

Export == Removal("export", "stage", "exporting")
MarkExporting == Step("exporting", [dir EXCEPT !.phase = "exporting"], "import")

\* Rows are read back from the closed stage before it counts.
Import ==
  /\ pc = "import" /\ OnlyApp
  /\ \/ ~There("stage") /\ Makes("stage", "now", "torn") /\ Goes("import") /\ UNCHANGED incidents
     \/ /\ There("stage") /\ Changes(dir) /\ Goes("validate") /\ UNCHANGED incidents
        /\ tree' = [tree EXCEPT ![dir.at["stage"]].data = tree[dir.at["db"]].data]
     \* a reader or an import that fails leaves nothing and refuses the launch
     \/ /\ Incident /\ Goes("off") /\ UNCHANGED tree
        /\ Changes([Unlinked("stage") EXCEPT !.phase = "none"])

\* Mutant of StageSynced: the stage is renamed as it was closed.
StageClosed == tree
StageSynced == [tree EXCEPT ![dir.at["stage"]].synced = TRUE]

Validate ==
  /\ pc = "validate" /\ OnlyApp /\ tree' = StageSynced
  /\ \/ Syncs([dir EXCEPT !.phase = "validated"]) /\ Goes("finish") /\ UNCHANGED incidents
     \/ Incident /\ Goes("off") /\ Changes(dir)

-----------------------------------------------------------------------------
\* migrate_forward and rebuild_rejected_store: beside the store, then two renames.

Build ==
  /\ pc = "build" /\ OnlyApp
  /\ LET found == tree[dir.at["db"]] IN
       \/ ~There("next") /\ Makes("next", "now", "torn") /\ Goes("build") /\ UNCHANGED incidents
       \/ /\ There("next") /\ There("db") /\ Changes(dir) /\ Goes("set aside") /\ UNCHANGED incidents
          \* a table that cannot be carried starts empty
          /\ \E data \in {"salvaged"} \cup (IF found.data = "whole" THEN {"whole"} ELSE {}) :
               tree' = [tree EXCEPT ![dir.at["next"]].data = data]
       \/ /\ Incident \/ (~There("db") /\ UNCHANGED incidents)
          /\ Goes("drop next") /\ UNCHANGED disk

SetAside ==
  /\ pc = "set aside" /\ OnlyApp /\ UNCHANGED tree
  /\ \/ /\ There("db") /\ UNCHANGED incidents
        /\ aside' = dir.at["db"] /\ Changes(KeptAs("db")) /\ pc' = "publish"
     \/ /\ Incident \/ (~There("db") /\ UNCHANGED incidents)
        /\ Goes("drop next") /\ UNCHANGED <<dir, survivors>>

Publish ==
  /\ pc = "publish" /\ OnlyApp /\ UNCHANGED tree
  /\ \/ /\ CanRename("next", "db") /\ Changes(Renamed("next", "db"))
        /\ Goes("open") /\ UNCHANGED incidents
     \/ /\ Incident \/ (~CanRename("next", "db") /\ UNCHANGED incidents)
        /\ Goes("put back") /\ UNCHANGED <<dir, survivors>>

\* The tree that is put back comes out of the kept ones; the new one is dropped
\* only if it is.
PutBack ==
  /\ pc = "put back" /\ OnlyApp /\ UNCHANGED tree
  /\ \/ /\ ~There("db") /\ UNCHANGED incidents /\ Goes("drop next")
        /\ Changes(BackAt(aside))
     \/ /\ Incident \/ (There("db") /\ UNCHANGED incidents)
        /\ Goes("scratch") /\ UNCHANGED <<dir, survivors>>

\* A removal that fails halfway is not noticed.
DropNext ==
  /\ pc = "drop next" /\ OnlyApp /\ Goes("scratch")
  /\ \/ Changes(Unlinked("next")) /\ UNCHANGED <<tree, incidents>>
     \/ /\ There("next") /\ Incident /\ Changes(dir)
        /\ tree' = [tree EXCEPT ![dir.at["next"]].data = "torn"]

-----------------------------------------------------------------------------
\* A session, its end, and the angel that restores a package after it.

\* A stamp is not used twice: what a launch left beside the store stays there.
Leftovers(n) == IF There(n) THEN KeptAs(n) ELSE dir

Close ==
  /\ pc \in {"open", "scratch"} /\ Goes("off") /\ Changes(Leftovers("next"))
  /\ UNCHANGED <<tree, incidents>> /\ OnlyApp

AskRestore ==
  /\ pc = "open" /\ Goes("off") /\ angel = "none"
  /\ restores < MaxRestores /\ restores' = restores + 1
  /\ angel' = "extract" /\ displaced' = Absent /\ UNCHANGED <<disk, incidents>>

AngelGoes(at) == angel' = at /\ UNCHANGED <<displaced, app, restores>>

Extract ==
  /\ angel = "extract"
  /\ \/ ~There("staging") /\ Makes("staging", "now", "torn") /\ AngelGoes("extract") /\ UNCHANGED incidents
     \/ /\ There("staging") /\ AngelGoes("set aside") /\ Changes(dir) /\ UNCHANGED incidents
        /\ tree' = [tree EXCEPT ![dir.at["staging"]].data = "whole"]
     \/ AngelGoes("drop") /\ Incident /\ UNCHANGED disk

AngelSetsAside ==
  /\ angel = "set aside" /\ UNCHANGED <<tree, app, restores>>
  /\ \/ /\ There("db") /\ UNCHANGED incidents
        /\ displaced' = dir.at["db"] /\ Changes(KeptAs("db")) /\ angel' = "install"
     \/ /\ Incident \/ (~There("db") /\ UNCHANGED incidents)
        /\ angel' = "drop" /\ UNCHANGED <<dir, survivors, displaced>>

Install ==
  /\ angel = "install" /\ UNCHANGED tree
  /\ \/ /\ CanRename("staging", "db") /\ Changes(Renamed("staging", "db"))
        /\ AngelGoes("none") /\ UNCHANGED incidents
     \/ /\ Incident \/ (~CanRename("staging", "db") /\ UNCHANGED incidents)
        /\ AngelGoes("put back") /\ UNCHANGED <<dir, survivors>>

AngelPutsBack ==
  /\ angel = "put back" /\ AngelGoes("drop") /\ UNCHANGED tree
  /\ \/ /\ ~There("db") /\ UNCHANGED incidents
        /\ Changes(BackAt(displaced))
     \/ /\ Incident \/ (There("db") /\ UNCHANGED incidents)
        /\ UNCHANGED <<dir, survivors>>

\* Without a live store the staged one is left for the owner.
AngelDrops ==
  /\ angel = "drop" /\ AngelGoes("none") /\ UNCHANGED <<tree, incidents>>
  /\ Changes(IF There("db") THEN Unlinked("staging") ELSE Leftovers("staging"))

-----------------------------------------------------------------------------
\* A process is killed: what it had under a stamped name stays there.
Killed ==
  /\ Incident /\ UNCHANGED <<tree, restores>>
  /\ \/ /\ pc \notin {"off", "refused"} /\ Goes("off") /\ Changes(Leftovers("next"))
        /\ UNCHANGED helper
     \/ angel # "none" /\ AngelGoes("none") /\ Changes(Leftovers("staging"))

\* Both are gone, the directory is any of the survivors, and what was not synced
\* may be torn.
PowerLoss ==
  /\ Incident /\ UNCHANGED <<restores, aside, displaced>> /\ pc' = "off" /\ angel' = "none"
  /\ \E d \in survivors :
       /\ dir' = [d EXCEPT !.at["next"] = Absent, !.at["staging"] = Absent,
                           !.kept = @ \cup ({d.at["next"], d.at["staging"]} \ {Absent})]
       /\ survivors' = {dir'}
  /\ \E torn \in SUBSET {t \in Trees : ~tree[t].synced} :
       tree' = [t \in Trees |->
         [tree[t] EXCEPT !.synced = TRUE, !.data = IF t \in torn THEN "torn" ELSE @]]

Boot ==
  \/ Launch \/ Resume \/ Discard \/ Unphase \/ FinishDecides \/ Preserve \/ MarkPreserved
  \/ Promote \/ Unmarked \/ Rollback \/ MarkComplete \/ Reclaim \/ Settle
  \/ FirstLaunch \/ Peek \/ Export \/ MarkExporting \/ Import \/ Validate
  \/ Build \/ SetAside \/ Publish \/ PutBack \/ DropNext \/ Close
Angel == Extract \/ AngelSetsAside \/ Install \/ AngelPutsBack \/ AngelDrops

Next == Boot \/ AskRestore \/ Angel \/ Killed \/ PowerLoss

Spec == Init /\ [][Next]_vars

-----------------------------------------------------------------------------
\* Whatever is left by a power loss now, some tree in it has all the owner's
\* rows, and has them on disk.
CopyKept ==
  \A d \in survivors :
    \E t \in d.kept \cup ({d.at[n] : n \in Names} \ {Absent}) :
      tree[t].data = "whole" /\ tree[t].synced

\* No interruption leaves the conversion in a state the next launch refuses: it
\* does so only for a profile converted long ago whose live store something else
\* had moved away.
NoDeadEnd ==
  [][pc # "refused" /\ pc' = "refused" => dir.phase = "complete" /\ ~There("db")]_vars

\* A session whose store lacks rows (a death between two renames, a tree that power
\* tore, a table that could not be carried) has the whole one beside it, under a
\* name nothing takes away.
SafeBeside ==
  pc = "open" /\ (There("db") => tree[dir.at["db"]].data # "whole")
    => \E t \in dir.kept : tree[t].data = "whole" /\ tree[t].synced
=============================================================================
