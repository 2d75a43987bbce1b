---------------------------- MODULE ReplyCheckpoint ----------------------------
(***************************************************************************)
(* What keeps a streamed reply through a crash: the checkpoints drive_run  *)
(* writes, the rows it stores, the journal the daemon keeps until it is    *)
(* acknowledged, and what boot and sync_project make of them afterwards    *)
(* (apps/gui/src/projects.rs).  One project, its turns one after another;  *)
(* a word is a text delta, and word w of a turn is event w of its journal. *)
(* A write that returned is in the table's memory; its way to disk is a    *)
(* queue of the table's own (Tables::shutdown of db/tables.rs), which a    *)
(* crash cuts off at any place.                                            *)
(***************************************************************************)
EXTENDS Naturals, FiniteSets, Sequences, SequencesExt

CONSTANTS
  LastTurn,    \* turns of the project
  Words,       \* bound: how many words each turn says
  Cap,         \* words a checkpoint has room for (MAX_PERSISTED_BLOB)
  LongPrefix,  \* words of LEGACY_DURABLE_PREFIX_MIN
  Alike,       \* the turns say the same text
  MaxIncidents,\* bound: crashes, and writes and requests that fail
  None         \* no stamp

ASSUME BoundsAssumption ==
  /\ {LastTurn, Cap, LongPrefix} \subseteq Nat \ {0}
  /\ Words \in [1 .. LastTurn -> Nat \ {0}]
  /\ MaxIncidents \in Nat /\ Alike \in BOOLEAN

VARIABLES
  run,         \* per turn: none, live, ended, or gone from the daemon
  said,        \* words the run has said
  acked,       \* words the daemon no longer keeps
  app,         \* down, recovering, recovered (not yet cleaned up), up
  listed,      \* live_proxy_runs of this boot
  turn,        \* the turn drive_run drives
  at,          \* where drive_run is
  latest,      \* ProxyRun.latest_sequence
  chunk,       \* streamed_chunk
  stamp,       \* chunk_started_at
  result,      \* how the run ended
  checkpoints, \* the project's reply_checkpoint rows, oldest first
  rows,        \* the agent rows of the transcript
  marked,      \* turns with agency-proxy-complete
  onDisk,      \* what a boot may find of reply_checkpoint: its newest row, or none,
               \* at any time since this boot
  kept,        \* rows and marks this boot found, and no crash takes away
  incidents,   \* how many there were
  excused,     \* history: words that were given up in a way named below
  replayed     \* history: words taken in again, in a way named below, that a row had

daemon == <<run, said, acked>>
memory == <<turn, at, latest, chunk, stamp, result>>
tables == <<checkpoints, rows, marked>>
disk == <<onDisk, kept>>
store == <<tables, disk>>
boot == <<app, listed>>
history == <<excused, replayed>>
vars == <<daemon, memory, store, boot, incidents, history>>

Turns == 1 .. LastTurn
MaxWords == Max(Range(Words))
Points == {"idle", "streaming", "flushing", "pruning", "acking", "continued",
           "settling", "stored", "marking", "releasing"}
Word(t, w) == <<t, w>>
WordsOf(t, body) == {Word(t, w) : w \in ToSet(body)}
Stamps == Turns \X (0 .. MaxWords) \X (0 .. MaxIncidents)

IsCheckpoint(c) ==
  /\ c.turn \in Turns /\ c.seq \in 0 .. MaxWords /\ c.stamp \in Stamps \cup {None}
  /\ c.body \in Seq(1 .. MaxWords) /\ c.body # <<>>
IsRow(r) ==
  /\ r.turn \in Turns /\ r.stamp \in Stamps \cup {None}
  /\ r.body \in Seq(1 .. MaxWords)

TypeOK ==
  /\ run \in [Turns -> {"none", "live", "ended", "gone"}]
  /\ said \in [Turns -> 0 .. MaxWords] /\ acked \in [Turns -> 0 .. MaxWords]
  /\ \A t \in Turns : acked[t] <= said[t]
  /\ app \in {"down", "recovering", "recovered", "up"} /\ listed \subseteq Turns
  /\ turn \in 0 .. LastTurn /\ at \in Points /\ latest \in 0 .. MaxWords
  /\ chunk \in Seq(1 .. MaxWords) /\ stamp \in Stamps \cup {None}
  /\ result \in {"ok", "stopped"}
  /\ \A i \in DOMAIN checkpoints : IsCheckpoint(checkpoints[i])
  /\ \A i \in DOMAIN rows : IsRow(rows[i])
  /\ \A s \in onDisk : s # <<>> => Len(s) = 1 /\ IsCheckpoint(s[1])
  /\ kept.rows \in 0 .. Len(rows) /\ kept.marked \subseteq marked
  /\ marked \subseteq Turns /\ incidents \in 0 .. MaxIncidents
  /\ app # "up" => at = "idle"
  /\ excused \cup replayed \subseteq Turns \X (1 .. MaxWords)

Init ==
  /\ run = [t \in Turns |-> "none"]
  /\ said = [t \in Turns |-> 0] /\ acked = [t \in Turns |-> 0]
  /\ app = "up" /\ listed = {} /\ turn = 0 /\ at = "idle" /\ latest = 0
  /\ chunk = <<>> /\ stamp = None /\ result = "ok"
  /\ checkpoints = <<>> /\ rows = <<>> /\ marked = {} /\ incidents = 0
  /\ onDisk = {<<>>} /\ kept = [rows |-> 0, marked |-> {}]
  /\ excused = {} /\ replayed = {}

Incident == incidents < MaxIncidents /\ incidents' = incidents + 1
Smooth == incidents' = incidents

\* Whole words in the durable rows, and what a boot could still recover.
InRows == UNION {WordsOf(rows[i].turn, rows[i].body) : i \in DOMAIN rows}
Latest == checkpoints[Len(checkpoints)]
InCheckpoint ==
  IF checkpoints = <<>> THEN {} ELSE WordsOf(Latest.turn, Latest.body)
Recoverable == InRows \cup InCheckpoint

\* The words of every checkpoint since this boot.
InEarlier == UNION {WordsOf(s[1].turn, s[1].body) : s \in onDisk \ {<<>>}}

\* reply_checkpoint changes, and what of it reaches the disk before a crash.
PutCheckpoints(new) ==
  /\ checkpoints' = new
  /\ onDisk' = onDisk \cup {IF new = <<>> THEN <<>> ELSE <<new[Len(new)]>>}

\* delete_by_project takes the checkpoint of another turn along, unread; when it
\* fails, that is logged, and the caller goes on.
ClearCheckpoints(t) ==
  \/ /\ Smooth /\ PutCheckpoints(<<>>)
     /\ excused' = excused \cup
          (IF checkpoints # <<>> /\ Latest.turn # t THEN InCheckpoint \ InRows ELSE {})
  \/ Incident /\ UNCHANGED <<checkpoints, onDisk, excused>>

-----------------------------------------------------------------------------
\* The daemon and its provider.

Say(t) ==
  /\ run[t] = "live" /\ said[t] < Words[t]
  /\ said' = [said EXCEPT ![t] = @ + 1]
  /\ UNCHANGED <<run, acked, memory, store, boot, incidents, history>>

End(t) ==
  /\ run[t] = "live" /\ run' = [run EXCEPT ![t] = "ended"]
  /\ UNCHANGED <<said, acked, memory, store, boot, incidents, history>>

\* AckEvents with u64::MAX: an ended run has nothing more to keep.
ReleaseJournal(t) ==
  /\ acked' = [acked EXCEPT ![t] = said[t]]
  /\ run' = [run EXCEPT ![t] = IF @ = "ended" THEN "gone" ELSE @]

DaemonDies ==
  /\ Incident /\ \E t \in Turns : run[t] \in {"live", "ended"}
  /\ run' = [t \in Turns |-> IF run[t] = "none" THEN "none" ELSE "gone"]
  /\ UNCHANGED <<said, acked, memory, store, boot, history>>

-----------------------------------------------------------------------------
\* drive_run, from its start to its tail.

Enter(t, body, seq, began) ==
  /\ turn' = t /\ at' = "streaming" /\ chunk' = body /\ latest' = seq /\ stamp' = began
  /\ result' = "ok"

\* The reply itself is not looked at any more.
Past(p) ==
  /\ at' = p /\ turn' = (IF p = "idle" THEN 0 ELSE turn)
  /\ latest' = 0 /\ chunk' = <<>> /\ stamp' = None /\ result' = "ok"
Leave == Past("idle")
Go(p) == at' = p /\ UNCHANGED <<turn, latest, chunk, stamp, result>>

StartTurn ==
  \E t \in Turns :
    /\ app = "up" /\ at = "idle" /\ run[t] = "none"
    /\ \A s \in 1 .. (t - 1) : run[s] \in {"ended", "gone"}
    /\ run' = [run EXCEPT ![t] = "live"]
    /\ Enter(t, <<>>, 0, None)
    /\ UNCHANGED <<said, acked, store, boot, incidents, history>>

\* Event::Text: what was sent since the attachment arrives, each sequence once.
Receive ==
  LET next == latest + 1 IN
  /\ at = "streaming" /\ next <= said[turn]
  /\ latest' = next /\ chunk' = Append(chunk, next)
  /\ stamp' = IF chunk = <<>> THEN <<turn, next, incidents>> ELSE stamp
  /\ at' \in {"streaming", "flushing"}
  /\ replayed' = replayed \cup ({Word(turn, next)} \cap (InRows \cup InEarlier))
  /\ UNCHANGED <<daemon, turn, result, store, boot, incidents, excused>>

\* encode_partial_reply keeps the head of a long reply.
Clip(body) == IF Len(body) > Cap THEN SubSeq(body, 1, Cap) ELSE body

\* The sequence stands for the words past Cap too: no later driver asks for them.
WriteCheckpoint ==
  /\ at = "flushing"
  /\ \/ /\ Smooth /\ Go("pruning")
        /\ PutCheckpoints(Append(checkpoints,
             [turn |-> turn, body |-> Clip(chunk), stamp |-> stamp, seq |-> latest]))
        /\ excused' = excused \cup WordsOf(turn, SubSeq(chunk, Cap + 1, Len(chunk))) \cup
             (IF checkpoints # <<>> /\ Latest.turn # turn THEN InCheckpoint ELSE {})
     \/ /\ Incident /\ Go("streaming") /\ UNCHANGED <<checkpoints, onDisk, excused>>
  /\ UNCHANGED <<daemon, rows, marked, kept, boot, replayed>>

\* A row that cannot be deleted is logged; when the rows cannot be listed,
\* write_partial_reply returns that, and nothing is acknowledged.
PruneOlder ==
  /\ at = "pruning"
  /\ \/ Smooth /\ Go("acking") /\ PutCheckpoints(<<Latest>>)
     \/ Incident /\ (Go("acking") \/ Go("streaming")) /\ UNCHANGED <<checkpoints, onDisk>>
  /\ UNCHANGED <<daemon, rows, marked, kept, boot, history>>

AckThrough == latest

\* Mutant of AcknowledgeFrom: acknowledged although nothing was written.
AcknowledgeEarly == {"flushing"}
AcknowledgeFrom == {"acking"}

Acknowledge ==
  /\ at \in AcknowledgeFrom /\ Go("streaming")
  /\ \/ /\ Smooth /\ run[turn] \in {"live", "ended"}
        /\ acked' = [acked EXCEPT ![turn] = IF AckThrough > @ THEN AckThrough ELSE @]
     \/ /\ Incident /\ UNCHANGED acked
     \/ /\ run[turn] = "gone" /\ Smooth /\ UNCHANGED acked
  /\ UNCHANGED <<run, said, store, boot, history>>

\* accept_injection: a message of the owner closes the chunk before it.

AcceptInjection ==
  /\ at = "streaming" /\ chunk # <<>>
  /\ \/ /\ Smooth /\ at' = "continued" /\ chunk' = <<>>
        /\ rows' = Append(rows, [turn |-> turn, body |-> chunk, stamp |-> stamp])
     \/ /\ Incident /\ UNCHANGED <<at, chunk, rows>>
  /\ stamp' = None
  /\ UNCHANGED <<daemon, turn, latest, result, checkpoints, marked, disk, boot, history>>

ClearContinued ==
  /\ at = "continued" /\ Go("streaming") /\ ClearCheckpoints(turn)
  /\ UNCHANGED <<daemon, rows, marked, kept, boot, replayed>>

\* The loop ends: the run's own end, read to its last word, or a stop, a
\* failure or a lost connection; what was said and not read is not wanted then.
Finish ==
  /\ at = "streaming"
  /\ \/ /\ run[turn] = "ended" /\ latest >= said[turn] /\ result' = "ok" /\ UNCHANGED <<run, excused>>
     \/ /\ result' = "stopped"
        /\ run' \in {run, [run EXCEPT ![turn] = IF @ = "live" THEN "ended" ELSE @]}
        /\ excused' = excused \cup {Word(turn, w) : w \in (latest + 1) .. Words[turn]}
  /\ at' = "settling"
  /\ UNCHANGED <<said, acked, turn, latest, chunk, stamp, store, boot, incidents, replayed>>

\* persist_terminal_agent_chunk.  An answer that cannot be stored ends the
\* turn there, unmarked; a stopped one goes on, and only keeps its checkpoint.
AfterFailedInsert == IF result = "ok" THEN "idle" ELSE "marking"

StoreTerminal ==
  /\ at = "settling"
  /\ \/ /\ Smooth /\ Past("stored")
        /\ rows' = IF chunk # <<>>
                   THEN Append(rows, [turn |-> turn, body |-> chunk, stamp |-> stamp])
                   ELSE rows
        /\ UNCHANGED excused
     \/ /\ Incident /\ Past(AfterFailedInsert) /\ UNCHANGED rows
        /\ excused' = excused \cup
             (IF result = "ok" THEN {} ELSE WordsOf(turn, chunk) \ InCheckpoint)
  /\ UNCHANGED <<daemon, checkpoints, marked, disk, boot, replayed>>

ClearTerminal ==
  /\ at = "stored" /\ Go("marking") /\ ClearCheckpoints(turn)
  /\ UNCHANGED <<daemon, rows, marked, kept, boot, replayed>>

MarkComplete ==
  /\ at = "marking"
  /\ \/ /\ Smooth /\ Go("releasing") /\ marked' = marked \cup {turn}
     \/ /\ Incident /\ Leave /\ UNCHANGED marked
  /\ UNCHANGED <<daemon, checkpoints, rows, disk, boot, history>>

AcknowledgeAll ==
  /\ at = "releasing" /\ Leave
  /\ \/ /\ Smooth /\ ReleaseJournal(turn)
     \/ /\ Incident /\ UNCHANGED <<acked, run>>
  /\ UNCHANGED <<said, store, boot, history>>

-----------------------------------------------------------------------------
\* A crash, the next boot, and opening the project.

\* Of each table the writes that were still queued are gone, whichever table the
\* rest of them went to; words that only those held are given up.
Crash ==
  /\ Incident /\ app # "down" /\ app' = "down" /\ listed' = {}
  /\ Leave
  /\ checkpoints' \in onDisk /\ onDisk' = {checkpoints'}
  /\ \E n \in kept.rows .. Len(rows) : rows' = SubSeq(rows, 1, n)
  /\ marked' \in SUBSET marked /\ kept.marked \subseteq marked'
  /\ kept' = [rows |-> Len(rows'), marked |-> marked']
  /\ excused' = excused \cup (Recoverable \ Recoverable')
  /\ UNCHANGED <<daemon, replayed>>

\* list_runs lists every run that still has a journal, the ended ones too; when
\* it fails, none is known.
Boot ==
  /\ app = "down" /\ app' = "recovering"
  /\ \/ /\ Smooth /\ listed' = {t \in Turns : run[t] \in {"live", "ended"}}
     \/ /\ Incident /\ listed' = {}
  /\ UNCHANGED <<daemon, memory, store, history>>

\* checkpoint_is_already_durable compares text and stamps, never the turn.
SameText(r, c) == Alike \/ r.turn = c.turn
\* Mutant of Durable: no row is looked at.
DurableNever(c) == FALSE
Durable(c) ==
  \E i \in DOMAIN rows :
    LET r == rows[i] IN
    /\ SameText(r, c) /\ IsPrefix(c.body, r.body)
    /\ \/ r.body = c.body
       \/ c.stamp # None /\ c.stamp = r.stamp
       \/ Len(c.body) >= LongPrefix

\* A failed insert has taken the time the chunk began, and it tells no more.
Unstamped(c) ==
  c.stamp = None \/ \E i \in DOMAIN rows : rows[i].turn = c.turn /\ rows[i].stamp = None

\* Mutant of AfterFailedRecovery: its checkpoint is dropped like a recovered one.
AfterFailedRecoveryDrop == "recovered"
AfterFailedRecovery == "up"

RecoverCheckpoint ==
  /\ app = "recovering"
  /\ IF checkpoints = <<>> \/ (checkpoints # <<>> /\ Latest.turn \in listed)
     THEN Smooth /\ app' = "up" /\ UNCHANGED <<rows, history>>
     ELSE IF Durable(Latest)
     THEN /\ Smooth /\ app' = "recovered" /\ UNCHANGED <<rows, replayed>>
          /\ excused' = excused \cup (InCheckpoint \ InRows)
     ELSE /\ UNCHANGED excused
          /\ \/ /\ Smooth /\ app' = "recovered"
                /\ rows' = Append(rows, [turn |-> Latest.turn, body |-> Latest.body,
                             stamp |-> Latest.stamp])
                /\ replayed' = replayed \cup
                     (IF Unstamped(Latest) THEN InCheckpoint \cap InRows ELSE {})
             \/ /\ Incident /\ app' = AfterFailedRecovery /\ UNCHANGED <<rows, replayed>>
  /\ UNCHANGED <<daemon, memory, checkpoints, marked, disk, listed>>

DropRecovered ==
  /\ app = "recovered" /\ app' = "up" /\ ClearCheckpoints(Latest.turn)
  /\ UNCHANGED <<daemon, memory, rows, marked, kept, listed, replayed>>

\* sync_project on a run that is marked, or that ended: its journal is let go
\* of, whatever of it was never read.
SyncRelease(t) ==
  /\ app = "up" /\ (run[t] = "ended" \/ (run[t] = "live" /\ t \in marked))
  /\ ReleaseJournal(t)
  /\ excused' = excused \cup
       (IF t \in marked THEN {} ELSE {Word(t, w) : w \in (acked[t] + 1) .. said[t]})
  /\ UNCHANGED <<said, memory, store, boot, incidents, replayed>>

\* A live run is driven again from its checkpoint, or else from the first event
\* the daemon still has; the whole journal after that is sent again.
SyncAdopt(t) ==
  /\ app = "up" /\ at = "idle" /\ run[t] = "live" /\ t \notin marked
  /\ IF checkpoints # <<>> /\ Latest.turn = t
     THEN Enter(t, Latest.body, Latest.seq, Latest.stamp)
     ELSE Enter(t, <<>>, acked[t], None)
  /\ replayed' = replayed \cup (WordsOf(t, chunk') \cap InRows)
  /\ UNCHANGED <<daemon, store, boot, incidents, excused>>

-----------------------------------------------------------------------------
Next ==
  \/ \E t \in Turns : Say(t) \/ End(t) \/ SyncRelease(t) \/ SyncAdopt(t)
  \/ DaemonDies \/ StartTurn \/ Receive \/ WriteCheckpoint \/ PruneOlder \/ Acknowledge
  \/ AcceptInjection \/ ClearContinued \/ Finish \/ StoreTerminal \/ ClearTerminal
  \/ MarkComplete \/ AcknowledgeAll
  \/ Crash \/ Boot \/ RecoverCheckpoint \/ DropRecovered

Spec == Init /\ [][Next]_vars

-----------------------------------------------------------------------------
\* A word the daemon was allowed to forget is in a row or in the checkpoint a boot
\* would recover, but for the words given up in these ways: they were past the room
\* of the checkpoint, a stop cut them off, a stopped turn's row could not be written,
\* their run's end was never read, another turn's checkpoint took the place of
\* theirs, their text was taken for an earlier reply's, or all that held them when
\* the process died was writes its tables still had queued.
AckedIsKept ==
  LET safe == Recoverable \cup excused IN
  \A t \in Turns : \A w \in 1 .. acked[t] : Word(t, w) \in safe

\* What a boot could recover from the tables it still can after they change: a row
\* is in before its checkpoint goes, a new checkpoint before the old one, and what
\* could not be recovered is kept.  It is about the order the process writes in; a
\* crash may lose the queued end of one table and not of the other, and takes only
\* the words that nothing else held.
RecoverableStays ==
  [][tables' # tables => Recoverable \subseteq Recoverable' \cup excused']_vars

\* No word stands in two rows of the transcript, unless a crash fell between its
\* row and the checkpoint's removal or the acknowledgement, and the next driver
\* of the run was given it again, or a boot could not know the row by its time.
Copies(t, w) == Cardinality({i \in DOMAIN rows : rows[i].turn = t /\ w \in ToSet(rows[i].body)})
TwiceOnlyIfReplayed ==
  \A t \in Turns, w \in 1 .. MaxWords :
    Copies(t, w) > 1 => Word(t, w) \in replayed
=============================================================================
