# AgencyZero in TLA+

AgencyZero is a desktop window (Tauri, SolidJS) over command-line coding agents.
The window talks to a Rust backend (`apps/gui/src`) through calls and events; the
backend starts agent runs in a daemon, AgencyProxy, that outlives the window, and
keeps what it learns in a local store. This directory models the parts of that system
where several of these act at once, or where one of them may die between two steps: who
may run in a project and how a run is told to stop, what becomes of the words typed and
of the words streamed, which daemon there is, what the store on disk can be after a
crash, how the app leaves, and which rows a refresh, a merge or a clock may change.

Paths below are relative to the repository; `*.rs` files without a directory are in
`apps/gui/src`, `workspace.tsx` is in `apps/gui/frontend/src/stores`, and `lib.rs` is in
`crates/wt-migrate/src`.

## 1. The system

### Parts, state, operations

| Part | State it keeps | Operations |
| --- | --- | --- |
| Run signals, `cancel.rs` | three latches (cancel, failed injection, failed ping) of a run, one Notify | `Cancel::cancel`, `Latch::set`, `Signals::stopped`, `Signals::changed`, `Cancelled::poll` |
| Run registry, `projects.rs` (`ActiveRuns`, `RunReservation`, `drive_run`) | project → live run; the running tool calls and open questions of each project | claim by `send_message`, `compact_project_with`, `sync_project`; `RunReservation::drop`; `cancel_run`, `reset_project_session`, `delete_project`, `wait_until_idle`, `wait_until_released` |
| Mid-turn messages, `projects.rs` | the inject channel, the delivery channel, the worker | `send_message` on a taken slot, `accept_injection`, `deliver_injection`, the tail of `drive_run` |
| Prompt queue, `workspace.tsx` | held prompts, the status line, `compacting`, `pendingCompact`, timers | `sendKnownMessage`, `flushQueue`, `compactProject`, the handlers of `run:*` |
| Approvals and idle watchdog, the loop of `drive_run` | questions waiting for the owner, remembered rules; last activity, unanswered pings, a grant | ask, `resolve_approval`, deadline; expiry, ping, give up, an `extend` directive |
| Reply checkpoint, `projects.rs` | the streamed reply, its checkpoint rows, the rows of the transcript, the completion mark, the daemon's journal | `write_partial_reply`, `flush_continued_agent_chunk`, `persist_terminal_agent_chunk`, `recover_partial_replies_excluding`, `sync_project` |
| AgencyProxy connection, `agent_proxy.rs` | Cold, Live, Crashed or Stopped; the start gate; the child processes | `connect`, `stop`, `terminate`, `restart`, the child watcher, a run's lost stream |
| Store, `main.rs`, `lib.rs`, `store_backup.rs` | directories beside the store, a phase file | `resume_page_format_migration`, `migrate_page_format_v2`, `migrate_forward`, `rebuild_rejected_store`, `restore` |
| Restart and quit, `main.rs`, `workspace.tsx` | a scheduled action and its token, the restart marker, the drain | `schedule_agent_restart`, `confirm_agent_restart`, `drain_tables_once`, `quit_app`, SIGTERM, the boot's `take_restart_resume` |
| Tracked items, `projects.rs` | items, their statuses and retirement markers | clicks, directives, forks, `age_finished_items`, merges |
| Pull requests, `prs.rs` | rows, the refresh lease | `refresh_project`, `record_url`, `dismiss_association`, `finish_shipped_items_for_pr` |
| Settings, usage, side features, tools, rendering | rows and files | parsing, arithmetic, file copies |

### How they meet

- The window calls the backend (`invoke`); answers come back in any order. The backend
  emits events, which the window handles in the order of emission. Answers and events
  are not ordered with each other.
- `send_message` looks at the registry once, under its lock. An empty slot is claimed
  and a driver (`drive_run`) spawned; a slot held by an agent that takes follow-ups gives
  out a sender of the run's inject channel; anything else is refused as busy.
- The driver selects over the daemon's events, its signals, its inject channel and a
  timer. Its tail closes its inputs, tears the run down, stores the outcome and drops the
  reservation, which notifies waits and emits `run:slot_released`.
- `cancel_run`, a forced reset, `sync_project` and `delete_project` reach into the
  registry from other tasks, with awaits on the daemon between reading and writing it.
- A run survives the window: the next process reads the store, lists the daemon's runs,
  releases those that were consumed and adopts the others from the checkpoint's sequence.
- Every call to the daemon goes through one `connect`, shared with Stop and Restart.
- A directive line in a reply changes items and pull request rows while the reply still
  streams; a refresh that asks GitHub writes to the same rows over minutes.

### What is hard

Threads throw a latch while a task is between reading it and parking. An entry is judged
by something read before an await. A message is in one of two channels when the other end
closes. A refusal's answer and the event that was to follow it arrive in either order. A
word is acknowledged to the daemon before or after the row that holds it is on disk. Two
callers find no daemon at once. A process dies between two renames. A row is changed
while a task that has read it awaits something. The list, each at its line, is `hazards`
in `PROJECT.json`.

### What makes each part correct

- signals: no wake is lost; a wait completes for its own fact only.
- registry: no slot leaks; nobody frees a slot that is not theirs; a driver holds its slot
  while it lives; a stopped turn gives it up; a wait for the slot hears its release; what
  a run leaves in the shared tables goes with it.
- mid-turn messages: read in order; every message is accounted for; a failed delivery
  ends the run.
- queue: a prompt is in one place; a held prompt is sent.
- turn: an answer reaches its own question; a working turn is not given up, a hung one is.
- checkpoint: what the daemon may forget is stored here, but for the ways section 5 names; no
  word is stored twice.
- connection: one daemon; a stopped one stays stopped; an orderly stop is no crash.
- store: one whole copy survives anything; no interruption makes a profile unbootable.
- restart and quit: nobody leaves with open tables; a restart waits for the window, and
  continues its conversation once.
- items and pull requests: a finished item goes, not early and not never; a merge finishes
  what was shipped with it; a dismissed chip stays dismissed.

## 2. Modules

| Module | Models | Checked through |
| --- | --- | --- |
| `SignalPromise` | what a wait of `Signals` promises, without Notify or registrations | as `KeepsPromise` of `RunSignals` |
| `RunSignals` | `cancel.rs`: every load, registration, poll and broadcast is a step | `MCRunSignals`, `Runs_proofs` |
| `RunRegistry` | the registry, the drivers and the commands that reach into it | `MCRunRegistry` (two configurations), `Runs_proofs` |
| `Injection` | the follow-ups of one run, from `send_message` to the provider | `MCInjection`, `Prompts_proofs` |
| `PromptQueue` | one project's held prompts between the window and the backend | `MCPromptQueue`, `Prompts_proofs` |
| `TurnLoop` | one pass of `drive_run`'s loop: idle window, pings, approvals, the lines of a reply | `MCTurnLoop`, `TurnLoop_proofs` |
| `ReplyCheckpoint` | the words of a reply between the daemon's journal, the checkpoint and the transcript | `MCReplyCheckpoint`, `ReplyCheckpoint_proofs` |
| `ProxyConnection` | the connection state, the start gate, the daemons and their watchers | `MCProxyConnection`, `ProxyConnection_proofs` |
| `StoreMigration` | the store's directories through conversion, migration, rebuild and restore | `MCStoreMigration`, `StoreMigration_proofs` |
| `AgentRestart` | restarts, quits, signals, the drain and the restart marker, over processes | `MCAgentRestart`, `AgentRestart_proofs` |
| `TrackedItems` | statuses, retirement, forks and ageing of items | `MCTrackedItems`, `Items_proofs` |
| `PullRequests` | rows of pull requests, the refresh, dismissals and merges | `MCPullRequests`, `Items_proofs` |

What one module says of a neighbour is kept small and stands for what the neighbour's
module shows: `Injection` and `TurnLoop` see of the registry only that an entry may be taken
away, `PromptQueue` sees of a run what its events tell the window, `ReplyCheckpoint` and
`RunRegistry` share the daemon's runs as sequence numbers and as lives, `AgentRestart` sees
of `PullRequests` the lease.

### RunSignals

`set` is the three AtomicBools; `owes` marks a thread between the swap and
`notify_waiters`; `wake` is a waiter's registration, `armed` until a broadcast rings it.
`SignalWait` is the check-register-check-await loop of `Signals::stopped` and `changed`,
`CancelledPoll` the three attempts in one poll of `Cancelled`, which reads the flag
before each registration and never after it. `OtherArm` is another `select!` arm that
wins and drops the future; `HandlePing` is `drive_run` noting a failed ping. `Kind` says
which wait each waiter is.

### RunRegistry

A reservation names a claim and its driver. `phase` is the place in `send_message` and
`drive_run`: claimed, starting, live, leaving (the tables are cleared), teardown
(`run.finish` or `run.cancel`), settling (the outcome), drop (the entry goes), notify
(waits are rung). Dropping and notifying are two steps because `release` frees the lock
between them. A `/compact` is a driver with `command`, which records nothing in the
tables. `turn` is the daemon run a driver follows: its own, or after a restart the one
`sync_project` adopted. The daemon is external: a run of it is live until it ends by
itself or is cancelled. `Restart` is the death of the window's process and an empty
`AppState`. `Stops` stand for presses of Stop and for forced resets: both read the entry,
await the daemon and then remove that entry, in three steps. A `Syncs` element is one
`sync_project`, from its `list_runs` snapshot to the adoption. `Waits` are
`delete_project` (with a project as target), the agent restart and Quit Both.

### Injection

One run, from the claim to the release. `Route` is the clone of the sender under the
lock, `Send` the send some awaits later. `inbox` and `outbox` are the two unbounded
channels, `worker` the message the delivery task awaits. `loop` says whether the driver
is starting, in its main loop, waiting for an approval, or in its tail. A delivery that
fails may or may not have been read.

### PromptQueue

The window's state is `queue`, `status`, `compacting` and `timers`; `calls` are
`sendMessage` calls between `dispatch` and their answer, each with the step the backend
has reached; `events` is the emitted sequence. `flushQueue` is split at its await. A run
is reduced to what the window sees: claimed, accepted, ready, over, then the release of
the slot and its event as two steps. A follow-up's delivery succeeds (`DeliverNext`) or fails
(`DeliveryFails`); where it fails because only the daemon's answer was lost, the provider has
read the message (`unanswered`) and the window gets it back all the same. Stop and Compact are
pressed at most once.

### TurnLoop

A turn from its start to its release. Time passes in ticks that wait for everything due.
The idle window is what the code sets it to at each place: after an event, after a ping,
after a grant, after an answer. A question goes through its event, its place in the
approvals map, the owner's click, the write of a rule and the send of the answer, each a
step; a rule may answer a later question of the same signature. `ReadTwice` is what the
loop does with each complete line: it is given to the fence scanner once for the
watchdog's grant and once for the directives, on one fence state.

### ReplyCheckpoint

Words are numbered by the daemon's sequence. `said` and `acked` are the journal; `chunk` is what
the driver has not stored as a row, `store` the rows and checkpoints of the project, by the
order of their writes. Every write, prune, clear and acknowledgement is a step of its own, which
may fail as the code lets it (a prune or a clear that fails is logged, and the caller goes on),
and a crash may come before any of them. WorkTable queues the writes of each table for a
background task, and nothing here waits for it: so a crash (`Crash`) brings back, of the
checkpoints, any state they had since the last boot (`onDisk`), of the rows, any beginning that
is no shorter than the one of the last boot, and of the completion marks any of the new ones
(`kept`), each independently of the others. What this loses is `excused`, and only at the crash
itself. A crash leaves the daemon, unless that dies too. `Boot` empties the process;
`RecoverCheckpoint` and `DropRecovered` are the boot's recovery, `SyncRelease` and `SyncAdopt`
what opening the project does. `Alike` says whether two turns may say the same text, since
`checkpoint_is_already_durable` compares text.

### ProxyConnection

Callers of `connect`, `stop`, `terminate` and `restart` step from await to await over one
`state`, loaded and stored without a lock; `gate` is `start_gate`. A daemon is unborn, starting,
listening, closing (it still answers), closed or dead; each one the app spawned has a watcher,
whose load and store are two steps. `AwaitsDaemon` says which callers wait for the daemon alone:
in a handshake, or for the answer to a `Shutdown`. A driver whose stream closes stores Crashed
over whatever is there.

### StoreMigration

A name is an entry of the store's parent directory and leads to a tree; `kept` are the
trees under stamped names. A tree is v2, an older schema or current, whole, torn, salvaged
or fresh. `survivors` are the parent directories a power loss may leave: all those since the
last sync of the parent. An operation that syncs leaves one. A tree that was not synced may
be torn by a power loss, whatever the directory says.

### AgentRestart

One process after another. `gate` and the scheduled token are the backend's, `told`, `open` and
the held prompts the window's. Runs start, end or are stopped; a restart is asked for,
announced, confirmed by a quiet window, armed, drained, marked and executed; the owner's quit
and SIGTERM are ways out that share the drain. The marker on disk outlives a process, and
the next boot takes it once and continues the conversation.

### TrackedItems

An item has a status, a marker with its remaining turns (both store rows of a marker in
one), an archived key and a number of forks. A job is a command, directive or message between
reading an item and writing it. `Message` to `Aged` is one pass of `age_finished_items_by` for
an accepted message. `current` and `steady` are what the model keeps of an ageing to say, in
`GraceKept` and `NotImmortal`, which items were written or aged under it; `misjudged` are the
items whose marker is not of the time they were finished: one that was archived or written
with an outdated marker, and one whose new marker a message ages between the marker's row and
the status it was written for, which takes three jobs at once.

### PullRequests

`rows` is the project's table in order of insertion, `github` what GitHub says of each pull
request. A refresh holds the lease, has read the rows, and goes over the repositories one
query at a time: rows are marked unknown, updated, or inserted for what is open and not
known. Tasks are directives (`pr.link`, then a status that ships an item with it) and
dismissals, which hide row after row. `disk` is what of the rows and of the items is on disk:
a table may fall behind (`Stall`), and a crash then brings back what it had at that point, for
each table on its own.

## 3. Runs

All twelve are passing runs. Each model may come to rest (a run that ended, an empty queue,
spent constants), so deadlock is not checked.

| Run | Instance | Distinct states | Shows |
| --- | --- | --- | --- |
| `signals` | two threads that throw a fact, a `changed()`, a `stopped()` and a `Cancelled` | 26,709 | no wake of `Signals` is lost (`NoLostWake`), no wait completes for a sibling's fact (`OnlyForItsFact`), and the waits of `Signals` implement `SignalPromise` (`KeepsPromise`) |
| `registry` | one project, two reservations, a Stop or forced reset, a synchronisation, a restart | 2,653,959 | a slot is held by a driver that will free it (`SlotHeldByItsDriver`), nobody frees one that is not theirs (`FreesOnlyItsOwn`), what a loop left in the shared tables goes with it (`NothingLeftBehind`) |
| `registry_own` | the same without Stops and synchronisations, with a delete and a wait for idle | 476,807 | a driver holds its slot while it lives (`AliveOwnsSlot`), no wait sleeps through a release (`NoWaitAsleep`), a stopped turn gives its slot up (`StoppedTurnFreesSlot`) |
| `injection` | three follow-ups into one run | 35,572 | they are read in order (`ReadInOrder`), what was sent is accounted for (`AcceptedIsAccounted`), a failed delivery frees the slot (`FailureFreesSlot`) |
| `queue` | two prompts against two runs, one Stop, Compact, failing call or failing delivery | 676,794 | no prompt is in two places but for a delivery that was read and not answered (`NoPromptTwice`), none the window holds is lost before a run has it (`HeldIsNeverLost`), one held while a run has the slot is dispatched (`HeldPromptIsSent`) |
| `turn` | two questions that share a signature, two pings | 1,241,361 | an answer is what the owner said of that question or a rule of theirs (`AnswerIsTheOwners`), one with a tool in flight is given up only after its pings went unanswered (`GiveUpOnlyWedged`), a hung one is (`SilenceEndsRun`) |
| `reply` | two turns that say the same, two incidents | 3,752,204 | what the daemon may forget is stored here but for named losses (`AckedIsKept`), a word is stored twice only by a replay (`TwiceOnlyIfReplayed`), what could be recovered stays so (`RecoverableStays`) |
| `proxy` | two callers, three calls, two daemons, one incident | 637,160 | one daemon (`OneDaemon`), a stopped one stays stopped but for those already behind the gate (`StoppedStaysStopped`), an orderly stop does not read as a crash (`OrderlyStopIsNoCrash`), calls return unless a daemon owes them an answer (`CallsReturn`) |
| `store` | six trees, three incidents | 478,885 | a whole copy of the rows is somewhere (`CopyKept`), and beside the store where it can be found (`SafeBeside`), no interruption makes the profile refuse to start for good (`NoDeadEnd`) |
| `restart` | two restarts, two runs, two ways out, one incident | 3,596,955 | nobody leaves with the tables open (`LeavesClosed`), a restart waits for the window (`FrontendFirst`), which confirms when it is quiet (`QuietIsConfirmed`), and the conversation is continued once (`ResumedOnce`) |
| `items` | one item, two jobs at a time, one failing write | 2,365,011 | a finished item is retired (`NotImmortal`), not before its turns (`GraceKept`), and a fork keeps its row (`AnchorKept`) |
| `prs` | one pull request, two rows, two moves on GitHub, two tasks, one item, one failure | 850,227 | one chip is visible (`OneVisible`) and says what GitHub said last (`ChipIsHonest`), a dismissal holds (`WavedStays`), a merge finishes what was shipped with it (`MergeFinishes`) |

Where the code breaks such a promise in known cases, the property names them as its
exceptions, and section 5 says what they are.

The type invariants are theorems (section 4).

### Bounds

- `Setters`, `Waiters`: two threads are needed for two facts at once and for the loser of
  a swap; the waiters are one of each kind, since waits do not see each other except
  through the Notify.
- `Reservations` = 2: every hazard of the registry is between a run and the one after
  it. Nothing in the registry relates two projects, so one is used; the theorems hold for
  any number. `Stops`, `Syncs` = 1, `MaxRestarts` = 1: a Stop, a synchronisation and a
  restart can overlap with each other and with both runs.
- `Messages` = 3: one being delivered, one accepted behind it, one still in the first
  channel.
- `Prompts`, `Runs` = 2: a prompt that finds the slot taken, and a run to take it
  afterwards. `MaxAttempts` = 1 where the code has 4: a retry and the retry that is not
  made both occur. `MaxIncidents` bounds presses of Stop and Compact and failing calls.
- `turn`: limits of 1 tick and `MaxPings` = 2 where the code has 4: the first, the last
  and the ping too many occur; `Granted` is longer than a window, or a grant would change
  nothing. Two questions of one signature, since only a similar one meets a rule.
- `reply`: the first turn has more words than fit a checkpoint (`Cap`), the second says the
  same first word; `LongPrefix` stands for `LEGACY_DURABLE_PREFIX_MIN`. Two incidents: a failed
  write and the crash after it, or two crashes.
- `proxy`: two callers, so one waits behind the gate; two daemons, so one can be started
  over the other; three calls, so that a stop and a restart can both overlap a use.
- `store`: six trees hold the store, the stage, the backup, a `next`, a staging tree and a
  kept one; three incidents: a failure, one in what handles it, and the power.
- `restart`: two of everything that can overtake another; one failure or expired deadline.
- `items`: one item, since items do not see each other but for positions, which are left
  out; `Retention` = 2 turns of grace, so that there is a turn that counts and does not
  retire; `MaxForks` = 2 for two clicks.
- `prs`: one pull request; two rows of it, two moves on GitHub (open, then merged, closed
  or back), two tasks, one item, since a pass over the items does the same to each, and one
  failure: a query or a write that fails, a crash, or a table that falls behind, which pays for
  the crash that shows it. With two failures TLC finds the same in 5,447,973 states, and with
  two items in 5,248,875; neither is a run here, for their length.
- Symmetry is used only where a run checks no liveness.

### Fairness

- `RunSignals`: a thread that swapped a flag goes on to broadcast, and a task that was
  woken is polled. Nothing makes a thread throw a fact or another `select!` arm fire.
- `RunRegistry`: a driver that can take its next step takes it. Only the steps that depend
  on nobody are fair: `Teardown` of a run that was not stopped needs the daemon's end,
  which is not.
- `Injection`: the worker goes on: a delivery is taken to be answered, well or badly.
  `INJECTION_CONFIRMATION` bounds how often a conflict is tried again, not a single request, so
  this is asked of the daemon. And a driver told to stop goes through its tail. Nobody has to
  answer an approval and no provider has to finish.
- `PromptQueue`: the window's one thread and the backend each go on while they have
  something to do. A turn is taken to end, as `SilenceEndsRun` shows of a silent one; text,
  Stop, Compact and failures need never happen.
- `TurnLoop`: time passes, and the loop takes its next step. The provider and the owner
  owe nothing.
- `ProxyConnection`: the executor polls every caller. Nothing is asked of the daemons, which
  may accept a connection and never say a word: a step that only a daemon's answer can end
  (`AwaitsDaemon`) is not fair, and `CallsReturn` names the callers that wait for one, or for a
  caller behind the gate that does.
- The other modules check safety only.

## 4. What is proved

Forty-six theorems, all for any value of the constants, from the named assumptions on
them. The prover has no fairness and no ENABLED, so the liveness half of `KeepsPromise`,
`StoppedTurnFreesSlot`, `FailureFreesSlot`, `HeldPromptIsSent`, `SilenceEndsRun` and
`CallsReturn` are only model-checked. Every safety property of a run is a theorem.

- `Runs_proofs`, its first half about `RunSignals`, from `KindAssumption`; the names both
  modules would have (`Init`, `Next`, ...) begin with `Signal` there. `NoLostWakeHolds`: the
  invariant alone is not inductive, since it says nothing of a waiter that has registered and
  not yet looked again. `Registered` adds that such a waiter holds a registration, and that one
  armed since before a fact went up has its broadcast owed. `OnlyForItsFactHolds` rests on
  latches never going down. `RefinesPromise`: every step is a step of `SignalPromise` or a
  stutter.
- `Runs_proofs`, its second half about `RunRegistry`, from `NoneAssumption`, `RestartAssumption` and
  `TargetAssumption`. `SlotNeverLeaked` is inductive with the types: a claim starts from an
  unused reservation, and a driver leaves `Alive` in the very step that frees its own
  entry. `FreesOnlyItsOwnHolds` follows from the types alone, action by action.
  `NothingLeftBehindHolds` needs `CommandsRecordNothing`: a `/compact` clears nothing, so
  the invariant is inductive only because it also records nothing. With Stops and
  synchronisations left out (`OnlyDropsFree`), nothing but a driver's drop frees a slot.
  Then `AliveOwnsSlotHolds`, from which a project never has two live runs
  (`OneRunWhereOnlyDropsFree`); and `NoWaitAsleepHolds`, since between a
  release and its ring a driver is in `notify`. The assumption is needed: with one Stop all
  of these fail (section 5).
- `Prompts_proofs`, its first half about `Injection`, from the assumption on `None`.
  `AcceptedIsAccountedHolds`: what was sent is, at every step, in the inbox, in the outbox, with
  the worker, read, handed back or dropped; once the tail has passed the first three are empty.
  `ReadInOrderHolds`: the read messages, then the worker's, the outbox and the inbox are in the
  order of `sent`.
- `Prompts_proofs`, its second half about `PromptQueue`, from `BoundsAssumption`; the names both
  modules would have begin with `Queue` there. `NoPromptTwiceHolds`: counting says too little,
  so `Sole` says of each of six places (the queue, the events, the calls, the openings, the
  inboxes, what was heard) that it has a prompt at most once and that no two have it, and
  `PromptsSole` that only a typed prompt is anywhere. A call that has claimed a run is the one
  place of its prompt until the run announces it, so `Claims` adds that the run still waits with
  that very prompt and no other call has claimed it, and `Openings` that an opening is one
  message and gone once it is read. What was heard counts without `unanswered`, the prompts
  whose delivery was read and taken for failed, which may be held and heard again. Each action
  has a lemma: either it brings the prompt to no new place (`AllKept`), or it takes it out of
  the one it was in. `HeldIsNeverLostHolds` goes the other way through the same actions:
  whatever takes a prompt from the window's queue, its events or its flush puts it in another of
  these or with a run.
- `ReplyCheckpoint_proofs`, from `BoundsAssumption`. A checkpoint stands for the words up to its
  sequence (`LatestInv`), and so does what the driver has read, which is no less (`ReadInv`):
  every such word is in a row, in the body or was given up. A turn at its end, or marked, has
  that of all it said or may come to say (`TailInv`), and a checkpoint about to be deleted is in
  the rows (`GoingInv`). So no step loses a word, but for a crash that finds it queued
  (`RecoverableStaysHolds`), and each of the three ways to acknowledge finds its words kept
  (`AckedIsKeptHolds`). That nothing is stored twice (`TwiceOnlyIfReplayedHolds`) needs four
  more: what the chunk shares with the rows was replayed (`ChunkInv`), its checkpoint is its
  beginning under its time (`StampInv`), so a boot can tell the row that checkpoint became
  (`TellInv`), and two rows share only what was replayed (`OnceInv`). Their conjunction is `IInv`. The bound of the words is the greatest of a finite
  set, which exists by `LeastNumber` (`MaxWordsType`).
- `TurnLoop_proofs`. `GiveUpOnlyWedgedHolds`: the count of unanswered pings is reset with the
  silence, so a count at the limit is a silence that had that many. `AnswerIsTheOwnersHolds`:
  an answer on its way, a rule, and a click not yet carried out each go back to what the
  owner said of that question or of a similar one.
- `ProxyConnection_proofs`, from `CallersAssumption` and `BoundsAssumption`. `GateHeld`: whoever is
  behind the gate holds it. Then `OneDaemonHolds` with `AwaitedInv`: a daemon that is up while a
  caller polls is that caller's or has been given up. `StoppedStaysStoppedHolds` with `StopInv`:
  after a stop was done the state refuses, and only those behind the gate have it read already.
  `OrderlyStopIsNoCrashHolds` with `CrashInv`: without an excuse, a Live state has a listening
  daemon or a stop under way.
- `AgentRestart_proofs`. `LeavesClosedHolds`: the gate closes before the drain and no refresh
  begins behind it. `FrontendFirstHolds`: what confirms an action is the token of that action,
  and the window gives it when it is quiet. `ResumedOnceHolds`: the marker is taken from the
  disk before the conversation is continued. `QuietIsConfirmedHolds` needs to know what the
  window will know once it has handled its mail: `Slots` says that a run it would then show
  was accepted and has not ended, or was stopped, `TokenOut` that a restart which waits has
  its token told or last in the mail, and `Asked` that a window which knows the token is
  confirming it or has work left whose end makes it ask.
- `Items_proofs`, its first half about `TrackedItems`, from `RetentionAssumption` and
  `JobsAssumption` (the jobs in flight are finitely many). `ItemsTypeCorrect` is inductive
  with what an ageing's record looks like (`Shape`) and with as many forks of an item as
  handoffs under way, so that a failed one takes back its own (`ForksCounted`).
  `AnchorKeptHolds`: every job that is to delete a row has found it without forks, is the
  directive that does not look, or was overtaken (`DeletersAsked`), and so is a row that has
  gone (`GoneForsaken`). The other two are about one item at a time. `ItemMoves` says once for
  all actions what a step may mean to an item (`Moves1`: it is written, shelved, listed, looked
  at, counted, ...), so that an invariant is proved move by move instead of action by action.
  `NotImmortalHolds` with `Budget`: the ageings a finished item has come through and the half
  turns its marker still stands for (`Due`) are together no more than twice the retention,
  with one to spare once the ageing under way has taken its share; and an ageing for which the
  item was undisturbed is the only one (`AloneWith`). `GraceKeptHolds` with `Grace`: the half
  turns an item was listed for pay for the turns its marker lacks, for the half in its flag and
  for every message within a turn that has still to write its own (`Spent`), which is a
  cardinality, as any number of messages may have listed the item and not yet come to it.
  TLC checked these invariants with two and three jobs before they were proved.
- `Items_proofs`, its second half about `PullRequests`, whose constants need `PullsAssumption`
  and `BoundsAssumption`. `MergeFinishesHolds` needs `KnownRows`: what a refresh is still to ask
  about is a row of that pull request, as rows are only appended and never change theirs.
  `WavedStaysHolds` needs `Hiding`: a dismissal under way still holds every visible row of its
  pull request. A crash brings back what is on disk, so the disk has invariants of its own: what
  it has as merged was noticed (`DiskNoticed`), it has as many visible chips as it may
  (`DiskOne`), and what it does not have yet is what the crash gives up. `OneVisibleHolds`: a
  pull request gets another row only where none is visible, or in the two ways the property
  names. `ChipIsHonestHolds` shows more, that every visible row says the last answer or nothing
  (`AllHonest`), with `KnownSole`: the row a refresh has read is the only one of its pull
  request it may still have to correct. The list shows the least of a set of row numbers; that
  there is one is `LeastNumber`, from the library's theorem that `<` on the naturals is
  well-founded.
- `StoreMigration_proofs`, from `BoundsAssumption`. What a power loss leaves is any of the
  survivors, so the invariant (`Store`) is about each of them, and not only about the
  directory the processes see: each is `Sound`, and no survivor is on the other side of the
  step that makes the stage count. Before it (`Early`) the v2 tree is under the live name and
  nothing else is relied on; after it (`Half`) the stage is whole, synced and beside the backup
  or already the store with its sentinel; at rest a kept tree or the live one is whole and on
  disk. What is built or extracted beside the store is never synced (`Fresh`), so nothing can
  rely on it. `Reached` says what each step of a launch has found, `AsideKept` that what is to
  be put back is still there, the app's and the angel's being different trees. `CopyKeptHolds`
  and `SafeBesideHolds` follow from `Own`, `NoDeadEndHolds` from `Shape` and `Converted`.

`OneRunWhereOnlyDropsFree` names a property no run checks, because it holds only where its
assumption does.

## 5. What the models show of the code

Each of these is what the code does; where a line of the repository says otherwise, it is
quoted. None has a run of its own: the modules model what the code does, and the properties
name the exceptions.

Signals and registry

- `Cancelled::poll` (`cancel.rs:232`) reads the flag, then registers, and does not read it
  again: a `cancel()` in between wakes nobody. The doc promises "no race between cancelling
  and starting to wait" (`cancel.rs:109`). `/compact` waits this way.
- `cancel_run` (`projects.rs:7962`) removes the entry while its driver is alive, and so does a
  forced reset; the next send starts a second run, where a comment (`projects.rs:6500`) says
  this is what makes "one run per project" true in the backend. The tail of the old driver then
  clears the tool calls and the questions of the new one, by project id, where its comment
  (`projects.rs:13694`) says "Whatever the outcome, nothing in this project is running any
  more". No property says otherwise: what a tail takes is its own only where no Stop and no
  synchronisation has freed the slot, and there a second run does not exist. A slot freed this way rings no wait and emits
  no `run:slot_released`.
- `sync_project` (`projects.rs:11107`) judges the registry by a snapshot taken before it
  locked it, and releases and cancels a run that was claimed in between.
- `delete_project` reads the slot once; a send that claims it later runs while rows go.

Words typed

- The tail drops the inject channel with what is in it (`projects.rs:13713`): words reported
  as sent that nobody reads and nobody hands back. So does a failed start.
- A prompt whose refusal reaches the window after `run:slot_released`, or a row handed back by
  a late `run:inject_failed`, is held with nothing to send it (`workspace.tsx:3140`: "there
  the store queues, and the run's stop flushes").
- A delivery is taken for failed whenever the daemon's answer does not come
  (`projects.rs:5252`), also where the provider has read the message: the row goes back to the
  queue and is sent a second time.
- A `/compact` that fails after "learning" leaves the window compacting; a waiting compaction
  that is refused is swallowed. Two corrections may reach a turn in another order than typed.

The turn's loop

- A pong is never counted: an event clears what is outstanding before the pong is looked at.
  Up to twice `MAX_PINGS` pings go out in one silence.
- The bound on the start of a turn ("thread setup events do not extend it", `projects.rs:12505`)
  begins again at every setup event. A grant lasts until the next event of the provider.
- Each complete line goes to the fence scanner twice (`projects.rs:13149` and the directives'
  pass) on one state: a bare fence line opens and closes at once, and directives inside a fence
  are carried out, where `projects.rs:4577` says they are inert.
- A follow-up that is accepted before the turn has started widens the bound on its start
  (`projects.rs:12770`: "Injection is exposed only after a real turn event"): `send_message`
  hands out the sender whether or not it has.
- After an accepted cancel with a provider that hangs, the loop spins on a closed stream, the
  exception in `SilenceEndsRun`. The owner can be told their answer was taken when the
  provider was told of a deadline.

Words streamed

- No write is waited for before the daemon is told to forget the words (`projects.rs:13239`,
  `projects.rs:14395`): WorkTable "persists through a background task" (`db/tables.rs:947`),
  table by table, and "There is no `Drop` that drains" (`db/tables.rs:640`). A process that dies
  may so lose acknowledged words; and as a reply's row and the clearing of its checkpoint are
  writes of two tables, the clearing may be on disk and the row not. "never a moment with no
  recoverable row" (`projects.rs:5168`) holds of the tables, and on disk within the one table.
- A checkpoint clipped to its room is acknowledged, and adopted without the rest.
- A run that ended while the app was closed counts as live at boot (`main.rs:3068`), so its
  checkpoint is not recovered; `sync_project` then releases its journal unread, and the next
  turn's checkpoint takes the place of its own.
- A stopped turn whose row cannot be written keeps only its last checkpoint, until the next
  turn overwrites it.
- A crash between a continued row and the clearing of its checkpoint stores words twice on
  adoption; so does a failed insert, which loses the time stamp they are told apart by. A
  flush acknowledges nothing, so words already in a row are replayed.
- `checkpoint_is_already_durable` compares texts, not turns.

The daemon

- A connect that was under way stores Live over Stopped. A restart arms nothing before it asks,
  so a connect in between reports a crash. A stop that fails puts Live back although another
  was accepted. `terminate` on a cold manager does not take the gate.
- A watcher of an old daemon, or a run that loses the stream of one, marks the next one
  crashed. A clean exit nobody asked for leaves Live, and the next connect calls it a crash.
- A daemon that accepts and never answers holds a Stop or a Restart for good: neither the
  handshake nor the `Shutdown` request has a time limit (`agent_proxy.rs:327`,
  `agent_proxy.rs:443`), and `connect` holds the start gate across its second handshake.
- After a start that was not waited for to the end, a restart may start a second daemon.

The store

- A crash between the two renames of `migrate_forward`, `rebuild_rejected_store` or `restore`
  leaves no store under its name: the next launch creates and serves an empty one, the whole
  one beside it under a stamped name. `main.rs:2187` speaks of a rename that fails only. Where
  the phase file says "complete", the launch refuses instead.
- The trees published by these three are not synced first. The angel takes no lock, so it may
  replace a store that a session has open.

Leaving

- A run stopped by `cancel_run` emits no release, so the window stays busy and a scheduled
  restart is not confirmed before its 600 seconds are over. A token announced while the window
  confirms an older one is not asked again until something else happens.
- SIGTERM during the owner's quit exits while the drain is in progress (`main.rs:3168`: "every
  exit anyone can catch must drain"). A refresh slower than 15 seconds makes every later quit
  refuse. A prompt held after the confirmation can be lost from the window's queue.
- A death between the marker and the exit leaves a marker that continues a turn at some later
  start; a failed removal of the marker is ignored.

Items and pull requests

- Two clicks on a fork create two children, which `projects.rs:2439` says "cannot create
  competing workers". Ageing deletes an item that was reopened between its look and its delete.
  Retiring from a project's tab deletes the row a fork is anchored to.
- A dismissed pull request that is still open comes back with the next refresh, and a
  reopened one gets one more row at every refresh, while its chip says CLOSED: discovery
  looks only at visible rows that have not ended (`prs.rs:498`), though its comment says
  "Anything open with no row yet becomes one".
- `finish_shipped_items_for_pr` goes by number and not by repository. An item shipped after its
  merge was noticed is never finished, as merged rows are not asked about again. Finishing
  writes "finished" over whatever the item became meanwhile.
- Rows and items are tables with a queue each: an application that dies may have MERGED on disk
  and not the "finished" of what the merge delivered, which then stays shipped, and a dismissal
  that was not written yet is lost.
- A refresh asked for while another runs is dropped. `gh` is called without a time limit.

## 6. Plan

Done, in this order: the registry and its signals, mid-turn messages, the prompt queue, the
turn's loop with approvals and the watchdog, the reply's checkpoint, the daemon's connection,
the store, restart and quit, items, pull requests; each with its MC module and its proofs.

What is left, most valuable first:

1. `Reviews`: pull request and item reviews stored while a run is not ready, told at its next
   chance; they interleave with steers and with the end of a turn (`projects.rs:3495`,
   `projects.rs:5271`, `projects.rs:11485`).
2. The restart gate in `PromptQueue`, and the frontend's confirmation composed with it.

## 7. Abstractions and what is left out

- Registry and turn: the daemon that has accepted a cancel ends the run or falls silent. One
  that keeps emitting would hold `run.cancel()`, whose time limit is per event
  (`agent_proxy.rs:1256`). `rows` says whether a driver has entries in a table, not which.
  `RunRegistry`'s `Restart` leaves the store alone; what the store then holds is
  `ReplyCheckpoint`'s question.
- Queue: `run:text` is emitted only where the window has lost its status line, the only
  place it changes one; the steps that close a run and hand messages back are one; a
  prompt has no body, and a held prompt cannot be removed by hand.
- Turn: steers before the price cliff, a compaction resumed in mid-turn and remembered
  directory rules are left out; the cleanup's bound is an end that may come at any time.
- Queued writes: the queue of a table is written in order, and no page is left half written. In
  `ReplyCheckpoint` a reply's row, with its chunks in `message_chunk`, is one write, and older
  checkpoints beside the newest do not come back. In `PullRequests` a table that has fallen
  behind does not catch up before the crash: one that does loses nothing.
- Checkpoint: the one-time upgrade and repair of older builds' checkpoints is left out, and
  a next turn starts only when earlier runs have ended at the daemon.
- Connection: `shutdown_legacy_proxy`, for daemons before protocol 1.3, is left out; a daemon
  that closes a stream without the run's last word is one of the bounded incidents.
- Store: which rows a salvage keeps, and the making of packages and snapshots, are not
  modelled; nor is the freshness of rows written after a tree was set aside.
- Restart: the daemon's own termination in Quit Both is `ProxyConnection`'s `terminate`.
- Items: one project; titles, positions, priorities, references, contexts, Home's proposed
  deletions and `item_completion` are left out; the two rows of a marker are one.
- Pull requests: each has a repository to itself, a query and its answer are two steps, a link
  without an item is left out, and of the status directives only `shipped` is there.
- Reviewer messages, Home's one-shot runs, the study harness and the mock are left out.
- Not modelled at all: settings and imports, usage and pricing, presence and experiments,
  the command-line tools, rendering. They are arithmetic, parsing or I/O with no
  interleaving of their own; `components` in `PROJECT.json` says so one by one.
