# A TLA+ development of pi-agent-board

pi-agent-board keeps a board of coding-agent sessions ("views").  Dashboards, job
runners, PTY hosts and a state coordinator are separate Node processes that share
a directory of small JSON files and talk over Unix sockets.  There is no database:
everything that makes the board correct is in how these processes take locks,
order their writes, keep what they hear in order and recover from each other's
deaths.  This project models that part.  Paths below are relative to the repository.

## 1. Inventory

| Component | State it keeps | Operations | Hard behaviour |
|---|---|---|---|
| State commands (`src/core/state-commands.mjs`, `auto-state.mjs`, `events.mjs`, `derive.mjs`) | none: a pure decision over row and run status | 16 kinds: `mark_queued`, `run_started`, `run_progress`, `run_finalized`, verdicts, `patch_fields`, ... | commands of an old run, late automated writes over a user's verdict |
| State coordinator (`runner/state-coordinator.mjs`) | lease, revision counter, ring of processed commands; on disk `state.json` and `status.json` per view and run | boot and replay, serve one command, materialize, checkpoint, step down, shut down | a crash at any write, two coordinators, a stalled one, transient beats without a record |
| Coordinator journal (`src/core/coordinator-journal.mjs`) | journal and checkpoint files | append, repair the torn tail, look up, checkpoint, collect | torn tails, a repair or a collection that fails |
| Coordinator client (`src/core/coordinator-client.mjs`) | none | ensure a coordinator, send, send again, replace an old version | timeouts, a pid that changed hands |
| Locks (`src/core/locks.mjs`) | lock directories, owner and heartbeat files | file lock; lease: publish, classify, quarantine, restore, touch, release | every file operation races the others; stalls; pid reuse |
| Follow-up queue (`src/core/follow-up-queue.mjs`) | `follow-ups.json` per view | enqueue, claim, complete, fail, release, cancel | a claimer that dies; several drains |
| Prompt delivery (`src/runtime/service.mjs` `reply`, `drainNextFollowUp`, `sendHostInputStaged`; `runner/pty-runner.mjs` `createControlRuntime`; `src/core/control-protocol.mjs`) | the host's control journal | send under the item's id, accept, type, apply, query, launch | a host that dies between journaling and typing; timeouts; retries |
| Job runner (`runner/job-runner.mjs`) | status in memory, child process | beats, flush, finalize, stop, drain one follow-up | beats out of order, a late flush, stop escalation |
| Service reconcile (`src/runtime/service.mjs`) | none: rows read from files | launch, mark queued, converge dead runs and desynchronised pairs, start drains | stale rows used after awaiting |
| PTY hosts (`runner/pty-runner.mjs`, `src/core/host-coordination.mjs`, `store.mjs`, `service.mjs`) | `host.json`, the host-start lease, socket, child | claim, launch, adopt, publish, revoke, recover, finish | a launcher or runner that dies half-way, duplicates of one runner, an old host that still writes |
| Warm hosts (`src/core/warm-host-sweeper.mjs`, `prewarm-schedule.mjs`) | none | evict, prewarm | eviction against attach |
| Terminal attach (`src/core/terminal-attach-*`, `terminal-model.mjs`, `src/ui/pty-attach.ts`) | screen model and ring, subscription, client state and cursor | hello, reconcile, subscribe, snapshot, replay, live stream, resync, fallback | drops and replaced hosts at any point, eviction, late answers |
| Frame witness (`src/core/attach-frame-*`, `attach-view-proof.mjs`, `hosted-frame-witness.mjs`, `src/index.ts`) | frame grammar, markers in the stream, journal of segments and proofs | evaluate writes, emit S/F/A, extract, prove, consume a resize intent | frames cut between writes, controls cut by markers, replaced reporters, resizes during a frame |
| Roster, preferences, steering, code references | small JSON files | read-modify-write | unlocked updates |
| Attached view (`src/ui/pty-attach.ts`, `src/core/pty-attach-render.mjs`) | parser, committed and recovery copies of a whole frame, proof, hydration, geometry revision, deadlines | adopt a snapshot, write, commit, open, resize, reconnect, time out | parse callbacks against proofs, resizes, replaced hosts and lost reporters |
| Rest of the UI, rendering, heuristics, git, scripts | | | no state machine of their own |

How they interact: every change of a row is a *command* sent to the coordinator,
which is the only writer of `state.json` and `status.json` as long as it holds the
lease `_coordinator`.  Dashboards poll (about every 700 ms): they read the files,
finalize dead runs, ask for a coordinator when a pair of files disagrees, and start
drains of queued follow-ups.  A drain claims an item under the view's queue lock
and either types it into the live host over its socket or launches a host or run
with it.

What makes each part correct:

* commands: a user's verdict is not overwritten by automated writes; an old run's
  command changes nothing;
* coordinator: a command is decided once and lands on both files, in journal order,
  whatever crashes; revisions are never reissued and never go back;
* leases: one owner at a time; an owner that was superseded leaves the path alone; a
  dead owner's lock is reclaimed;
* follow-ups: a prompt is not typed twice, not lost while its view drains, completed
  only when it reached an agent;
* runs: a run that works is not closed, a stop is kept, a final status stands, a
  dead run's row comes to rest unless its pair of files is torn;
* hosts: one agent on a session file, a replacement only after the old host, a stop
  request is not lost;
* attach: the screen holds every chunk once, in order, of one host;
* frame witness: what is called covered is a whole frame of that size;
* attached view: it shows whole frames only, of the host it talks to, opens on the
  frame that is proven, and its size reaches the host.

`PROJECT.json` lists the components with their sources, and the hazards with the
lines where they bite.

## 2. Modules

```
StateCommands        what a command is, what it decides, the patches it makes
  BoardFiles         the two files with their revision stamps; materialize's guards
    AtomicBoard      the promise: decide once, apply to row and status at once
    StateCoordinator the processes, the journal, crashes; implements AtomicBoard
      MCStateCoordinator         command sets and values for TLC
      StateCoordinator_proofs    theorems, and lemmas about the files
    RunLifecycle     dashboards, runs and their commands       (MCRunLifecycle)
      RunLifecycle_proofs
OwnedLease           the lease, file operation by file operation   (MCOwnedLease)
  OwnedLease_proofs
FollowUpDelivery     queue, senders, host and its control journal
  FollowUpDelivery_proofs
HostLifecycle        host.json, boards, runners and their agents   (MCHostLifecycle)
  HostLifecycle_proofs
TerminalAttach       model, subscription, socket, client, screen   (MCTerminalAttach)
  TerminalAttach_proofs
FrameGrammar         when a written frame is complete
  FrameWitness       reporter, markers in the PTY, runner, proofs  (MCFrameWitness)
    FrameWitness_proofs
AttachView           what a view paints of snapshots, output, proofs   (MCAttachView)
  AttachView_proofs
```

**StateCommands** translates `validateCommand` and `decideStateTransition` for all
sixteen kinds: the fence of manual verdicts, the stale-run check, the expected
revision, and the diff that makes a patch (`Keep` marks a field the patch leaves
alone).  Texts, times and previews are one `note` field or are left out;
`patch_fields` is a set of field names.

**BoardFiles** is `materialize` without the process around it: the file's revision
guard, the bootstrap of a missing status file, the restamping of a status by a
patch of the row alone, and the run a record is bound to.

**StateCoordinator** has one action per step of the program that another process
or a crash can come between: acquiring the lease, repairing the tail, taking up
checkpoint and journal, replaying each record (row, then status), initialising the
counter, then receive, decide, append, write the row, write the status, checkpoint,
collect, answer.  `Crash` loses the process; a crash in the middle of an append
leaves a torn tail.  `Vanish` and `Shutdown` are the orderly ends.  The view lock
keeps the writes of one record together.  Transient beats (`run_progress`) bump the
revision without a record.  A client sends a command up to `MaxSends` times under
one id.  With `StaleReclaim` a live coordinator's lease may be taken over; without
it only a dead one's.

**AtomicBoard** has the shown rows and runs only: a command applies to both, a beat
applies to one or both.  StateCoordinator implements it under the mapping
`ShownRow`/`ShownRuns`, which looks through what is journaled and not yet written:
a record counts from its append on.

**OwnedLease** follows `locks.mjs` file operation by file operation: a candidate
directory renamed into place, reading the owner, judging it (pid dead, heartbeat
old), moving the lock aside under a name of one's own, checking that it is the lock
that was judged, deleting or putting it back, touching, and a release that checks
and then removes in two steps.  `stalled` is a history: the processes that have
missed their heartbeat while they lived.  A lock name is a number; the runs have
enough of them that a fresh one always exists.

**FollowUpDelivery** has the item statuses of the queue file, the clients (replies,
drain passes of dashboards, drains of ending JSON runs) with what each has in hand
and heard, the socket in both directions, and the host with its control journal as
the host holds it, plus what is wrong with the file: a torn end and records appended
to it, and appends that fail (up to `MaxFailures`).  A drain pass looks (with the
host it sees), claims, sends or launches, hears `accepted` and `applied`, or closes,
times out, queries, and settles its item.  It looks only while `drains` is true, which
stands for `canAutoDrain`: the row is not busy and rests at idle or completed; turns,
classifications and verdicts change it at any time (`RowChanges`).  An ending run may
leave the queue alone.

**RunLifecycle** uses the same decisions.  Of revisions it keeps `stamped`, the run
whose status carries the revision of the row, and of a coordinator's crash the one
effect that is not repaired: a beat that reached one of its two files (`Tear`); the
rest is StateCoordinator's subject.  What the coordinator decides is taken from
`sent` in any order, and a sender that awaits an answer may stop waiting.  `phase`
is where a run's launcher, and then its runner, stands: queueing, booting,
starting, working, and the exit chain (finalize, heuristic and model
classification, summary, plan, drain, exit).  A user's launch, reply, stop,
archive and verdicts, the drain by dashboards and by an ending run, the stop
escalation and the reconcile pass over dead runs are actions; the pass reads the pair
again and passes it over if its stamps differ (`ReconcileSkip`).  What the row looks
like to a dashboard (`RowAlive`, `CanAutoDrain`) is `loadRow` of `store.mjs`.

**HostLifecycle** has the record `host.json` with one write per update
(`updateOwnedHost` refuses another instance), the board's transactions (claim and
launch, adoption of a claim nobody recorded a runner for, revocation, recovery of a
host that does not answer) and the runner from boot to exit: host-start lease,
endpoint, publication, agent, ready, heartbeat, finish.  Exclusion of the
host-start lease is taken from OwnedLease; grace periods may be over at any time;
process identities are exact or unreadable.

**TerminalAttach** composes the runner's model and ring
(`terminal-model.mjs`), the subscription of a socket
(`terminal-attach-protocol.mjs`), the socket as two queues, the client's state
machine (`terminal-attach-client.mjs`) and what the view does with its events.  A
chunk is its number; the screen is of which host (`gen`), up to which chunk, and
whether `exact`.  `trouble` is a history naming the ways in which the code gives
up exactness; each is a known behaviour of section 6, and a property that is excused
by one says so.

**FrameGrammar** translates `scanWrite` and `FrameCandidateEvaluator`
(`attach-frame-proof.mjs`) as operators over a sequence of tokens (open, close,
cursor position and visibility, hyperlinks, text, harmless and harmful controls, and
controls cut by the end of a write).  **FrameWitness** puts them into the reporter
(`attach-frame-reporter.mjs`), lets its markers S, F and A travel in the PTY with
the tokens, takes them out again in the runner (`attach-frame-stream.mjs`), and
proves output segments covered (`attach-view-proof.mjs`), while clients resize, the
renderer stops or switches modes, sessions restart, sockets close and the focus
moves.  A turn of the child is a script of terminal operations (`Operation`, `Written`:
a control that the end of a write cuts is completed by what is printed next).  The histories
`drawn` and `grid` say what the output really shows, by a grammar of their own that
shares nothing with the reporter's.

**AttachView** is the view on top of the last two: `pty-attach.ts`, with the
decision of `pty-attach-render.mjs`.  A chunk of output is what it does to the
screen (a whole frame, its first or its last part inside a synchronized update, or
nothing), and its parser is a queue of writes whose callbacks come one by one.  The
view commits a copy of its grid where an update really ends, keeps a recovery copy
over reconnects and new parsers, holds the proof that came with the stream and the
identity (connection, parser, host, geometry revision, size) it was taken under, and
opens when `Publish` says so or a deadline does.  Runner, reporter and socket are
small here: a chunk and the record it completes are one message, in whose place the
record stands once the chunk is taken; the reporter proves the first frame at the size of an intent and gives up
a frame that an intent overtakes; a subscription is idle, capturing, rendering or
live.  `base` and `lost` are histories: chunks above `base` were delivered live with
nothing in between, and `lost` says that a resize went down with a socket.

## 3. Runs

| Run | Instance | What it shows |
|---|---|---|
| `coordinator_crash` | 1 coordinator, 2 crashes, checkpoint every 2 records, ring 2, temp-file replacement may fail; four scenarios of commands (constraint `OneScenario`: one of them per behaviour) | `RevisionInvariant` (the inductive invariant of the proof), `UniqueRevisions`, `ManualVerdictStands`, `TypeOK` |
| `coordinator_handover` | 2 coordinators, 2 stops, every command sent twice, ring 1, follow-up run and a patch of the row alone, `FairSpec` | `RefinesAtomicBoard` across processes, `PairingHolds` after replay, `SameReplyForever`, `EveryRecordLands`, `FilesNeverGoBack` |
| `lease` | 3 processes, 2 crashes, 1 that may miss its heartbeats while alive, 1 reused pid, `FairSpec` | `LivingOwnerIsNotReclaimed`, `DeadLockIsReclaimed`, `SupersededLeavesTheLock`, and, while nobody has stalled, `MutualExclusion` |
| `followup_hosts` | 1 item, 1 reply, 1 dashboard, 1 run that ends, 2 hosts, 1 launched run, 1 host stop, 1 client crash, 1 failing append, tearing journal, a row that changes at any time, `FairSpec` | `TypedOnce`, `HandedOnce`, `CompletedWasHanded`, `FailedIsUnknown`, `QueuedIsSettled` |
| `followup_torn` | 1 item, 3 hosts, 2 host stops, tearing journal | violates `TypedOnce` (section 6) |
| `host_recovery` | 2 boards, 2 runners, 2 instances, 1 runner death, `FairSpec` | `OneAgent` over a replacement, `ReplacedWhenEnded`, `AlwaysSettles` |
| `host_duplicates` | 2 boards, 3 runners of one claim, a board and a runner death, a contended write | `OneAgent` among duplicates, `Served`, `RevokeSticks` |
| `host_replaced` | 2 boards, 3 runners, 2 instances, 1 board death | violates `ReplacedWhenEnded` (section 6) |
| `run_lifecycle` | 2 runs of one view (one a plan); two launches and a death, a queued follow-up and a death, or a stop or verdict with a death and a lost, torn or late command; `FairSpec` | `EndedMeansOver`, `StopIsKept`, `FinalStands`, `ComesToRest` |
| `terminal_attach` | ring of 2 chunks; six budgets: drops and a replaced host, failing captures and a closed reporter, a late timer, a snapshot asked for in the middle of one, failures until the client falls back, and more output than the ring holds; `FairSpec` | `ScreenIsExact`, `ResumesWhatItShows`, `ShowsEverything` |
| `frame_witness` | 2 sizes, 2 modes, 19 scripts; eight budgets, see below | `CoveredIsWhole`, `WholeFrameIsCovered`, `MarkersRespectEscapes`, `TrustedMarkersAreHidden`, `ConsumedWasProven` |
| `attach_view` | 2 sizes, 2 hosts; twelve budgets, see below | `ShownIsWhole`, `FirstViewIsProven`, `LiveFrameIsShown`, `SizeReachesHost` |

A bound is either a constant of its own or a *budget*: a record that says how often
each kind of disturbance may happen in one behaviour, chosen in the initial state
from a set.  This lets one run cover several mixes without their product.

`frame_witness` chooses among: `Drawing` (any three turns out of all the scripts),
`Trailing` (titles whole and cut after a proof, past the end of the journal),
`Resizing`, `Stopping` (the renderer stops or switches mode inside a frame),
`Rearming` (both), `Restarting` (sessions and sockets end with markers in the pipe),
`Renewing` (a new session with a resize) and `Focusing`.

`attach_view` chooses among: three frames and a resize; two frames and two resizes; a
resize and a lost socket; a lost socket between frames that come in two parts, or
among output that leaves the screen alone; five halves of frames (the view asks for a
snapshot and then rejects it); a replaced host with a resize, or in the middle of a
frame; and reporters that are lost, enabled again and replaced: twice, beside a socket
that connects, racing a resize, and in the middle of a frame.  `snapshots = 3` bounds
the captures: a view that rejects its answers asks again without end.

Why the bounds are enough for what is asked:

* one view: views share only the revision counter and the journal, and a second one
  adds no new step to either; two runs where a follow-up run matters;
* two stops of the coordinator: one in the middle of a record and one in the middle
  of its replay.  `CheckpointEvery = 2` makes checkpoints and collections fall
  between the commands of one run; a ring of 1 or 2 overflows.  In
  `coordinator_handover` no checkpoint falls due (`SameReplyForever` is false with one,
  section 6), and its commands are journaled ones, not beats (`PairingHolds`, section 4);
* three lease processes: an owner, an inspector with a stale reading and a winner
  between its reading and its rename.  A fourth adds what section 6 describes.
  `MaxRounds` (3 in the code) is 2, which is still exhausted;
* one follow-up item: items meet only in the claim order and at the host, which
  serves one request at a time; a reply, a dashboard's pass and an ending run's drain
  can race for the same item.  Two hosts: one that dies with a request and one that
  reads its journal;
* two boards are a launcher and a user who attaches or recovers behind it; three
  runners are the first of a claim, one from its adoption and one of a replacement;
* two runs: the one on the row and a newer one, which is all the fences compare;
* three chunks with a ring of two: a chunk before, in and after a snapshot, and one
  that is evicted; five of them let the ring overtake a capture.  Constraint `Calm`
  bounds the queues (3 messages up, 7 down): it cuts off behaviours in which the
  client sends subscribe after subscribe while the runner reads none, and those in
  which the runner gets more than seven messages ahead of what the client has read;
* a view needs one frame before, one during and one after a disturbance: three chunks;
  two sizes are there and back again;
* three turns of the child: a frame begun, cut and continued; a journal of two
  segments and five turns overrun it.

`CHECK_DEADLOCK FALSE`: clients send a bounded number of commands, processes stop
a bounded number of times, and then the system rests.

OwnedLease, FollowUpDelivery, HostLifecycle, RunLifecycle, TerminalAttach, FrameWitness
and AttachView define a `TypeOK` that documents their state; it holds in these instances, and the runs spend their properties elsewhere.

### Fairness

* StateCoordinator (`EveryRecordLands`): a booting or serving coordinator goes on
  (weak fairness of its steps), and some process acquires the lease again and
  again.  The code justifies the latter: every client send ensures a coordinator
  (`ensureCoordinator`), and reconcile asks for one as soon as it sees a pair of
  files that disagrees (`service.mjs:2536`).
* OwnedLease (`DeadLockIsReclaimed`): processes that run take their steps, somebody
  keeps asking for the lease, and time passes, so a heartbeat nobody renews grows
  old.
* FollowUpDelivery (`QueuedIsSettled`): dashboards poll, a drain that holds an item
  goes on, a run ends, a started host becomes ready and serves what it reads.  Nothing
  is assumed of a reply, which a user makes once, nor of the row: the property is about
  views that come to rest where they drain (`<>[]drains` is its premise), and says
  nothing of a queue behind a row at needs_input, failed, stopped or holding, which no
  pass drains.  Strong fairness is asked of the dashboards' deliveries only: one tried
  again and again meets a host that answers it or its query in time, an answer that is
  read, or a launch that works; each try has its own ten-second timer.  That excludes
  an adopted external session on a machine without PTY support, whose item every pass
  releases (`service.mjs:1764`).  A client that crashes with an item in hand excuses
  the property (section 6).
* RunLifecycle (`ComesToRest`): the reconcile pass looks and then sends or passes over
  (a dashboard's 700 ms poll), and its command is decided.  Nothing else is assumed to
  move.  The premise excludes a pair whose stamps differ, which the pass leaves alone;
  without it TLC finds the row of a dead run whose last beat was torn alive for ever
  (section 6).  Liveness goes by the recorded pid: that no other process has taken it
  over is an assumption of the module (`loadRow` asks for no identity).
* HostLifecycle (`AlwaysSettles`): boards in a transaction and runners go on, an
  agent does not outlive the terminal of its dead runner (SIGHUP), and somebody
  keeps attaching; without the last a dead host's record stays as it is.
* TerminalAttach (`ShowsEverything`): runner and view read their sockets, a capture
  ends, the view reconnects (`pty-attach-reconnect.mjs`, a timer).  Drops, output
  and replacements are bounded by the budget and not fair.

## 4. What is proved

Every theorem holds for any values of the constants, any sets of processes, commands,
items or runs, unless a hypothesis is named.  Each is proved the same way: an
inductive invariant, written as a conjunction of named parts at the head of the proof
module and checked by TLC before it was proved, one step per action, and the property
from the invariant.  The assumptions are the named `ASSUME`s of the modules (numbers
are naturals, markers are not values: `KeepAssumption`, `AbsentAssumption`,
`PathAssumption`) and what is listed here.

### The coordinator (`StateCoordinator_proofs`)

* `TypeCorrect`: `Spec => []TypeOK`.  The decision's result is typed by lemmas about
  the patches.
* `FilesMonotonic`: no step moves the revision of a row or of a status file back, in
  *any* configuration, preempted coordinators and failing disks included.  It follows
  from the guards in `StampState` and `StampStatus` alone.  The run checks
  `FilesNeverGoBack` with two coordinators that are not preempted; that it holds of a
  stalled one and its successor as well is this theorem.
* `RevisionsInvariant`: under `~StaleReclaim` (no living coordinator is preempted),
  `RevisionInvariant` and `IssuedOnce` hold always, together with `TypeOK`.  The first
  says that a serving coordinator's counter is at least every revision in the journal,
  the checkpoint and the files, that records are ordered, that at most one coordinator
  is up, and that what was acknowledged is on disk; the second, that every revision a
  reply or record carries was issued for one command.  `UniqueRevisions` alone is not
  inductive: a fresh revision is fresh only because the counter taken at boot was
  above every source that survives a crash, which is what the invariant relates.  A
  beat issues a revision that no record remembers; it is safe because both the row and
  its status carry it.
* `RevisionsUnique`: `UniqueRevisions`, from that invariant.
* `VerdictStands`: under `~StaleReclaim`, `ManualVerdictStands`.  What could replace a
  verdict is a record decided before it and written after it, by the coordinator that
  holds it or by a replay.  `FenceInvariant` excludes that: at most one record is not
  yet on the row (`OnePending`), and it was decided on the very row it will be merged
  into, so a fenced row has no automated record pending (`PendingUnfenced`), in the
  journal or in hand (`HandUnfenced`).
* `RepliesStay`: under `~StaleReclaim`, without failing disks, and with fewer commands
  than a checkpoint takes, `SameReplyForever`.  Until then nothing is collected (a
  pigeonhole: the journal holds each command once, `JournaledOnce`), so the journal
  remembers every answer (`Journaled`, `HandJournaled`), and a coordinator that serves
  has repaired its tail (`Repaired`).  With a collection in between the property fails
  (section 6), so the bound is the property's own.

`~StaleReclaim` is necessary: section 6 gives the counterexample without it.

* `ImplementsAtomicBoard`: under `~StaleReclaim` and without failing disks,
  `Spec /\ RunsComeNew => RefinesAtomicBoard`.  The mapping counts a record from its
  append, so the append of a record is `AtomicBoard`'s decision, the writes that follow,
  before or after a crash, are stutters, and each half of a beat is the beat of one file.
  That the writes are stutters is what `BoardInvariant` says: every applied record but
  the newest is on both files (`JournalOrdered`); one that is not is in the hand of the
  serving coordinator, as it was decided (`ServedFinished`, `InHand`), or is yet to be
  replayed (`ReplayedFinished`); the run in hand is the one it was decided for (`Bound`);
  a record decided without a run leaves the status of the shown run alone
  (`RecordsKept`); and no status is ahead of its row (`StatusBehind`).  `BoardInvariantHolds`
  is the theorem for it.
* `PairingInvariant`: `PairingHolds`, under the same hypotheses and `BeatsEnd`.
  `PairInvariant` is the pairing of the *shown* board, which every append and every half
  of a record keeps; where the coordinator is settled the files are what is shown.

The two hypotheses are on behaviours, not on constants.  `RunsComeNew`: a decision puts
on the row the run it shows, none, or a run that has no status yet.  The clients see to
it, since every launch makes a fresh run id (`launch.mjs`), and TLC finds it true of the
scenarios of both coordinator runs, where the properties are checked without it.  It is
needed because a record that was decided while the row showed no run is bound to the run
the row shows when it is replayed (section 6): a command that announces an *old* run
would let such a record stamp that run's status between its own two halves.  `BeatsEnd`:
no crash falls between the halves of a beat.  A beat leaves no record, so nothing repairs
the pair until the next command, and TLC finds `PairingHolds` violated then;
`coordinator_handover` checks it on commands that are journaled.

### The lease (`OwnedLease_proofs`)

* `LivingOwnersKeepTheirLock`: `LivingOwnerIsNotReclaimed`, for any number of processes
  that die, stall, reuse a pid and reclaim from each other.  `ReclaimInvariant`: a lock
  is stale only under a dead or stalled owner, wherever it has been moved, and whoever
  reclaims has seen such an owner.
* `SupersededKeepsOff`: `SupersededLeavesTheLock`, with no hypothesis: any number of
  processes, whoever dies or stalls.  A lock that is neither at the path nor aside is
  gone for good, since tokens are fresh (`SupersededStep`), and the release reads the
  token again before it removes anything.
* `HeldByOne`: `MutualExclusion`, when no process dies (any number of them) or there
  are three (whoever dies).
  `SectionInvariant` says where the lock of a process in its section is: at the path, or
  in the hands of the one process that took it aside and will put it back, or taken by
  one that died, and then no third process is left.  The hypothesis is necessary: a
  fourth process publishes while the lock is aside (section 6).

### Follow-ups (`FollowUpDelivery_proofs`)

* `CompletedHanded`: `CompletedWasHanded`, in every configuration, torn journals
  included.  `HandedInvariant` follows the word "applied" from the host's journal
  through the answers to the client that settles the item.
* `ItemsTypedOnce` and `FailedStaysUnknown`: `TypedOnce` and `FailedIsUnknown`, when the
  journal is not torn, or two hosts at most start, or one at most stops.  An item that
  was typed is in the journal (`OnceInvariant`), and a record becomes unreadable only to
  a host that starts after two that stopped (`JournalInvariant`): `followup_torn` is that
  case, so nothing weaker will do.
* `ItemsHandedOnce`: `HandedOnce`, which is about a view whose host lives and which
  launched no run.  `FirstHostInvariant`: before the first host an item
  was sent to nobody and is in the hand of one client; an item that a host was launched
  with is in the hand of nobody who could send it.

### Hosts (`HostLifecycle_proofs`)

* `ServesItsEndpoint`: `Served`; and `KeptOncePerInstance`: no two runners of one
  instance keep an agent, both in every configuration (`EndpointInvariant`: from its
  bind to its end a runner has the endpoint of its instance).
* `StopSticks`: `RevokeSticks`, in every configuration.
* `OneAgentOnly`: `OneAgent`, with one instance whoever dies (the instance of
  `host_duplicates`), and with any number of them while no board dies and no write stays
  contended.
* `ReplacesAfterTheEnd`: `ReplacedWhenEnded` under the second condition; with a dying
  board it is false (`host_replaced`).  `ReplaceInvariant`: a board holds the lease for as
  long as it claims, spawns, records or replaces; a runner that is not over is in the
  record or about to be recorded; a recovery past its gate finds nobody about to spawn.

### Runs (`RunLifecycle_proofs`)

`RunsKeepInvariant` proves `RunInvariant`, with no hypothesis; `RecordedEndIsReal`,
`StopIsRecorded` and `FinalStays` are `EndedMeansOver`, `StopIsKept` and `FinalStands`.
The invariant relates three places: a command on its way says only what its sender may
say where it stands (`SentInvariant`), a status that has ended is at rest and its runner
past its work (`StatusInvariant`), and only a working runner, or one that died, has an
agent (`RunnerInvariant`).  Its step needs what a decision can do to the two files:
lemma `DecideOutcome` sorts the kinds of commands this model sends into six outcomes
(queueing, starting, beating, judging, finalizing, reconciling), and everything later
reasons about those.

### Terminal attach (`TerminalAttach_proofs`)

`AttachInductive` proves `AttachInvariant` for any ring and any budgets, with no further
hypothesis; `ScreenStaysExact` and `ResumeIsSafe` are `ScreenIsExact` and
`ResumesWhatItShows`.  Both properties excuse a screen that a named `trouble` spoiled,
and so do the theorems; `trouble` is emptied by the next baseline, from which on they
bind again.  The parts:

* `Base`: types, and that a socket speaks of one runner boot (`Greets`) and streams only
  what is subscribed, up to the last chunk (`Streams`).
* `ModeInvariant` and `SocketInvariant`: a client's state agrees with its mode; a client
  that does not know the runner's identity has a hello before everything else in its
  socket; inside the reconnect gate nothing is subscribed, and only there are chunks
  shown past the cursor.
* `ScreenInvariant`: a screen of the current runner is exact up to the cursor and what
  was shown past it; on any other screen the client does not believe to have a chunk of
  this runner (`Believed` is the boot its cursor counts).  This is what makes the next
  chunk the right one to paint, and a discarded cursor the only one to discard.
* `SessionInvariant`: why a live client's screen is of its runner at all.  A client
  without such a screen has one subscribe on its way and without a cursor (`Asking`),
  or the runner prepares an answer (`Preparing`), or one answer is on its way
  (`Answered`): begin, frame, the chunks after it and end stand in the socket one by
  one, at places that move as the client takes them (`Within`, `Took`), whole or broken
  off by a failure, and the live stream only behind them.  So the first thing that can
  make the client live is the baseline.
* `CursorInvariant`: a subscribe with a cursor is the first on its socket and sent over
  a screen that holds what it claims.

The step is proved from what each action does to a socket's places (`Told`, `Asked`,
`Heard`, `Taken`) instead of from the sequences.

### Attached view (`AttachView_proofs`)

All for any sizes, chunks and budgets, with no further hypothesis.

* `TypesHold`: the view with its thirty fields, its parser, both directions of the
  socket, subscription, reporter and child have their types.
* `FramesAreWhole`: `ShownIsWhole`.  The invariant is `Speaks`: a socket speaks of one
  runner, and greets before all else, so a view that was not greeted has its hello before
  it; and `Knows`: a view that was greeted knows its runner, what its parser has yet to do
  is of that runner, one that was not greeted has nothing to parse and nothing committed,
  and every copy is of a whole frame of the runner it names.  A copy may outlive its
  runner; that it is not *shown* then follows from the gate and the identity.
* `SizeArrives`: `SizeReachesHost`.  `SizeInvariant`: the newest resize on its way to the
  runner has the size of the view (`Newest`); with none on its way and the sizes apart, a
  begin the view has still to hear tells the runner's size (`Told`), and the view is in a
  state from which it hears one before it goes live (`Awaits`), unless a resize was lost.
  That is the heart of it: a view may only resume without a begin a runner whose size it
  has told before, and a replaced runner cannot be resumed, since the view's cursor is
  reset (`StartsOver`) before its subscribe is answered (`BeginsFirst`).
* `OpensWithProof`: `FirstViewIsProven`.  The proof of a frame comes over the socket and
  the frame through the parser, so the invariant says of both what they will lead to.
  `Shows`: if the view has a coverage, the last write in the parser that draws, or the
  grid if none does, is of a frame with that size and revision (`Painted`); and a copy
  that is kept has the view's identity, no gate hides it, and it is of the grid unless an
  update is open (`Copied`).  `Stream`: chunks come in order, ahead of the view's cursor,
  and a record is right behind its chunk (`Sound`), so what it proves is what was drawn
  last.  `Replays`: the coverage that ends a replay is of the last line before it that
  draws (`Replaying`).  `Serving`, `Cursor` and `Resumes` say why nothing else is on the
  wire: a subscription that renders has sent nothing beyond its capture, a cursor is of
  the runner it names, and a view that resumes has an empty screen and parser.  Every
  action either opens the view by a deadline or not at all, or does so with a proof once
  the parser is empty (`Opens`), and then what will be painted is what is shown.

### Frame witness (`FrameWitness_proofs`)

For any sizes, budgets and scripts: a turn is any sequence of size reads, renders,
cursor calls and writes of any tokens, some of which throw.  `WitnessInvariantHolds`
is the inductive invariant, of which the run finds no violation either:

* `Child`: between two operations the reporter is at rest (`AtRest`): no complete frame
  is undecided, and the decisions that wait behind a cut control are all A's.  That is
  why an F is never late: `Drain` writes it in the operation that completes the frame, so
  its intent is the one the frame was sampled under (`Stamps`), and a request it answers
  has its proof (`Answers`).  While a frame is open the evaluator knows which control
  the stream is in the middle of (`Follows`); it does not otherwise, since a renderer
  that stops gives the evaluator another.
* `Sockets`: a hello is first on its socket, the enable is first of what answers it, and a
  reporter is enabled only after the runner has heard its hello.
* `Stream`, `Runner`, `Past`: markers are of sessions the runner has heard of, it trusts
  one of these, and takes the trust to another only with that one's hello.  A half-read
  marker is at the head of the stream, and if the trust changed meanwhile it is not the
  trusted session's (`cut`).

A turn is a fold over its script, a drain one over its decisions, and `Links` one over a
write's tokens; each is a function on sets of indices (`TableFold`), and what it
preserves follows by induction over its prefixes.

* `TrustedHidden`: `TrustedMarkersAreHidden`.
* `ConsumedProven`: `ConsumedWasProven`.
* `MarkersOutside`: `MarkersRespectEscapes`, under `FailsCleanly`: no write that is to
  complete a cut control throws.  The run's scripts satisfy it (`CleanFailures`), and it
  is needed (section 6).

### Only model-checked

* Liveness (`EveryRecordLands`, `DeadLockIsReclaimed`, `QueuedIsSettled`, `ComesToRest`,
  `AlwaysSettles`, `ShowsEverything`), which is out of the prover's reach.
* `LiveFrameIsShown` of AttachView: that a frame *is* shown once all is quiet is the
  converse of `FirstViewIsProven`; its invariant would follow each chunk above `base`
  from the ring to the grid, with everything that may keep a view from opening.
* `CoveredIsWhole` and `WholeFrameIsCovered` of FrameWitness: they compare the reporter's
  grammar with the one of `drawn` and `grid`, over all tokens between a frame's markers
  as the runner's tracker counts them; the invariant would follow every token of a write
  from its script through both grammars.

`IssuedOnce` and the other invariants of the proofs are not properties of the runs: they
are stated for every revision, or for states TLC's properties already cover.

`RefinesAtomicBoard` is checked without a failing disk: with one, a tail repair that
fails leaves a coordinator that serves while its journal hides what it appends, and
the mapping, which counts a record from its append, no longer fits.

## 5. What is abstracted

* The view lock is exact.  `withFileLockSync` itself (steals by age, a release
  without an ownership check) is not modelled.
* Journal size is counted in records; the decision reads row and status in one
  step, as the code does without awaiting.
* Lease owners without an identity, the legacy heartbeat path and Windows renames.
* FollowUpDelivery: hosts without an instance id, plan-mode items, a reply that
  launches directly (it never enters the queue unless another launch came first,
  which is `Enqueue`), and the 256-command limit of the control journal.  Of a
  row's semantic state only `drains` is there.  A request
  sent again while the first still waits in the socket is answered once.
* RunLifecycle: evidence mirrors, diagnostics, code references and prompts; the
  summary's text (section 6 describes where it lands); a pid that another process took
  over; pending questions, which only interactive sessions have (their mirror shows no
  run and patches no status file).
* HostLifecycle: a runner's terminal model and clients; hosts without an instance
  id.
* TerminalAttach: frames, view proofs and geometry are AttachView's; keyboard input is
  data; hosts without an instance id, for which a reconnect subscribes without asking
  (`terminal-attach-client.mjs:905`).
* AttachView: a socket carries an unbroken stream (TerminalAttach is about broken
  ones): no eviction, failed captures, late timers or strays, and hello answers for the
  reconcile that follows it.  A view reconnects with a parser that has nothing left to
  do (the retry waits 150 ms).  The settle and hard timers may fire at any time once
  they are armed.  A frame's S travels with the output that follows it, and a
  snapshot's flush with its end.  The warm start from the screen log, text outside
  synchronized updates, external editors, scrolling and hosts without a reporter
  protocol are left out, and there is one view.  The pairing of an early size-sync with
  the next render (`pendingEarlySyncTarget`) never drops a resize and is not there.
* FrameWitness: a turn of the child is one synchronous render; a write never ends
  in a half control right after the token that completes a frame, and the last token
  of a write is whole or such a half; columns and rows are sampled as pairs of one
  size and the terminal starts at the smallest; the runner reads a token or half a
  marker at a time, the finest chunking that can matter; `switchTuiMode` is atomic.
  A frame whose S comes before any output, at sequence number 0, cannot be proven by
  the tracker and is not claimed to be.

## 6. Where the code and its documentation disagree

Kept as runs (with the quotes in `PROJECT.json`):

* `followup_torn`: the control journal is appended to without looking at how it
  ends.  A half line and the record behind it are both unreadable to the next host.
* `host_replaced`: recovery confirms that the runner and the agent it knows of have
  ended, waits for the host-start lease, and claims the replacement without looking
  again.  A runner whose launcher died before recording it boots in between.

Seen while modelling, reproduced with these modules, and not kept as runs:

* With `StaleReclaim`, `UniqueRevisions` fails: a coordinator steps down at a
  heartbeat tick (`state-coordinator.mjs:352`); one that stalled past the staleness
  age serves what is waiting first and reissues revisions of its successor (`:24`:
  "one global monotonic materializedRevision counter"; `locks.mjs:466`: an owner
  "must vacate rather than be preempted later").
* With four lease processes and one crash, `MutualExclusion` fails: quarantine takes
  a lock before it verifies whose it is (`locks.mjs:393`), and while a fresh owner's
  lock is aside a fourth process can publish (`:161`: "a held lock is never stolen
  by age alone").
* `SameReplyForever` fails with `CheckpointEvery = 1`: after a collection and a
  restart neither the ring nor the journal knows the command.
* A record decided while the row shows no run is bound at replay to the run the row
  shows then (`state-coordinator.mjs:611`), e.g. a `patch_fields` before a
  `plan_ready` that crashed between its halves.
* An owner that stalls between the check of its release and the removal deletes its
  successor's lock, against `locks.mjs:158` (`SupersededLeavesTheLock` is about an owner
  that is superseded before it reads owner.json again).  A release that runs while its lock is
  in quarantine gives up, and the lock is put back in its name (`locks.mjs:406`).
* An accepted item whose host died is launched again with the same prompt, because a
  query that finds nobody counts as retryable (`service.mjs:2972`).
* A reply to an idle host overtakes older queued items (`service.mjs:2092`).
* The row of a dead run whose last beat was torn by a coordinator's death says alive
  until another command re-stamps the pair: reconcile passes a desynchronised pair over,
  and no record repairs a beat (`service.mjs:2550`, `status-consistency.mjs:58`, which
  expect it).  A late `mark_queued` of an earlier run leaves differing stamps as well.
* `QueuedIsSettled` fails once a client crashes with an item in hand: nothing takes a
  dead process's claim back.
* *Skipped strays* (TerminalAttach): after a reconnect the client subscribes past the
  highest chunk broadcast inside the reconnect gate, so chunks produced while no
  socket was connected are skipped although the ring still holds them
  (`terminal-attach-client.mjs:412`; `:49`: strays "must reach the UI exactly once").
* *Foreign cursor*, *lost baseline*: a late `reconcile_result`, or a second drop in
  the gate, lets a cursor of the old host be used against its replacement (`:428`:
  "ring replay across generations is structurally impossible").
* *Early chunk*: a chunk numbered 1 of a new host makes a client live on the screen
  of the old one.  *Lost flush*: a snapshot requested while one is painted is
  overwritten by `state = "live"`, and the flush of the first is lost.
* A drop while the client recovers before its mode is decided: `start()` returns
  without subscribing.  A chunk that makes a recovering client live hides a
  `snapshot_failed` that follows.  After the legacy fallback the runner's sticky
  `subscribed` flag keeps the socket out of the broadcast, and the view is frozen.
* FrameWitness: when a reporter is replaced, or its socket closes, while its markers
  are in the PTY, the bytes of a marker, or the rest of one, are shown as output,
  against `attach-frame-stream.mjs:6` (`TrustedMarkersAreHidden` is the part that
  holds); a renderer that is stopped and started again forgets a resize intent, and
  its next frame consumes the request unproven (`ConsumedWasProven` names the
  exception); and the evaluator scans a write before it is made, so of one that
  is to complete a cut control and throws it has seen the control end, and the A of
  the frame it gives up is written inside the control, against
  `attach-frame-reporter.mjs:710` (`MarkersRespectEscapes` needs `FailsCleanly`).

* AttachView, where a property excuses what the code does:
  - *Behind the banner.*  A view that has been resized opens only with a proof that
    carries its own count of resizes (`pty-attach.ts:2585`).  The runner counts per
    reporter and announces only sizes that differ, so a second resize while the first is
    still in flight, or a proof overtaken by the next frame before its parse callback
    ran, leaves a count no later proof carries, and the hard deadline does not open a
    view with a required resize.
  - *Hydration without end.*  The parse callback of a snapshot returns early when a
    resize or reconnect came in between, and the view stays "hydrating", committing
    nothing, until another snapshot comes.
  - *A size not told.*  A resize that is lost with the socket, or made without one, is
    not sent again when the same host replays; only a snapshot's begin compares sizes.
  - *Frames of the old size.*  A frame the program drew before it noticed a resize is
    committed and shown under the new size.
  - *The forgotten request.*  `requestResync` from inside `snapshotReady`
    (`pty-attach.ts:2511`) is overwritten by `state = "live"`
    (`terminal-attach-client.mjs:608`): the flush is dropped, and begin, frame and end of
    the answer are each rejected with another subscribe.  If the socket drops before an
    answer is taken, the replay starts past the dropped flush and the view stays without
    it.
  - *A copy left behind.*  A frame that ends while the reporter is untrusted is not
    committed; a reporter that is enabled again may then prove the newer frame while the
    older copy is shown.

Noticed in reading, outside the models:

* A summary patch carries no run id (`job-runner.mjs:768`) and lands on the run the
  row shows when it is decided, which a drain during the summary call has changed.
* A dashboard that dies between `mark_queued` and the record of the runner's pid, or a
  spawn without a pid (`launch.mjs:28`), leaves a row that says alive, which
  reconcile skips (`service.mjs:2534`).
* `killProcess` signals only the runner, not its "process tree" (`pid.mjs:21`), and
  the escalation to SIGKILL tests `worker.killed`, which the SIGTERM has set
  (`job-runner.mjs:388`).
* `completeFollowUp` may fail after the prompt was delivered; its result is ignored
  (`service.mjs:1730`).
* An F that waits behind a control cut between writes is emitted after the next
  write, so text between the frame and its F counts as covered; a single read of
  `rows` leaves a pending value that a later pair mixes in
  (`attach-frame-proof.mjs:30`).

## 7. Not modelled

The models stand for about a tenth of the repository's lines.  Half of those lines
are scenario drivers for tests (`src/test-support`), and of the product the larger
part has no state machine of its own:

* rows, titles and text heuristics, code references, git, preferences, the list
  and detail views, rendering helpers, scripts: pure functions of their inputs or
  drawing;
* `withFileLockSync` and the unlocked read-modify-write of the roster
  (`store.mjs:40`); screen-log collection, which deletes segments of dead hosts only;
* the coordinator client's replacement of an older version by a recorded pid
  (`coordinator-client.mjs:425`), and the sweep of warm hosts against an attach
  (`service.mjs:1000`);
* resize and terminate requests of the control protocol beyond what FrameWitness and
  HostLifecycle use of them; a second view of one host, whose resizes the runner counts
  together with the first's.

Further theorems worth proving: `LiveFrameIsShown` of AttachView, by an invariant on what
every chunk still has to pass.
