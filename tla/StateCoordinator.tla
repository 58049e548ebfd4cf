-------------------------- MODULE StateCoordinator --------------------------
(***************************************************************************)
(* The View State Coordinator (runner/state-coordinator.mjs with           *)
(* src/core/coordinator-journal.mjs): the single logical writer of         *)
(* state.json and status.json.  A command is decided, journaled (fsync),   *)
(* materialized file by file, remembered and answered; a crash may fall    *)
(* between any two of these; the next coordinator repairs the journal's    *)
(* tail, replays it and goes on counting revisions.                        *)
(*                                                                         *)
(* Coordinator processes are the members of Coords; "down" is a process    *)
(* that does not run.  The owned lease of src/core/locks.mjs is "holder":  *)
(* a coordinator boots when the lease is free or its owner is dead, and,   *)
(* when StaleReclaim holds, also when the owner lives but has missed its   *)
(* heartbeats for so long that the lease classifies it as stale.           *)
(***************************************************************************)
EXTENDS BoardFiles, Sequences

CONSTANTS
    Coords,           \* coordinator processes
    NoCoord,          \* nobody
    Commands,         \* the commands clients send
    MaxSends,         \* bound: how often one command is sent
    MaxStops,         \* bound: how often a coordinator crashes or shuts down
    CheckpointEvery,  \* journal growth that triggers a checkpoint, in records
    RingMax,          \* size of the ring of processed commands
    DiskFails,        \* whether replacing a file by temp + rename may fail
    StaleReclaim      \* whether a live holder can be overtaken as stale

Ids == {cmd.id : cmd \in Commands}

ASSUME CoordinatorAssumption ==
    /\ NoCoord \notin Coords
    /\ MaxSends \in Nat /\ MaxStops \in Nat
    /\ CheckpointEvery \in Nat \ {0} /\ RingMax \in Nat \ {0}
    /\ DiskFails \in BOOLEAN /\ StaleReclaim \in BOOLEAN

\* Clients send what validateCommand accepts, each command under its own id.
ASSUME CommandsAssumption ==
    /\ \A cmd \in Commands : cmd \in Envelope(Ids, Views) /\ ValidCommand(cmd)
    /\ \A a, b \in Commands : a.id = b.id => a = b

VARIABLES
    \* on disk
    state,        \* view -> state.json
    status,       \* view -> run -> status.json
    journal,      \* the parseable records of state-journal.jsonl
    torn,         \* the journal ends in a partial line
    checkpoint,   \* state-journal.checkpoint.json
    holder,       \* owner named by the lease
    \* the control socket and its connections
    endpoint,     \* the coordinator bound to the socket path
    inflight,     \* commands written to a connection and not read yet
    sends,        \* command id -> times sent
    replies,      \* results written back
    \* in the memory of each coordinator
    pc,           \* where its command loop or its boot stands
    job,          \* the record being processed
    todo,         \* journal records boot has yet to replay
    counter,      \* revisionCounter
    ring,         \* processedCommands, oldest first
    lastBytes,    \* lastCheckpointBytes
    stops

disk == <<state, status, journal, torn, checkpoint>>
net == <<endpoint, inflight, sends, replies>>
memory == <<pc, job, todo, counter, ring, lastBytes>>
vars == <<disk, holder, net, memory, stops>>

Outcome == {"applied", "rejected"}
Reply == [id : Ids, status : Outcome, reason : Reasons, rev : Nat]

\* A journal record: the command, its result, and for an applied command the
\* patches and the run its status half was bound to when it was decided.
Record == [cmd : Commands, status : Outcome, reason : Reasons, rev : Nat,
           row : RowPatch, patch : StatusPatch \cup {NoPatch}, run : RunRef]

\* The record in hand, the run whose status.json it is written to, and the
\* size of the journal after it was appended.
Job == [rec : Record, bound : RunRef, bytes : Nat]

Booting == {"repair", "replay", "replayStatus"}
Serving == {"idle", "append", "state", "status", "checkpoint", "gc", "reply"}

TypeOK ==
    /\ state \in [Views -> StateFile]
    /\ status \in [Views -> [Runs -> StatusFile]]
    /\ journal \in Seq(Record)
    /\ torn \in BOOLEAN
    /\ checkpoint \in [rev : Nat, bytes : Nat]
    /\ holder \in Coords \cup {NoCoord}
    /\ endpoint \in Coords \cup {NoCoord}
    /\ inflight \subseteq Commands \X Coords
    /\ sends \in [Commands -> Nat]
    /\ replies \subseteq Reply
    /\ pc \in [Coords -> Serving \cup Booting \cup {"down"}]
    /\ job \in [Coords -> Job \cup {None}]
    /\ \A c \in Coords : pc[c] \in (Serving \ {"idle"}) \cup {"replayStatus"} => job[c] \in Job
    /\ todo \in [Coords -> Seq(Record)]
    /\ counter \in [Coords -> Nat]
    /\ ring \in [Coords -> Seq(Reply)]
    /\ lastBytes \in [Coords -> Nat]
    /\ stops \in Nat

Init ==
    /\ state = [v \in Views |-> NewState]
    /\ status = [v \in Views |-> [r \in Runs |-> NoStatus]]
    /\ journal = <<>> /\ torn = FALSE
    /\ checkpoint = [rev |-> 0, bytes |-> 0]
    /\ holder = NoCoord /\ endpoint = NoCoord
    /\ inflight = {} /\ sends = [cmd \in Commands |-> 0] /\ replies = {}
    /\ pc = [c \in Coords |-> "down"]
    /\ job = [c \in Coords |-> None]
    /\ todo = [c \in Coords |-> <<>>]
    /\ counter = [c \in Coords |-> 0]
    /\ ring = [c \in Coords |-> <<>>]
    /\ lastBytes = [c \in Coords |-> 0]
    /\ stops = 0

Goto(c, label) == pc' = [pc EXCEPT ![c] = label]
Larger(m, n) == IF m >= n THEN m ELSE n

----------------------------------------------------------------------------
(* The ring of processed commands, and looking a command up.               *)

ReplyTo(rec) == [id |-> rec.cmd.id, status |-> rec.status, reason |-> rec.reason, rev |-> rec.rev]

RingOnly_InJournal(id) == FALSE
InRing(c, id) == \E i \in DOMAIN ring[c] : ring[c][i].id = id
InJournal(id) == \E i \in DOMAIN journal : journal[i].cmd.id = id

\* The first record of an id is the original.
FirstRecord(i, id) ==
    /\ journal[i].cmd.id = id
    /\ \A j \in 1..(i - 1) : journal[j].cmd.id # id

KeepLast(seq, n) == IF Len(seq) <= n THEN seq ELSE SubSeq(seq, Len(seq) - n + 1, Len(seq))

Remember(c, reply) == ring' = [ring EXCEPT ![c] = KeepLast(Append(@, reply), RingMax)]

----------------------------------------------------------------------------
(* Materialization.  The view lock keeps the two writes of one record      *)
(* together: no other coordinator writes the view in between.              *)

ViewUnlocked(c, v) ==
    \A d \in Coords \ {c} :
        pc[d] \in {"status", "replayStatus"} => job[d].rec.cmd.view # v

\* The state half; the run of the status half is read before the write.
MaterializeState(c, rec, bytes) ==
    LET v == rec.cmd.view
    IN  /\ ViewUnlocked(c, v)
        /\ state' = [state EXCEPT ![v] = StampState(@, rec.row, rec.rev)]
        /\ job' = [job EXCEPT ![c] = [rec |-> rec, bytes |-> bytes,
                                      bound |-> BoundRun(rec.cmd, rec.run, state[v].row)]]

MaterializeStatus(c) ==
    LET rec == job[c].rec
    IN  status' = [status EXCEPT ![rec.cmd.view] =
                      StampRuns(@, job[c].bound, rec.cmd.kind, rec.patch, rec.rev)]

----------------------------------------------------------------------------
(* Boot.                                                                   *)

AnyOwner_LeaseAvailable == TRUE
LeaseAvailable ==
    \/ holder = NoCoord
    \/ holder # NoCoord /\ pc[holder] = "down"
    \/ StaleReclaim

\* The lease comes first; a coordinator that cannot get it exits.
AcquireLease(c) ==
    /\ pc[c] = "down"
    /\ LeaseAvailable
    /\ holder' = c
    /\ Goto(c, "repair")
    /\ UNCHANGED <<disk, net, job, todo, counter, ring, lastBytes, stops>>

\* Boot without replay.
NoReplay_Repair(c) ==
    /\ pc[c] = "repair"
    /\ torn' \in IF DiskFails THEN {FALSE, torn} ELSE {FALSE}
    /\ todo' = [todo EXCEPT ![c] = <<>>]
    /\ counter' = [counter EXCEPT ![c] = checkpoint.rev]
    /\ ring' = [ring EXCEPT ![c] = <<>>]
    /\ lastBytes' = [lastBytes EXCEPT ![c] = 0]
    /\ Goto(c, "replay")
    /\ UNCHANGED <<state, status, journal, checkpoint, holder, net, job, stops>>

\* Cut the torn tail, then read checkpoint and journal into memory.
Repair(c) ==
    /\ pc[c] = "repair"
    /\ torn' \in IF DiskFails THEN {FALSE, torn} ELSE {FALSE}
    /\ todo' = [todo EXCEPT ![c] = journal]
    /\ counter' = [counter EXCEPT ![c] = checkpoint.rev]
    /\ ring' = [ring EXCEPT ![c] = <<>>]
    /\ lastBytes' = [lastBytes EXCEPT ![c] = 0]
    /\ Goto(c, "replay")
    /\ UNCHANGED <<state, status, journal, checkpoint, holder, net, job, stops>>

\* What boot keeps of a record: the first reply of every id (the ring is not
\* cut to RingMax here) and the highest revision.
TakeUp(c, rec) ==
    /\ todo' = [todo EXCEPT ![c] = Tail(@)]
    /\ counter' = [counter EXCEPT ![c] = Larger(@, rec.rev)]
    /\ ring' = [ring EXCEPT ![c] = IF InRing(c, rec.cmd.id) THEN @ ELSE Append(@, ReplyTo(rec))]

ReplayRejected(c) ==
    /\ pc[c] = "replay" /\ todo[c] # <<>>
    /\ Head(todo[c]).status = "rejected"
    /\ TakeUp(c, Head(todo[c]))
    /\ UNCHANGED <<disk, holder, net, pc, job, lastBytes, stops>>

ReplayState(c) ==
    /\ pc[c] = "replay" /\ todo[c] # <<>>
    /\ Head(todo[c]).status = "applied"
    /\ TakeUp(c, Head(todo[c]))
    /\ MaterializeState(c, Head(todo[c]), 0)
    /\ Goto(c, "replayStatus")
    /\ UNCHANGED <<status, journal, torn, checkpoint, holder, net, lastBytes, stops>>

ReplayStatus(c) ==
    /\ pc[c] = "replayStatus"
    /\ MaterializeStatus(c)
    /\ Goto(c, "replay")
    /\ UNCHANGED <<state, journal, torn, checkpoint, holder, net,
                   job, todo, counter, ring, lastBytes, stops>>

\* The counter forgets the revisions of the state files.
JournalOnly_FinishBoot(c) ==
    /\ pc[c] = "replay" /\ todo[c] = <<>>
    /\ endpoint' = c
    /\ Goto(c, "idle")
    /\ UNCHANGED <<disk, holder, inflight, sends, replies, job, todo, counter, ring, lastBytes, stops>>

\* Count on from the highest revision seen anywhere, then take the endpoint.
FinishBoot(c) ==
    /\ pc[c] = "replay" /\ todo[c] = <<>>
    /\ \E n \in {counter[c]} \cup {state[v].rev : v \in Views} :
          /\ counter[c] <= n
          /\ \A v \in Views : state[v].rev <= n
          /\ counter' = [counter EXCEPT ![c] = n]
    /\ endpoint' = c
    /\ Goto(c, "idle")
    /\ UNCHANGED <<disk, holder, inflight, sends, replies, job, todo, ring, lastBytes, stops>>

----------------------------------------------------------------------------
(* Commands.                                                               *)

\* A client writes a command, for the first time or again under the same id.
Send(cmd) ==
    /\ endpoint # NoCoord /\ pc[endpoint] \in Serving
    /\ sends[cmd] < MaxSends
    /\ sends' = [sends EXCEPT ![cmd] = @ + 1]
    /\ inflight' = inflight \cup {<<cmd, endpoint>>}
    /\ UNCHANGED <<disk, holder, endpoint, replies, memory, stops>>

Receive(c, cmd) ==
    /\ pc[c] = "idle"
    /\ <<cmd, c>> \in inflight
    /\ inflight' = inflight \ {<<cmd, c>>}

Transient(cmd) == cmd.kind \in TransientKinds

\* A processed command returns its result: the ring first, the journal second.
AnswerDuplicate(c, cmd) ==
    /\ Receive(c, cmd)
    /\ ~Transient(cmd)
    /\ \/ /\ InRing(c, cmd.id)
          /\ \E i \in DOMAIN ring[c] :
                ring[c][i].id = cmd.id /\ replies' = replies \cup {ring[c][i]}
          /\ UNCHANGED ring
       \/ /\ ~InRing(c, cmd.id)
          /\ \E i \in DOMAIN journal :
                /\ FirstRecord(i, cmd.id)
                /\ replies' = replies \cup {ReplyTo(journal[i])}
                /\ Remember(c, ReplyTo(journal[i]))
    /\ UNCHANGED <<disk, holder, endpoint, sends, pc, job, todo, counter, lastBytes, stops>>

Decision(cmd) ==
    LET file == state[cmd.view]
    IN  DecideStateTransition(cmd, file.row, file.rev,
                              StatusOf(status[cmd.view], StatusRun(cmd, file.row)))

Decided(c, cmd) ==
    LET d == Decision(cmd)
        file == state[cmd.view]
    IN  IF d.action = "apply"
        THEN [cmd |-> cmd, status |-> "applied", reason |-> d.reason,
              rev |-> counter[c] + 1, row |-> d.row, patch |-> d.status,
              run |-> StatusRun(cmd, file.row)]
        ELSE [cmd |-> cmd, status |-> "rejected", reason |-> d.reason,
              rev |-> file.rev, row |-> KeepRow, patch |-> NoPatch, run |-> None]

\* A rejected beat is answered at once: nothing is journaled.
RejectBeat(c, cmd) ==
    /\ Receive(c, cmd)
    /\ Transient(cmd)
    /\ Decision(cmd).action = "reject"
    /\ replies' = replies \cup {ReplyTo(Decided(c, cmd))}
    /\ UNCHANGED <<disk, holder, endpoint, sends, memory, stops>>

\* A new command is decided; an applied beat goes straight to the files.
Decide(c, cmd) ==
    /\ Receive(c, cmd)
    /\ \/ Transient(cmd) /\ Decision(cmd).action = "apply" /\ Goto(c, "state")
       \/ ~Transient(cmd) /\ ~InRing(c, cmd.id) /\ ~InJournal(cmd.id) /\ Goto(c, "append")
    /\ job' = [job EXCEPT ![c] = [rec |-> Decided(c, cmd), bound |-> None, bytes |-> 0]]
    /\ UNCHANGED <<disk, holder, endpoint, sends, replies, todo, counter, ring, lastBytes, stops>>

\* Journal (fsync) before materializing.  Behind a partial line the record
\* merges into an unparseable line and is lost to every reader.
AppendRecord(c) ==
    LET rec == job[c].rec
    IN  /\ pc[c] = "append"
        /\ torn' = FALSE
        /\ journal' = IF torn THEN journal ELSE Append(journal, rec)
        /\ job' = [job EXCEPT ![c].bytes = Len(journal')]
        /\ IF rec.status = "applied"
           THEN Goto(c, "state") /\ UNCHANGED ring
           ELSE Goto(c, "checkpoint") /\ Remember(c, ReplyTo(rec))
        /\ UNCHANGED <<state, status, checkpoint, holder, net, todo, counter, lastBytes, stops>>

WriteState(c) ==
    /\ pc[c] = "state"
    /\ MaterializeState(c, job[c].rec, job[c].bytes)
    /\ Goto(c, "status")
    /\ UNCHANGED <<status, journal, torn, checkpoint, holder, net,
                   todo, counter, ring, lastBytes, stops>>

\* The revision is counted once both files are written.
WriteStatus(c) ==
    LET rec == job[c].rec
    IN  /\ pc[c] = "status"
        /\ MaterializeStatus(c)
        /\ counter' = [counter EXCEPT ![c] = rec.rev]
        /\ IF Transient(rec.cmd)
           THEN Goto(c, "reply") /\ UNCHANGED ring
           ELSE Goto(c, "checkpoint") /\ Remember(c, ReplyTo(rec))
        /\ UNCHANGED <<state, journal, torn, checkpoint, holder, net,
                       job, todo, lastBytes, stops>>

----------------------------------------------------------------------------
(* Checkpoint and garbage collection of the journal.                       *)

CheckpointDue(c) == job[c].bytes >= lastBytes[c] + CheckpointEvery

SkipCheckpoint(c) ==
    /\ pc[c] = "checkpoint"
    /\ ~CheckpointDue(c) \/ DiskFails
    /\ Goto(c, "reply")
    /\ UNCHANGED <<disk, holder, net, job, todo, counter, ring, lastBytes, stops>>

WriteCheckpoint(c) ==
    /\ pc[c] = "checkpoint"
    /\ CheckpointDue(c)
    /\ checkpoint' = [rev |-> counter[c], bytes |-> job[c].bytes]
    /\ Goto(c, "gc")
    /\ UNCHANGED <<state, status, journal, torn, holder, net,
                   job, todo, counter, ring, lastBytes, stops>>

\* Drop the prefix the checkpoint covers.
CollectGarbage(c) ==
    /\ pc[c] = "gc"
    /\ journal' = SubSeq(journal, checkpoint.bytes + 1, Len(journal))
    /\ lastBytes' = [lastBytes EXCEPT ![c] = Len(journal')]
    /\ Goto(c, "reply")
    /\ UNCHANGED <<state, status, torn, checkpoint, holder, net, job, todo, counter, ring, stops>>

\* The rewrite failed: the journal stays, and its size is remembered.
CollectNothing(c) ==
    /\ pc[c] = "gc" /\ DiskFails
    /\ lastBytes' = [lastBytes EXCEPT ![c] = Len(journal)]
    /\ Goto(c, "reply")
    /\ UNCHANGED <<disk, holder, net, job, todo, counter, ring, stops>>

Answer(c) ==
    /\ pc[c] = "reply"
    /\ replies' = replies \cup {ReplyTo(job[c].rec)}
    /\ Goto(c, "idle")
    /\ UNCHANGED <<disk, holder, endpoint, inflight, sends,
                   job, todo, counter, ring, lastBytes, stops>>

----------------------------------------------------------------------------
(* The end of a coordinator process.                                       *)

\* Memory and connections are gone.
Vanish(c) ==
    /\ stops < MaxStops /\ stops' = stops + 1
    /\ Goto(c, "down")
    /\ inflight' = {m \in inflight : m[2] # c}
    /\ job' = [job EXCEPT ![c] = None]
    /\ todo' = [todo EXCEPT ![c] = <<>>]
    /\ counter' = [counter EXCEPT ![c] = 0]
    /\ ring' = [ring EXCEPT ![c] = <<>>]
    /\ lastBytes' = [lastBytes EXCEPT ![c] = 0]
    /\ UNCHANGED <<state, status, journal, checkpoint, sends, replies>>

\* A crash leaves the lease and the socket file; in the middle of an append it
\* may leave a partial line.
Crash(c) ==
    /\ pc[c] # "down"
    /\ torn' \in IF pc[c] = "append" THEN {torn, TRUE} ELSE {torn}
    /\ Vanish(c)
    /\ UNCHANGED <<holder, endpoint>>

\* SIGTERM, or the supervised tick steps down: only a coordinator that still
\* owns the lease unlinks the endpoint, and only its own.
Shutdown(c) ==
    /\ pc[c] = "idle"
    /\ Vanish(c)
    /\ holder' = IF holder = c THEN NoCoord ELSE holder
    /\ endpoint' = IF holder = c /\ endpoint = c THEN NoCoord ELSE endpoint
    /\ UNCHANGED torn

----------------------------------------------------------------------------

Boot(c) == Repair(c) \/ ReplayRejected(c) \/ ReplayState(c) \/ ReplayStatus(c) \/ FinishBoot(c)

Serve(c) ==
    \/ \E cmd \in Commands : AnswerDuplicate(c, cmd) \/ RejectBeat(c, cmd) \/ Decide(c, cmd)
    \/ AppendRecord(c) \/ WriteState(c) \/ WriteStatus(c)
    \/ SkipCheckpoint(c) \/ WriteCheckpoint(c) \/ CollectGarbage(c) \/ CollectNothing(c)
    \/ Answer(c)

Next ==
    \/ \E cmd \in Commands : Send(cmd)
    \/ \E c \in Coords : AcquireLease(c) \/ Boot(c) \/ Serve(c) \/ Crash(c) \/ Shutdown(c)

Spec == Init /\ [][Next]_vars

\* A running process goes on; as long as a dashboard is open, its reconcile
\* pass asks for a coordinator when none runs.
Fairness ==
    /\ \A c \in Coords : WF_vars(Boot(c)) /\ WF_vars(Serve(c))
    /\ WF_vars(\E c \in Coords : AcquireLease(c))

FairSpec == Spec /\ Fairness

----------------------------------------------------------------------------
(* Properties.                                                             *)

\* No revision is ever reissued: two applied results with the same revision are
\* one command, across crashes, torn journals and journal collection (the
\* boot-time maximum over checkpoint, journal and state files).
UniqueRevisions ==
    \A a, b \in replies :
        a.status = "applied" /\ b.status = "applied" /\ a.rev = b.rev => a.id = b.id

\* A journaled command sent again returns the result of the first time, in the
\* same process and after a restart (processedCommands ring and journal lookup).
SameReplyForever ==
    \A a, b \in replies : \A cmd \in Commands :
        a.id = cmd.id /\ b.id = cmd.id /\ ~Transient(cmd) => a = b

\* Why revisions are unique (the inductive invariant of the proofs).  A result in
\* the ring or given to a client is not ahead of its view's state.json; the
\* counter of a serving coordinator is not behind any state.json; a decided
\* record is one ahead of the counter until it is written; and what the journal
\* holds beyond the files is the record in hand or yet to be replayed.
OnDisk(reply) == \A cmd \in Commands : cmd.id = reply.id => reply.rev <= state[cmd.view].rev
Landed(rec) == rec.rev <= state[rec.cmd.view].rev

OneHolder == \A c \in Coords : pc[c] # "down" => holder = c

RepliesOnDisk == \A reply \in replies : OnDisk(reply)

RejectedLanded ==
    \A i \in DOMAIN journal : journal[i].status = "rejected" => Landed(journal[i])

RingOnDisk(c) == \A i \in DOMAIN ring[c] : OnDisk(ring[c][i])

CounterLeads(c) ==
    /\ pc[c] \in Serving \ {"status"} => \A v \in Views : state[v].rev <= counter[c]
    /\ pc[c] = "status" => \A v \in Views : state[v].rev <= counter[c] + 1

JobInHand(c) ==
    LET rec == job[c].rec
    IN  /\ pc[c] = "append" => IF rec.status = "applied" THEN rec.rev = counter[c] + 1
                                                        ELSE Landed(rec)
        /\ pc[c] \in {"state", "status"} => rec.status = "applied" /\ rec.rev = counter[c] + 1
        /\ pc[c] \in {"status", "checkpoint", "gc", "reply"} => Landed(rec)

ServedJournal(c) ==
    pc[c] \in Serving =>
        \A i \in DOMAIN journal :
            Landed(journal[i]) \/ (pc[c] = "state" /\ journal[i] = job[c].rec)

ReplayedJournal(c) ==
    pc[c] \in {"replay", "replayStatus"} =>
        /\ \A i \in DOMAIN journal :
              Landed(journal[i]) \/ \E j \in DOMAIN todo[c] : todo[c][j] = journal[i]
        /\ \A j \in DOMAIN todo[c] : \E i \in DOMAIN journal : todo[c][j] = journal[i]

Ahead(c) ==
    RingOnDisk(c) /\ CounterLeads(c) /\ JobInHand(c) /\ ServedJournal(c) /\ ReplayedJournal(c)

RevisionInvariant ==
    OneHolder /\ RepliesOnDisk /\ RejectedLanded /\ \A c \in Coords : Ahead(c)

\* The results that were ever handed out or may still be.
Issued(reply) ==
    \/ reply \in replies
    \/ \E i \in DOMAIN journal : reply = ReplyTo(journal[i])
    \/ \E c \in Coords : \E i \in DOMAIN ring[c] : reply = ring[c][i]
    \/ \E c \in Coords : pc[c] \in Serving \ {"idle"} /\ reply = ReplyTo(job[c].rec)

IssuedOnce ==
    \A a, b \in Reply :
        /\ Issued(a) /\ Issued(b)
        /\ a.status = "applied" /\ b.status = "applied" /\ a.rev = b.rev
        => a.id = b.id

\* The pairing invariant: while a coordinator serves and no record is half
\* written, the row and the status of the run it shows carry one revision, so
\* that the reader-side check (statusRevisionDesynced) means a crash.
Settled == \E c \in Coords : pc[c] \in {"idle", "checkpoint", "gc", "reply"}

PairingHolds ==
    Settled => \A v \in Views :
        LET run == state[v].row.run
        IN  run # None /\ status[v][run].st # Absent => status[v][run].rev = state[v].rev

\* Neither file ever moves back to an older revision, whoever writes it and
\* whatever is replayed (the per-file guards of materialize).
FilesNeverGoBack ==
    [][\A v \in Views : /\ state'[v].rev >= state[v].rev
                        /\ \A r \in Runs : status'[v][r].rev >= status[v][r].rev]_vars

\* The record whose state half this step writes.
WritesFor(c, cmd) ==
    /\ pc[c] \in {"state", "replay"} /\ pc'[c] \in {"status", "replayStatus"}
    /\ job'[c].rec.cmd = cmd

\* A user verdict on a row is undone only by a user's command: neither a late
\* report of a run nor the replay of one moves the row or its classification.
ManualVerdictStands ==
    [][\A v \in Views :
          IsManualVerdict(state[v].row)
             /\ <<state'[v].row.sem, state'[v].row.auto>> # <<state[v].row.sem, state[v].row.auto>>
          => \E c \in Coords, cmd \in Commands :
                WritesFor(c, cmd) /\ cmd.view = v /\ cmd.source = "dashboard-user"]_vars

\* What is journaled is applied in the end, although the process that journaled
\* it may die before it wrote either file.
EveryRecordLands ==
    \A cmd \in Commands :
        (\E i \in DOMAIN journal : journal[i].cmd = cmd /\ journal[i].status = "applied")
            ~> (\A i \in DOMAIN journal :
                    journal[i].cmd = cmd /\ journal[i].status = "applied"
                        => state[cmd.view].rev >= journal[i].rev)

----------------------------------------------------------------------------
(* Refinement.  A journaled record counts as applied from its append on: the *)
(* board shows the files with the last applied record of each view laid over. *)

Pending(v) == {i \in DOMAIN journal : journal[i].status = "applied" /\ journal[i].cmd.view = v}
LastOf(v) == journal[CHOOSE i \in Pending(v) : \A j \in Pending(v) : j <= i]

ShownRow(v) ==
    IF Pending(v) = {} THEN state[v]
    ELSE StampState(state[v], LastOf(v).row, LastOf(v).rev)

\* The run a record was bound to when it was decided.
DecidedRun(rec) == IF rec.cmd.run # None THEN rec.cmd.run ELSE rec.run

ShownRuns(v) ==
    IF Pending(v) = {} THEN status[v]
    ELSE StampRuns(status[v], DecidedRun(LastOf(v)),
                   LastOf(v).cmd.kind, LastOf(v).patch, LastOf(v).rev)

Board == INSTANCE AtomicBoard WITH rows <- [v \in Views |-> ShownRow(v)],
                                   runs <- [v \in Views |-> ShownRuns(v)]
RefinesAtomicBoard == Board!Spec
=============================================================================
