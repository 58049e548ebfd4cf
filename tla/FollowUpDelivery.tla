--------------------------- MODULE FollowUpDelivery ---------------------------
(***************************************************************************)
(* The follow-up queue of one view (src/core/follow-up-queue.mjs) and the  *)
(* delivery of its items: a user's reply and the drain passes of open      *)
(* dashboards (src/runtime/service.mjs) send an item to the live PTY host  *)
(* under its id and wait for the host to accept and to apply it, or launch *)
(* a host or a run with it; a JSON runner drains one item when it ends.    *)
(* The host (createControlRuntime of runner/pty-runner.mjs) journals what  *)
(* it accepts before it types it, and the journal outlives the host.       *)
(*                                                                         *)
(* An item is its place in the queue (its seq).  Every update of the queue *)
(* file runs under the view's queue lock and is one step.  Hosts without   *)
(* an instance id, and the 256-command limit of the journal, are left out. *)
(***************************************************************************)
EXTENDS Naturals, Sequences, FiniteSets

CONSTANTS
    MaxItems,     \* bound: how many follow-ups are queued
    Replies,      \* reply() calls
    Dashboards,   \* drain passes of open dashboards
    Runners,      \* drains of JSON runners, when their runs end
    NoHost,       \* no live host
    MaxHosts,     \* bound: how many hosts are started
    MaxRuns,      \* bound: how many JSON runs are launched
    MaxStops,     \* bound: how many hosts die or are stopped
    MaxCrashes,   \* bound: how many clients die in the middle of a delivery
    MaxFailures,  \* bound: how many appends to the host's journal fail
    DiskTears     \* whether a dying host may leave half a record in it

Items == 1..MaxItems
Instances == 1..MaxHosts
Drains == Dashboards \cup Runners
Clients == Replies \cup Drains

ASSUME DeliveryAssumption ==
    /\ MaxItems \in Nat /\ MaxHosts \in Nat /\ MaxRuns \in Nat
    /\ MaxStops \in Nat /\ MaxCrashes \in Nat
    /\ MaxFailures \in Nat /\ DiskTears \in BOOLEAN
    /\ NoHost \notin Instances
    /\ Replies \cap Drains = {} /\ Dashboards \cap Runners = {}

VARIABLES
    queue,        \* the status of each item in follow-ups.json
    host,         \* the live instance
    ready,        \* whether its child runs
    started,      \* instances started so far
    accepted,     \* items with an accepted record in the journal the host holds
    applied,      \* items with an applied record
    torn,         \* whether the journal file ends in half a record
    unreadable,   \* items whose accepted record was appended to such a half
    writing,      \* the request the host is in the middle of
    wire,         \* requests sent and not read by the host
    acks,         \* answers each client has not read yet
    pc,           \* where each client stands
    item,         \* the item it has in hand
    target,       \* the instance it saw
    heard,        \* whether it saw the accepted stage
    verdict,      \* what it concluded
    runs,         \* live JSON runs
    launches,     \* JSON runs launched so far
    drains,       \* canAutoDrain: not busy, and the row rests at idle or completed
    stops,
    failures,
    crashes,
    typed,        \* how often each item was typed into a host
    launched      \* how often a host or a run was launched with it

diskVars == <<torn, unreadable, failures>>
hostVars == <<host, stops, ready, started, accepted, applied, diskVars, writing, wire, acks>>
clientVars == <<pc, item, target, heard, verdict>>
runVars == <<runs, launches, drains>>
history == <<typed, launched>>
vars == <<queue, hostVars, clientVars, runVars, crashes, history>>

Request == [client : Clients, item : Items]
Idle == [client |-> NoHost, item |-> 0]

TypeOK ==
    /\ queue \in [Items -> {"new", "queued", "claimed", "completed", "failed", "cancelled"}]
    /\ host \in Instances \cup {NoHost}
    /\ ready \in BOOLEAN
    /\ started \in 0..MaxHosts
    /\ accepted \subseteq Items /\ applied \subseteq Items
    /\ torn \in BOOLEAN /\ unreadable \subseteq Items
    /\ writing \in Request \cup {Idle}
    /\ wire \subseteq Request
    /\ acks \in [Clients -> Seq({"accepted", "applied", "error"})]
    /\ pc \in [Clients -> {"idle", "claim", "send", "launch", "run", "wait", "query",
                           "settle", "dead"}]
    /\ item \in [Clients -> Items \cup {0}]
    /\ target \in [Clients -> Instances \cup {NoHost}]
    /\ heard \in [Clients -> BOOLEAN]
    /\ verdict \in [Clients -> {"none", "ok", "ambiguous", "retry"}]
    /\ runs \in 0..MaxRuns + 1 /\ launches \in 0..MaxRuns /\ drains \in BOOLEAN
    /\ stops \in 0..MaxStops /\ crashes \in 0..MaxCrashes /\ failures \in 0..MaxFailures
    /\ typed \in [Items -> Nat] /\ launched \in [Items -> Nat]

Init ==
    /\ queue = [i \in Items |-> "new"]
    /\ host = NoHost /\ ready = FALSE /\ started = 0
    /\ accepted = {} /\ applied = {} /\ writing = Idle
    /\ torn = FALSE /\ unreadable = {}
    /\ wire = {} /\ acks = [c \in Clients |-> <<>>]
    /\ pc = [c \in Clients |-> "idle"]
    /\ item = [c \in Clients |-> 0]
    /\ target = [c \in Clients |-> NoHost]
    /\ heard = [c \in Clients |-> FALSE]
    /\ verdict = [c \in Clients |-> "none"]
    /\ runs \in {0, 1} /\ launches = 0 /\ drains \in BOOLEAN /\ stops = 0 /\ crashes = 0 /\ failures = 0
    /\ typed = [i \in Items |-> 0]
    /\ launched = [i \in Items |-> 0]

Goto(c, label) == pc' = [pc EXCEPT ![c] = label]
Mark(i, status) == queue' = [queue EXCEPT ![i] = status]

\* The client knows how its delivery ended.
Conclude(c, outcome) ==
    /\ Goto(c, "settle")
    /\ verdict' = [verdict EXCEPT ![c] = outcome]

----------------------------------------------------------------------------
(* The queue: what users do to it.                                         *)

Unused == {i \in Items : queue[i] = "new"}
Queued == {i \in Items : queue[i] = "queued"}
IsFirst(i, set) == i \in set /\ \A j \in set : i <= j
IsLast(i, set) == i \in set /\ \A j \in set : j <= i

\* The agent is busy, or another launch took the view: queued only.
Enqueue ==
    /\ \E i \in Items : IsFirst(i, Unused) /\ Mark(i, "queued")
    /\ UNCHANGED <<hostVars, clientVars, runVars, crashes, history>>

\* reply() to a view with a live host: queued first, then sent right away.
Reply(c) ==
    /\ pc[c] = "idle" /\ host # NoHost
    /\ \E i \in Items : /\ IsFirst(i, Unused) /\ Mark(i, "queued")
                        /\ item' = [item EXCEPT ![c] = i]
    /\ target' = [target EXCEPT ![c] = host]
    /\ Goto(c, "send")
    /\ UNCHANGED <<hostVars, heard, verdict, runVars, crashes, history>>

RemoveLastFollowUp ==
    /\ \E i \in Items : IsLast(i, Queued) /\ Mark(i, "cancelled")
    /\ UNCHANGED <<hostVars, clientVars, runVars, crashes, history>>

ClearQueuedFollowUps ==
    /\ Queued # {}
    /\ queue' = [i \in Items |-> IF i \in Queued THEN "cancelled" ELSE queue[i]]
    /\ UNCHANGED <<hostVars, clientVars, runVars, crashes, history>>

----------------------------------------------------------------------------
(* Draining.                                                               *)

\* A turn, the end of a run, a classification or a user's verdict changes the row's
\* state at any time: from what drains (idle, completed) to what does not (working,
\* needs_input, failed, stopped, holding), or back.
RowChanges ==
    /\ drains' = ~drains
    /\ UNCHANGED <<queue, hostVars, clientVars, runs, launches, crashes, history>>

\* A reconcile pass saw queued items and a row that drains, with or without a host.
Look(c) ==
    /\ pc[c] = "idle" /\ Queued # {}
    /\ drains
    /\ target' = [target EXCEPT ![c] = host]
    /\ Goto(c, "claim")
    /\ UNCHANGED <<queue, hostVars, item, heard, verdict, runVars, crashes, history>>

\* A JSON run ends, and its runner claims the next item for a run of its own.  A plan
\* run, one that ended in another status than idle or completed, and one whose row has
\* a manual verdict leave the queue alone.
RunnerExit(c) ==
    /\ pc[c] = "idle" /\ runs > 0
    /\ runs' = runs - 1
    /\ \/ UNCHANGED <<queue, pc, item>>
       \/ \E i \in Items : /\ IsFirst(i, Queued) /\ Mark(i, "claimed")
                           /\ item' = [item EXCEPT ![c] = i]
                           /\ Goto(c, "run")
    /\ UNCHANGED <<hostVars, target, heard, verdict, launches, drains, crashes, history>>

ClaimNextFollowUp(c) ==
    /\ pc[c] = "claim"
    /\ IF Queued = {} THEN Goto(c, "idle") /\ UNCHANGED <<queue, item>>
       ELSE \E i \in Items : /\ IsFirst(i, Queued) /\ Mark(i, "claimed")
                             /\ item' = [item EXCEPT ![c] = i]
                             /\ Goto(c, IF target[c] = NoHost THEN "launch" ELSE "send")
    /\ UNCHANGED <<hostVars, target, heard, verdict, runVars, crashes, history>>

\* A host that starts reads the journal and drops the lines it cannot parse.
BringUpHost ==
    /\ started < MaxHosts /\ started' = started + 1
    /\ host' = started' /\ ready' = FALSE
    /\ accepted' = accepted \ unreadable
    /\ unreadable' = {}

HandOver(i) == launched' = [launched EXCEPT ![i] = @ + 1]

\* No host was seen: start one with the prompt, unless another claim came first.
LaunchHost(c) ==
    /\ pc[c] = "launch"
    /\ IF host # NoHost
       THEN /\ Conclude(c, "retry")
            /\ UNCHANGED <<host, ready, started, accepted, unreadable, launched>>
       ELSE BringUpHost /\ HandOver(item[c]) /\ Conclude(c, "ok")
    /\ UNCHANGED <<queue, stops, applied, torn, failures, writing, wire, acks, item, target, heard,
                   runVars, crashes, typed>>

\* No terminal support, or an ending run: launch a JSON run.
LaunchRun(c) ==
    /\ pc[c] \in {"launch", "run"}
    /\ launches < MaxRuns /\ launches' = launches + 1
    /\ runs' = runs + 1
    /\ HandOver(item[c])
    /\ Conclude(c, "ok")
    /\ UNCHANGED <<queue, hostVars, item, target, heard, drains, crashes, typed>>

LaunchFails(c) ==
    /\ pc[c] \in {"launch", "run"}
    /\ Conclude(c, "retry")
    /\ UNCHANGED <<queue, hostVars, item, target, heard, runVars, crashes, history>>

----------------------------------------------------------------------------
(* Sending to a live host (sendHostInputStaged).                           *)

\* Every instance has an endpoint of its own: a dead one cannot be reached.
Send(c) ==
    /\ pc[c] = "send"
    /\ IF host = target[c]
       THEN /\ wire' = wire \cup {[client |-> c, item |-> item[c]]}
            /\ Goto(c, "wait") /\ UNCHANGED verdict
       ELSE Conclude(c, "retry") /\ UNCHANGED wire
    /\ UNCHANGED <<queue, host, stops, ready, started, accepted, applied, diskVars, writing, acks,
                   item, target, heard, runVars, crashes, history>>

\* The socket stays open while a query runs, and a late answer still counts.
Awaiting(c) == pc[c] \in {"wait", "query"}

\* A client that takes the accepted stage for the applied one.
Eager_Hear(c) ==
    /\ Awaiting(c) /\ acks[c] # <<>>
    /\ acks' = [acks EXCEPT ![c] = Tail(@)]
    /\ Conclude(c, IF Head(acks[c]) = "error" THEN "retry" ELSE "ok")
    /\ UNCHANGED <<queue, host, stops, ready, started, accepted, applied, diskVars, writing, wire,
                   item, target, heard, runVars, crashes, history>>

Hear(c) ==
    /\ Awaiting(c) /\ acks[c] # <<>>
    /\ acks' = [acks EXCEPT ![c] = Tail(@)]
    /\ \/ Head(acks[c]) = "accepted" /\ heard' = [heard EXCEPT ![c] = TRUE]
          /\ UNCHANGED <<pc, verdict>>
       \/ Head(acks[c]) = "applied" /\ Conclude(c, "ok") /\ UNCHANGED heard
       \/ Head(acks[c]) = "error" /\ Conclude(c, "retry") /\ UNCHANGED heard
    /\ UNCHANGED <<queue, host, stops, ready, started, accepted, applied, diskVars, writing, wire,
                   item, target, runVars, crashes, history>>

\* The host is gone and all it wrote was read.  After an accepted stage the
\* outcome is queried.
SocketClosed(c) ==
    /\ Awaiting(c) /\ acks[c] = <<>> /\ host # target[c]
    /\ IF heard[c] THEN pc[c] = "wait" /\ Goto(c, "query") /\ UNCHANGED verdict
                   ELSE Conclude(c, "retry")
    /\ UNCHANGED <<queue, hostVars, item, target, heard, runVars, crashes, history>>

Timeout(c) ==
    /\ pc[c] = "wait"
    /\ Goto(c, "query")
    /\ UNCHANGED <<queue, hostVars, item, target, heard, verdict, runVars, crashes, history>>

\* An answer that names every accepted item.
AcceptedOnly_QueryHost(c) ==
    /\ pc[c] = "query" /\ host = target[c] /\ writing = Idle
    /\ Conclude(c, IF item[c] \in accepted THEN "ambiguous" ELSE "retry")
    /\ UNCHANGED <<queue, hostVars, item, target, heard, runVars, crashes, history>>

\* The host answers with the items it accepted and did not apply.
QueryHost(c) ==
    /\ pc[c] = "query" /\ host = target[c] /\ writing = Idle
    /\ Conclude(c, IF item[c] \in accepted \ applied THEN "ambiguous" ELSE "retry")
    /\ UNCHANGED <<queue, hostVars, item, target, heard, runVars, crashes, history>>

\* The query found nobody, or timed out as well.
QueryUnavailable(c) ==
    /\ pc[c] = "query"
    /\ Conclude(c, "retry")
    /\ UNCHANGED <<queue, hostVars, item, target, heard, runVars, crashes, history>>

\* A delivery that failed and keeps its claim.
Unreleased_Settle(c) ==
    /\ pc[c] = "settle"
    /\ \/ verdict[c] = "ok" /\ Mark(item[c], "completed")
       \/ verdict[c] = "ambiguous" /\ Mark(item[c], "failed")
       \/ verdict[c] = "retry" /\ UNCHANGED queue
    /\ Goto(c, "idle")
    /\ item' = [item EXCEPT ![c] = 0]
    /\ target' = [target EXCEPT ![c] = NoHost]
    /\ heard' = [heard EXCEPT ![c] = FALSE]
    /\ verdict' = [verdict EXCEPT ![c] = "none"]
    /\ acks' = [acks EXCEPT ![c] = <<>>]
    /\ UNCHANGED <<host, stops, ready, started, accepted, applied, diskVars, writing, wire,
                   runVars, crashes, history>>

\* completeFollowUp, failFollowUp and releaseFollowUp look at no status; a reply
\* that failed leaves its item to the drain passes.
Settle(c) ==
    /\ pc[c] = "settle"
    /\ \/ verdict[c] = "ok" /\ Mark(item[c], "completed")
       \/ verdict[c] = "ambiguous" /\ Mark(item[c], "failed")
       \/ verdict[c] = "retry" /\ c \in Drains /\ Mark(item[c], "queued")
       \/ verdict[c] = "retry" /\ c \notin Drains /\ UNCHANGED queue
    /\ Goto(c, "idle")
    /\ item' = [item EXCEPT ![c] = 0]
    /\ target' = [target EXCEPT ![c] = NoHost]
    /\ heard' = [heard EXCEPT ![c] = FALSE]
    /\ verdict' = [verdict EXCEPT ![c] = "none"]
    /\ acks' = [acks EXCEPT ![c] = <<>>]
    /\ UNCHANGED <<host, stops, ready, started, accepted, applied, diskVars, writing, wire,
                   runVars, crashes, history>>

\* A client process dies with its delivery.
ClientCrash(c) ==
    /\ pc[c] \notin {"idle", "dead"}
    /\ crashes < MaxCrashes /\ crashes' = crashes + 1
    /\ Goto(c, "dead")
    /\ UNCHANGED <<queue, hostVars, item, target, heard, verdict, runVars, history>>

----------------------------------------------------------------------------
(* The host.  It takes one request at a time; only a crash comes between.  *)

\* An answer goes to the socket of its request, which a client that is done closed.
\* (The wire is a set: a request sent again while it still waits is answered once.)
Tell(request, answer) ==
    LET c == request.client
    IN  acks' = [acks EXCEPT ![c] = IF Awaiting(c) /\ item[c] = request.item
                                    THEN Append(@, answer) ELSE @]

\* A host that takes every request for a new one.
Undeduped_Known(i) == FALSE

\* journalIds: commands with a record in the journal.
Known(i) == i \in accepted \cup applied

Take(request) ==
    /\ host # NoHost /\ writing = Idle /\ request \in wire
    /\ wire' = wire \ {request}

AnswerKnown(request) ==
    /\ Take(request) /\ Known(request.item)
    /\ Tell(request, IF request.item \in applied THEN "applied" ELSE "accepted")
    /\ UNCHANGED <<queue, host, stops, ready, started, accepted, applied, diskVars, writing,
                   clientVars, runVars, crashes, history>>

\* An append to the journal fails.
Fail == failures < MaxFailures /\ failures' = failures + 1

\* host_starting, or journal_unavailable.
Refuse(request) ==
    /\ Take(request) /\ ~Known(request.item)
    /\ (~ready /\ UNCHANGED failures) \/ (ready /\ Fail)
    /\ Tell(request, "error")
    /\ UNCHANGED <<queue, host, stops, ready, started, accepted, applied, torn, unreadable, writing,
                   clientVars, runVars, crashes, history>>

\* An accept that writes no record.
Unjournaled_Accept(request) ==
    /\ Take(request) /\ ~Known(request.item)
    /\ ready
    /\ Tell(request, "accepted")
    /\ writing' = request
    /\ UNCHANGED <<queue, host, stops, ready, started, accepted, applied, diskVars,
                   clientVars, runVars, crashes, history>>

\* The record goes behind what the file ends with; reading the file again, the
\* host cannot parse a record that was appended to half of another.
Accept(request) ==
    /\ Take(request) /\ ~Known(request.item)
    /\ ready
    /\ accepted' = accepted \cup {request.item}
    /\ unreadable' = IF torn THEN unreadable \cup {request.item} ELSE unreadable
    /\ torn' = FALSE
    /\ Tell(request, "accepted")
    /\ writing' = request
    /\ UNCHANGED <<queue, host, stops, ready, started, applied, failures,
                   clientVars, runVars, crashes, history>>

\* child.write, then the applied record, then the answer.
Write ==
    /\ writing # Idle
    /\ typed' = [typed EXCEPT ![writing.item] = @ + 1]
    /\ \/ applied' = applied \cup {writing.item} /\ UNCHANGED failures
       \/ Fail /\ UNCHANGED applied
    /\ Tell(writing, "applied")
    /\ writing' = Idle
    /\ UNCHANGED <<queue, host, stops, ready, started, accepted, torn, unreadable, wire,
                   clientVars, runVars, crashes, launched>>

\* The child is gone: the request stays accepted and is answered no more.
WriteFails ==
    /\ writing # Idle
    /\ writing' = Idle
    /\ UNCHANGED <<queue, host, stops, ready, started, accepted, applied, diskVars, wire, acks,
                   clientVars, runVars, crashes, history>>

\* A host is started without a prompt (an attach, a prewarm).
StartHost ==
    /\ host = NoHost /\ BringUpHost
    /\ UNCHANGED <<queue, stops, applied, torn, failures, writing, wire, acks,
                   clientVars, runVars, crashes, history>>

ChildReady ==
    /\ host # NoHost /\ ~ready
    /\ ready' = TRUE
    /\ UNCHANGED <<queue, host, stops, started, accepted, applied, diskVars, writing, wire, acks,
                   clientVars, runVars, crashes, history>>

\* The host is evicted, crashes or ends: in the middle of the append that accepts
\* a request, before it typed it, or after it, in the append that says so; answers
\* that were not read may be lost.
HostStops ==
    /\ host # NoHost /\ stops < MaxStops
    /\ stops' = stops + 1
    /\ host' = NoHost /\ ready' = FALSE
    /\ writing' = Idle
    /\ \/ UNCHANGED <<typed, torn>>
       \/ /\ DiskTears /\ torn' = TRUE /\ UNCHANGED typed
          /\ ready /\ writing = Idle /\ \E request \in wire : ~Known(request.item)
       \/ /\ writing # Idle /\ typed' = [typed EXCEPT ![writing.item] = @ + 1]
          /\ UNCHANGED torn \/ (DiskTears /\ torn' = TRUE)
    /\ wire' = {}
    /\ \/ UNCHANGED acks
       \/ acks' = [c \in Clients |-> <<>>]
    /\ UNCHANGED <<queue, started, accepted, applied, unreadable, failures,
                   clientVars, runVars, crashes, launched>>

----------------------------------------------------------------------------

User == Enqueue \/ RemoveLastFollowUp \/ ClearQueuedFollowUps \/ \E c \in Replies : Reply(c)

Deliver(c) ==
    \/ ClaimNextFollowUp(c) \/ LaunchHost(c) \/ LaunchRun(c) \/ LaunchFails(c)
    \/ Send(c) \/ Hear(c) \/ SocketClosed(c) \/ Timeout(c)
    \/ QueryHost(c) \/ QueryUnavailable(c) \/ Settle(c)

Answer(request) == AnswerKnown(request) \/ Refuse(request) \/ Accept(request)

Serve == (\E request \in wire : Answer(request)) \/ Write \/ WriteFails

Next ==
    \/ User \/ RowChanges
    \/ \E c \in Dashboards : Look(c)
    \/ \E c \in Runners : RunnerExit(c)
    \/ \E c \in Clients : Deliver(c) \/ ClientCrash(c)
    \/ Serve \/ StartHost \/ ChildReady \/ HostStops

Spec == Init /\ [][Next]_vars

\* Dashboards poll, their passes go on, hosts come up and serve.  A delivery that is
\* tried again and again meets a host that answers it in time, an answer that is
\* read, and a query that is answered or a launch that works.  (An adopted external
\* session on a machine without PTY support has neither: a drain pass releases its
\* item every time.)  Nothing makes a row drain: RowChanges has no fairness.
InTime(c) == Awaiting(c) /\ \E request \in wire : request.client = c /\ Answer(request)
Fairness ==
    /\ \A c \in Dashboards :
          /\ WF_vars(Look(c))
          /\ SF_vars(InTime(c)) /\ SF_vars(Hear(c))
          /\ SF_vars(QueryHost(c) \/ LaunchHost(c) \/ LaunchRun(c))
    /\ \A c \in Runners : WF_vars(RunnerExit(c))
    /\ \A c \in Drains : WF_vars(Deliver(c))
    /\ WF_vars(Serve) /\ WF_vars(ChildReady)

FairSpec == Spec /\ Fairness

----------------------------------------------------------------------------
(* Properties.                                                             *)

\* No host types an item twice, whoever sends it how often and whatever host
\* died in between: the journal is written first and read by every host.  (A host
\* that dies in the middle of an append costs the record after it as well: with a
\* third host the item may be typed twice.)
TypedOnce == \A i \in Items : typed[i] <= 1

\* As long as no host stops and no run is launched, an item is handed over once at
\* most, typed into the host or launched with: a reply that fails, a drain pass that
\* saw no host and one that sends never deliver it twice between them.  (A host that
\* dies loses what it was launched with, or leaves an unknown outcome: TypedOnce and
\* FailedIsUnknown are about those.)
HandedOnce ==
    stops = 0 /\ launches = 0 => \A i \in Items : typed[i] + launched[i] <= 1

\* A completed item reached an agent: only the applied stage, or a launch,
\* completes it (never the accepted stage).
CompletedWasHanded ==
    \A i \in Items : queue[i] = "completed" => typed[i] + launched[i] >= 1

\* Only an outcome nobody can know marks an item failed: the host journaled that
\* it accepted the item and not that it applied it.
FailedIsUnknown == \A i \in Items : queue[i] = "failed" => i \in accepted \ applied

\* A queued prompt of a view that comes to rest where it drains (idle or completed,
\* nothing running) is not lost: it comes to an end in the queue, whatever was tried
\* and given up for it before.  A view that rests at needs_input, failed, stopped or
\* holding keeps its queue, and an ending run need not drain it.
QueuedIsSettled ==
    \A i \in Items :
        <>[]drains =>
            (queue[i] = "queued"
                ~> crashes > 0 \/ queue[i] \in {"completed", "failed", "cancelled"})
=============================================================================
