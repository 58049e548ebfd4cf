---------------------------- MODULE TerminalAttach ----------------------------
(***************************************************************************)
(* Attaching to a hosted terminal: the runner's canonical model and the    *)
(* subscription of one socket (src/core/terminal-attach-protocol.mjs,      *)
(* terminal-model.mjs and their wiring in runner/pty-runner.mjs), the      *)
(* client's state machine (src/core/terminal-attach-client.mjs) and what   *)
(* the attach view does with its events (src/ui/pty-attach.ts): snapshot,  *)
(* live stream, resync, and the reconnect gate hello -> reconcile ->       *)
(* subscribe, over sockets that drop and hosts that are replaced.          *)
(*                                                                         *)
(* Output chunks are their sequence numbers.  What the user sees is the    *)
(* baseline a snapshot painted and the chunks written after it: screen     *)
(* says of which runner boot (generation) it is, up to which chunk it is   *)
(* complete, and whether everything up to there was written once and in    *)
(* order.  Frames, view proofs, geometry and keyboard input are data.      *)
(***************************************************************************)
EXTENDS Naturals, Sequences

CONSTANTS
    RingCap,       \* chunks the runner's ring retains
    MaxFailures,   \* MAX_SNAPSHOT_FAILURES
    Budgets        \* bounds: how often what may happen in one behaviour

\* Output chunks, dropped sockets, replaced hosts, captures that fail, reporters
\* that close, timers that fire before a late answer, recoveries the view asks
\* for while it takes a snapshot.
Budget == [outputs : Nat, drops : Nat, hosts : Nat, faults : Nat, resets : Nat,
           late : Nat, asks : Nat]

ASSUME AttachAssumption ==
    /\ RingCap \in Nat \ {0} /\ MaxFailures \in Nat
    /\ Budgets \subseteq Budget

VARIABLES
    gen,      \* the runner boot behind the endpoint
    last,     \* model.lastSeq
    evicted,  \* model.evictedThrough
    sub,      \* the subscription of the client's socket
    link,     \* whether the client's socket is connected
    up, down, \* what is on its way to the runner, and to the client
    client,   \* the client's state machine
    screen,   \* what the view shows
    trouble,  \* history: what spoiled the screen since its baseline, unnoticed
    budget    \* what is left of each bound

runner == <<gen, last, evicted>>
vars == <<gen, last, evicted, sub, link, up, down, client, screen, trouble, budget>>

Fresh == [type |-> "subscribe", n |-> 0]
Since(n) == [type |-> "subscribe", n |-> n]
Reconcile(id) == [type |-> "reconcile", n |-> id]
Say(type, n) == [type |-> type, n |-> n]

\* No chunks, frame or begin seen.
NoPart == [begin |-> 0, frame |-> FALSE, flush |-> 0]
\* No subscription.
NoSub == [pc |-> "idle", owns |-> FALSE, seq |-> 0, dto |-> 0]

States == {"probing", "collecting", "live", "resyncing", "reconciling", "legacy"}
Troubles == {"skipped strays", "foreign cursor", "lost baseline", "early chunk", "lost flush"}

TypeOK ==
    /\ gen \in Nat \ {0} /\ last \in Nat /\ evicted \in 0..last
    /\ sub \in [pc : {"idle", "capturing", "rendering", "live"}, owns : BOOLEAN,
                seq : 0..last, dto : 0..last]
    /\ link \in BOOLEAN
    /\ \A i \in DOMAIN up :
          up[i] \in [type : {"subscribe", "reconcile"}, n : Nat]
    /\ \A i \in DOMAIN down :
          down[i] \in [type : {"hello", "reconciled", "mismatch", "begin", "frame", "end",
                               "output", "proof", "required", "failed"}, n : Nat]
    /\ client \in [state : States, mode : {"undecided", "protocol", "legacy"},
                   seq : Nat, failures : 0..MaxFailures,
                   part : [begin : Nat, frame : BOOLEAN, flush : Nat],
                   gen : 0..gen, inst : 0..gen, atDrop : 0..gen, from : 0..gen,
                   high : Nat, probe : BOOLEAN]
    /\ screen \in [gen : 0..gen, upto : Nat, exact : BOOLEAN]
    /\ trouble \subseteq Troubles
    /\ budget \in Budget

Init ==
    /\ gen = 1 /\ last = 0 /\ evicted = 0
    /\ sub = NoSub /\ link = FALSE /\ up = <<>> /\ down = <<>>
    /\ client = [state |-> "probing", mode |-> "undecided", seq |-> 0, failures |-> 0,
                 part |-> NoPart, gen |-> 0, inst |-> 0, atDrop |-> 0, from |-> 0,
                 high |-> 0, probe |-> FALSE]
    /\ screen = [gen |-> 0, upto |-> 0, exact |-> FALSE]
    /\ trouble = {}
    /\ budget \in Budgets

Spend(what) == budget[what] > 0 /\ budget' = [budget EXCEPT ![what] = @ - 1]
Note(what, when) == trouble' = IF when THEN trouble \cup {what} ELSE trouble
Larger(m, n) == IF m < n THEN n ELSE m

----------------------------------------------------------------------------
(* The runner.                                                             *)

Chunks(from, to) == [i \in 1..(to - from) |-> Say("output", from + i)]

Tell(messages) == down' = IF link THEN down \o messages ELSE down

\* A chunk is numbered, and the ring drops its oldest ones.
FeedOutput ==
    /\ last' = last + 1
    /\ evicted' = Larger(evicted, last' - RingCap)

\* What a subscription makes of a chunk: a capture's flush will cover it, a live
\* stream sends it, a gap is never skipped.
OnOutput(n) ==
    IF sub.pc # "live" THEN UNCHANGED <<sub, down>>
    ELSE IF n = sub.seq + 1
         THEN Tell(<<Say("output", n)>>) /\ sub' = [sub EXCEPT !.seq = n]
         ELSE Tell(<<Say("required", 0)>>) /\ sub' = [sub EXCEPT !.pc = "idle"]

\* The child's output, for the model and for the socket: by its subscription if
\* it has ever subscribed, as a broadcast otherwise.
Output ==
    /\ Spend("outputs")
    /\ FeedOutput
    /\ IF sub.owns THEN OnOutput(last') ELSE Tell(<<Say("output", last')>>) /\ UNCHANGED sub
    /\ UNCHANGED <<gen, link, up, client, screen, trouble>>

Read(type) == link /\ up # <<>> /\ Head(up).type = type /\ up' = Tail(up)

\* A snapshot of an empty model is two messages, sent at once.
StartSnapshot ==
    IF last = 0 THEN /\ sub' = [sub EXCEPT !.owns = TRUE, !.pc = "live", !.seq = 0]
                     /\ Tell(<<Say("begin", 0), Say("end", 1)>>)
                ELSE /\ sub' = [sub EXCEPT !.owns = TRUE, !.pc = "capturing"]
                     /\ UNCHANGED down

\* The ring holds everything past the cursor: replay it, then the coverage.
StartReplay(n) ==
    /\ sub' = [sub EXCEPT !.owns = TRUE, !.pc = "live", !.seq = last]
    /\ Tell(Chunks(n, last) \o <<Say("proof", last)>>)

\* subscribe_terminal; a duplicate during a capture is dropped.
Subscribe ==
    /\ Read("subscribe")
    /\ LET n == Head(up).n IN
          IF sub.pc \in {"capturing", "rendering"} THEN UNCHANGED <<sub, down>>
          ELSE IF n = 0 \/ n > last \/ n < evicted THEN StartSnapshot
          ELSE StartReplay(n)
    /\ UNCHANGED <<runner, link, client, screen, trouble, budget>>

\* The parser is idle: the model is captured and begin goes out.
Capture ==
    /\ sub.pc = "capturing"
    /\ sub' = [sub EXCEPT !.pc = "rendering", !.dto = last]
    /\ Tell(<<Say("begin", last)>>)
    /\ UNCHANGED <<runner, link, up, client, screen, trouble, budget>>

\* The frame is synthesized; what arrived since the capture is flushed after it.
Render ==
    /\ sub.pc = "rendering"
    /\ IF sub.dto < evicted
       THEN /\ sub' = [sub EXCEPT !.pc = "idle"]
            /\ Tell(<<Say("frame", sub.dto), Say("required", 0)>>)
       ELSE /\ sub' = [sub EXCEPT !.pc = "live", !.seq = last]
            /\ Tell(<<Say("frame", sub.dto)>> \o Chunks(sub.dto, last) \o <<Say("end", last + 1)>>)
    /\ UNCHANGED <<runner, link, up, client, screen, trouble, budget>>

CaptureFails ==
    /\ sub.pc \in {"capturing", "rendering"}
    /\ Spend("faults")
    /\ sub' = [sub EXCEPT !.pc = "idle"]
    /\ Tell(<<Say("failed", 0)>>)
    /\ UNCHANGED <<runner, link, up, client, screen, trouble>>

\* The frame reporter closed or was replaced: coverage is unknown from here on.
ReporterReset ==
    /\ sub.pc = "live"
    /\ Spend("resets")
    /\ Tell(<<Say("proof", 0)>>)
    /\ UNCHANGED <<runner, sub, link, up, client, screen, trouble>>

AnswerReconcile ==
    /\ Read("reconcile")
    /\ Tell(IF Head(up).n = gen THEN <<Say("reconciled", gen)>> ELSE <<Say("mismatch", gen)>>)
    /\ UNCHANGED <<runner, sub, link, client, screen, trouble, budget>>

----------------------------------------------------------------------------
(* The client: what it becomes and sends.                                  *)

Become(c, messages) == client' = c /\ up' = up \o messages

\* A recovery subscribe never carries a cursor.
Resync(c) == [c EXCEPT !.state = "resyncing", !.part = NoPart,
                       !.probe = @ /\ c.mode = "undecided"]
Legacy(c) == [c EXCEPT !.state = "legacy", !.mode = "legacy", !.probe = FALSE]

Recover ==
    IF client.failures < MaxFailures
    THEN Become(Resync([client EXCEPT !.failures = @ + 1]), <<Fresh>>)
    ELSE Become(Legacy(client), <<>>)

\* Subscribe on a new socket, past the strays it has already shown.
SubscribeFrom(n, high, g) ==
    LET cursor == Larger(n, high) IN
       /\ Become([client EXCEPT !.state = "resyncing", !.part = NoPart, !.seq = cursor,
                                !.high = 0, !.from = 0, !.gen = g],
                 <<Since(cursor)>>)

\* What a write and a baseline make of the screen.
Paint(s, n) ==
    IF s.gen = gen /\ n = s.upto + 1 THEN [s EXCEPT !.upto = n]
                                     ELSE [s EXCEPT !.exact = FALSE]
Baseline(n) == [gen |-> gen, upto |-> n, exact |-> TRUE]

\* The client's socket delivers its next message.
Hear(type) ==
    /\ link /\ down # <<>> /\ Head(down).type = type
    /\ down' = Tail(down)
    /\ UNCHANGED <<runner, sub, link>>
N == Head(down).n

Ignore == UNCHANGED <<up, client, screen, trouble, budget>>
Heal == Recover /\ UNCHANGED <<screen, trouble, budget>>
Set(c) == client' = c /\ UNCHANGED <<up, screen, trouble, budget>>

----------------------------------------------------------------------------
(* The client: what it hears.  In legacy mode it hears nothing.            *)

HearHello ==
    /\ Hear("hello")
    /\ IF client.state = "legacy" THEN Ignore
       ELSE Set([client EXCEPT !.inst = N, !.gen = N])

LiveEpoch_HearReconciled ==
    /\ Hear("reconciled")
    /\ UNCHANGED <<screen, trouble, budget>>
    /\ IF client.state # "reconciling" THEN UNCHANGED <<up, client>>
       ELSE IF client.gen # 0 /\ N # client.gen THEN SubscribeFrom(0, 0, N)
       ELSE SubscribeFrom(client.seq, client.high, N)

\* reconcile_result: another generation than at the drop discards the cursor.
HearReconciled ==
    /\ Hear("reconciled")
    /\ UNCHANGED <<screen, trouble, budget>>
    /\ IF client.state # "reconciling" THEN UNCHANGED <<up, client>>
       ELSE IF client.from # 0 /\ N # client.from THEN SubscribeFrom(0, 0, N)
       ELSE SubscribeFrom(client.seq, client.high, N)

HearMismatch ==
    /\ Hear("mismatch")
    /\ UNCHANGED <<screen, trouble, budget>>
    /\ IF client.state = "reconciling"
       THEN Become([client EXCEPT !.inst = N], <<Reconcile(N)>>)
       ELSE UNCHANGED <<client, up>>

NotCollecting_HearFailed ==
    /\ Hear("failed")
    /\ IF client.state \in {"probing", "resyncing"} THEN Heal ELSE Ignore

\* snapshot_failed
HearFailed ==
    /\ Hear("failed")
    /\ IF client.state \in {"probing", "resyncing", "collecting"} THEN Heal ELSE Ignore

\* view_proof_state: the end of a replay, with or without output.
HearProof ==
    /\ Hear("proof")
    /\ IF client.state # "resyncing" THEN Ignore
       ELSE Set([client EXCEPT !.state = "live", !.mode = "protocol", !.failures = 0])

HearBegin ==
    /\ Hear("begin")
    /\ CASE client.state \in {"probing", "resyncing"} ->
               Set([client EXCEPT !.state = "collecting", !.mode = "protocol", !.gen = gen,
                                  !.probe = FALSE, !.part = [NoPart EXCEPT !.begin = N]])
         [] client.state = "reconciling" -> Set([client EXCEPT !.gen = gen])
         [] client.state = "legacy" -> Ignore
         [] OTHER -> Heal

HearFrame ==
    /\ Hear("frame")
    /\ CASE client.state = "collecting" /\ client.part.begin # 0 ->
               Set([client EXCEPT !.part.frame = TRUE])
         [] client.state \in {"reconciling", "legacy"} -> Ignore
         [] OTHER -> Heal

\* snapshot_end completes what was collected ...
Complete(part) == (part.frame \/ part.begin = 0) /\ N = part.begin + part.flush + 1
Finished == [client EXCEPT !.state = "live", !.seq = N - 1, !.failures = 0, !.part = NoPart]

\* ... the view paints the frame and the chunks flushed after it ...
HearEnd ==
    /\ Hear("end")
    /\ CASE client.state \in {"reconciling", "legacy"} -> Ignore
         [] client.state = "collecting" /\ Complete(client.part) ->
               /\ client' = Finished
               /\ screen' = Baseline(client.part.begin + client.part.flush)
               /\ trouble' = {}
               /\ UNCHANGED <<up, budget>>
         [] OTHER -> Heal

\* ... or asks for another snapshot while it paints the frame: the request
\* empties what was collected, and finishCollecting goes live all the same.
HearEndAndAsk ==
    /\ Hear("end")
    /\ client.state = "collecting" /\ client.part.frame /\ Complete(client.part)
    /\ Spend("asks")
    /\ Become(Finished, <<Fresh>>)
    /\ screen' = Baseline(client.part.begin)
    /\ trouble' = IF client.part.flush > 0 THEN {"lost flush"} ELSE {}

\* resnapshot_required
HearRequired ==
    /\ Hear("required")
    /\ IF client.state \in {"live", "collecting", "resyncing"} THEN Heal ELSE Ignore

\* A chunk, in each of the states that act on one.
OutputLive ==
    CASE N = client.seq + 1 ->
            /\ client' = [client EXCEPT !.seq = N]
            /\ screen' = Paint(screen, N)
            /\ UNCHANGED <<up, trouble, budget>>
      [] N <= client.seq -> Ignore
      [] OTHER -> Heal

OutputCollecting ==
    IF client.part.frame /\ N = client.part.begin + client.part.flush + 1
    THEN Set([client EXCEPT !.part.flush = @ + 1])
    ELSE Heal

OutputResyncing ==
    IF N # client.seq + 1 THEN Ignore
    ELSE /\ client' = [client EXCEPT !.state = "live", !.mode = "protocol", !.seq = N,
                                     !.failures = 0]
         /\ screen' = Paint(screen, N)
         /\ Note("early chunk", screen.gen # gen)
         /\ UNCHANGED <<up, budget>>

Unshown_OutputReconciling ==
    /\ client' = [client EXCEPT !.high = Larger(@, N)]
    /\ UNCHANGED <<up, screen, trouble, budget>>

\* The socket is not subscribed yet: what it broadcasts is shown, and the
\* subscription will start past it.
OutputReconciling ==
    /\ client' = [client EXCEPT !.high = Larger(@, N)]
    /\ screen' = Paint(screen, N)
    /\ Note("skipped strays", IF screen.gen = gen THEN N # screen.upto + 1
                                                  ELSE client.from = gen)
    /\ UNCHANGED <<up, budget>>

HearOutput ==
    /\ Hear("output")
    /\ CASE client.state = "live" -> OutputLive
         [] client.state = "collecting" -> OutputCollecting
         [] client.state = "resyncing" -> OutputResyncing
         [] client.state = "reconciling" -> OutputReconciling
         [] OTHER -> Ignore

ProbeTimeout ==
    /\ client.probe /\ client.mode = "undecided"
    /\ Spend("late")
    /\ Become(Legacy(client), <<>>)
    /\ UNCHANGED <<runner, sub, link, down, screen, trouble>>

ReconcileTimeout ==
    /\ link /\ client.state = "reconciling"
    /\ Spend("late")
    /\ SubscribeFrom(client.seq, client.high, client.gen)
    /\ Note("foreign cursor", screen.gen # gen)
    /\ UNCHANGED <<runner, sub, link, down, screen>>

----------------------------------------------------------------------------
(* Sockets and hosts.                                                      *)

\* onDisconnect notes the generation, which is the next runner's when its hello
\* came before the drop.
Unlink ==
    /\ link' = FALSE /\ up' = <<>> /\ down' = <<>> /\ sub' = NoSub
    /\ client' = IF client.state = "legacy" \/ ~link THEN client
                 ELSE [client EXCEPT !.atDrop = IF client.gen = 0 THEN @ ELSE client.gen,
                                     !.probe = FALSE]
    /\ Note("lost baseline", link /\ client.state = "reconciling" /\ client.gen # screen.gen)

Drop ==
    /\ link
    /\ Spend("drops")
    /\ Unlink
    /\ UNCHANGED <<runner, screen>>

\* Another runner, with another child, serves the endpoint.
ReplaceHost ==
    /\ Spend("hosts")
    /\ gen' = gen + 1 /\ last' = 0 /\ evicted' = 0
    /\ Unlink
    /\ UNCHANGED screen

\* A new socket: the runner greets it, and the view starts the client on it or
\* lets it reconnect.  (Who is in protocol mode has heard the hello that came first and
\* knows the host's instance: hosts without one, for which a reconnect subscribes at
\* once, are left out.)
Connect ==
    /\ ~link
    /\ link' = TRUE /\ down' = <<Say("hello", gen)>> /\ sub' = NoSub
    /\ CASE client.mode = "undecided" /\ client.state = "probing" ->
               client' = [client EXCEPT !.probe = TRUE] /\ up' = <<Fresh>>
         [] client.mode = "protocol" ->
               /\ client' = [client EXCEPT !.state = "reconciling", !.failures = 0,
                                !.part = NoPart,
                                !.from = IF client.atDrop = 0 THEN client.gen ELSE client.atDrop]
               /\ up' = <<Reconcile(client.inst)>>
         [] OTHER -> client' = client /\ up' = <<>>
    /\ UNCHANGED <<runner, screen, trouble, budget>>

----------------------------------------------------------------------------

RunnerReads == Subscribe \/ AnswerReconcile
ClientHears ==
    \/ HearHello \/ HearReconciled \/ HearMismatch \/ HearFailed \/ HearProof \/ HearBegin
    \/ HearFrame \/ HearEnd \/ HearEndAndAsk \/ HearRequired \/ HearOutput

Next ==
    \/ Output \/ Capture \/ Render \/ CaptureFails \/ ReporterReset
    \/ RunnerReads \/ ClientHears
    \/ ProbeTimeout \/ ReconcileTimeout
    \/ Drop \/ ReplaceHost \/ Connect

Spec == Init /\ [][Next]_vars

\* The runner and the view serve their sockets, captures end, and the view
\* reconnects on a timer.
FairSpec ==
    /\ Spec
    /\ WF_vars(RunnerReads) /\ WF_vars(Capture) /\ WF_vars(Render)
    /\ WF_vars(ClientHears) /\ WF_vars(Connect)

----------------------------------------------------------------------------
(* Properties.                                                             *)

\* A live client shows exactly the chunks up to its cursor, of the runner it is
\* connected to, each once and in order (terminal-attach-client.mjs: "never
\* stitch"), unless one of the named troubles spoiled the baseline it stands on.
ScreenIsExact ==
    link /\ client.state = "live" /\ trouble = {} =>
        screen = [gen |-> gen, upto |-> client.seq, exact |-> TRUE]

\* A subscribe that carries a cursor is sent only over a screen of that very
\* runner boot that holds every chunk up to the cursor ("ring replay across
\* generations is structurally impossible"), under the same exception.
ResumesWhatItShows ==
    \A i \in DOMAIN up :
        up[i].type = "subscribe" /\ up[i].n > 0 /\ trouble = {} =>
            screen.gen = gen /\ screen.exact /\ screen.upto >= up[i].n

\* What this protocol does not promise: the legacy path took over; a named
\* trouble happened; start(), on a new socket, did not subscribe a client that
\* was recovering before its mode was decided; or a chunk made a client live
\* whose snapshot then failed.
Excused ==
    \/ client.state = "legacy" \/ trouble # {}
    \/ client.mode = "undecided" /\ client.state = "resyncing"
    \/ client.state = "live" /\ sub.owns /\ sub.pc = "idle"

\* After any drops, replaced hosts and failed captures every chunk is on the
\* screen in the end, and the client does not stay in a recovery for ever.
ShowsEverything ==
    /\ <>[](Excused \/ (link /\ screen = [gen |-> gen, upto |-> last, exact |-> TRUE]))
    /\ []<>(Excused \/ (link /\ client.state = "live"))
=============================================================================
