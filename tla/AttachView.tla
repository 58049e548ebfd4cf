------------------------------ MODULE AttachView ------------------------------
(***************************************************************************)
(* What an attached view paints (src/ui/pty-attach.ts and the decision of  *)
(* src/core/pty-attach-render.mjs): the loading banner until a whole frame *)
(* is proven, then the last whole frame that its own terminal parsed, over *)
(* resizes, snapshots, lost sockets, replaced hosts and reporters that     *)
(* come and go.                                                            *)
(*                                                                         *)
(* Output chunks are numbered by the runner and stand for what they do to  *)
(* the screen: they draw a whole frame, its first or its last part inside  *)
(* one synchronized update, or nothing.  A chunk that completes a frame    *)
(* may be followed by the reporter's record F.  How markers travel, and    *)
(* when a frame is proven, is FrameWitness; recovery from broken streams   *)
(* and the reconnect gate are TerminalAttach: here a socket carries an     *)
(* unbroken stream, and hello also answers the reconcile that follows it.  *)
(***************************************************************************)
EXTENDS Naturals, Sequences, FiniteSetsExt

CONSTANTS
    Sizes,    \* sizes of a terminal, from 1
    Budgets   \* bounds: how often what may happen in one behaviour

\* Chunks and their kinds, resizes of the window, lost sockets, replaced hosts,
\* reporters that are enabled or lost, other sockets that connect, snapshots.
Budget == [outputs : Nat, kinds : SUBSET {"whole", "head", "safe"}, snapshots : Nat, resizes : Nat,
           drops : Nat, hosts : Nat, reporters : Nat, peers : Nat]

ASSUME ViewAssumption ==
    /\ Sizes # {} /\ Sizes \subseteq Nat \ {0}
    /\ Budgets \subseteq Budget

VARIABLES
    child,    \* the hosted program: its size, the intents its reporter has, an open frame
    host,     \* the runner: boot, size, the reporter it trusts and its resizes
    ring,     \* the chunks of this boot
    sub,      \* the subscription of the view's socket
    link,     \* whether the socket is connected
    up, down, \* what is on its way to the runner, and to the view
    view,     \* the view, its attach client included
    parser,   \* the writes that its terminal has not parsed
    base,     \* history: chunks above are delivered live, with nothing in between
    lost,     \* history: a resize was lost with the socket
    budget    \* what is left of each bound

vars == <<child, host, ring, sub, link, up, down, view, parser, base, lost, budget>>
wire == <<link, up, down>>

Last == Len(ring)
Chunk(kind, size, rev, proof) == [kind |-> kind, size |-> size, rev |-> rev, proof |-> proof]
Nothing == Chunk("none", 0, 0, FALSE)
Draws(c) == c.kind # "safe"

\* The newest chunk up to n that draws, 0 if there is none.
Drawn(n) == Max({0} \cup {m \in 1..n : Draws(ring[m])})
Picture(n) == [gen |-> host.gen, n |-> Drawn(n),
               c |-> IF Drawn(n) = 0 THEN Nothing ELSE ring[Drawn(n)]]
Half(picture) == picture.c.kind = "head"

Unknown == [covered |-> FALSE, n |-> 0, size |-> 0, rev |-> 0, thru |-> 0]
Covers(n, c, thru) == [covered |-> TRUE, n |-> n, size |-> c.size, rev |-> c.rev, thru |-> thru]

NoSub == [pc |-> "idle", dto |-> 0, proofs |-> FALSE, reset |-> FALSE]
Subscribe(n) == [type |-> "subscribe", n |-> n]
Resize(size) == [type |-> "resize", n |-> size]
Identify(type) == [type |-> type, gen |-> host.gen, trust |-> host.trust]

Blank == [gen |-> 0, n |-> 0, c |-> Nothing]
NoIdent == <<0, 0, 0, 0, 0>>
NewView(size) ==
    [client |-> "probing", protocol |-> FALSE, gen |-> 0, seq |-> 0, wire |-> 0, conn |-> 0,
     epoch |-> 0, size |-> size, rev |-> 0, required |-> FALSE, satisfied |-> FALSE,
     trusted |-> FALSE, opened |-> "no", settle |-> FALSE, hard |-> FALSE,
     cov |-> Unknown, ident |-> NoIdent, baseline |-> "unverified", hydration |-> "idle",
     sync |-> FALSE, grid |-> Blank, torn |-> FALSE, received |-> FALSE,
     committed |-> <<>>, recovery |-> <<>>, behind |-> FALSE, gate |-> FALSE, asked |-> FALSE]

Init ==
    /\ \E size \in Sizes : child = [size |-> size, told |-> <<>>, intent |-> <<>>, open |-> <<>>]
    /\ \E trust \in {"none", "on"} :
          host = [gen |-> 1, size |-> child.size, trust |-> trust, since |-> 0, rev |-> 0]
    /\ ring = <<>> /\ sub = NoSub
    /\ link = FALSE /\ up = <<>> /\ down = <<>>
    /\ view \in {NewView(size) : size \in Sizes} /\ parser = <<>>
    /\ base = 0 /\ lost = FALSE
    /\ budget \in Budgets

Spend(what) == budget[what] > 0 /\ budget' = [budget EXCEPT ![what] = @ - 1]
Tell(messages) == down' = IF link THEN down \o messages ELSE down

----------------------------------------------------------------------------
(* The runner and the hosted program.                                      *)

\* A chunk on the wire, and whether the record that it completes comes after it.
Line(n, c, record) == [type |-> "output", n |-> n, c |-> c, record |-> record]

\* A live subscription sends the chunk, then the record it completes; a capture
\* keeps the record, and its flush will cover the chunk.
Feed(c) ==
    /\ ring' = Append(ring, c)
    /\ IF sub.pc = "live"
       THEN Tell(<<Line(Last + 1, c, c.proof)>>) /\ UNCHANGED sub
       ELSE /\ sub' = [sub EXCEPT !.proofs = @ \/ (sub.pc # "idle" /\ c.proof)]
            /\ UNCHANGED down

\* What the reporter will prove of a frame that is begun now: the first frame at
\* the size of an intent carries its revision, one at another size is given up.
Begun ==
    LET pending == child.intent # <<>>
        fits == pending => child.intent[1].size = child.size
    IN  Chunk("tail", child.size, IF pending /\ fits THEN child.intent[1].rev ELSE 0,
              host.trust = "on" /\ fits)
\* A frame at once, its first part, its last part, or what leaves the screen alone.
Draw(c, open) ==
    /\ Feed(c)
    /\ child' = [child EXCEPT !.open = open, !.intent = IF c.proof THEN <<>> ELSE @]

Output ==
    /\ Spend("outputs")
    /\ IF child.open # <<>> THEN Draw(child.open[1], <<>>)
       ELSE \E kind \in budget.kinds :
               CASE kind = "whole" -> Draw([Begun EXCEPT !.kind = kind], <<>>)
                 [] kind = "head" -> Draw(Chunk(kind, child.size, 0, FALSE), <<Begun>>)
                 [] kind = "safe" -> Draw(Chunk(kind, child.size, 0, FALSE), <<>>)
    /\ UNCHANGED <<host, link, up, view, parser, base, lost>>

\* The program notices the size of its terminal; an intent reaches its reporter,
\* and ends the frame that was begun without it.
NoticeSize ==
    /\ child.size # host.size /\ child' = [child EXCEPT !.size = host.size]
    /\ UNCHANGED <<host, ring, sub, wire, view, parser, base, lost, budget>>
HearIntent ==
    /\ child.told # <<>>
    /\ child' = [child EXCEPT !.told = Tail(@), !.intent = <<Head(child.told)>>,
                              !.open = IF @ = <<>> THEN @ ELSE <<[@[1] EXCEPT !.proof = FALSE]>>]
    /\ UNCHANGED <<host, ring, sub, wire, view, parser, base, lost, budget>>

Reading(type) == link /\ up # <<>> /\ Head(up).type = type /\ up' = Tail(up)

\* A size that differs is announced to the reporter, with the next revision.
ApplyResize ==
    /\ Reading("resize")
    /\ LET size == Head(up).n
           announce == size # host.size /\ host.trust = "on"
       IN  /\ host' = [host EXCEPT !.size = size, !.rev = IF announce THEN @ + 1 ELSE @]
           /\ child' = [child EXCEPT !.told = IF announce
                           THEN Append(@, [rev |-> host.rev + 1, size |-> size]) ELSE @]
    /\ UNCHANGED <<ring, sub, link, down, view, parser, base, lost, budget>>

\* Whether the trusted reporter's newest proof covers the screen at n.
Coverage(n) ==
    LET m == Drawn(n) IN
    IF m > host.since /\ host.trust = "on" /\ ring[m].proof THEN Covers(m, ring[m], n) ELSE Unknown

\* The chunks after n, with the records of those after seen.
Lines(n, seen) == [i \in 1..(Last - n) |-> Line(n + i, ring[n + i], ring[n + i].proof /\ n + i > seen)]

Begin == [type |-> "begin", gen |-> host.gen, size |-> host.size, empty |-> Last = 0]
Ready(dto, cov, proofs) ==
    [type |-> "ready", picture |-> Picture(dto), upto |-> Last, cov |-> cov, proofs |-> proofs,
     flush |-> Lines(dto, IF host.trust = "on" THEN host.since ELSE Last), empty |-> dto = 0]

\* The proofs of a replay are known if the reporter saw all of it.
Replay(n) ==
    LET known == host.trust = "on" /\ host.since <= n IN
    /\ sub' = [NoSub EXCEPT !.pc = "live"]
    /\ Tell(Lines(n, IF known THEN n ELSE Last)
            \o <<[type |-> "state", cov |-> IF known \/ n = Last THEN Coverage(Last) ELSE Unknown]>>)
    /\ base' = IF known THEN n ELSE Last

\* A snapshot of an empty model is sent at once.
StartSnapshot ==
    /\ Spend("snapshots")
    /\ IF Last = 0 THEN /\ sub' = [NoSub EXCEPT !.pc = "live"]
                        /\ Tell(<<Begin, Ready(0, Unknown, FALSE)>>) /\ base' = 0
                   ELSE /\ sub' = [NoSub EXCEPT !.pc = "capturing"] /\ UNCHANGED <<down, base>>

HearSubscribe ==
    /\ Reading("subscribe")
    /\ IF sub.pc \in {"capturing", "rendering"} THEN UNCHANGED <<sub, down, base, budget>>
       ELSE IF Head(up).n = 0 THEN StartSnapshot ELSE Replay(Head(up).n) /\ UNCHANGED budget
    /\ UNCHANGED <<child, host, ring, link, view, parser, lost>>

Capture ==
    /\ sub.pc = "capturing"
    /\ sub' = [sub EXCEPT !.pc = "rendering", !.dto = Last]
    /\ Tell(<<Begin>>)
    /\ UNCHANGED <<child, host, ring, link, up, view, parser, base, lost, budget>>

\* The frame is rendered: with what came since, and the coverage of all of it.
FinishSnapshot ==
    /\ sub.pc = "rendering"
    /\ Tell(<<Ready(sub.dto, IF sub.reset THEN Unknown ELSE Coverage(Last), sub.proofs)>>)
    /\ sub' = [NoSub EXCEPT !.pc = "live"] /\ base' = Last
    /\ UNCHANGED <<child, host, ring, link, up, view, parser, lost, budget>>

\* A reporter is enabled: nobody is told.
EnableReporter ==
    /\ Spend("reporters") /\ host.trust # "on"
    /\ host' = [host EXCEPT !.trust = "on", !.since = Last, !.rev = 0]
    /\ UNCHANGED <<child, ring, sub, wire, view, parser, base, lost>>

\* The reporter's socket closes: subscribers learn it first, then every socket.
LoseReporter ==
    /\ Spend("reporters") /\ host.trust = "on"
    /\ host' = [host EXCEPT !.trust = "off"]
    /\ child' = [child EXCEPT !.told = <<>>, !.intent = <<>>,
                              !.open = IF @ = <<>> THEN @ ELSE <<[@[1] EXCEPT !.proof = FALSE]>>]
    /\ sub' = IF sub.pc \in {"capturing", "rendering"}
              THEN [sub EXCEPT !.reset = TRUE, !.proofs = FALSE] ELSE sub
    /\ Tell((IF sub.pc = "live" THEN <<[type |-> "state", cov |-> Unknown]>> ELSE <<>>)
            \o <<[type |-> "status", gen |-> host.gen, trust |-> "off"]>>)
    /\ UNCHANGED <<ring, link, up, view, parser, base, lost>>

\* Another reporter says hello while the last one is trusted: it takes its place, and
\* the subscribers learn no more than that what they held is no proof.
ReplaceReporter ==
    /\ Spend("reporters") /\ host.trust = "on"
    /\ host' = [host EXCEPT !.since = Last, !.rev = 0]
    /\ child' = [child EXCEPT !.told = <<>>, !.intent = <<>>,
                              !.open = IF @ = <<>> THEN @ ELSE <<[@[1] EXCEPT !.proof = FALSE]>>]
    /\ sub' = IF sub.pc \in {"capturing", "rendering"}
              THEN [sub EXCEPT !.reset = TRUE, !.proofs = FALSE] ELSE sub
    /\ Tell(IF sub.pc = "live" THEN <<[type |-> "state", cov |-> Unknown]>> ELSE <<>>)
    /\ UNCHANGED <<ring, link, up, view, parser, base, lost>>

\* Another socket connects: the status is broadcast.
PeerConnects ==
    /\ Spend("peers") /\ link /\ Tell(<<Identify("status")>>)
    /\ UNCHANGED <<child, host, ring, sub, link, up, view, parser, base, lost>>

----------------------------------------------------------------------------
(* What the view knows of itself.                                          *)

Attaching(v) == v.opened = "no"
Modern(v) == v.protocol /\ v.trusted
Ident(v) == <<v.conn, v.epoch, v.gen, v.rev, v.size>>
GenOf(shown) == shown.ident[3]

Invalidate(v) == [v EXCEPT !.cov = Unknown, !.ident = NoIdent, !.satisfied = FALSE]
Forget(v) == [v EXCEPT !.committed = <<>>, !.recovery = <<>>]

\* The last whole frame survives its socket and its parser.
CaptureRecovery(v) ==
    IF Modern(v) /\ v.committed # <<>> /\ v.committed[1].ident = Ident(v)
    THEN [v EXCEPT !.recovery = v.committed] ELSE v

\* Every size the view takes is a revision that a proof has to answer.
NoteGeometryIntent(v) ==
    Invalidate([Forget(v) EXCEPT !.rev = @ + 1, !.required = TRUE])

\* The grid is copied where a synchronized update really ends; behind (a history)
\* says that one ended unseen while an older copy was kept.
CommitView(v) ==
    IF ~ Modern(v) \/ v.hydration = "hydrating" THEN [v EXCEPT !.behind = v.committed # <<>>]
    ELSE [v EXCEPT !.committed = <<[picture |-> v.grid, torn |-> v.torn, ident |-> Ident(v)]>>,
                   !.recovery = <<>>, !.gate = FALSE, !.behind = FALSE]

Finish(v, how) == [v EXCEPT !.opened = how, !.settle = FALSE, !.hard = FALSE]

\* decideAttachPresentation, on the facts that evaluateAttachReady collects.
Publish(v) ==
    /\ v.baseline # "unverified" /\ v.hydration # "hydrating" /\ ~ v.sync
    /\ v.baseline = "empty" => v.seq > 0
    /\ v.received
    /\ v.cov.covered /\ v.cov.thru = v.seq /\ v.cov.size = v.size
    /\ v.required => v.cov.rev = v.rev /\ v.satisfied
    /\ v.ident = Ident(v)

\* An evaluation that does not wait for the parser.
Impatient_Evaluate(v, inFlight) ==
    IF Attaching(v) /\ Modern(v) /\ v.committed # <<>> /\ Publish(v)
    THEN Finish(v, "proof") ELSE v

Evaluate(v, inFlight) ==
    IF Attaching(v) /\ Modern(v) /\ inFlight = 0 /\ v.committed # <<>> /\ Publish(v)
    THEN Finish(v, "proof") ELSE v

DeferSettle(v) == IF Attaching(v) /\ ~ Modern(v) THEN [v EXCEPT !.settle = TRUE] ELSE v

\* Only output that leaves the screen alone extends the coverage.
NoteOutput(v, chunks) ==
    IF ~ v.cov.covered \/ chunks = {} THEN v
    ELSE IF \E c \in chunks : Draws(c) THEN Invalidate(v)
    ELSE [v EXCEPT !.cov.thru = v.seq, !.ident = Ident(v)]

Item(what, v, picture) == [what |-> what, picture |-> picture, ident |-> Ident(v)]
OutputItem(v, n, c) == Item("output", v, [gen |-> v.gen, n |-> n, c |-> c])

----------------------------------------------------------------------------
(* The view's socket.                                                      *)

\* Reconnecting waits at least 150 ms: what was received is parsed by then.
Connect ==
    /\ ~ link /\ parser = <<>>
    /\ link' = TRUE /\ down' = <<Identify("hello")>>
    /\ LET v == [CaptureRecovery(view) EXCEPT !.conn = @ + 1, !.committed = <<>>, !.wire = 0,
                                             !.gate = TRUE, !.hard = Attaching(view)]
           probing == view.client = "probing"
       IN  /\ view' = DeferSettle([v EXCEPT !.client = IF probing THEN @ ELSE "reconciling"])
           /\ up' = IF probing THEN <<Subscribe(0)>> ELSE <<>>
    /\ UNCHANGED <<child, host, ring, sub, parser, base, lost, budget>>

Disconnect ==
    /\ link' = FALSE /\ up' = <<>> /\ down' = <<>> /\ sub' = NoSub
    /\ view' = CaptureRecovery(view)
    /\ lost' = (lost \/ \E i \in DOMAIN up : up[i].type = "resize")

DropLink ==
    /\ Spend("drops") /\ link
    /\ Disconnect
    /\ UNCHANGED <<child, host, ring, parser, base>>

\* The runner is gone, another serves the view, at a size of its own.
ReplaceHost ==
    /\ Spend("hosts") /\ link
    /\ Disconnect
    /\ \E size \in Sizes, trust \in {"none", "on"} :
          /\ host' = [gen |-> host.gen + 1, size |-> size, trust |-> trust, since |-> 0, rev |-> 0]
          /\ child' = [size |-> size, told |-> <<>>, intent |-> <<>>, open |-> <<>>]
    /\ ring' = <<>> /\ base' = 0
    /\ UNCHANGED parser

Hearing(type) == link /\ down # <<>> /\ Head(down).type = type /\ down' = Tail(down)
Ask(messages) == up' = up \o messages

OfAnother(gen, shown) == shown # <<>> /\ GenOf(shown[1]) # gen

\* hello and status: which boot answers, and whether a reporter is trusted.  One
\* that is lost brings the legacy deadlines back, the hard one maybe at once.
Identified(v, msg, late) ==
    LET known == [v EXCEPT !.wire = msg.gen, !.gen = msg.gen, !.gate = OfAnother(msg.gen, v.recovery)]
        clean == IF OfAnother(msg.gen, v.committed) \/ OfAnother(msg.gen, v.recovery)
                 THEN Invalidate(Forget(known)) ELSE known
        on == [clean EXCEPT !.trusted = TRUE]
        off == [clean EXCEPT !.trusted = FALSE, !.cov = Unknown, !.ident = NoIdent]
        waits == Attaching(v) /\ v.protocol
    IN  CASE msg.trust = "on" /\ ~ v.trusted ->
               IF waits THEN Evaluate([on EXCEPT !.settle = FALSE], Len(parser)) ELSE on
          [] msg.trust = "off" /\ v.trusted ->
               IF ~ waits THEN off ELSE IF late THEN Finish(off, "deadline")
               ELSE [off EXCEPT !.settle = TRUE]
          [] OTHER -> clean

Late(late) == late \in {TRUE, ~ view.hard}

HearStatus ==
    /\ Hearing("status")
    /\ \E late \in BOOLEAN : Late(late) /\ view' = Identified(view, Head(down), late)
    /\ base' = IF view'.trusted # view.trusted THEN Last ELSE base
    /\ UNCHANGED <<child, host, ring, sub, link, up, parser, lost, budget>>

EpochReset(v) == Invalidate(Forget([v EXCEPT !.seq = 0]))

\* After a reconnect the same boot replays what the view missed, another one
\* starts over.
HearHello ==
    /\ Hearing("hello")
    /\ \E late \in BOOLEAN :
          LET msg == Head(down)
              v == Identified(view, msg, late)
              next == IF msg.gen # view.gen THEN EpochReset(v) ELSE v
          IN  /\ Late(late)
              /\ IF view.client # "reconciling" THEN view' = v /\ UNCHANGED up
                 ELSE /\ view' = [next EXCEPT !.client = "resyncing"]
                      /\ Ask(<<Subscribe(next.seq)>>)
    /\ UNCHANGED <<child, host, ring, sub, link, parser, base, lost, budget>>

\* A snapshot whose size is only noted.
Unsized_HearBegin ==
    /\ Hearing("begin") /\ view.client \in {"probing", "resyncing"}
    /\ LET msg == Head(down)
           opts == [view EXCEPT !.client = "collecting", !.protocol = TRUE, !.gen = msg.gen,
                                !.settle = IF view.protocol \/ ~ view.trusted THEN @ ELSE FALSE]
           fresh == IF msg.empty THEN Invalidate([Forget(opts) EXCEPT !.gate = TRUE])
                    ELSE IF OfAnother(msg.gen, view.committed) \/ OfAnother(msg.gen, view.recovery)
                    THEN Invalidate(Forget(opts)) ELSE opts
       IN  view' = fresh
    /\ lost' = FALSE
    /\ UNCHANGED <<child, host, ring, sub, link, up, parser, base, budget>>

\* A snapshot begins: of which boot, and at which size the runner is.
HearBegin ==
    /\ Hearing("begin") /\ view.client \in {"probing", "resyncing"}
    /\ LET msg == Head(down)
           opts == [view EXCEPT !.client = "collecting", !.protocol = TRUE, !.gen = msg.gen,
                                !.settle = IF view.protocol \/ ~ view.trusted THEN @ ELSE FALSE]
           fresh == IF msg.empty THEN Invalidate([Forget(opts) EXCEPT !.gate = TRUE])
                    ELSE IF OfAnother(msg.gen, view.committed) \/ OfAnother(msg.gen, view.recovery)
                    THEN Invalidate(Forget(opts)) ELSE opts
       IN  IF msg.size = view.size THEN view' = fresh /\ UNCHANGED up
           ELSE view' = NoteGeometryIntent(fresh) /\ Ask(<<Resize(view.size)>>)
    /\ lost' = FALSE
    /\ UNCHANGED <<child, host, ring, sub, link, parser, base, budget>>

\* A fresh terminal for every snapshot; writes to the old one are forgotten.
ReplaceParser(v) ==
    [CaptureRecovery(v) EXCEPT !.epoch = @ + 1, !.sync = FALSE, !.committed = <<>>,
                               !.hydration = "idle", !.grid = Blank, !.torn = FALSE]

\* What the snapshot proves; the flush is written while the client still has its
\* old cursor, and is lost when the view asks for another snapshot here.
Adopt(v, msg) ==
    LET new == [v EXCEPT !.cov = msg.cov, !.ident = IF msg.cov.covered THEN Ident(v) ELSE NoIdent,
                         !.satisfied = FALSE, !.asked = ~ msg.cov.covered /\ (@ \/ msg.proofs)]
    IN  IF msg.empty THEN Invalidate([Forget(new) EXCEPT !.gate = TRUE, !.baseline = "empty"])
        ELSE [new EXCEPT !.baseline = "content", !.hydration = "hydrating"]

HearReady ==
    /\ Hearing("ready") /\ view.client = "collecting"
    /\ LET msg == Head(down)
           v == Adopt(ReplaceParser(view), msg)
           asks == v.asked /\ ~ view.asked
           flush == IF asks THEN <<>> ELSE msg.flush
           noted == NoteOutput(v, {flush[i].c : i \in DOMAIN flush})
       IN  /\ view' = [noted EXCEPT !.client = "live", !.seq = msg.upto,
                                     !.torn = asks /\ msg.flush # <<>>]
           /\ parser' = (IF msg.empty THEN <<>> ELSE <<Item("frame", v, msg.picture)>>)
                        \o [i \in DOMAIN flush |-> OutputItem(v, flush[i].n, flush[i].c)]
           /\ Ask(IF asks THEN <<Subscribe(0)>> ELSE <<>>)
    /\ UNCHANGED <<child, host, ring, sub, link, base, lost, budget>>

\* finishCollecting forgets that the view asked: the answer is not expected, and the
\* client asks again at its begin, at its frame and at its end.
AskAgain(v) ==
    /\ view' = [v EXCEPT !.client = "resyncing"]
    /\ Ask(<<Subscribe(0)>>)
    /\ UNCHANGED <<child, host, ring, sub, link, parser, base, lost, budget>>

RejectBegin ==
    /\ Hearing("begin") /\ view.client = "live"
    /\ AskAgain([view EXCEPT !.gen = Head(down).gen])
RejectFrame ==
    /\ link /\ down # <<>> /\ Head(down).type = "ready" /\ view.client # "collecting"
    /\ down' = Head(down).flush \o <<[type |-> "end"]>> \o Tail(down)
    /\ AskAgain(view)
RejectEnd ==
    /\ Hearing("end") /\ AskAgain(view)

\* Only the next chunk counts; its record is next on the wire.
HearOutput ==
    /\ link /\ down # <<>> /\ Head(down).type = "output" /\ view.client \in {"live", "resyncing"}
    /\ LET msg == Head(down) IN
       /\ down' = IF msg.record THEN <<[type |-> "record", n |-> msg.n, c |-> msg.c]>> \o Tail(down)
                                ELSE Tail(down)
       /\ IF msg.n = view.seq + 1
          THEN /\ view' = NoteOutput([view EXCEPT !.client = "live", !.seq = msg.n], {msg.c})
               /\ parser' = Append(parser, OutputItem(view, msg.n, msg.c))
          ELSE UNCHANGED <<view, parser>>
    /\ UNCHANGED <<child, host, ring, sub, link, up, base, lost, budget>>

\* F: the frame that was just delivered is whole; one from the future is refused.
HearRecord ==
    /\ Hearing("record")
    /\ LET msg == Head(down)
           v == [view EXCEPT !.cov = Covers(msg.n, msg.c, msg.n), !.ident = Ident(view),
                             !.satisfied = view.required => msg.c.rev = view.rev]
       IN  view' = IF view.client \in {"live", "resyncing"} /\ msg.n <= view.seq
                   THEN Evaluate(v, Len(parser)) ELSE view
    /\ UNCHANGED <<child, host, ring, sub, link, up, parser, base, lost, budget>>

HearState ==
    /\ Hearing("state")
    /\ LET cov == Head(down).cov
           v == [view EXCEPT !.client = "live", !.cov = cov,
                             !.ident = IF cov.covered THEN Ident(view) ELSE NoIdent]
       IN  view' = IF view.client \in {"live", "resyncing"} THEN Evaluate(v, Len(parser)) ELSE view
    /\ UNCHANGED <<child, host, ring, sub, link, up, parser, base, lost, budget>>

----------------------------------------------------------------------------
(* The view's terminal, window and timers.                                 *)

\* What parsing does: an update that ends commits the grid.
Parsed(v, item) ==
    LET drawn == [v EXCEPT !.grid = item.picture, !.sync = Half(item.picture)] IN
    CASE item.what = "output" /\ ~ Draws(item.picture.c) -> v
      [] item.what = "output" /\ item.picture.c.kind \in {"whole", "tail"} -> CommitView(drawn)
      [] OTHER -> drawn

\* A callback that takes the snapshot in the middle of an update for a frame.
Torn_Callback(v, item) ==
    LET hydrated == IF item.what # "frame" THEN v
                    ELSE CommitView([v EXCEPT !.hydration = "complete"])
    IN  IF item.ident # Ident(v) THEN v
        ELSE Evaluate(DeferSettle([hydrated EXCEPT !.received = TRUE]), Len(parser) - 1)

\* A callback that leaves the decision to the next proof.
Late_Callback(v, item) ==
    LET hydrated == IF item.what # "frame" THEN v
                    ELSE LET h == [v EXCEPT !.hydration = "complete"]
                         IN  IF v.sync THEN h ELSE CommitView(h)
    IN  IF item.ident # Ident(v) THEN v
        ELSE DeferSettle([hydrated EXCEPT !.received = TRUE])

\* The callback of a write, void if the view has changed since.
Callback(v, item) ==
    LET hydrated == IF item.what # "frame" THEN v
                    ELSE LET h == [v EXCEPT !.hydration = "complete"]
                         IN  IF v.sync THEN h ELSE CommitView(h)
    IN  IF item.ident # Ident(v) THEN v
        ELSE Evaluate(DeferSettle([hydrated EXCEPT !.received = TRUE]), Len(parser) - 1)

Parse ==
    /\ parser # <<>>
    /\ parser' = Tail(parser)
    /\ view' = Callback(Parsed(view, Head(parser)), Head(parser))
    /\ UNCHANGED <<child, host, ring, sub, wire, base, lost, budget>>

\* The window changes its size; what cannot be sent is not sent later.
ResizeIfNeeded(size) ==
    /\ Spend("resizes") /\ size # view.size
    /\ view' = NoteGeometryIntent([view EXCEPT !.size = size])
    /\ up' = IF link THEN Append(up, Resize(size)) ELSE up
    /\ lost' = ~ link /\ base' = Last
    /\ UNCHANGED <<child, host, ring, sub, link, down, parser>>

LegacyCompatible == view.protocol /\ ~ view.trusted

SettleTimeout ==
    /\ view.settle
    /\ view' = IF Attaching(view) /\ LegacyCompatible THEN Finish(view, "deadline")
               ELSE [view EXCEPT !.settle = FALSE]
    /\ UNCHANGED <<child, host, ring, sub, wire, parser, base, lost, budget>>

\* The cap shows a whole snapshot that no proof covers, and nothing less.
HardTimeout ==
    /\ view.hard
    /\ view' = IF LegacyCompatible \/ (view.committed # <<>> /\ ~ view.required /\ ~ view.cov.covered)
               THEN Finish(view, "deadline") ELSE [view EXCEPT !.hard = FALSE]
    /\ UNCHANGED <<child, host, ring, sub, wire, parser, base, lost, budget>>

Next ==
    \/ Output \/ NoticeSize \/ HearIntent
    \/ ApplyResize \/ HearSubscribe \/ Capture \/ FinishSnapshot
    \/ EnableReporter \/ LoseReporter \/ ReplaceReporter \/ PeerConnects
    \/ Connect \/ DropLink \/ ReplaceHost
    \/ HearStatus \/ HearHello \/ HearBegin \/ HearReady
    \/ RejectBegin \/ RejectFrame \/ RejectEnd \/ HearOutput \/ HearRecord \/ HearState
    \/ Parse \/ SettleTimeout \/ HardTimeout
    \/ \E size \in Sizes : ResizeIfNeeded(size)

Spec == Init /\ [][Next]_vars

----------------------------------------------------------------------------
(* What it promises.                                                       *)

TypeOK ==
    /\ child.size \in Sizes /\ host.size \in Sizes /\ host.since \in 0..Last
    /\ host.trust \in {"none", "on", "off"}
    /\ link \in BOOLEAN /\ lost \in BOOLEAN /\ base \in 0..Last
    /\ sub.pc \in {"idle", "capturing", "rendering", "live"} /\ sub.dto \in 0..Last
    /\ view.client \in {"probing", "reconciling", "resyncing", "collecting", "live"}
    /\ view.opened \in {"no", "proof", "deadline"} /\ view.gen \in 0..host.gen
    /\ view.hydration \in {"idle", "hydrating", "complete"} /\ view.size \in Sizes
    /\ budget \in Budget

RecoveryValid(v) ==
    /\ v.recovery # <<>> /\ v.wire # 0 /\ v.wire = GenOf(v.recovery[1])
    /\ v.recovery[1].ident[4] = v.rev /\ v.recovery[1].ident[5] = v.size

\* What the body of the view shows in its modern mode: nothing while it waits.
Shown(v) ==
    IF Attaching(v) \/ ~ v.received \/ v.gate THEN <<>>
    ELSE IF v.committed # <<>> /\ v.committed[1].ident = Ident(v) THEN v.committed
    ELSE IF RecoveryValid(v) THEN v.recovery ELSE <<>>

\* A frame is shown whole, and only while the runner that drew it is the one the
\* view last heard of (commitCommittedView, recoveryViewValid).
ShownIsWhole ==
    Modern(view) => \A i \in DOMAIN Shown(view) :
        LET s == Shown(view)[i] IN
        /\ ~ Half(s.picture)
        /\ s.picture.gen = view.wire

\* The banner gives way to a proof only for a frame that the reporter proved, at
\* the view's size and after its last resize, and that frame is what is shown:
\* coverage comes with the stream, the grid from the parser; unless the copy is
\* behind, from before a reporter was lost (evaluateAttachReady,
\* decideAttachPresentation).
FirstViewIsProven ==
    [][view.opened = "no" /\ view'.opened = "proof" /\ ~ view'.behind =>
         \E i \in DOMAIN Shown(view') :
            LET s == Shown(view')[i].picture IN
            /\ s = view'.grid
            /\ s.c.proof /\ s.c.size = view'.size
            /\ view'.required => s.c.rev = view'.rev]_vars

Quiet == link /\ up = <<>> /\ down = <<>> /\ parser = <<>> /\ view.client = "live" /\ sub.pc = "live"

\* A frame that was delivered live, at the view's size and with its revision if
\* the view opens with it, is what the view shows once everything is parsed,
\* whichever of proof and parse came first (evaluateAttachReady at both), and
\* nothing is missing below it, unless the socket was lost while the view waited for
\* a snapshot it had asked for; unless a resize made it miss the end of its hydration.
LiveFrameIsShown ==
    LET n == Drawn(Last)
        c == ring[n]
    IN  Quiet /\ Modern(view) /\ n > base /\ c.proof /\ host.trust = "on" /\ n > host.since
        /\ c.size = view.size /\ (Attaching(view) /\ view.required => c.rev = view.rev)
        /\ view.hydration # "hydrating"
        => \E i \in DOMAIN Shown(view) :
              Shown(view)[i].picture = Picture(Last) /\ (Shown(view)[i].torn => view.conn > 1)

\* The runner ends up at the size of the view, whatever was replaced, unless a
\* resize was lost with the socket (handleAttachEvent, resizeIfNeeded).
SizeReachesHost ==
    Quiet /\ ~ lost => host.size = view.size
=============================================================================
