----------------------------- MODULE FrameWitness -----------------------------
(***************************************************************************)
(* How an attach learns that what it shows is a whole frame of the child:  *)
(* the reporter in the child (src/core/attach-frame-reporter.mjs and       *)
(* hosted-frame-witness.mjs, started by src/index.ts) writes the markers   *)
(* S, F and A into the terminal stream it watches; the runner              *)
(* (runner/pty-runner.mjs) takes them out again (attach-frame-stream.mjs)  *)
(* and answers, for each output sequence number, whether a snapshot of it  *)
(* is covered by a proof (attach-view-proof.mjs).                          *)
(*                                                                         *)
(* A turn of the child's event loop is a script of terminal operations,    *)
(* one atomic step; tokens and markers then wait in the PTY, which the     *)
(* runner reads one token or half a marker at a time.  Sockets, resizes,   *)
(* renderer stops and session restarts happen in between.  drawn and grid  *)
(* are histories: what the output shows, by a grammar of its own.          *)
(***************************************************************************)
EXTENDS FrameGrammar

CONSTANTS
    Sizes,       \* sizes of the terminal (columns, and as many rows), from 1
    Scripts,     \* what one turn of the child does to its terminal
    Frames,      \* the scripts that draw a whole frame of a mode
    MaxJournal,  \* segments the proof tracker's journal retains
    MaxPipe,     \* items the PTY holds
    Budgets      \* bounds: how often what may happen in one behaviour, and by which scripts

Budget == [turns : Nat, resizes : Nat, stops : Nat, focus : Nat, sessions : Nat, drops : Nat,
           scripts : SUBSET Scripts]

\* What the program does to its terminal: a size getter, the sentinel's render, a
\* cursor call, or a write, which may throw, or for which the S before it does.
Operation == [do : {"cols", "rows", "sentinel", "cursor", "write"}, toks : Seq(Tokens),
              fails : {"no", "write", "marker"}]
Prints(op) == op.do = "cursor" \/ op.toks # <<>>
Ending(op) == OpenEscape(op.toks, "none")

\* A control that is open when an operation prints is completed by it.
Resumes(op, half) ==
    IF half = "none" THEN op.toks = <<>> \/ \A e \in Escapes : Head(op.toks) # Rest[e]
    ELSE op.toks # <<>> /\ Head(op.toks) = Rest[half]
FirstPrints(script, from, at) ==
    from < at /\ Prints(script[at]) /\ \A k \in from + 1..at - 1 : ~ Prints(script[k])

\* A control is cut by the end of a write, not of one that moves the cursor, and
\* completed by what the script writes next.
Written(script) ==
    /\ \A i \in DOMAIN script : LET op == script[i] IN
          /\ op.do # "write" => op.toks = <<>>
          /\ \A k \in DOMAIN op.toks : IsHalf(op.toks[k]) => k = Len(op.toks)
          /\ Ending(op) # "none" => Where(op.toks, Cursor) = {}
    /\ \A i, j \in DOMAIN script :
          Prints(script[i]) /\ FirstPrints(script, i, j) => Resumes(script[j], Ending(script[i]))

\* No write that is to complete a cut control throws.
FailsCleanly ==
    \A script \in Scripts : \A i \in DOMAIN script :
        LET op == script[i] IN
        op.fails = "write" => op.toks = <<>> \/ \A e \in Escapes : Head(op.toks) # Rest[e]

ASSUME WitnessAssumption ==
    /\ Scripts \subseteq Seq(Operation) /\ \A script \in Scripts : Written(script)
    /\ Sizes \subseteq Nat \ {0} /\ Sizes # {}
    /\ Frames \in [Modes -> SUBSET Scripts]
    /\ MaxJournal \in Nat \ {0} /\ MaxPipe \in Nat
    /\ Budgets \subseteq Budget

VARIABLES
    tui,     \* the child's renderer
    rep,     \* the reporter of its session
    pty,     \* the terminal stream between the child and the runner
    up, down,\* the reporters' sockets, by session
    host,    \* the runner: output numbers, the reporter it trusts
    drawn,   \* history: what each output segment left on the screen
    grid,    \* history: the frame the output is in the middle of
    past,    \* history: frames to be covered, intents proven, markers shown
    budget   \* what is left of each bound

vars == <<tui, rep, pty, up, down, host, drawn, grid, past, budget>>

Foci == {"editor", "dialog", NoFocus}
Sessions == 1..3

NewReporter(session) ==
    [session |-> session, state |-> "announced", bound |-> FALSE, frames |-> 0, written |-> {},
     ev |-> NewEvaluator("fullscreen"), stash |-> NewEvaluator("fullscreen"), stashed |-> FALSE,
     focus |-> NoFocus, rev |-> 0, consumed |-> 0, rearmed |-> {}]

NoProof == [seq |-> 0, frame |-> 0, size |-> <<>>, mode |-> "none", rev |-> 0]
NewTracker == [first |-> 0, status |-> <<>>, frame |-> 0, state |-> "idle", proofs |-> {},
               newest |-> NoProof, unsafe |-> FALSE, since |-> 0]
NewParser == [last |-> 0, open |-> 0, half |-> FALSE]
Trusts(session) == [session |-> session, parser |-> NewParser, tracker |-> NewTracker, sizes |-> <<>>]
NoReporter == Trusts(0)

Blank == [st |-> "none", size |-> 0, mode |-> "none", cursor |-> FALSE]

TypeOK ==
    /\ tui.mode \in Modes /\ tui.up \in BOOLEAN /\ tui.size \in Sizes /\ tui.focus \in Foci
    /\ tui.half \in Escapes \cup {"none"}
    /\ rep.session \in Sessions /\ rep.state \in {"announced", "enabled", "disposed"}
    /\ rep.bound => rep.state = "enabled"
    /\ rep.consumed \in 0..rep.rev /\ rep.rearmed \subseteq 0..rep.rev
    /\ rep.written \subseteq 1..rep.frames /\ rep.ev.cand.frame \in 0..rep.frames
    /\ Len(pty) <= MaxPipe
    /\ host.size \in Sizes /\ host.seq = Len(drawn)
    /\ host.fr.session \in {0} \cup Sessions
    /\ host.fr.tracker.first \in 0..host.seq /\ host.fr.tracker.newest.seq \in 0..host.seq
    /\ budget \in Budget

Init ==
    /\ tui \in [mode : Modes, up : {TRUE}, size : {First(Sizes)}, focus : {"editor"}, half : {"none"}]
    /\ rep = NewReporter(1)
    /\ pty = <<>>
    /\ up = [s \in Sessions |-> IF s = 1 THEN <<"hello">> ELSE <<>>]
    /\ down = [s \in Sessions |-> <<>>]
    /\ host = [size |-> tui.size, seq |-> 0, fr |-> NoReporter, cut |-> FALSE]
    /\ drawn = <<>> /\ grid = Blank
    /\ past = [whole |-> 0, proven |-> {}, shown |-> {}]
    /\ budget \in Budgets

Spend(what) == budget[what] > 0 /\ budget' = [budget EXCEPT ![what] = @ - 1]

----------------------------------------------------------------------------
(* The reporter.  A turn is computed on what it changes: the reporter, what *)
(* it puts into the stream, and the frames and intents it proves.          *)

Turn == [rep |-> rep, out |-> <<>>, half |-> tui.half, proven |-> {}, thrown |-> FALSE]

Shadowed(t) == t.rep.state = "enabled" /\ t.rep.bound

Token(tok, size) == [kind |-> "token", token |-> tok, size |-> size, mode |-> tui.mode]
Marker(t, kind, frame) ==
    [kind |-> kind, frame |-> frame, session |-> t.rep.session, inside |-> t.half # "none",
     size |-> <<>>, mode |-> "none", rev |-> 0]

\* The unshadowed write; size is what this turn sampled, 0 if nothing.
Put(t, toks, size) ==
    [t EXCEPT !.out = @ \o [i \in DOMAIN toks |-> Token(toks[i], size)],
              !.half = OpenEscape(toks, @)]

\* F consumes the runner's request, whichever frame it completes; an A closes
\* only a frame whose S was written.
Emit(t, d) ==
    LET m == [Marker(t, d.kind, d.frame) EXCEPT !.size = d.size, !.mode = d.mode, !.rev = d.rev]
        first == t.rep.rev # 0 /\ t.rep.consumed # t.rep.rev
        r == IF d.kind = "F" /\ first
             THEN [t.rep EXCEPT !.consumed = t.rep.rev, !.ev.intent = NoIntent] ELSE t.rep
    IN  IF d.kind = "A" /\ d.frame \notin t.rep.written THEN t
        ELSE [t EXCEPT !.rep = r, !.out = Append(@, m),
                       !.proven = IF d.kind = "F" THEN @ \cup {d.rev} ELSE @]

Eager_Drain(t) ==
    IF ~ Shadowed(t) THEN t
    ELSE FoldLeft(Emit, [t EXCEPT !.rep.ev.log = <<>>], t.rep.ev.log)

\* Never inside an escape that an earlier write left open.
Drain(t) ==
    IF t.rep.ev.esc # "none" \/ ~ Shadowed(t) THEN t
    ELSE FoldLeft(Emit, [t EXCEPT !.rep.ev.log = <<>>], t.rep.ev.log)

\* The decisions of an evaluator that is given up: nothing is deferred any more.
DrainAbandoned(t, log) ==
    [FoldLeft(Emit, [t EXCEPT !.half = "none"], log) EXCEPT !.half = t.half]

ReadSize(t, key) ==
    IF ~ Shadowed(t) THEN t
    ELSE LET e == SizeRead(t.rep.ev, key, tui.size, t.rep.frames + 1)
             new == e.cand.frame > t.rep.frames
         IN  Drain([t EXCEPT !.rep.ev = e, !.rep.frames = IF new THEN @ + 1 ELSE @])

\* The renderer stopped and started again: the sentinel's next render binds the
\* terminal with a fresh evaluator, which knows of no intent.
Reactivate(t) ==
    LET old == IF t.rep.stashed THEN t.rep.stash ELSE t.rep.ev
    IN  DrainAbandoned([t EXCEPT !.rep.ev = NewEvaluator(tui.mode), !.rep.bound = TRUE,
                                 !.rep.stashed = FALSE, !.rep.stash = NewEvaluator("fullscreen"),
                                 !.rep.rearmed = @ \cup {t.rep.rev}], old.log)

RenderSentinel(t) ==
    IF t.rep.state # "enabled" THEN t
    ELSE LET a == IF t.rep.bound THEN t ELSE Reactivate(t)
         IN  [a EXCEPT !.rep.focus = tui.focus, !.rep.ev = Sentinel(@, tui.focus)]

\* The session's teardown: whatever is open is closed by an A first.
Dispose(t) ==
    IF t.rep.state = "disposed" THEN t
    ELSE LET e == Abort(t.rep.ev)
             a == IF Shadowed(t) THEN DrainAbandoned(t, e.log) ELSE t
         IN  [a EXCEPT !.rep.ev = NewEvaluator("fullscreen"), !.rep.state = "disposed",
                       !.rep.bound = FALSE, !.rep.stashed = FALSE,
                       !.rep.stash = NewEvaluator("fullscreen")]

EmitS(t, fails) ==
    LET c == t.rep.ev.cand
        m == [Marker(t, "S", c.frame) EXCEPT !.size = c.size, !.rev = c.intent.rev]
    IN  IF fails THEN Dispose([t EXCEPT !.rep.state = "failed"])
        ELSE [t EXCEPT !.out = Append(@, m), !.rep.written = @ \cup {c.frame}]

Finish(t) ==
    Drain([t EXCEPT !.rep.ev = FinishWrite(@, t.rep.focus)])
Fail(t) ==
    [Drain([t EXCEPT !.rep.ev = Abort(@)]) EXCEPT !.thrown = TRUE]

\* A write, split before the frame's OPEN where it begins one.  It throws at
\* its first slice, or the S before the OPEN cannot be written.
Write(t, op, size) ==
    LET e == Operate(t.rep.ev, "write", op.toks)
        begins == e.cand.opened /\ ~ t.rep.ev.cand.opened
        at == IF begins THEN First(Where(op.toks, {"open"})) ELSE 1
        early == SubSeq(op.toks, 1, at - 1)
        late == SubSeq(op.toks, at, Len(op.toks))
        p == Put([t EXCEPT !.rep.ev = e], early, size)
        s == IF begins THEN EmitS(p, op.fails = "marker") ELSE p
    IN  IF ~ Shadowed(t)
        THEN IF op.fails = "write" THEN [t EXCEPT !.thrown = TRUE] ELSE Put(t, op.toks, size)
        ELSE IF op.fails = "write"
             THEN Fail(IF early = <<>> THEN s ELSE [t EXCEPT !.rep.ev = e])
             ELSE Finish(Put(s, late, size))

Cursorial(t, size) ==
    IF ~ Shadowed(t) THEN Put(t, <<"vis">>, size)
    ELSE Finish(Put([t EXCEPT !.rep.ev = Operate(@, "cursor", <<>>)], <<"vis">>, size))

Samples(script) == \E i \in DOMAIN script : script[i].do = "cols"

Step(t, op, size) ==
    CASE t.thrown -> t
      [] ~ t.thrown /\ op.do \in {"cols", "rows"} -> ReadSize(t, op.do)
      [] ~ t.thrown /\ op.do = "sentinel" -> RenderSentinel(t)
      [] ~ t.thrown /\ op.do = "cursor" -> Cursorial(t, size)
      [] ~ t.thrown /\ op.do = "write" -> Write(t, op, size)

Play(script) ==
    LET size == IF Samples(script) THEN tui.size ELSE 0
    IN  FoldLeft(LAMBDA t, op : Step(t, op, size), Turn, script)

\* A control that an earlier turn cut is completed by what is written next.
WellFormed(script) ==
    \A i \in DOMAIN script : FirstPrints(script, 0, i) => Resumes(script[i], tui.half)

\* History: how many controls ago a frame was drawn (from 1), if it still shows.
\* Whether this turn draws a frame that nothing keeps from being proven.
Undisturbed(script) ==
    LET ev == rep.ev IN
    /\ script \in Frames[tui.mode] /\ Shadowed(Turn)
    /\ ev.esc = "none" /\ tui.half = "none" /\ ev.cols = 0 /\ ev.rows = 0
    /\ tui.focus # NoFocus
    /\ ev.intent.size # <<>> => ev.intent.size = <<tui.size, tui.size>>
    /\ host.seq > 0 \/ \E i \in DOMAIN pty : pty[i].kind = "token"
Harmless(script) == \A i \in DOMAIN script : script[i].do = "write" /\ script[i].toks = <<"safe">>

Close(session) == up' = [up EXCEPT ![session] = Append(@, "close")]

\* What a step of the child's reporter t leaves behind.
Commit(t) ==
    /\ rep' = t.rep
    /\ pty' = pty \o t.out /\ Len(pty') <= MaxPipe
    /\ IF t.rep.state = "disposed" /\ rep.state # "disposed"
       THEN Close(rep.session) ELSE UNCHANGED up
Proving(t) == [past EXCEPT !.proven = @ \cup {[session |-> rep.session, rev |-> r] : r \in t.proven}]

----------------------------------------------------------------------------
(* The child.                                                              *)

\* One turn: a render pass, another reader of the size, a stray write.
TakeTurn(script) ==
    /\ Spend("turns")
    /\ tui.up /\ script \in budget.scripts /\ WellFormed(script)
    /\ LET t == Play(script) IN
          /\ Commit(t)
          /\ tui' = [tui EXCEPT !.half = t.half]
          /\ past' = [Proving(t) EXCEPT !.whole = IF Undisturbed(script) THEN 1
                                                 ELSE IF @ # 0 /\ Harmless(script)
                                                      THEN @ + Len(script) ELSE 0]
    /\ UNCHANGED <<down, host, drawn, grid>>

Unstashed_Stopped ==
    LET d == Drain([Turn EXCEPT !.rep.ev = Abort(@)])
    IN  IF Shadowed(Turn) THEN [d EXCEPT !.rep.bound = FALSE, !.rep.ev = NewEvaluator(tui.mode)]
        ELSE Turn

\* The renderer stops: the reporter ends the open frame and lets go of the
\* terminal, but stays armed.
Stopped ==
    LET t == [Turn EXCEPT !.rep.ev = Abort(@)]
        d == Drain([t EXCEPT !.rep.stashed = t.rep.ev.esc # "none",
                             !.rep.stash = IF t.rep.ev.esc # "none" THEN t.rep.ev ELSE @])
    IN  IF Shadowed(Turn) THEN [d EXCEPT !.rep.bound = FALSE] ELSE Turn

Stop ==
    /\ Spend("stops") /\ tui.up
    /\ Commit(Stopped)
    /\ tui' = [tui EXCEPT !.up = FALSE, !.half = "none"]
    /\ UNCHANGED <<down, host, drawn, grid, past>>

\* It starts again on the same terminal.
Start ==
    /\ ~ tui.up
    /\ LET t == IF Shadowed(Turn) THEN Drain([Turn EXCEPT !.rep.ev = Abort(@)]) ELSE Turn
       IN  Commit(t)
    /\ tui' = [tui EXCEPT !.up = TRUE]
    /\ UNCHANGED <<down, host, drawn, grid, past, budget>>

\* switchTuiMode stops the one renderer and starts the other.
SwitchMode(mode) ==
    /\ Spend("stops") /\ tui.up /\ mode # tui.mode
    /\ Commit(Stopped)
    /\ tui' = [tui EXCEPT !.mode = mode, !.half = "none"]
    /\ UNCHANGED <<down, host, drawn, grid, past>>

\* The focus moves; the child notices the new size of its terminal.
MoveFocus(focus) ==
    /\ Spend("focus") /\ focus # tui.focus
    /\ tui' = [tui EXCEPT !.focus = focus]
    /\ UNCHANGED <<rep, pty, up, down, host, drawn, grid, past>>

NoticeSize ==
    /\ tui.size # host.size
    /\ tui' = [tui EXCEPT !.size = host.size]
    /\ UNCHANGED <<rep, pty, up, down, host, drawn, grid, past, budget>>

\* The runner's enable binds the terminal; an intent reaches the evaluator.
ChildHears ==
    /\ down[rep.session] # <<>> /\ rep.state # "disposed"
    /\ LET msg == Head(down[rep.session])
           enabled == [Turn EXCEPT !.rep.state = "enabled", !.rep.bound = TRUE,
                                   !.rep.ev = NewEvaluator(tui.mode)]
           intended == [Turn EXCEPT !.rep.rev = msg.rev, !.rep.ev = SetIntent(@, msg)]
       IN  Commit(IF msg.rev = 0 THEN enabled ELSE Drain(intended))
    /\ down' = [down EXCEPT ![rep.session] = Tail(@)]
    /\ UNCHANGED <<tui, host, drawn, grid, past, budget>>

\* The reporter's socket fails.
LoseSocket ==
    /\ Spend("drops") /\ rep.state # "disposed"
    /\ Commit(Dispose(Turn))
    /\ past' = [past EXCEPT !.whole = 0]
    /\ UNCHANGED <<tui, down, host, drawn, grid>>

\* session_start: the old witness is torn down, a new one greets the runner.
StartSession ==
    /\ Spend("sessions") /\ rep.session + 1 \in Sessions
    /\ LET t == Dispose(Turn) IN
          /\ rep' = NewReporter(rep.session + 1)
          /\ pty' = pty \o t.out /\ Len(pty') <= MaxPipe
    /\ up' = [up EXCEPT ![rep.session] = IF rep.state = "disposed" THEN @ ELSE Append(@, "close"),
                        ![rep.session + 1] = <<"hello">>]
    /\ past' = [past EXCEPT !.whole = 0]
    /\ UNCHANGED <<tui, down, host, drawn, grid>>

----------------------------------------------------------------------------
(* The runner's proof tracker, at the output number n that precedes.       *)

StatusAt(tr, n) == tr.status[n - tr.first + 1]
Earliest(tr) ==
    LET last == tr.first + Len(tr.status) - 1
    IN  IF last - MaxJournal + 1 > tr.first THEN last - MaxJournal + 1 ELSE tr.first

\* What the trailing classifier makes of a token; unsafe is sticky.
Classify(tr, tok) ==
    IF tr.unsafe THEN "unsafe"
    ELSE IF tr.since # 0 THEN IF tok = Rest["safe"] THEN "safe" ELSE "unsafe"
    ELSE IF tok \in {"safe", "vis"} THEN "safe"
    ELSE IF IsHalf(tok) THEN "pending" ELSE "unsafe"

\* A segment's class, and with it that of the halves it completes.
FeedProof(tr, n, tok) ==
    LET class == Classify(tr, tok)
        first == IF tr.first = 0 THEN n ELSE tr.first
        settled == [i \in DOMAIN tr.status |->
                      IF tr.status[i] = "pending" /\ tr.since # 0 /\ first + i - 1 >= tr.since
                      THEN class ELSE tr.status[i]]
    IN  [tr EXCEPT !.first = first, !.status = Append(settled, class),
                   !.unsafe = class = "unsafe",
                   !.since = IF class = "pending" THEN n ELSE 0]

\* The first S may come before any output of this reporter: the output so far is
\* the baseline.
Seeded(tr, n) ==
    IF tr.first = 0 /\ n > 0 THEN [tr EXCEPT !.first = n, !.status = <<"safe">>] ELSE tr

OpenCandidate(tr, m) ==
    IF tr.first = 0 \/ tr.state = "open" \/ m.frame <= tr.frame THEN tr
    ELSE [tr EXCEPT !.frame = m.frame, !.state = "open"]
AbortCandidate(tr, m) ==
    IF tr.state = "open" /\ tr.frame = m.frame THEN [tr EXCEPT !.state = "aborted"] ELSE tr
CompleteProof(tr, m, n) ==
    LET p == [seq |-> n, frame |-> m.frame, size |-> m.size, mode |-> m.mode, rev |-> m.rev]
    IN  IF tr.state = "open" /\ tr.frame = m.frame
        THEN [tr EXCEPT !.state = "idle", !.proofs = @ \cup {p}, !.newest = p,
                        !.unsafe = FALSE, !.since = 0]
        ELSE tr

\* The proof that covers a snapshot of output n, NoProof if none does.
ProofAt(tr, n) ==
    LET kept == {p \in tr.proofs : p.seq >= Earliest(tr) /\ p.seq <= n}
        p == IF kept # {} THEN CHOOSE q \in kept : \A o \in kept : o.frame <= q.frame
             ELSE IF tr.newest.seq <= n THEN tr.newest ELSE NoProof
        trailing == p.seq + 1 .. n
    IN  IF /\ tr.first # 0 /\ n >= tr.first /\ tr.state = "idle" /\ p # NoProof
           /\ \A i \in trailing : i >= Earliest(tr) /\ StatusAt(tr, i) = "safe"
        THEN p ELSE NoProof

----------------------------------------------------------------------------
(* The runner.                                                             *)

\* History: what a token does to the frame on the screen.  A frame is a
\* synchronized block, drawn for one size, and the cursor after it.
Draw(g, i) ==
    LET t == i.token
        begun == [st |-> "open", size |-> i.size, mode |-> i.mode, cursor |-> FALSE]
        closed == IF g.mode = "fullscreen" /\ g.cursor THEN "whole" ELSE "closed"
        same == i.mode = g.mode /\ (i.size = g.size \/ i.size = 0)
        quiet == t \in {"safe", "half-safe", "rest-safe", "half-close", "link", "unlink"}
    IN  CASE t = "open" -> begun
          [] g.st = "none" /\ t # "open" -> Blank
          [] g.st = "whole" /\ t # "open" ->
               IF t \in {"safe", "vis"} \/ IsHalf(t) \/ t = "rest-safe" THEN g ELSE Blank
          [] g.st = "open" /\ t # "open" ->
               IF t \in {"close", "rest-close"} THEN [g EXCEPT !.st = closed]
               ELSE IF t \in Cursor THEN [g EXCEPT !.cursor = TRUE]
               ELSE IF quiet \/ (t = "text" /\ same) THEN g ELSE Blank
          [] g.st \in {"closed", "parked"} /\ t # "open" ->
               IF t = "vis" \/ (t = "pos" /\ g.mode = "fullscreen") THEN [g EXCEPT !.st = "whole"]
               ELSE IF t = "pos" THEN [g EXCEPT !.st = "parked"]
               ELSE IF t \notin {"link", "unlink"} /\ (quiet \/ (t = "text" /\ same)) THEN g ELSE Blank

\* A segment of ordinary output.
Output(i, g) ==
    LET n == host.seq + 1
        tr == IF host.fr.session = 0 THEN host.fr.tracker ELSE FeedProof(host.fr.tracker, n, i.token)
    IN  /\ host' = [host EXCEPT !.seq = n, !.fr.tracker = tr, !.cut = FALSE]
        /\ grid' = g
        /\ drawn' = Append(drawn, IF g.st = "whole" THEN [size |-> g.size, mode |-> g.mode]
                                  ELSE [size |-> 0, mode |-> "none"])

ReadToken ==
    /\ pty # <<>> /\ Head(pty).kind = "token"
    /\ pty' = Tail(pty)
    /\ Output(Head(pty), Draw(grid, Head(pty)))
    /\ UNCHANGED <<tui, rep, up, down, past, budget>>

\* What the parser and the tracker make of a marker.
AcceptMarker(fr, m, n) ==
    LET opens == fr.parser.open = 0 /\ m.frame > fr.parser.last
        ends == fr.parser.open = m.frame
        whole == [fr EXCEPT !.parser.half = FALSE]
    IN  IF m.session # fr.session THEN whole
        ELSE IF m.kind = "S"
             THEN IF opens THEN [whole EXCEPT !.parser.last = m.frame, !.parser.open = m.frame,
                                              !.tracker = OpenCandidate(Seeded(@, n), m)]
                  ELSE whole
        ELSE IF ~ ends THEN whole
        ELSE [whole EXCEPT !.parser.open = 0,
                           !.tracker = IF m.kind = "F" THEN CompleteProof(@, m, n)
                                       ELSE AbortCandidate(@, m)]

Lenient_ReadMarker ==
    /\ pty # <<>> /\ Head(pty).kind # "token"
    /\ pty' = Tail(pty)
    /\ LET m == Head(pty) IN
          IF host.fr.session = 0 \/ host.cut \/ (m.kind = "S" /\ host.fr.parser.open # 0)
          THEN /\ Output(Token("bad", 0), IF host.cut THEN Blank ELSE grid)
               /\ past' = [past EXCEPT !.shown = @ \cup {m.session}]
          ELSE /\ host' = [host EXCEPT !.fr = AcceptMarker(@, m, host.seq)]
               /\ UNCHANGED <<grid, drawn, past>>
    /\ UNCHANGED <<tui, rep, up, down, budget>>

\* A parser takes a whole marker out of the stream, or keeps its first half;
\* without one, or when its first half is gone with the parser that had it, it
\* is output like any other.
ReadMarker ==
    /\ pty # <<>> /\ Head(pty).kind # "token"
    /\ pty' = Tail(pty)
    /\ LET m == Head(pty) IN
          IF host.fr.session = 0 \/ host.cut
          THEN /\ Output(Token("bad", 0), IF host.cut THEN Blank ELSE grid)
               /\ past' = [past EXCEPT !.shown = @ \cup {m.session}]
          ELSE /\ host' = [host EXCEPT !.fr = AcceptMarker(@, m, host.seq)]
               /\ UNCHANGED <<grid, drawn, past>>
    /\ UNCHANGED <<tui, rep, up, down, budget>>

ReadHalfMarker ==
    /\ pty # <<>> /\ Head(pty).kind # "token"
    /\ host.fr.session # 0 /\ ~ host.fr.parser.half /\ ~ host.cut
    /\ host' = [host EXCEPT !.fr.parser.half = TRUE]
    /\ UNCHANGED <<tui, rep, pty, up, down, drawn, grid, past, budget>>

\* A reporter greets the runner, which trusts it from now on, or its socket closes.
HostHears(session) ==
    /\ up[session] # <<>>
    /\ up' = [up EXCEPT ![session] = Tail(@)]
    /\ LET hello == Head(up[session]) = "hello"
           ends == hello \/ host.fr.session = session
       IN  /\ host' = [host EXCEPT !.cut = @ \/ (ends /\ host.fr.parser.half),
                                   !.fr = IF hello THEN Trusts(session)
                                          ELSE IF ends THEN NoReporter ELSE @]
           /\ down' = IF hello THEN [down EXCEPT ![session] = Append(@, NoIntent)] ELSE down
    /\ UNCHANGED <<tui, rep, pty, drawn, grid, past, budget>>

\* A client asks for another size: the PTY and the model have it at once, the
\* reporter is told.
Resize(size) ==
    /\ Spend("resizes") /\ size # host.size
    /\ LET told == host.fr.session # 0
           sizes == IF told THEN Append(host.fr.sizes, size) ELSE host.fr.sizes
           intent == [rev |-> Len(sizes), size |-> <<size, size>>]
       IN  /\ host' = [host EXCEPT !.size = size, !.fr.sizes = sizes]
           /\ down' = IF told THEN [down EXCEPT ![host.fr.session] = Append(@, intent)] ELSE down
    /\ UNCHANGED <<tui, rep, pty, up, drawn, grid, past>>

Next ==
    \/ \E s \in Scripts : TakeTurn(s)
    \/ Stop \/ Start \/ NoticeSize \/ ChildHears \/ LoseSocket \/ StartSession
    \/ \E m \in Modes : SwitchMode(m)
    \/ \E f \in Foci : MoveFocus(f)
    \/ ReadToken \/ ReadMarker \/ ReadHalfMarker
    \/ \E s \in Sessions : HostHears(s)
    \/ \E z \in Sizes : Resize(z)

Spec == Init /\ [][Next]_vars

----------------------------------------------------------------------------
(* A snapshot that the tracker calls covered does show a whole frame of    *)
(* the child, complete to its parked cursor, drawn in that mode at that    *)
(* size, with nothing after it that touches the screen; and a proof that   *)
(* answers a resize has the size the runner asked for.                     *)
CoveredIsWhole ==
    \A n \in DOMAIN drawn :
        LET p == ProofAt(host.fr.tracker, n) IN
        p # NoProof =>
            /\ p.size = <<drawn[n].size, drawn[n].size>> /\ p.mode = drawn[n].mode
            /\ p.rev # 0 => p.size = <<host.fr.sizes[p.rev], host.fr.sizes[p.rev]>>

\* No marker is written inside a control sequence that an earlier write left
\* open, unless its reporter or renderer is being given up.
MarkersRespectEscapes == \A i \in DOMAIN pty : pty[i].kind # "token" => ~ pty[i].inside

\* The bytes of a marker reach the output only once the runner no longer trusts
\* the reporter that wrote it: while it does, its markers are taken out.
TrustedMarkersAreHidden == host.fr.session \notin past.shown

\* Once all the child wrote is read, a whole frame that was drawn under a trusted
\* reporter and is still on the screen is covered, for as many controls after it as
\* the journal retains.
WholeFrameIsCovered ==
    /\ past.whole \in 1..MaxJournal + 1 /\ pty = <<>> /\ host.fr.session = rep.session
    => ProofAt(host.fr.tracker, host.seq) # NoProof

\* A resize request is consumed by a frame proven for it, unless the renderer
\* was stopped after the request and the new evaluator never heard of it.
ConsumedWasProven ==
    rep.consumed # 0 /\ rep.consumed \notin rep.rearmed
        => [session |-> rep.session, rev |-> rep.consumed] \in past.proven
=============================================================================
