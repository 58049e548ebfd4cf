----------------------------- MODULE FrameGrammar -----------------------------
(***************************************************************************)
(* The grammar by which the child's reporter decides that a terminal frame *)
(* is complete: scanWrite and FrameCandidateEvaluator of                   *)
(* src/core/attach-frame-proof.mjs, as operators on the evaluator's state. *)
(*                                                                         *)
(* A write is a sequence of tokens: a synchronized block's "open" and      *)
(* "close", cursor "pos" and "vis", OSC 8 "link" and "unlink", "text"      *)
(* (also erasing and colours: all that changes the grid and may be inside  *)
(* a frame), "safe" (the controls that never touch the grid) and "bad"     *)
(* (any other control).  A control cut by the end of a write is a half, at *)
(* the end of that write, and its rest, at the start of the next.          *)
(***************************************************************************)
EXTENDS Naturals, Sequences, SequencesExt

Modes == {"fullscreen", "regular"}

Half == [open |-> "half-open", close |-> "half-close", safe |-> "half-safe"]
Rest == [open |-> "rest-open", close |-> "rest-close", safe |-> "rest-safe"]
Escapes == DOMAIN Half
Tokens ==
    {"open", "close", "pos", "vis", "link", "unlink", "text", "safe", "bad"}
    \cup {Half[e] : e \in Escapes} \cup {Rest[e] : e \in Escapes}
IsHalf(t) == \E e \in Escapes : t = Half[e]
HalfOf(t) == CHOOSE e \in Escapes : t = Half[e]

\* The control a write leaves open, "none" if it ends outside of one.
OpenEscape(toks, before) ==
    IF toks = <<>> THEN before
    ELSE IF IsHalf(Last(toks)) THEN HalfOf(Last(toks)) ELSE "none"

\* No candidate, focus or runner intent.
NoFocus == "nothing"
NoIntent == [rev |-> 0, size |-> <<>>]
NoCand == [frame |-> 0, size |-> <<>>, intent |-> NoIntent, fact |-> "unseen", opened |-> FALSE,
           closed |-> FALSE, cursor |-> FALSE, park |-> FALSE, vis |-> FALSE, links |-> 0]

\* Half a sampled pair is 0 while it is missing.
NewEvaluator(mode) ==
    [mode |-> mode, cols |-> 0, rows |-> 0, cand |-> NoCand, intent |-> NoIntent,
     esc |-> "none", log |-> <<>>]

Decide(ev, kind) ==
    [ev EXCEPT !.cand = NoCand,
               !.log = Append(@, [kind |-> kind, frame |-> ev.cand.frame, mode |-> ev.mode,
                                  size |-> IF kind = "F" THEN ev.cand.size ELSE <<>>,
                                  rev |-> IF kind = "F" THEN ev.cand.intent.rev ELSE 0])]

\* A candidate that showed its S ends in an A; before that it just goes.
Abort(ev) == IF ev.cand.opened THEN Decide(ev, "A") ELSE [ev EXCEPT !.cand = NoCand]

Stamping_SetIntent(ev, intent) == [ev EXCEPT !.intent = intent]

\* A newer intent is never stamped on the frame that is being drawn.
SetIntent(ev, intent) ==
    LET superseded == ev.cand.frame # 0 /\ intent.rev # ev.intent.rev
    IN  [(IF superseded THEN Abort(ev) ELSE ev) EXCEPT !.intent = intent]

\* A size getter was read.  The pair that completes samples a new frame, and
\* with it ends the one that was open.
SizeRead(ev, key, value, frame) ==
    LET e == [ev EXCEPT ![key] = value]
    IN  IF e.cols = 0 \/ e.rows = 0 THEN e
        ELSE [Abort(e) EXCEPT
                !.cand = [NoCand EXCEPT !.frame = frame, !.size = <<e.cols, e.rows>>,
                                        !.intent = e.intent],
                !.cols = 0, !.rows = 0]

\* The first sentinel fact after the pair is the candidate's.
Sentinel(ev, focus) ==
    IF ev.cand.frame # 0 /\ ev.cand.fact = "unseen"
    THEN [ev EXCEPT !.cand.fact = focus] ELSE ev

----------------------------------------------------------------------------
(* One write.                                                              *)

\* The control that the write's first token completes.
Completes(ev, toks) ==
    IF toks # <<>> /\ ev.esc # "none" /\ Head(toks) = Rest[ev.esc] THEN ev.esc ELSE "none"

Scan(ev, toks) ==
    LET early == Completes(ev, toks)
        whole == IF early = "none" THEN toks ELSE <<early>> \o Tail(toks)
    IN  IF whole # <<>> /\ IsHalf(Last(whole)) THEN Front(whole) ELSE whole

Where(toks, kinds) == {i \in DOMAIN toks : toks[i] \in kinds}
First(positions) == CHOOSE i \in positions : \A j \in positions : i <= j
Cursor == {"pos", "vis"}

\* A hyperlink after this frame's CLOSE.  A CLOSE that began in an earlier write
\* has no offset, so nothing of its write is found to be after it.
LinkAfterClose(ev, toks, early) ==
    LET closes == Where(toks, {"close"}) IN
    \E i \in Where(toks, {"link", "unlink"}) :
        \/ ev.cand.closed
        \/ closes # {} /\ i > First(closes) /\ ~(early = "close" /\ First(closes) = 1)

\* Hyperlinks left open; one before this frame's OPEN is the previous frame's.
LinksUpTo(ev, toks, n, i) ==
    LET opens == Where(toks, {"open"})
        own == ev.cand.opened \/ (opens # {} /\ i > First(opens))
    IN  IF ~ own THEN n
        ELSE IF toks[i] = "link" THEN n + 1
        ELSE IF toks[i] = "unlink" /\ n > 0 THEN n - 1 ELSE n
Links(ev, toks) ==
    FoldLeftDomain(LAMBDA n, i : LinksUpTo(ev, toks, n, i), ev.cand.links, toks)

Eligible(ev) ==
    /\ ev.cand.fact # NoFocus
    /\ ev.cand.intent.size # <<>> => ev.cand.size = ev.cand.intent.size

\* The candidate's own OPEN, which S goes before.  A fullscreen frame is one write.
Opens(ev, toks) ==
    LET at == First(Where(toks, {"open"}))
        closed == \E i \in Where(toks, {"close"}) : i > at
        cursor == \E i \in Where(toks, Cursor) : i > at
    IN  IF (ev.mode = "fullscreen" => closed /\ cursor) /\ Eligible(ev)
        THEN [ev EXCEPT !.cand.opened = TRUE, !.cand.closed = closed, !.cand.cursor = cursor]
        ELSE ev

\* A later write closes the frame, and parks the cursor after the CLOSE.
Continues(ev, toks) ==
    LET closes == Where(toks, {"close"})
        closed == ev.cand.closed \/ closes # {}
        after == {i \in Where(toks, Cursor) : ev.cand.closed \/ (closes # {} /\ i > First(closes))}
    IN  [ev EXCEPT !.cand.closed = closed,
                   !.cand.cursor = @ \/ Where(toks, Cursor) # {},
                   !.cand.park = @ \/ after # {},
                   !.cand.vis = @ \/ \E i \in after : toks[i] = "vis"]

HandleWrite(ev, toks) ==
    CASE ~ ev.cand.opened /\ Where(toks, {"open"}) # {} -> Opens(ev, toks)
      [] ~ ev.cand.opened /\ Where(toks, {"open"}) = {} -> ev
      [] ev.cand.opened /\ Where(toks, {"open"}) # {} -> Abort(ev)
      [] ev.cand.opened /\ Where(toks, {"open"}) = {} -> Continues(ev, toks)

\* hideCursor and showCursor: the last step of a parked frame, nothing else.
HandleNonWrite(ev) ==
    CASE ~ ev.cand.opened -> ev
      [] ev.cand.opened /\ ~ ev.cand.closed -> Abort(ev)
      [] ev.cand.closed -> [ev EXCEPT !.cand.vis = @ \/ ev.cand.park]

\* One operation on the terminal; a candidate that S begins has become opened.
Operate(ev, kind, toks) ==
    LET early == Completes(ev, toks)
        body == Scan(ev, toks)
        e == [ev EXCEPT !.esc = OpenEscape(toks, @)]
    IN  CASE e.cand.frame = 0 -> e
          [] e.cand.frame # 0 /\ e.cand.fact = "unseen" -> [e EXCEPT !.cand = NoCand]
          [] e.cand.frame # 0 /\ e.cand.fact # "unseen" ->
               IF Where(body, {"bad"}) # {} \/ early = "open" THEN Abort(e)
               ELSE IF kind # "write" THEN HandleNonWrite(e)
               ELSE IF LinkAfterClose(e, body, early) THEN Abort(e)
               ELSE HandleWrite([e EXCEPT !.cand.links = Links(e, body)], body)

ParkedOnly_Completed(ev) ==
    /\ ev.cand.opened /\ ev.cand.closed
    /\ ev.mode = "fullscreen" => ev.cand.cursor
    /\ ev.mode = "regular" => ev.cand.park

Completed(ev) ==
    /\ ev.cand.opened /\ ev.cand.closed
    /\ ev.mode = "fullscreen" => ev.cand.cursor
    /\ ev.mode = "regular" => ev.cand.park /\ ev.cand.vis

\* After the operation: a complete frame is an F if the focus is still the one
\* of its sentinel.
FinishWrite(ev, focus) ==
    IF ~ Completed(ev) THEN ev
    ELSE IF focus # NoFocus /\ focus = ev.cand.fact /\ ev.cand.links = 0
         THEN Decide(ev, "F") ELSE Abort(ev)
=============================================================================
