---------------------------- MODULE MCFrameWitness ----------------------------
(***************************************************************************)
(* Small instances of FrameWitness.                                        *)
(***************************************************************************)
EXTENDS FrameWitness

Op(do) == [do |-> do, toks |-> <<>>, fails |-> "no"]
W(toks) == [do |-> "write", toks |-> toks, fails |-> "no"]
Failing(toks, fails) == [do |-> "write", toks |-> toks, fails |-> fails]
Begin == <<Op("cols"), Op("rows"), Op("sentinel")>>

\* A fullscreen frame; one that follows the end of another block in its write.
Full == Begin \o <<W(<<"open", "text", "pos", "close">>)>>
\* A regular frame, parked in a write or by showCursor; one that is not parked.
Parked == Begin \o <<W(<<"open", "text", "close">>), W(<<"pos", "vis">>)>>
Shown == Begin \o <<W(<<"open", "text", "close">>), W(<<"pos">>), Op("cursor")>>
Unparked == Begin \o <<W(<<"open", "text", "close">>)>>
Linked == Begin \o <<W(<<"open", "link", "text", "unlink", "close">>), W(<<"pos", "vis">>)>>
\* A frame that is cut inside its CLOSE.
Cut == Begin \o <<W(<<"open", "text", "half-close">>)>>
Rests == <<W(<<"rest-close", "pos", "vis">>)>>
RestNext == Begin \o <<W(<<"rest-close", "open", "text", "close">>), W(<<"pos", "vis">>)>>
Twice == <<Op("cols"), Op("rows")>> \o Begin \o <<W(<<"open", "text", "pos", "close">>)>>
\* What else is written.
Park == <<Op("sentinel"), W(<<"pos", "vis">>)>>
Stray == <<W(<<"text">>)>>
Title == <<W(<<"safe">>)>>
HalfTitle == <<W(<<"half-safe">>)>>
RestTitle == <<W(<<"rest-safe">>)>>
Scroll == <<W(<<"bad">>)>>
Reads == <<Op("cols"), Op("rows")>>
NoBody == Begin \o <<Failing(<<"open", "text", "pos", "close">>, "write")>>
NoMark == Begin \o <<Failing(<<"open", "text", "pos", "close">>, "marker")>>
After == Begin \o <<Failing(<<"close", "open", "text", "pos", "close">>, "write")>>

AllScripts == {Full, Parked, Shown, Unparked, Linked, Cut, Rests, RestNext, Twice, Park, Stray,
               Title, HalfTitle, RestTitle, Scroll, Reads, NoBody, NoMark, After}
WholeFrames == [m \in Modes |-> IF m = "fullscreen" THEN {Full, Twice} ELSE {Parked, Shown, Linked}]

Nothing == [turns |-> 0, resizes |-> 0, stops |-> 0, focus |-> 0, sessions |-> 0, drops |-> 0,
            scripts |-> AllScripts]

\* Whatever the child writes in three turns; a proof with titles after it; then a
\* client that resizes, a renderer that stops, both, a session or a socket that
\* ends, a focus that moves.
Drawing == [Nothing EXCEPT !.turns = 3]
Trailing == [Nothing EXCEPT !.turns = 5, !.scripts = {Full, Title, HalfTitle, RestTitle}]
Resizing == [Nothing EXCEPT !.turns = 2, !.resizes = 1]
Stopping == [Nothing EXCEPT !.turns = 3, !.stops = 1, !.scripts = {Full, Unparked, Cut, Park}]
Rearming == [Nothing EXCEPT !.turns = 2, !.stops = 1, !.resizes = 1, !.scripts = {Full, Parked}]
Restarting == [Nothing EXCEPT !.turns = 2, !.sessions = 1, !.drops = 1,
                              !.scripts = {Full, Unparked, Cut, Rests, NoMark}]
Renewing == [Nothing EXCEPT !.turns = 2, !.sessions = 1, !.resizes = 1, !.scripts = {Full}]
Focusing == [Nothing EXCEPT !.turns = 2, !.focus = 1]
AnyBudget == {Drawing, Trailing, Resizing, Stopping, Rearming, Restarting, Renewing, Focusing}

\* The instance has no write that throws where it should complete a control.
ASSUME CleanFailures == FailsCleanly
=============================================================================
