----------------------------- MODULE MCAttachView -----------------------------
(***************************************************************************)
(* Small instances of AttachView.                                          *)
(***************************************************************************)
EXTENDS AttachView

SmallSizes == {1, 2}

\* Two frames, and nothing else happens.
Plain == [outputs |-> 2, kinds |-> {"whole"}, snapshots |-> 3, resizes |-> 0, drops |-> 0,
          hosts |-> 0, reporters |-> 0, peers |-> 0]

\* Frames that race a resize, and two; a lost socket, with a resize, and in the
\* middle of frames and of what leaves them alone; a snapshot that the view asks
\* for, and rejects; a replaced host; reporters, one beside a socket that connects,
\* one racing a resize and one in the middle of a frame.
AnyTrouble ==
    {[Plain EXCEPT !.outputs = 3, !.resizes = 1],
     [Plain EXCEPT !.resizes = 2],
     [Plain EXCEPT !.resizes = 1, !.drops = 1],
     [Plain EXCEPT !.outputs = 3, !.kinds = {"whole", "head"}, !.drops = 1],
     [Plain EXCEPT !.kinds = {"whole", "safe"}, !.drops = 1],
     [Plain EXCEPT !.outputs = 5, !.kinds = {"head"}],
     [Plain EXCEPT !.hosts = 1, !.resizes = 1],
     [Plain EXCEPT !.kinds = {"whole", "head"}, !.hosts = 1],
     [Plain EXCEPT !.reporters = 2],
     [Plain EXCEPT !.reporters = 1, !.peers = 1],
     [Plain EXCEPT !.outputs = 1, !.reporters = 1, !.resizes = 1],
     [Plain EXCEPT !.kinds = {"whole", "head"}, !.reporters = 1]}
=============================================================================
