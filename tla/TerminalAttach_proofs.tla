------------------------- MODULE TerminalAttach_proofs -------------------------
(***************************************************************************)
(* Theorems about attaching to a terminal, for any ring, any number of     *)
(* chunks, drops, hosts, failures and late timers: types, that a live      *)
(* client shows exactly what the runner printed up to its cursor, and that *)
(* it resumes only over what it shows.                                     *)
(***************************************************************************)
EXTENDS TerminalAttach, Integers, SequenceTheorems, TLAPS

----------------------------------------------------------------------------
(* The inductive invariants.                                               *)

Message == [type : {"hello", "reconciled", "mismatch", "begin", "frame", "end", "output",
                    "proof", "required", "failed"}, n : Nat]
Request == [type : {"subscribe", "reconcile"}, n : Nat]

Typed == TypeOK /\ up \in Seq(Request) /\ down \in Seq(Message)

\* A socket speaks of one runner.
Greets ==
    \A i \in 1..Len(down) :
        down[i].type \in {"hello", "reconciled", "mismatch"} => down[i].n = gen

\* Only a socket that is connected and subscribed is served, and up to the last chunk.
Streams ==
    /\ sub.pc # "idle" => link /\ sub.owns
    /\ sub.pc = "live" => sub.seq = last

Base == Typed /\ Greets /\ Streams

\* What may come before the answer to a subscribe: the greeting, answers to the
\* reconnect gate, and chunks broadcast to a socket that never subscribed.
Noise == {"hello", "reconciled", "mismatch", "output"}
Noisy == \A i \in 1..Len(down) : down[i].type \in Noise

\* A client's state and mode agree; one that has not decided its mode has shown
\* nothing, and one that has knows a generation.
ModeInvariant ==
    /\ client.state = "probing" => client.mode = "undecided"
    /\ client.state = "legacy" <=> client.mode = "legacy"
    /\ client.state \in {"live", "collecting", "reconciling"} => client.mode = "protocol"
    /\ client.mode = "undecided" => screen.gen = 0 /\ client.seq = 0 /\ client.high = 0
    /\ client.mode = "protocol" => client.gen # 0

\* A socket greets before all else; while the client asks for the runner's identity nothing
\* else is asked, and the chunks it has shown meanwhile are counted only then.
SocketInvariant ==
    /\ link /\ client.state # "legacy" /\ client.gen # gen =>
          Len(down) > 0 /\ down[1].type = "hello"
    /\ link /\ client.state \notin {"reconciling", "legacy"} => client.high = 0
    /\ link /\ client.state = "reconciling" =>
          /\ sub = NoSub /\ Noisy /\ client.from # 0
          /\ \A i \in 1..Len(up) : up[i].type = "reconcile"

\* The runner whose chunks the client's cursor counts.
Believed == IF ~link THEN (IF client.atDrop = 0 THEN client.gen ELSE client.atDrop)
            ELSE IF client.state = "reconciling" THEN client.from ELSE gen

\* Unless a trouble spoiled the screen: one of the current runner is exact up to the
\* cursor and what was shown past it, and on no other screen the client believes to
\* have chunks of the current runner.
ScreenInvariant ==
    trouble = {} /\ client.state # "legacy" =>
        /\ screen.gen = gen =>
              /\ Believed = gen /\ client.gen = gen
              /\ screen.exact /\ screen.upto = Larger(client.seq, client.high)
        /\ screen.gen # gen /\ Believed = gen => client.seq = 0 /\ client.high = 0
        /\ link /\ client.state = "live" => screen.gen = gen

\* The answer to a subscribe without a cursor, with its begin at place b of the
\* socket (or already taken, if b is not positive): begin d, the frame, the chunks
\* up to e, end; an empty model has no frame.  After it comes the live stream.
Within(i, b, d, e) ==
    LET k == i - b IN
        \/ k < 0 /\ down[i].type \in Noise
        \/ k = 0 /\ down[i] = Say("begin", d)
        \/ k = 1 /\ d = 0 /\ down[i] = Say("end", 1)
        \/ k = 1 /\ d > 0 /\ down[i] = Say("frame", d)
        \/ k > 1 /\ d > 0 /\ k <= e - d + 1 /\ down[i] = Say("output", d + k - 1)
        \/ k > 1 /\ d > 0 /\ k = e - d + 2 /\ down[i] = Say("end", e + 1)
        \/ k > 1 /\ d = 0 /\ down[i].type \in {"output", "proof"}
        \/ k > e - d + 2 /\ d > 0 /\ down[i].type \in {"output", "proof"}
EndsAt(b, d, e) == IF d = 0 THEN b + 1 ELSE b + e - d + 2

\* How far the client is with it.
Waits == client.state \in {"probing", "resyncing"}
Took(b, d) ==
    IF b > 0 THEN Waits
    ELSE /\ client.state = "collecting"
         /\ client.part.begin = d
         /\ client.part.frame = (b < 0)
         /\ client.part.flush = IF b < 0 THEN 0 - b - 1 ELSE 0

\* A client without a screen of the current runner has at most one subscribe on its
\* way, without a cursor, or the runner prepares an answer, or the answer, whole or
\* broken off, is in the socket before anything else that could make it live.
Asking ==
    /\ sub.pc = "idle" /\ Waits /\ Noisy
    /\ \A i \in 1..Len(up) : up[i].type = "subscribe" => i = Len(up) /\ up[i].n = 0
Preparing ==
    /\ sub.pc = "capturing" /\ last > 0 /\ Waits /\ Noisy /\ up = <<>>
Answered(b, d, e) ==
    /\ sub.owns /\ up = <<>> /\ Took(b, d) /\ d <= e
    /\ \/ /\ sub.pc = "rendering" /\ d = sub.dto /\ d > 0 /\ b = Len(down)
          /\ \A i \in 1..Len(down) : Within(i, b, d, e)
       \/ /\ sub.pc = "live" /\ EndsAt(b, d, e) \in 1..Len(down)
          /\ \A i \in 1..Len(down) : Within(i, b, d, e)
       \/ /\ sub.pc = "idle" /\ d > 0 /\ Len(down) > 0
          /\ b <= Len(down) /\ Len(down) <= b + 2
          /\ \A i \in 1..Len(down) - 1 : Within(i, b, d, e)
          /\ \/ down[Len(down)].type = "failed" /\ Len(down) <= b + 1
             \/ down[Len(down)].type = "required" /\ Len(down) = b + 2

SessionInvariant ==
    trouble = {} /\ link /\ client.state \notin {"legacy", "reconciling"} /\ screen.gen # gen =>
        Asking \/ Preparing \/ \E b \in Int, d, e \in Nat : Answered(b, d, e)

\* A subscribe with a cursor is the first on its socket, and over what is shown.
CursorInvariant ==
    \A i \in 1..Len(up) :
        up[i].type = "subscribe" /\ up[i].n > 0 =>
            /\ sub = NoSub /\ Noisy /\ \A j \in 1..i - 1 : up[j].type = "reconcile"
            /\ trouble = {} =>
                 screen.gen = gen /\ screen.exact /\ screen.upto >= up[i].n

AttachInvariant ==
    /\ Base
    /\ ModeInvariant /\ SocketInvariant /\ ScreenInvariant /\ SessionInvariant
    /\ CursorInvariant

----------------------------------------------------------------------------
(* The socket's two queues.                                                *)

\* Sending adds messages behind the others.
LEMMA Sending ==
    ASSUME NEW S, NEW s \in Seq(S), NEW t \in Seq(S)
    PROVE  /\ s \o t \in Seq(S) /\ Len(s \o t) = Len(s) + Len(t)
           /\ \A i \in 1..Len(s) : (s \o t)[i] = s[i]
           /\ \A i \in 1..Len(t) : (s \o t)[Len(s) + i] = t[i]
           /\ Len(s) \in Nat /\ Len(t) \in Nat
<1>1. /\ s \o t \in Seq(S) /\ Len(s \o t) = Len(s) + Len(t)
      /\ \A i \in 1..Len(s) + Len(t) :
            (s \o t)[i] = IF i <= Len(s) THEN s[i] ELSE t[i - Len(s)]
      /\ Len(s) \in Nat /\ Len(t) \in Nat
  BY ConcatProperties, LenProperties
<1> QED BY <1>1

\* What Tell does to what is on its way to the client.
Told(t) ==
    /\ down' \in Seq(Message)
    /\ ~link => down' = down
    /\ link => /\ Len(down') = Len(down) + Len(t)
               /\ \A i \in 1..Len(down) : down'[i] = down[i]
               /\ \A i \in 1..Len(t) : down'[Len(down) + i] = t[i]
    /\ Len(down) \in Nat /\ Len(t) \in Nat

LEMMA Telling ==
    ASSUME Typed, NEW t \in Seq(Message), Tell(t)
    PROVE  Told(t)
<1>1. down \in Seq(Message)
  BY DEF Typed
<1> QED BY <1>1, Sending DEF Tell, Told

\* What Become adds to what is on its way to the runner.
Asked(t) ==
    /\ up' \in Seq(Request)
    /\ Len(up') = Len(up) + Len(t)
    /\ \A i \in 1..Len(up) : up'[i] = up[i]
    /\ \A i \in 1..Len(t) : up'[Len(up) + i] = t[i]
    /\ Len(up) \in Nat /\ Len(t) \in Nat

LEMMA Becoming ==
    ASSUME Typed, NEW c, NEW t \in Seq(Request), Become(c, t)
    PROVE  client' = c /\ Asked(t)
<1>1. up \in Seq(Request)
  BY DEF Typed
<1> QED BY <1>1, Sending DEF Become, Asked

\* The client takes the first message, and N is its number.
Heard(type) ==
    /\ link /\ link' = link /\ UNCHANGED <<gen, last, evicted, sub>>
    /\ down' \in Seq(Message)
    /\ Len(down) \in Nat \ {0} /\ Len(down') = Len(down) - 1
    /\ \A i \in 1..Len(down') : down'[i] = down[i + 1]
    /\ down[1] \in Message /\ down[1].type = type /\ down[1] = Say(type, N) /\ N \in Nat

LEMMA Hearing ==
    ASSUME Typed, NEW type, Hear(type)
    PROVE  Heard(type)
<1>1. down \in Seq(Message) /\ down # <<>> /\ down' = Tail(down)
  BY DEF Typed, Hear
<1>2. /\ Head(down) \in Message /\ Tail(down) \in Seq(Message) /\ Head(down) = down[1]
      /\ Len(Tail(down)) = Len(down) - 1
      /\ \A i \in 1..Len(Tail(down)) : Tail(down)[i] = down[i + 1]
  BY <1>1, HeadTailProperties
<1>3. Len(down) \in Nat \ {0}
  BY <1>1, LenProperties, EmptySeq
<1>4. Head(down) = Say(type, N) /\ N \in Nat
  BY <1>2 DEF Hear, Message, Say, N
<1> QED BY <1>1, <1>2, <1>3, <1>4 DEF Hear, Heard, runner

\* The runner takes the first request.
Taken(type) ==
    /\ link
    /\ up' \in Seq(Request)
    /\ Len(up) \in Nat \ {0} /\ Len(up') = Len(up) - 1
    /\ \A i \in 1..Len(up') : up'[i] = up[i + 1]
    /\ up[1] \in Request /\ up[1].type = type /\ Head(up) = up[1]

LEMMA Reading ==
    ASSUME Typed, NEW type, Read(type)
    PROVE  Taken(type)
<1>1. up \in Seq(Request) /\ up # <<>> /\ up' = Tail(up)
  BY DEF Typed, Read
<1>2. /\ Head(up) \in Request /\ Tail(up) \in Seq(Request) /\ Head(up) = up[1]
      /\ Len(Tail(up)) = Len(up) - 1
      /\ \A i \in 1..Len(Tail(up)) : Tail(up)[i] = up[i + 1]
  BY <1>1, HeadTailProperties
<1>3. Len(up) \in Nat \ {0}
  BY <1>1, LenProperties, EmptySeq
<1> QED BY <1>1, <1>2, <1>3 DEF Read, Taken

----------------------------------------------------------------------------
(* What the client becomes, field by field.                                *)

Part == [begin : Nat, frame : BOOLEAN, flush : Nat]
Client == [state : States, mode : {"undecided", "protocol", "legacy"},
           seq : Nat, failures : 0..MaxFailures, part : Part,
           gen : 0..gen, inst : 0..gen, atDrop : 0..gen, from : 0..gen,
           high : Nat, probe : BOOLEAN]
Screen == [gen : 0..gen, upto : Nat, exact : BOOLEAN]

\* Nothing but what is listed changes.
SameMode == client'.mode = client.mode
SamePlace == client'.seq = client.seq /\ client'.high = client.high
SamePart == client'.part = client.part
SameRunner ==
    client'.gen = client.gen /\ client'.atDrop = client.atDrop /\ client'.from = client.from

Healed ==
    /\ client' \in Client /\ SamePlace /\ SameRunner
    /\ \/ client'.state = "resyncing" /\ SameMode /\ Asked(<<Fresh>>)
       \/ client'.state = "legacy" /\ client'.mode = "legacy" /\ Asked(<<>>)

LEMMA Requests ==
    /\ \A n \in Nat : Since(n) \in Request /\ Reconcile(n) \in Request
    /\ Fresh \in Request
    /\ <<>> \in Seq(Request) /\ <<Fresh>> \in Seq(Request)
    /\ \A n \in Nat : <<Since(n)>> \in Seq(Request) /\ <<Reconcile(n)>> \in Seq(Request)
  BY DEF Since, Reconcile, Fresh, Request

LEMMA Healing ==
    ASSUME Typed, Recover
    PROVE  Healed
<1>1. client \in Client /\ MaxFailures \in Nat
  BY AttachAssumption DEF Typed, TypeOK, Client, Part
<1>2. NoPart \in Part
  BY DEF NoPart, Part
<1>3. CASE client.failures < MaxFailures
  <2> DEFINE c == [client EXCEPT !.failures = @ + 1]
  <2>1. client' = Resync(c) /\ Asked(<<Fresh>>)
    BY <1>3, Becoming, Requests DEF Recover
  <2>2. /\ c \in Client
        /\ c.state = client.state /\ c.mode = client.mode /\ c.seq = client.seq
        /\ c.high = client.high /\ c.gen = client.gen /\ c.atDrop = client.atDrop
        /\ c.from = client.from
    BY <1>1, <1>3 DEF Client
  <2> HIDE DEF c
  <2>3. /\ Resync(c) \in Client
        /\ Resync(c).state = "resyncing" /\ Resync(c).mode = c.mode /\ Resync(c).seq = c.seq
        /\ Resync(c).high = c.high /\ Resync(c).gen = c.gen /\ Resync(c).atDrop = c.atDrop
        /\ Resync(c).from = c.from
    BY <1>2, <2>2 DEF Client, Resync, States
  <2> QED BY <2>1, <2>2, <2>3 DEF Healed, SamePlace, SameRunner, SameMode
<1>4. CASE ~(client.failures < MaxFailures)
  <2>1. client' = Legacy(client) /\ Asked(<<>>)
    BY <1>4, Becoming, Requests DEF Recover
  <2>2. /\ Legacy(client) \in Client
        /\ Legacy(client).state = "legacy" /\ Legacy(client).mode = "legacy"
        /\ Legacy(client).seq = client.seq /\ Legacy(client).high = client.high
        /\ Legacy(client).gen = client.gen /\ Legacy(client).atDrop = client.atDrop
        /\ Legacy(client).from = client.from
    BY <1>1 DEF Client, Legacy, States
  <2> QED BY <2>1, <2>2 DEF Healed, SamePlace, SameRunner
<1> QED BY <1>3, <1>4

\* A subscribe on a new socket.
Subscribed(n, g) ==
    /\ client' \in Client /\ client'.state = "resyncing" /\ SameMode
    /\ client'.seq = n /\ client'.high = 0
    /\ client'.gen = g /\ client'.atDrop = client.atDrop
    /\ Asked(<<Since(n)>>)

LEMMA Subscribing ==
    ASSUME Typed, NEW n \in Nat, NEW high \in Nat, NEW g \in 0..gen,
           SubscribeFrom(n, high, g)
    PROVE  Subscribed(Larger(n, high), g) /\ Larger(n, high) \in Nat
<1> DEFINE cursor == Larger(n, high)
           c == [client EXCEPT !.state = "resyncing", !.part = NoPart, !.seq = cursor,
                               !.high = 0, !.from = 0, !.gen = g]
<1>1. client \in Client /\ gen \in Nat /\ NoPart \in Part /\ cursor \in Nat
  BY DEF Typed, TypeOK, Client, Part, NoPart, Larger
<1>2. client' = c /\ Asked(<<Since(cursor)>>)
  BY <1>1, Becoming, Requests DEF SubscribeFrom
<1> HIDE DEF cursor
<1>3. /\ c.state = "resyncing" /\ c.mode = client.mode /\ c.seq = cursor
      /\ c.high = 0 /\ c.gen = g /\ c.atDrop = client.atDrop
  BY <1>1 DEF Client
<1>4. c \in Client
  <2>1. "resyncing" \in States /\ 0 \in 0..gen /\ 0 \in Nat /\ g \in 0..gen
    BY <1>1 DEF States
  <2> QED BY <1>1, <2>1 DEF Client
<1> QED BY <1>1, <1>2, <1>3, <1>4 DEF Subscribed, SameMode, cursor

----------------------------------------------------------------------------
(* What the client does with each message it hears.                        *)

\* What names a runner names the current one.
LEMMA Naming ==
    ASSUME Base, NEW type \in {"hello", "reconciled", "mismatch"}, Heard(type)
    PROVE  N = gen /\ gen \in Nat /\ N \in 0..gen
<1>1. 1 \in 1..Len(down) /\ down[1].type = type
  BY DEF Heard
<1>2. down[1].n = gen
  BY <1>1 DEF Base, Greets
<1>3. N = gen
  BY <1>2 DEF Heard, Say
<1>4. gen \in Nat
  BY DEF Base, Typed, TypeOK
<1> QED BY <1>3, <1>4

Unmoved == UNCHANGED <<client, up, screen, trouble, budget>>
Unseen == UNCHANGED <<screen, trouble, budget>>
SameState == client'.state = client.state

Hello ==
    \/ client.state = "legacy" /\ Unmoved
    \/ /\ client.state # "legacy" /\ UNCHANGED <<up, screen, trouble, budget>>
       /\ client' \in Client /\ SameState /\ SameMode /\ SamePlace /\ SamePart
       /\ client'.gen = gen /\ client'.atDrop = client.atDrop /\ client'.from = client.from

LEMMA HelloHeard == ASSUME Base, HearHello PROVE Heard("hello") /\ Hello
<1>1. Heard("hello") /\ client \in Client
  BY Hearing DEF HearHello, Base, Typed, TypeOK, Client, Part
<1>2. N = gen /\ gen \in Nat /\ N \in 0..gen
  BY <1>1, Naming DEF Base
<1>3. CASE client.state = "legacy"
  BY <1>1, <1>3 DEF HearHello, Ignore, Hello, Unmoved
<1>4. CASE client.state # "legacy"
  <2> DEFINE c == [client EXCEPT !.inst = N, !.gen = N]
  <2>1. client' = c /\ UNCHANGED <<up, screen, trouble, budget>>
    BY <1>4 DEF HearHello, Set
  <2>2. /\ c \in Client /\ c.state = client.state /\ c.mode = client.mode
        /\ c.seq = client.seq /\ c.high = client.high /\ c.part = client.part
        /\ c.gen = N /\ c.atDrop = client.atDrop /\ c.from = client.from
    BY <1>1, <1>2 DEF Client
  <2> HIDE DEF c
  <2>3. client' \in Client
    BY <2>1, <2>2, <1>1 DEF Client, Heard
  <2> QED
    BY <1>1, <1>2, <1>4, <2>1, <2>2, <2>3
    DEF Hello, SameState, SameMode, SamePlace, SamePart
<1> QED BY <1>3, <1>4

Reconciled ==
    /\ UNCHANGED <<screen, trouble, budget>>
    /\ \/ client.state # "reconciling" /\ Unmoved
       \/ /\ client.state = "reconciling" /\ client.from # 0 /\ gen # client.from
          /\ Subscribed(0, gen)
       \/ /\ client.state = "reconciling" /\ (client.from = 0 \/ gen = client.from)
          /\ Subscribed(Larger(client.seq, client.high), gen)

LEMMA ReconciledHeard == ASSUME Base, HearReconciled PROVE Heard("reconciled") /\ Reconciled
<1>1. Heard("reconciled") /\ client \in Client
  BY Hearing DEF HearReconciled, Base, Typed, TypeOK, Client, Part
<1>2. N = gen /\ gen \in Nat /\ N \in 0..gen
  BY <1>1, Naming DEF Base
<1>3. client.seq \in Nat /\ client.high \in Nat /\ Larger(0, 0) = 0 /\ Typed
  BY <1>1 DEF Client, Larger, Base
<1>4. CASE client.state # "reconciling"
  BY <1>1, <1>4 DEF HearReconciled, Reconciled, Unmoved
<1>5. CASE client.state = "reconciling" /\ client.from # 0 /\ gen # client.from
  <2>1. SubscribeFrom(0, 0, gen)
    BY <1>2, <1>5 DEF HearReconciled
  <2>2. Subscribed(0, gen)
    BY <1>2, <1>3, <2>1, Subscribing
  <2> QED BY <1>1, <1>5, <2>2 DEF HearReconciled, Reconciled
<1>6. CASE client.state = "reconciling" /\ (client.from = 0 \/ gen = client.from)
  <2>1. SubscribeFrom(client.seq, client.high, gen)
    BY <1>2, <1>6 DEF HearReconciled
  <2>2. Subscribed(Larger(client.seq, client.high), gen)
    BY <1>2, <1>3, <2>1, Subscribing
  <2> QED BY <1>1, <1>6, <2>2 DEF HearReconciled, Reconciled
<1> QED BY <1>4, <1>5, <1>6

Mismatched ==
    /\ UNCHANGED <<screen, trouble, budget>>
    /\ \/ client.state # "reconciling" /\ Unmoved
       \/ /\ client.state = "reconciling" /\ Asked(<<Reconcile(gen)>>)
          /\ client' \in Client /\ SameState /\ SameMode /\ SamePlace /\ SameRunner

LEMMA MismatchHeard == ASSUME Base, HearMismatch PROVE Heard("mismatch") /\ Mismatched
<1>1. Heard("mismatch") /\ client \in Client
  BY Hearing DEF HearMismatch, Base, Typed, TypeOK, Client, Part
<1>2. N = gen /\ gen \in Nat /\ N \in 0..gen /\ Typed
  BY <1>1, Naming DEF Base
<1>3. CASE client.state # "reconciling"
  BY <1>1, <1>3 DEF HearMismatch, Mismatched, Unmoved
<1>4. CASE client.state = "reconciling"
  <2> DEFINE c == [client EXCEPT !.inst = N]
  <2>1. Become(c, <<Reconcile(N)>>)
    BY <1>4 DEF HearMismatch
  <2>2. <<Reconcile(N)>> \in Seq(Request)
    BY <1>2, Requests
  <2>3. client' = c /\ Asked(<<Reconcile(N)>>)
    BY <1>2, <2>1, <2>2, Becoming
  <2>4. /\ c \in Client /\ c.state = client.state /\ c.mode = client.mode
        /\ c.seq = client.seq /\ c.high = client.high
        /\ c.gen = client.gen /\ c.atDrop = client.atDrop /\ c.from = client.from
    BY <1>1, <1>2 DEF Client
  <2> HIDE DEF c
  <2>5. client' \in Client
    BY <2>3, <2>4 DEF Client
  <2> QED
    BY <1>1, <1>2, <1>4, <2>3, <2>4, <2>5
    DEF HearMismatch, Mismatched, SameState, SameMode, SamePlace, SameRunner
<1> QED BY <1>3, <1>4

\* A failed capture is only heard by a client that waits for one.
Failed ==
    /\ Unseen
    /\ \/ client.state \in {"probing", "resyncing", "collecting"} /\ Healed
       \/ client.state \notin {"probing", "resyncing", "collecting"} /\ Unmoved

LEMMA FailedHeard == ASSUME Base, HearFailed PROVE Heard("failed") /\ Failed
<1>1. Heard("failed") /\ Typed
  BY Hearing DEF HearFailed, Base
<1> QED
  BY <1>1, Healing DEF HearFailed, Heal, Ignore, Failed, Unmoved, Unseen

Required ==
    /\ Unseen
    /\ \/ client.state \in {"live", "collecting", "resyncing"} /\ Healed
       \/ client.state \notin {"live", "collecting", "resyncing"} /\ Unmoved

LEMMA RequiredHeard == ASSUME Base, HearRequired PROVE Heard("required") /\ Required
<1>1. Heard("required") /\ Typed
  BY Hearing DEF HearRequired, Base
<1> QED
  BY <1>1, Healing DEF HearRequired, Heal, Ignore, Required, Unmoved, Unseen

Proven ==
    /\ Unseen
    /\ \/ client.state # "resyncing" /\ Unmoved
       \/ /\ client.state = "resyncing" /\ up' = up
          /\ client' \in Client /\ client'.state = "live" /\ client'.mode = "protocol"
          /\ SamePlace /\ SameRunner

LEMMA ProofHeard == ASSUME Base, HearProof PROVE Heard("proof") /\ Proven
<1>1. Heard("proof") /\ client \in Client /\ MaxFailures \in Nat
  BY Hearing, AttachAssumption DEF HearProof, Base, Typed, TypeOK, Client, Part
<1>2. CASE client.state # "resyncing"
  BY <1>1, <1>2 DEF HearProof, Ignore, Proven, Unmoved, Unseen
<1>3. CASE client.state = "resyncing"
  <2> DEFINE c == [client EXCEPT !.state = "live", !.mode = "protocol", !.failures = 0]
  <2>1. client' = c /\ UNCHANGED <<up, screen, trouble, budget>>
    BY <1>3 DEF HearProof, Set
  <2>2. /\ c.state = "live" /\ c.mode = "protocol"
        /\ c.seq = client.seq /\ c.high = client.high
        /\ c.gen = client.gen /\ c.atDrop = client.atDrop /\ c.from = client.from
    BY <1>1 DEF Client
  <2>3. c \in Client
    <3>1. "live" \in States /\ 0 \in 0..MaxFailures
      BY <1>1 DEF States
    <3> QED BY <1>1, <3>1 DEF Client
  <2> HIDE DEF c
  <2>4. client' \in Client
    BY <1>1, <2>1, <2>3 DEF Client, Heard
  <2> QED
    BY <1>1, <1>3, <2>1, <2>2, <2>4 DEF Proven, Unseen, SamePlace, SameRunner
<1> QED BY <1>2, <1>3

\* A begin makes a waiting client collect.
Begun ==
    /\ Unseen
    /\ \/ /\ Waits /\ up' = up
          /\ client' \in Client /\ client'.state = "collecting" /\ client'.mode = "protocol"
          /\ client'.gen = gen /\ client'.atDrop = client.atDrop /\ client'.from = client.from
          /\ client'.part = [NoPart EXCEPT !.begin = N] /\ SamePlace
       \/ /\ client.state = "reconciling" /\ up' = up
          /\ client' \in Client /\ SameState /\ SameMode /\ SamePlace
          /\ client'.gen = gen /\ client'.atDrop = client.atDrop /\ client'.from = client.from
       \/ client.state = "legacy" /\ Unmoved
       \/ client.state \in {"live", "collecting"} /\ Healed

LEMMA BeginHeard == ASSUME Base, HearBegin PROVE Heard("begin") /\ Begun
<1>1. /\ Heard("begin") /\ client \in Client /\ gen \in Nat /\ gen \in 0..gen /\ N \in Nat
      /\ Typed
  <2>1. Heard("begin") /\ client \in Client /\ gen \in Nat /\ Typed
    BY Hearing DEF HearBegin, Base, Typed, TypeOK, Client, Part
  <2> QED BY <2>1 DEF Heard
<1>2. CASE Waits
  <2> DEFINE p == [NoPart EXCEPT !.begin = N]
             c == [client EXCEPT !.state = "collecting", !.mode = "protocol", !.gen = gen,
                                 !.probe = FALSE, !.part = p]
  <2>1. client' = c /\ UNCHANGED <<up, screen, trouble, budget>>
    BY <1>2 DEF HearBegin, Set, Waits
  <2>2. p \in Part
    BY <1>1 DEF NoPart, Part
  <2> HIDE DEF p
  <2>3. /\ c.state = "collecting" /\ c.mode = "protocol" /\ c.part = p
        /\ c.seq = client.seq /\ c.high = client.high
        /\ c.gen = gen /\ c.atDrop = client.atDrop /\ c.from = client.from
    BY <1>1 DEF Client
  <2>4. c \in Client
    <3>1. "collecting" \in States
      BY DEF States
    <3> QED BY <1>1, <2>2, <3>1 DEF Client
  <2> HIDE DEF c
  <2>5. client' \in Client
    BY <1>1, <2>1, <2>4 DEF Client, Heard
  <2>6. client'.part = [NoPart EXCEPT !.begin = N]
    BY <2>1, <2>3 DEF p
  <2> QED
    BY <1>1, <1>2, <2>1, <2>3, <2>5, <2>6 DEF Begun, Unseen, SamePlace
<1>3. CASE client.state = "reconciling"
  <2> DEFINE c == [client EXCEPT !.gen = gen]
  <2>1. client' = c /\ UNCHANGED <<up, screen, trouble, budget>>
    BY <1>3 DEF HearBegin, Set
  <2>2. /\ c \in Client /\ c.state = client.state /\ c.mode = client.mode
        /\ c.seq = client.seq /\ c.high = client.high
        /\ c.gen = gen /\ c.atDrop = client.atDrop /\ c.from = client.from
    BY <1>1 DEF Client
  <2> HIDE DEF c
  <2>3. client' \in Client
    BY <1>1, <2>1, <2>2 DEF Client, Heard
  <2> QED
    BY <1>1, <1>3, <2>1, <2>2, <2>3 DEF Begun, Unseen, SamePlace, SameMode, SameState
<1>4. CASE client.state = "legacy"
  BY <1>1, <1>4 DEF HearBegin, Ignore, Begun, Unmoved, Unseen
<1>5. CASE client.state \in {"live", "collecting"}
  <2>1. Heal
    BY <1>5 DEF HearBegin
  <2> QED BY <1>1, <1>5, <2>1, Healing DEF Heal, Begun, Unseen
<1>6. client.state \in States
  BY <1>1 DEF Client
<1> QED BY <1>1, <1>2, <1>3, <1>4, <1>5, <1>6 DEF States, Waits

\* A frame belongs to a begin.
Framed ==
    /\ Unseen
    /\ \/ /\ client.state = "collecting" /\ client.part.begin # 0 /\ up' = up
          /\ client' \in Client /\ SameState /\ SameMode /\ SamePlace /\ SameRunner
          /\ client'.part = [client.part EXCEPT !.frame = TRUE]
       \/ client.state \in {"reconciling", "legacy"} /\ Unmoved
       \/ /\ ~(client.state = "collecting" /\ client.part.begin # 0)
          /\ client.state \notin {"reconciling", "legacy"}
          /\ Healed

LEMMA FrameHeard == ASSUME Base, HearFrame PROVE Heard("frame") /\ Framed
<1>1. Heard("frame") /\ client \in Client /\ Typed
  BY Hearing DEF HearFrame, Base, Typed, TypeOK, Client, Part
<1>2. CASE client.state = "collecting" /\ client.part.begin # 0
  <2> DEFINE p == [client.part EXCEPT !.frame = TRUE]
             c == [client EXCEPT !.part = p]
  <2>1. client' = c /\ UNCHANGED <<up, screen, trouble, budget>>
    BY <1>2 DEF HearFrame, Set
  <2>2. p \in Part
    BY <1>1 DEF Client, Part
  <2> HIDE DEF p
  <2>3. /\ c \in Client /\ c.state = client.state /\ c.mode = client.mode /\ c.part = p
        /\ c.seq = client.seq /\ c.high = client.high
        /\ c.gen = client.gen /\ c.atDrop = client.atDrop /\ c.from = client.from
    BY <1>1, <2>2 DEF Client
  <2> HIDE DEF c
  <2>4. client' \in Client
    BY <1>1, <2>1, <2>3 DEF Client, Heard
  <2>5. client'.part = [client.part EXCEPT !.frame = TRUE]
    BY <2>1, <2>3 DEF p
  <2> QED
    BY <1>1, <1>2, <2>1, <2>3, <2>4, <2>5
    DEF Framed, Unseen, SamePlace, SameMode, SameState, SameRunner
<1>3. CASE client.state \in {"reconciling", "legacy"}
  BY <1>1, <1>3 DEF HearFrame, Ignore, Framed, Unmoved, Unseen
<1>4. CASE /\ ~(client.state = "collecting" /\ client.part.begin # 0)
           /\ client.state \notin {"reconciling", "legacy"}
  <2>1. Heal
    BY <1>4 DEF HearFrame
  <2> QED BY <1>1, <1>4, <2>1, Healing DEF Heal, Framed, Unseen
<1> QED BY <1>1, <1>2, <1>3, <1>4

\* An end completes what was collected, and the view paints it, or the chunks
\* flushed after it are lost to a request of the view.
Completes ==
    /\ client.state = "collecting" /\ Complete(client.part)
    /\ client' \in Client /\ client'.state = "live" /\ SameMode /\ SameRunner
    /\ client'.seq = N - 1 /\ client'.high = client.high
    /\ screen' \in Screen
    /\ screen'.gen = gen /\ screen'.exact
    /\ \/ up' = up /\ trouble' = {} /\ screen'.upto = N - 1
       \/ Asked(<<Fresh>>) /\ trouble' = {} /\ screen'.upto = N - 1
       \/ Asked(<<Fresh>>) /\ trouble' = {"lost flush"}
Ended ==
    \/ client.state \in {"reconciling", "legacy"} /\ Unmoved
    \/ Completes
    \/ /\ ~(client.state = "collecting" /\ Complete(client.part))
       /\ client.state \notin {"reconciling", "legacy"}
       /\ Healed /\ Unseen

LEMMA Finishing ==
    ASSUME Base, Heard("end"), client.state = "collecting", Complete(client.part)
    PROVE  /\ Finished \in Client /\ Finished.state = "live" /\ Finished.mode = client.mode
           /\ Finished.seq = N - 1 /\ Finished.high = client.high
           /\ Finished.gen = client.gen /\ Finished.atDrop = client.atDrop
           /\ Finished.from = client.from
           /\ N - 1 \in Nat /\ N - 1 = client.part.begin + client.part.flush
           /\ client.part \in Part /\ client \in Client
<1>1. client \in Client /\ client.part \in Part /\ MaxFailures \in Nat
  BY AttachAssumption DEF Base, Typed, TypeOK, Client, Part
<1>2. N - 1 \in Nat /\ N - 1 = client.part.begin + client.part.flush
  BY <1>1 DEF Complete, Part
<1>3. NoPart \in Part /\ "live" \in States /\ 0 \in 0..MaxFailures
  BY <1>1 DEF NoPart, Part, States
<1>4. Finished \in Client
  BY <1>1, <1>2, <1>3 DEF Finished, Client
<1>5. /\ Finished.state = "live" /\ Finished.mode = client.mode
      /\ Finished.seq = N - 1 /\ Finished.high = client.high
      /\ Finished.gen = client.gen /\ Finished.atDrop = client.atDrop
      /\ Finished.from = client.from
  BY <1>1 DEF Finished, Client
<1> QED BY <1>1, <1>2, <1>4, <1>5

LEMMA EndHeard == ASSUME Base, HearEnd PROVE Heard("end") /\ Ended
<1>1. Heard("end") /\ client \in Client /\ Typed /\ gen \in Nat
  BY Hearing DEF HearEnd, Base, Typed, TypeOK, Client, Part
<1>2. CASE client.state \in {"reconciling", "legacy"}
  BY <1>1, <1>2 DEF HearEnd, Ignore, Ended, Unmoved
<1>3. CASE client.state = "collecting" /\ Complete(client.part)
  <2>1. /\ client' = Finished /\ UNCHANGED <<up, budget>> /\ trouble' = {}
        /\ screen' = Baseline(client.part.begin + client.part.flush)
    BY <1>3 DEF HearEnd
  <2>2. /\ Finished \in Client /\ Finished.state = "live" /\ Finished.mode = client.mode
        /\ Finished.seq = N - 1 /\ Finished.high = client.high
        /\ Finished.gen = client.gen /\ Finished.atDrop = client.atDrop
        /\ Finished.from = client.from
        /\ N - 1 \in Nat /\ N - 1 = client.part.begin + client.part.flush
    BY <1>1, <1>3, Finishing
  <2>3. /\ screen' \in Screen /\ screen'.gen = gen /\ screen'.exact /\ screen'.upto = N - 1
    BY <1>1, <2>1, <2>2 DEF Baseline, Screen
  <2>4. client' \in Client
    BY <1>1, <2>1, <2>2 DEF Client, Heard
  <2> QED
    BY <1>1, <1>3, <2>1, <2>2, <2>3, <2>4 DEF Ended, Completes, SameMode, SameRunner
<1>4. CASE /\ ~(client.state = "collecting" /\ Complete(client.part))
           /\ client.state \notin {"reconciling", "legacy"}
  <2>1. Heal
    BY <1>4 DEF HearEnd
  <2> QED BY <1>1, <1>4, <2>1, Healing DEF Heal, Ended, Unseen
<1> QED BY <1>1, <1>2, <1>3, <1>4

LEMMA EndAndAskHeard == ASSUME Base, HearEndAndAsk PROVE Heard("end") /\ Completes
<1>1. /\ Heard("end") /\ client \in Client /\ Typed /\ gen \in Nat
      /\ client.state = "collecting" /\ Complete(client.part)
  BY Hearing DEF HearEndAndAsk, Base, Typed, TypeOK, Client, Part
<1>2. /\ screen' = Baseline(client.part.begin)
      /\ trouble' = IF client.part.flush > 0 THEN {"lost flush"} ELSE {}
  BY DEF HearEndAndAsk
<1>3. client' = Finished /\ Asked(<<Fresh>>)
  BY <1>1, Becoming, Requests DEF HearEndAndAsk
<1>4. /\ Finished \in Client /\ Finished.state = "live" /\ Finished.mode = client.mode
      /\ Finished.seq = N - 1 /\ Finished.high = client.high
      /\ Finished.gen = client.gen /\ Finished.atDrop = client.atDrop
      /\ Finished.from = client.from
      /\ N - 1 \in Nat /\ N - 1 = client.part.begin + client.part.flush
      /\ client.part.begin \in Nat /\ client.part.flush \in Nat
  BY <1>1, Finishing DEF Part
<1>5. /\ screen' \in Screen /\ screen'.gen = gen /\ screen'.exact
      /\ screen'.upto = client.part.begin
  <2>1. gen \in Nat /\ client.part.begin \in Nat
    BY <1>1, <1>4
  <2>2. screen' = Baseline(client.part.begin)
    BY <1>2
  <2>3. gen \in 0..gen
    BY <2>1
  <2> QED BY <2>1, <2>2, <2>3 DEF Baseline, Screen
<1>6. \/ trouble' = {} /\ screen'.upto = N - 1
      \/ trouble' = {"lost flush"}
  <2>1. CASE client.part.flush > 0
    BY <1>2, <2>1
  <2>2. CASE ~(client.part.flush > 0)
    <3>1. client.part.flush = 0
      BY <1>4, <2>2
    <3>2. N - 1 = client.part.begin
      BY <1>4, <3>1
    <3> QED BY <1>2, <1>5, <2>2, <3>2
  <2> QED BY <2>1, <2>2
<1>7. client' \in Client
  BY <1>1, <1>3, <1>4 DEF Client, Heard
<1> QED
  BY <1>1, <1>3, <1>4, <1>5, <1>6, <1>7 DEF Completes, SameMode, SameRunner

\* A chunk continues the screen, or spoils it.
Painted(n) ==
    /\ screen' \in Screen /\ screen'.gen = screen.gen
    /\ screen.gen = gen /\ n = screen.upto + 1 => screen'.upto = n /\ screen'.exact = screen.exact
    /\ screen'.upto >= screen.upto

LEMMA Painting ==
    ASSUME Base, NEW n \in Nat, screen' = Paint(screen, n)
    PROVE  Painted(n)
<1>1. screen \in Screen /\ gen \in Nat
  BY DEF Base, Typed, TypeOK, Screen
<1>2. CASE screen.gen = gen /\ n = screen.upto + 1
  <2>1. screen' = [screen EXCEPT !.upto = n]
    BY <1>2 DEF Paint
  <2> QED BY <1>1, <1>2, <2>1 DEF Painted, Screen
<1>3. CASE ~(screen.gen = gen /\ n = screen.upto + 1)
  <2>1. screen' = [screen EXCEPT !.exact = FALSE]
    BY <1>3 DEF Paint
  <2>2. screen' \in Screen /\ screen'.gen = screen.gen /\ screen'.upto = screen.upto
    BY <1>1, <2>1 DEF Screen
  <2>3. screen.upto \in Nat
    BY <1>1 DEF Screen
  <2> QED BY <1>3, <2>2, <2>3 DEF Painted
<1> QED BY <1>2, <1>3

Spoils(what, when) == trouble' = IF when THEN trouble \cup {what} ELSE trouble

Printed ==
    \/ client.state \in {"probing", "legacy"} /\ Unmoved
    \/ client.state \in {"live", "resyncing"} /\ Unmoved
    \/ client.state \in {"live", "collecting"} /\ Healed /\ Unseen
       /\ ~(/\ client.state = "collecting" /\ client.part.frame
            /\ N = client.part.begin + client.part.flush + 1)
    \/ /\ client.state = "live" /\ N = client.seq + 1 /\ up' = up
       /\ client' \in Client /\ SameState /\ SameMode /\ SameRunner
       /\ client'.seq = N /\ client'.high = client.high
       /\ Painted(N) /\ trouble' = trouble
    \/ /\ client.state = "collecting" /\ up' = up /\ Unseen
       /\ client' \in Client /\ SameState /\ SameMode /\ SamePlace /\ SameRunner
       /\ client'.part = [client.part EXCEPT !.flush = @ + 1]
    \/ /\ client.state = "resyncing" /\ N = client.seq + 1 /\ up' = up
       /\ client' \in Client /\ client'.state = "live" /\ client'.mode = "protocol" /\ SameRunner
       /\ client'.seq = N /\ client'.high = client.high
       /\ Painted(N) /\ Spoils("early chunk", screen.gen # gen)
    \/ /\ client.state = "reconciling" /\ up' = up
       /\ client' \in Client /\ SameState /\ SameMode /\ SameRunner
       /\ client'.seq = client.seq /\ client'.high = Larger(client.high, N)
       /\ Painted(N)
       /\ Spoils("skipped strays", IF screen.gen = gen THEN N # screen.upto + 1
                                                       ELSE client.from = gen)

LEMMA OutputHeard == ASSUME Base, HearOutput PROVE Heard("output") /\ Printed
<1>1. /\ Heard("output") /\ client \in Client /\ MaxFailures \in Nat /\ Typed
  BY Hearing, AttachAssumption DEF HearOutput, Base, Typed, TypeOK, Client, Part
<1>2. N \in Nat /\ client.seq \in Nat /\ client.high \in Nat /\ client.part \in Part
  BY <1>1 DEF Heard, Client
<1>3. CASE client.state = "live"
  <2>1. OutputLive
    BY <1>3 DEF HearOutput
  <2>2. CASE N = client.seq + 1
    <3> DEFINE c == [client EXCEPT !.seq = N]
    <3>1. client' = c /\ screen' = Paint(screen, N) /\ UNCHANGED <<up, trouble, budget>>
      <4>1. ~(N <= client.seq)
        BY <1>2, <2>2
      <4> QED BY <2>1, <2>2, <4>1 DEF OutputLive
    <3>2. /\ c \in Client /\ c.state = client.state /\ c.mode = client.mode /\ c.seq = N
          /\ c.high = client.high
          /\ c.gen = client.gen /\ c.atDrop = client.atDrop /\ c.from = client.from
      BY <1>1, <1>2 DEF Client
    <3> HIDE DEF c
    <3>3. Painted(N)
      BY <1>2, <3>1, Painting
    <3>4. client' \in Client
      BY <1>1, <3>1, <3>2 DEF Client, Heard
    <3> QED
      BY <1>1, <1>3, <2>2, <3>1, <3>2, <3>3, <3>4
      DEF Printed, SameState, SameMode, SameRunner
  <2>3. CASE N <= client.seq
    <3>1. N # client.seq + 1
      BY <1>2, <2>3
    <3>2. Ignore
      BY <2>1, <2>3, <3>1 DEF OutputLive
    <3> QED BY <1>1, <1>3, <3>2 DEF Ignore, Printed, Unmoved
  <2>4. CASE N # client.seq + 1 /\ ~(N <= client.seq)
    <3>1. Heal
      BY <2>1, <2>4 DEF OutputLive
    <3> QED BY <1>1, <1>3, <3>1, Healing DEF Heal, Printed, Unseen
  <2> QED BY <2>2, <2>3, <2>4
<1>4. CASE client.state = "collecting"
  <2>1. OutputCollecting
    BY <1>4 DEF HearOutput
  <2>2. CASE client.part.frame /\ N = client.part.begin + client.part.flush + 1
    <3> DEFINE p == [client.part EXCEPT !.flush = @ + 1]
               c == [client EXCEPT !.part = p]
    <3>1. client' = c /\ UNCHANGED <<up, screen, trouble, budget>>
      BY <2>1, <2>2 DEF OutputCollecting, Set
    <3>2. p \in Part
      BY <1>2 DEF Part
    <3> HIDE DEF p
    <3>3. /\ c \in Client /\ c.state = client.state /\ c.mode = client.mode /\ c.part = p
          /\ c.seq = client.seq /\ c.high = client.high
          /\ c.gen = client.gen /\ c.atDrop = client.atDrop /\ c.from = client.from
      BY <1>1, <3>2 DEF Client
    <3> HIDE DEF c
    <3>4. client' \in Client
      BY <1>1, <3>1, <3>3 DEF Client, Heard
    <3>5. client'.part = [client.part EXCEPT !.flush = @ + 1]
      BY <3>1, <3>3 DEF p
    <3> QED
      BY <1>1, <1>4, <3>1, <3>3, <3>4, <3>5
      DEF Printed, Unseen, SamePlace, SameMode, SameState, SameRunner
  <2>3. CASE ~(client.part.frame /\ N = client.part.begin + client.part.flush + 1)
    <3>1. Heal
      BY <2>1, <2>3 DEF OutputCollecting
    <3> QED BY <1>1, <1>4, <2>3, <3>1, Healing DEF Heal, Printed, Unseen
  <2> QED BY <2>2, <2>3
<1>5. CASE client.state = "resyncing"
  <2>1. OutputResyncing
    BY <1>5 DEF HearOutput
  <2>2. CASE N # client.seq + 1
    BY <1>1, <1>5, <2>1, <2>2 DEF OutputResyncing, Ignore, Printed, Unmoved
  <2>3. CASE N = client.seq + 1
    <3> DEFINE c == [client EXCEPT !.state = "live", !.mode = "protocol", !.seq = N,
                                   !.failures = 0]
    <3>1. /\ client' = c /\ screen' = Paint(screen, N) /\ UNCHANGED <<up, budget>>
          /\ Note("early chunk", screen.gen # gen)
      BY <2>1, <2>3 DEF OutputResyncing
    <3>2. /\ c.state = "live" /\ c.mode = "protocol" /\ c.seq = N
          /\ c.high = client.high
          /\ c.gen = client.gen /\ c.atDrop = client.atDrop /\ c.from = client.from
      BY <1>1, <1>2 DEF Client
    <3>3. c \in Client
      <4>1. "live" \in States /\ 0 \in 0..MaxFailures
        BY <1>1 DEF States
      <4> QED BY <1>1, <1>2, <4>1 DEF Client
    <3> HIDE DEF c
    <3>4. Painted(N)
      BY <1>2, <3>1, Painting
    <3>5. client' \in Client
      BY <1>1, <3>1, <3>3 DEF Client, Heard
    <3> QED
      BY <1>1, <1>5, <2>3, <3>1, <3>2, <3>4, <3>5 DEF Printed, SameRunner, Note, Spoils
  <2> QED BY <2>2, <2>3
<1>6. CASE client.state = "reconciling"
  <2>1. OutputReconciling
    BY <1>6 DEF HearOutput
  <2> DEFINE h == Larger(client.high, N)
             c == [client EXCEPT !.high = h]
  <2>2. /\ client' = c /\ screen' = Paint(screen, N) /\ UNCHANGED <<up, budget>>
        /\ Note("skipped strays", IF screen.gen = gen THEN N # screen.upto + 1
                                                      ELSE client.from = gen)
    BY <2>1 DEF OutputReconciling
  <2>3. h \in Nat
    BY <1>2 DEF Larger
  <2> HIDE DEF h
  <2>4. /\ c \in Client /\ c.state = client.state /\ c.mode = client.mode
        /\ c.seq = client.seq /\ c.high = h
        /\ c.gen = client.gen /\ c.atDrop = client.atDrop /\ c.from = client.from
    BY <1>1, <2>3 DEF Client
  <2> HIDE DEF c
  <2>5. Painted(N)
    BY <1>2, <2>2, Painting
  <2>6. client' \in Client
    BY <1>1, <2>2, <2>4 DEF Client, Heard
  <2>7. client'.high = Larger(client.high, N)
    BY <2>2, <2>4 DEF h
  <2> QED
    BY <1>1, <1>6, <2>2, <2>4, <2>5, <2>6, <2>7
    DEF Printed, SameState, SameMode, SameRunner, Note, Spoils
<1>7. CASE client.state \in {"probing", "legacy"}
  <2>1. Ignore
    BY <1>7 DEF HearOutput
  <2> QED BY <1>1, <1>7, <2>1 DEF Ignore, Printed, Unmoved
<1>8. client.state \in States
  BY <1>1 DEF Client
<1> QED BY <1>3, <1>4, <1>5, <1>6, <1>7, <1>8 DEF States

----------------------------------------------------------------------------
(* Timers, sockets and hosts.                                              *)

TimedOut ==
    /\ client' \in Client /\ client'.state = "legacy" /\ client'.mode = "legacy"
    /\ up' \in Seq(Request) /\ Len(up') = Len(up) /\ \A i \in 1..Len(up) : up'[i] = up[i]
    /\ UNCHANGED <<runner, sub, link, down, screen, trouble>>

LEMMA ProbeTimedOut == ASSUME Base, ProbeTimeout PROVE TimedOut
<1>1. client \in Client /\ Typed
  BY DEF Base, Typed, TypeOK, Client, Part
<1>2. client' = Legacy(client) /\ Asked(<<>>)
  BY <1>1, Becoming, Requests DEF ProbeTimeout
<1>3. /\ Legacy(client) \in Client
      /\ Legacy(client).state = "legacy" /\ Legacy(client).mode = "legacy"
  BY <1>1 DEF Client, Legacy, States
<1>4. gen' = gen
  BY DEF ProbeTimeout, runner
<1>5. client' \in Client
  BY <1>2, <1>3, <1>4 DEF Client
<1>6. /\ up' \in Seq(Request) /\ Len(up') = Len(up) /\ \A i \in 1..Len(up) : up'[i] = up[i]
  BY <1>2 DEF Asked
<1> QED BY <1>2, <1>3, <1>5, <1>6 DEF ProbeTimeout, TimedOut

GaveUp ==
    /\ link /\ client.state = "reconciling"
    /\ Subscribed(Larger(client.seq, client.high), client.gen)
    /\ Spoils("foreign cursor", screen.gen # gen)
    /\ UNCHANGED <<runner, sub, link, down, screen>>

LEMMA ReconcileTimedOut == ASSUME Base, ReconcileTimeout PROVE GaveUp
<1>1. client \in Client /\ Typed
  BY DEF Base, Typed, TypeOK, Client, Part
<1>2. client.seq \in Nat /\ client.high \in Nat /\ client.gen \in 0..gen
  BY <1>1 DEF Client
<1>3. SubscribeFrom(client.seq, client.high, client.gen)
  BY DEF ReconcileTimeout
<1>4. Subscribed(Larger(client.seq, client.high), client.gen)
  BY <1>1, <1>2, <1>3, Subscribing
<1> QED BY <1>4 DEF ReconcileTimeout, GaveUp, Note, Spoils

\* A lost socket.
Unlinked ==
    /\ link' = FALSE /\ up' = <<>> /\ down' = <<>> /\ sub' = NoSub /\ screen' = screen
    /\ client' \in Client
    /\ SameState /\ SameMode /\ SamePlace /\ client'.gen = client.gen
    /\ client'.from = client.from
    /\ client'.atDrop = IF client.state = "legacy" \/ ~link \/ client.gen = 0
                        THEN client.atDrop ELSE client.gen
    /\ Spoils("lost baseline", link /\ client.state = "reconciling" /\ client.gen # screen.gen)

LEMMA Unlinking == ASSUME Base, Unlink, screen' = screen, gen' \in Nat, gen' >= gen PROVE Unlinked
<1>1. client \in Client /\ gen \in Nat
  BY DEF Base, Typed, TypeOK, Client, Part
<1>2. CASE client.state = "legacy" \/ ~link
  <2>1. client' = client
    BY <1>2 DEF Unlink
  <2> QED
    BY <1>1, <1>2, <2>1
    DEF Unlink, Unlinked, SameState, SameMode, SamePlace, Note, Spoils
<1>3. CASE ~(client.state = "legacy" \/ ~link)
  <2> DEFINE a == IF client.gen = 0 THEN client.atDrop ELSE client.gen
             c == [client EXCEPT !.atDrop = a, !.probe = FALSE]
  <2>1. client' = c
    BY <1>3 DEF Unlink
  <2>2. a \in 0..gen
    BY <1>1 DEF Client
  <2> HIDE DEF a
  <2>3. /\ c \in Client /\ c.state = client.state /\ c.mode = client.mode
        /\ c.seq = client.seq /\ c.high = client.high
        /\ c.gen = client.gen /\ c.atDrop = a /\ c.from = client.from
    BY <1>1, <2>2 DEF Client
  <2> HIDE DEF c
  <2>4. client'.atDrop = IF client.state = "legacy" \/ ~link \/ client.gen = 0
                         THEN client.atDrop ELSE client.gen
    BY <1>3, <2>1, <2>3 DEF a
  <2> QED
    BY <1>3, <2>1, <2>3, <2>4
    DEF Unlink, Unlinked, SameState, SameMode, SamePlace, Note, Spoils
<1> QED BY <1>2, <1>3

\* A new one.
Connected ==
    /\ ~link /\ link' = TRUE /\ down' = <<Say("hello", gen)>> /\ sub' = NoSub
    /\ UNCHANGED <<runner, screen, trouble, budget>>
    /\ client' \in Client /\ SameMode /\ SamePlace
    /\ client'.gen = client.gen /\ client'.atDrop = client.atDrop
    /\ \/ /\ client.mode = "undecided" /\ client.state = "probing" /\ up' = <<Fresh>>
          /\ SameState
       \/ /\ client.mode = "protocol" /\ client'.state = "reconciling"
          /\ client'.from = IF client.atDrop = 0 THEN client.gen ELSE client.atDrop
          /\ up' = <<Reconcile(client.inst)>>
       \/ /\ client.mode # "protocol" /\ ~(client.mode = "undecided" /\ client.state = "probing")
          /\ SameState /\ up' = <<>>

LEMMA Connecting == ASSUME Base, Connect PROVE Connected
<1>1. client \in Client /\ gen \in Nat /\ MaxFailures \in Nat
  BY AttachAssumption DEF Base, Typed, TypeOK, Client, Part
<1>2. /\ ~link /\ link' = TRUE /\ down' = <<Say("hello", gen)>> /\ sub' = NoSub
      /\ UNCHANGED <<runner, screen, trouble, budget>>
      /\ gen' = gen
  BY DEF Connect, runner
<1>3. CASE client.mode = "undecided" /\ client.state = "probing"
  <2> DEFINE c == [client EXCEPT !.probe = TRUE]
  <2>1. client' = c /\ up' = <<Fresh>>
    BY <1>3 DEF Connect
  <2>2. /\ c \in Client /\ c.state = client.state /\ c.mode = client.mode
        /\ c.seq = client.seq /\ c.high = client.high
        /\ c.gen = client.gen /\ c.atDrop = client.atDrop
    BY <1>1 DEF Client
  <2> HIDE DEF c
  <2>3. client' \in Client
    BY <1>2, <2>1, <2>2 DEF Client
  <2> QED
    BY <1>2, <1>3, <2>1, <2>2, <2>3 DEF Connected, SameState, SameMode, SamePlace
<1>4. CASE client.mode = "protocol"
  <2> DEFINE f == IF client.atDrop = 0 THEN client.gen ELSE client.atDrop
             c == [client EXCEPT !.state = "reconciling", !.failures = 0,
                                 !.part = NoPart, !.from = f]
  <2>1. client' = c /\ up' = <<Reconcile(client.inst)>>
    BY <1>4 DEF Connect
  <2>2. f \in 0..gen
    BY <1>1 DEF Client
  <2> HIDE DEF f
  <2>3. /\ c.state = "reconciling" /\ c.mode = client.mode
        /\ c.seq = client.seq /\ c.high = client.high
        /\ c.gen = client.gen /\ c.atDrop = client.atDrop /\ c.from = f
    BY <1>1 DEF Client
  <2>4. c \in Client
    <3>1. NoPart \in Part /\ "reconciling" \in States /\ 0 \in 0..MaxFailures
      BY <1>1 DEF NoPart, Part, States
    <3> QED BY <1>1, <2>2, <3>1 DEF Client
  <2> HIDE DEF c
  <2>5. client' \in Client
    BY <1>2, <2>1, <2>4 DEF Client
  <2>6. client'.from = IF client.atDrop = 0 THEN client.gen ELSE client.atDrop
    BY <2>1, <2>3 DEF f
  <2> QED
    BY <1>2, <1>4, <2>1, <2>3, <2>5, <2>6 DEF Connected, SameMode, SamePlace
<1>5. CASE client.mode # "protocol" /\ ~(client.mode = "undecided" /\ client.state = "probing")
  <2>1. client' = client /\ up' = <<>>
    BY <1>5 DEF Connect
  <2>2. client' \in Client
    BY <1>1, <1>2, <2>1
  <2> QED
    BY <1>2, <1>5, <2>1, <2>2 DEF Connected, SameState, SameMode, SamePlace
<1> QED BY <1>3, <1>4, <1>5

----------------------------------------------------------------------------
(* What the runner sends.                                                  *)

Sub == [pc : {"idle", "capturing", "rendering", "live"}, owns : BOOLEAN,
        seq : 0..last, dto : 0..last]

LEMMA Messages ==
    /\ \A n \in Nat, type \in {"hello", "reconciled", "mismatch", "begin", "frame", "end",
                               "output", "proof", "required", "failed"} :
          Say(type, n) \in Message /\ <<Say(type, n)>> \in Seq(Message)
  BY DEF Say, Message

LEMMA ChunkSequence ==
    ASSUME NEW d \in Nat, NEW e \in Nat, d <= e
    PROVE  /\ Chunks(d, e) \in Seq(Message) /\ Len(Chunks(d, e)) = e - d
           /\ \A k \in 1..e - d : Chunks(d, e)[k] = Say("output", d + k)
<1>1. e - d \in Nat
  OBVIOUS
<1>2. \A k \in 1..e - d : Say("output", d + k) \in Message
  BY Messages
<1>3. Chunks(d, e) \in [1..e - d -> Message]
  BY <1>2 DEF Chunks
<1>4. Chunks(d, e) \in Seq(Message)
  BY <1>1, <1>3
<1>5. Len(Chunks(d, e)) = e - d
  BY <1>1, <1>3, <1>4, LenProperties
<1> QED BY <1>4, <1>5 DEF Chunks

\* The answer with a snapshot, and with a replay.
Snapshot(d, e) == <<Say("frame", d)>> \o Chunks(d, e) \o <<Say("end", e + 1)>>

LEMMA SnapshotSequence ==
    ASSUME NEW d \in Nat, NEW e \in Nat, d <= e
    PROVE  /\ Snapshot(d, e) \in Seq(Message) /\ Len(Snapshot(d, e)) = e - d + 2
           /\ Snapshot(d, e)[1] = Say("frame", d)
           /\ Snapshot(d, e)[e - d + 2] = Say("end", e + 1)
           /\ \A k \in 1..e - d : Snapshot(d, e)[k + 1] = Say("output", d + k)
<1> DEFINE t == Snapshot(d, e)
           f == <<Say("frame", d)>>
           c == Chunks(d, e)
           z == <<Say("end", e + 1)>>
<1>1. f \in Seq(Message) /\ Len(f) = 1 /\ f[1] = Say("frame", d)
  BY Messages
<1>2. z \in Seq(Message) /\ Len(z) = 1 /\ z[1] = Say("end", e + 1)
  BY Messages
<1>3. /\ c \in Seq(Message) /\ Len(c) = e - d
      /\ \A k \in 1..e - d : c[k] = Say("output", d + k)
  BY ChunkSequence
<1>4. t = (f \o c) \o z
  BY DEF Snapshot
<1> HIDE DEF f, c, z, t
<1>5. /\ f \o c \in Seq(Message) /\ Len(f \o c) = 1 + (e - d)
      /\ (f \o c)[1] = f[1]
      /\ \A k \in 1..e - d : (f \o c)[1 + k] = c[k]
  <2>0. f \in Seq(Message) /\ c \in Seq(Message)
    BY <1>1, <1>3
  <2>1. /\ f \o c \in Seq(Message) /\ Len(f \o c) = Len(f) + Len(c)
        /\ \A i \in 1..Len(f) : (f \o c)[i] = f[i]
        /\ \A i \in 1..Len(c) : (f \o c)[Len(f) + i] = c[i]
    BY <2>0, Sending
  <2>2. 1 \in 1..Len(f) /\ \A k \in 1..e - d : k \in 1..Len(c)
    BY <1>1, <1>3
  <2>3. (f \o c)[1] = f[1] /\ \A k \in 1..e - d : (f \o c)[1 + k] = c[k]
    BY <1>1, <2>1, <2>2
  <2> QED BY <1>1, <1>3, <2>1, <2>3
<1>6. /\ t \in Seq(Message) /\ Len(t) = 1 + (e - d) + 1
      /\ \A k \in 1..1 + (e - d) : t[k] = (f \o c)[k]
      /\ t[1 + (e - d) + 1] = z[1]
  <2> DEFINE g == f \o c
  <2>a. g \in Seq(Message) /\ Len(g) = 1 + (e - d) /\ t = g \o z
    BY <1>4, <1>5
  <2> HIDE DEF g
  <2>0. g \in Seq(Message) /\ z \in Seq(Message)
    BY <1>2, <2>a
  <2>1. /\ g \o z \in Seq(Message) /\ Len(g \o z) = Len(g) + Len(z)
        /\ \A i \in 1..Len(g) : (g \o z)[i] = g[i]
        /\ \A i \in 1..Len(z) : (g \o z)[Len(g) + i] = z[i]
    BY <2>0, Sending
  <2>2. 1 \in 1..Len(z) /\ \A k \in 1..1 + (e - d) : k \in 1..Len(g)
    BY <1>2, <2>a
  <2>3. t[Len(g) + 1] = z[1] /\ \A k \in 1..1 + (e - d) : t[k] = g[k]
    BY <2>a, <2>1, <2>2
  <2> QED BY <1>2, <2>a, <2>1, <2>3 DEF g
<1>7. t \in Seq(Message) /\ Len(t) = e - d + 2
  BY <1>6
<1>8. t[1] = Say("frame", d)
  <2>1. 1 \in 1..1 + (e - d)
    OBVIOUS
  <2> QED BY <1>1, <1>5, <1>6, <2>1
<1>9. t[e - d + 2] = Say("end", e + 1)
  <2>1. 1 + (e - d) + 1 = e - d + 2
    OBVIOUS
  <2> QED BY <1>2, <1>6, <2>1
<1>10. ASSUME NEW k \in 1..e - d PROVE t[k + 1] = Say("output", d + k)
  <2>1. 1 + k = k + 1 /\ 1 + k \in 1..1 + (e - d)
    OBVIOUS
  <2>2. t[1 + k] = (f \o c)[1 + k] /\ (f \o c)[1 + k] = c[k] /\ c[k] = Say("output", d + k)
    BY <1>3, <1>5, <1>6, <2>1
  <2> QED BY <2>1, <2>2
<1> QED BY <1>7, <1>8, <1>9, <1>10 DEF t

LEMMA ReplaySequence ==
    ASSUME NEW n \in Nat, NEW e \in Nat, n <= e
    PROVE  /\ Chunks(n, e) \o <<Say("proof", e)>> \in Seq(Message)
           /\ \A i \in 1..Len(Chunks(n, e) \o <<Say("proof", e)>>) :
                 (Chunks(n, e) \o <<Say("proof", e)>>)[i].type \in {"output", "proof"}
<1> DEFINE c == Chunks(n, e)
           z == <<Say("proof", e)>>
<1>1. z \in Seq(Message) /\ Len(z) = 1 /\ z[1] = Say("proof", e)
  BY Messages
<1>2. /\ c \in Seq(Message) /\ Len(c) = e - n
      /\ \A k \in 1..e - n : c[k] = Say("output", n + k)
  BY ChunkSequence
<1> HIDE DEF c, z
<1>3. /\ c \o z \in Seq(Message) /\ Len(c \o z) = e - n + 1
      /\ \A i \in 1..e - n : (c \o z)[i] = c[i]
      /\ (c \o z)[e - n + 1] = z[1]
  <2>0. c \in Seq(Message) /\ z \in Seq(Message)
    BY <1>1, <1>2
  <2>1. /\ c \o z \in Seq(Message) /\ Len(c \o z) = Len(c) + Len(z)
        /\ \A i \in 1..Len(c) : (c \o z)[i] = c[i]
        /\ \A i \in 1..Len(z) : (c \o z)[Len(c) + i] = z[i]
    BY <2>0, Sending
  <2>2. 1 \in 1..Len(z) /\ \A k \in 1..e - n : k \in 1..Len(c)
    BY <1>1, <1>2
  <2>3. (c \o z)[Len(c) + 1] = z[1] /\ \A i \in 1..e - n : (c \o z)[i] = c[i]
    BY <2>1, <2>2
  <2> QED BY <1>1, <1>2, <2>1, <2>3
<1>4. /\ \A i \in 1..e - n : (c \o z)[i].type = "output"
      /\ (c \o z)[e - n + 1].type = "proof"
  <2>1. \A i \in 1..e - n : (c \o z)[i] = Say("output", n + i)
    BY <1>2, <1>3
  <2>2. (c \o z)[e - n + 1] = Say("proof", e)
    BY <1>1, <1>3
  <2>3. \A k \in Nat : Say("output", k).type = "output" /\ Say("proof", k).type = "proof"
    BY DEF Say
  <2>4. \A i \in 1..e - n : n + i \in Nat
    OBVIOUS
  <2> QED BY <2>1, <2>2, <2>3, <2>4
<1>5. \A i \in 1..e - n + 1 : i \in 1..e - n \/ i = e - n + 1
  OBVIOUS
<1>6. \A i \in 1..Len(c \o z) : (c \o z)[i].type \in {"output", "proof"}
  BY <1>3, <1>4, <1>5
<1> QED BY <1>3, <1>6 DEF c, z

\* A chunk.
Produced ==
    /\ last' = last + 1 /\ evicted' \in 0..last'
    /\ UNCHANGED <<gen, link, up, client, screen, trouble>>
    /\ \/ ~sub.owns /\ sub' = sub /\ Told(<<Say("output", last + 1)>>)
       \/ sub.owns /\ sub.pc # "live" /\ UNCHANGED <<sub, down>>
       \/ /\ sub.owns /\ sub.pc = "live" /\ Told(<<Say("output", last + 1)>>)
          /\ sub' = [sub EXCEPT !.seq = last + 1]

LEMMA Producing == ASSUME Base, Output PROVE Produced
<1>1. /\ last \in Nat /\ evicted \in 0..last /\ RingCap \in Nat /\ sub \in Sub /\ Typed
  BY AttachAssumption DEF Base, Typed, TypeOK, Sub
<1>2. /\ last' = last + 1 /\ evicted' = Larger(evicted, last' - RingCap)
      /\ UNCHANGED <<gen, link, up, client, screen, trouble>>
  BY DEF Output, FeedOutput
<1>3. evicted' \in 0..last'
  BY <1>1, <1>2, AttachAssumption DEF Larger
<1>4. <<Say("output", last + 1)>> \in Seq(Message)
  BY <1>1, Messages
<1>5. CASE ~sub.owns
  <2>1. Tell(<<Say("output", last + 1)>>) /\ sub' = sub
    BY <1>2, <1>5 DEF Output
  <2> QED BY <1>1, <1>2, <1>3, <1>4, <1>5, <2>1, Telling DEF Produced
<1>6. CASE sub.owns /\ sub.pc # "live"
  BY <1>2, <1>3, <1>6 DEF Output, OnOutput, Produced
<1>7. CASE sub.owns /\ sub.pc = "live"
  <2>1. last + 1 = sub.seq + 1
    BY <1>7 DEF Base, Streams
  <2>2. OnOutput(last + 1)
    BY <1>2, <1>7 DEF Output
  <2>3. Tell(<<Say("output", last + 1)>>) /\ sub' = [sub EXCEPT !.seq = last + 1]
    BY <1>7, <2>1, <2>2 DEF OnOutput
  <2> QED BY <1>1, <1>2, <1>3, <1>4, <1>7, <2>3, Telling DEF Produced
<1> QED BY <1>5, <1>6, <1>7

\* What it makes of a subscribe.
Answer(n) ==
    \/ sub.pc \in {"capturing", "rendering"} /\ UNCHANGED <<sub, down>>
    \/ /\ last = 0 /\ sub.pc \in {"idle", "live"}
       /\ sub' = [sub EXCEPT !.owns = TRUE, !.pc = "live", !.seq = 0]
       /\ Told(<<Say("begin", 0), Say("end", 1)>>)
    \/ /\ last > 0 /\ sub.pc \in {"idle", "live"}
       /\ sub' = [sub EXCEPT !.owns = TRUE, !.pc = "capturing"] /\ down' = down
    \/ /\ n > 0 /\ sub.pc \in {"idle", "live"}
       /\ sub' = [sub EXCEPT !.owns = TRUE, !.pc = "live", !.seq = last]
       /\ \E t \in Seq(Message) : /\ Told(t)
                                  /\ \A i \in 1..Len(t) : t[i].type \in {"output", "proof"}

LEMMA Answering ==
    ASSUME Base, Subscribe
    PROVE  /\ Taken("subscribe") /\ up[1].n \in Nat /\ Answer(up[1].n)
           /\ UNCHANGED <<runner, link, client, screen, trouble, budget>>
<1>1. /\ Taken("subscribe") /\ Typed /\ last \in Nat /\ evicted \in 0..last /\ sub \in Sub
      /\ UNCHANGED <<runner, link, client, screen, trouble, budget>>
  BY Reading DEF Subscribe, Base, Typed, TypeOK, Sub
<1>2. PICK n : n = Head(up).n
  OBVIOUS
<1>3. n = up[1].n /\ n \in Nat
  BY <1>1, <1>2 DEF Taken, Request
<1>4. IF sub.pc \in {"capturing", "rendering"} THEN UNCHANGED <<sub, down>>
      ELSE IF n = 0 \/ n > last \/ n < evicted THEN StartSnapshot
      ELSE StartReplay(n)
  BY <1>2 DEF Subscribe
<1>5. CASE sub.pc \in {"capturing", "rendering"}
  BY <1>1, <1>3, <1>4, <1>5 DEF Answer
<1>6. CASE sub.pc \in {"idle", "live"} /\ StartSnapshot
  <2>1. CASE last = 0
    <3>1. /\ sub' = [sub EXCEPT !.owns = TRUE, !.pc = "live", !.seq = 0]
          /\ Tell(<<Say("begin", 0), Say("end", 1)>>)
      BY <1>6, <2>1 DEF StartSnapshot
    <3>2. <<Say("begin", 0), Say("end", 1)>> \in Seq(Message)
      BY DEF Say, Message
    <3>3. Told(<<Say("begin", 0), Say("end", 1)>>)
      BY <1>1, <3>1, <3>2, Telling
    <3> QED BY <1>1, <1>3, <1>6, <2>1, <3>1, <3>3 DEF Answer
  <2>2. CASE last > 0
    BY <1>1, <1>3, <1>6, <2>2 DEF StartSnapshot, Answer
  <2> QED BY <1>1, <2>1, <2>2
<1>7. CASE sub.pc \in {"idle", "live"} /\ StartReplay(n) /\ n > 0 /\ n <= last
  <2> DEFINE t == Chunks(n, last) \o <<Say("proof", last)>>
  <2>1. t \in Seq(Message) /\ \A i \in 1..Len(t) : t[i].type \in {"output", "proof"}
    BY <1>1, <1>3, <1>7, ReplaySequence
  <2>2. Tell(t) /\ sub' = [sub EXCEPT !.owns = TRUE, !.pc = "live", !.seq = last]
    BY <1>7 DEF StartReplay
  <2> HIDE DEF t
  <2>3. Told(t)
    BY <1>1, <2>1, <2>2, Telling
  <2>4. \E u \in Seq(Message) : /\ Told(u)
                                /\ \A i \in 1..Len(u) : u[i].type \in {"output", "proof"}
    BY <2>1, <2>3
  <2> QED BY <1>1, <1>3, <1>7, <2>2, <2>4 DEF Answer
<1>8. sub.pc \in {"capturing", "rendering"} \/ sub.pc \in {"idle", "live"}
  BY <1>1 DEF Sub
<1>9. n = 0 \/ n > last \/ n < evicted \/ (n > 0 /\ n <= last)
  BY <1>1, <1>3
<1>10. sub.pc \in {"idle", "live"} => sub.pc \notin {"capturing", "rendering"}
  OBVIOUS
<1>11. sub.pc \in {"idle", "live"} =>
          StartSnapshot \/ (StartReplay(n) /\ n > 0 /\ n <= last)
  BY <1>4, <1>9, <1>10
<1> QED BY <1>5, <1>6, <1>7, <1>8, <1>11

\* What becomes of the subscription.
LEMMA SubStep ==
    ASSUME sub \in Sub, last \in Nat, last' \in Nat, last' >= last
    PROVE  /\ sub' = sub => sub' \in Sub'
           /\ sub' = [sub EXCEPT !.seq = last + 1] /\ last' = last + 1 =>
                 /\ sub' \in Sub' /\ sub'.pc = sub.pc /\ sub'.owns = sub.owns
                 /\ sub'.seq = last' /\ sub'.dto = sub.dto
           /\ sub' = [sub EXCEPT !.pc = "rendering", !.dto = last] =>
                 /\ sub' \in Sub' /\ sub'.pc = "rendering" /\ sub'.owns = sub.owns
                 /\ sub'.dto = last
           /\ sub' = [sub EXCEPT !.pc = "idle"] =>
                 sub' \in Sub' /\ sub'.pc = "idle" /\ sub'.owns = sub.owns
           /\ sub' = [sub EXCEPT !.pc = "live", !.seq = last] =>
                 /\ sub' \in Sub' /\ sub'.pc = "live" /\ sub'.owns = sub.owns
                 /\ sub'.seq = last
           /\ sub' = [sub EXCEPT !.owns = TRUE, !.pc = "live", !.seq = 0] =>
                 /\ sub' \in Sub' /\ sub'.pc = "live" /\ sub'.owns /\ sub'.seq = 0
           /\ sub' = [sub EXCEPT !.owns = TRUE, !.pc = "live", !.seq = last] =>
                 /\ sub' \in Sub' /\ sub'.pc = "live" /\ sub'.owns /\ sub'.seq = last
           /\ sub' = [sub EXCEPT !.owns = TRUE, !.pc = "capturing"] =>
                 /\ sub' \in Sub' /\ sub'.pc = "capturing" /\ sub'.owns
<1> DEFINE States4 == {"idle", "capturing", "rendering", "live"}
<1>1. /\ sub.pc \in States4 /\ sub.owns \in BOOLEAN /\ sub.seq \in 0..last'
      /\ sub.dto \in 0..last' /\ last \in 0..last' /\ 0 \in 0..last'
  BY DEF Sub
<1>2. sub \in [pc : States4, owns : BOOLEAN, seq : 0..last', dto : 0..last']
  BY <1>1 DEF Sub
<1>3. ASSUME NEW f \in [pc : States4, owns : BOOLEAN, seq : 0..last', dto : 0..last']
      PROVE  f \in Sub'
  BY <1>3 DEF Sub
<1>4. sub' = sub => sub' \in Sub'
  BY <1>2, <1>3
<1>5. ASSUME sub' = [sub EXCEPT !.seq = last + 1], last' = last + 1
      PROVE  /\ sub' \in Sub' /\ sub'.pc = sub.pc /\ sub'.owns = sub.owns
             /\ sub'.seq = last' /\ sub'.dto = sub.dto
  <2>1. last + 1 \in 0..last'
    BY <1>5
  <2> QED BY <1>2, <1>3, <1>5, <2>1
<1>6. ASSUME sub' = [sub EXCEPT !.pc = "rendering", !.dto = last]
      PROVE  /\ sub' \in Sub' /\ sub'.pc = "rendering" /\ sub'.owns = sub.owns
             /\ sub'.dto = last
  <2>1. "rendering" \in States4
    OBVIOUS
  <2> QED BY <1>1, <1>2, <1>3, <1>6, <2>1
<1>7. ASSUME sub' = [sub EXCEPT !.pc = "idle"]
      PROVE  sub' \in Sub' /\ sub'.pc = "idle" /\ sub'.owns = sub.owns
  <2>1. "idle" \in States4
    OBVIOUS
  <2> QED BY <1>1, <1>2, <1>3, <1>7, <2>1
<1>8. "live" \in States4 /\ "capturing" \in States4 /\ TRUE \in BOOLEAN
  OBVIOUS
<1>9. ASSUME sub' = [sub EXCEPT !.pc = "live", !.seq = last]
      PROVE  sub' \in Sub' /\ sub'.pc = "live" /\ sub'.owns = sub.owns /\ sub'.seq = last
  BY <1>1, <1>2, <1>3, <1>8, <1>9
<1>10. ASSUME sub' = [sub EXCEPT !.owns = TRUE, !.pc = "live", !.seq = 0]
       PROVE  sub' \in Sub' /\ sub'.pc = "live" /\ sub'.owns /\ sub'.seq = 0
  BY <1>1, <1>2, <1>3, <1>8, <1>10
<1>11. ASSUME sub' = [sub EXCEPT !.owns = TRUE, !.pc = "live", !.seq = last]
       PROVE  sub' \in Sub' /\ sub'.pc = "live" /\ sub'.owns /\ sub'.seq = last
  BY <1>1, <1>2, <1>3, <1>8, <1>11
<1>12. ASSUME sub' = [sub EXCEPT !.owns = TRUE, !.pc = "capturing"]
       PROVE  sub' \in Sub' /\ sub'.pc = "capturing" /\ sub'.owns
  BY <1>1, <1>2, <1>3, <1>8, <1>12
<1> QED BY <1>4, <1>5, <1>6, <1>7, <1>9, <1>10, <1>11, <1>12

\* A capture begins; its frame is rendered, and everything up to now follows, or the
\* ring has dropped what should have followed; or it fails.
Captured ==
    /\ sub.pc = "capturing" /\ sub' = [sub EXCEPT !.pc = "rendering", !.dto = last]
    /\ Told(<<Say("begin", last)>>)
    /\ UNCHANGED <<runner, link, up, client, screen, trouble, budget>>

LEMMA Capturing == ASSUME Base, Capture PROVE Captured
<1>1. last \in Nat /\ Typed
  BY DEF Base, Typed, TypeOK
<1>2. Tell(<<Say("begin", last)>>) /\ <<Say("begin", last)>> \in Seq(Message)
  BY <1>1, Messages DEF Capture
<1>3. Told(<<Say("begin", last)>>)
  BY <1>1, <1>2, Telling
<1> QED BY <1>3 DEF Capture, Captured

Rendered ==
    /\ sub.pc = "rendering"
    /\ UNCHANGED <<runner, link, up, client, screen, trouble, budget>>
    /\ \/ /\ sub' = [sub EXCEPT !.pc = "idle"]
          /\ Told(<<Say("frame", sub.dto), Say("required", 0)>>)
       \/ /\ sub' = [sub EXCEPT !.pc = "live", !.seq = last]
          /\ \E t \in Seq(Message) :
                /\ Told(t) /\ Len(t) = last - sub.dto + 2
                /\ t[1] = Say("frame", sub.dto)
                /\ t[last - sub.dto + 2] = Say("end", last + 1)
                /\ \A k \in 1..last - sub.dto : t[k + 1] = Say("output", sub.dto + k)

LEMMA Rendering == ASSUME Base, Render PROVE Rendered
<1>1. last \in Nat /\ sub.dto \in Nat /\ sub.dto <= last /\ Typed
  <2>1. last \in Nat /\ sub \in Sub /\ Typed
    BY DEF Base, Typed, TypeOK, Sub
  <2> QED BY <2>1 DEF Sub
<1>2. /\ sub.pc = "rendering"
      /\ UNCHANGED <<runner, link, up, client, screen, trouble, budget>>
  BY DEF Render
<1>3. CASE sub.dto < evicted
  <2> DEFINE t == <<Say("frame", sub.dto), Say("required", 0)>>
  <2>1. sub' = [sub EXCEPT !.pc = "idle"] /\ Tell(t)
    BY <1>3 DEF Render
  <2>2. Say("frame", sub.dto) \in Message /\ Say("required", 0) \in Message
    BY <1>1, Messages
  <2>3. t \in Seq(Message)
    BY <2>2
  <2>4. Told(t)
    BY <1>1, <2>1, <2>3, Telling
  <2> QED BY <1>2, <2>1, <2>4 DEF Rendered
<1>4. CASE ~(sub.dto < evicted)
  <2> DEFINE t == Snapshot(sub.dto, last)
  <2>1. sub' = [sub EXCEPT !.pc = "live", !.seq = last] /\ Tell(t)
    BY <1>4 DEF Render, Snapshot
  <2>2. /\ t \in Seq(Message) /\ Len(t) = last - sub.dto + 2
        /\ t[1] = Say("frame", sub.dto)
        /\ t[last - sub.dto + 2] = Say("end", last + 1)
        /\ \A k \in 1..last - sub.dto : t[k + 1] = Say("output", sub.dto + k)
    BY <1>1, SnapshotSequence
  <2> HIDE DEF t
  <2>3. Told(t)
    BY <1>1, <2>1, <2>2, Telling
  <2> QED BY <1>2, <2>1, <2>2, <2>3 DEF Rendered
<1> QED BY <1>3, <1>4

Unrendered ==
    /\ sub.pc \in {"capturing", "rendering"} /\ sub' = [sub EXCEPT !.pc = "idle"]
    /\ Told(<<Say("failed", 0)>>)
    /\ UNCHANGED <<runner, link, up, client, screen, trouble>>

LEMMA CaptureFailing == ASSUME Base, CaptureFails PROVE Unrendered
<1>1. <<Say("failed", 0)>> \in Seq(Message) /\ Typed /\ Tell(<<Say("failed", 0)>>)
  BY Messages DEF Base, CaptureFails
<1>2. Told(<<Say("failed", 0)>>)
  BY <1>1, Telling
<1> QED BY <1>2 DEF CaptureFails, Unrendered

Unproven ==
    /\ sub.pc = "live" /\ Told(<<Say("proof", 0)>>)
    /\ UNCHANGED <<runner, sub, link, up, client, screen, trouble>>

LEMMA Resetting == ASSUME Base, ReporterReset PROVE Unproven
<1>1. <<Say("proof", 0)>> \in Seq(Message) /\ Typed /\ Tell(<<Say("proof", 0)>>)
  BY Messages DEF Base, ReporterReset
<1>2. Told(<<Say("proof", 0)>>)
  BY <1>1, Telling
<1> QED BY <1>2 DEF ReporterReset, Unproven

Identified ==
    /\ Taken("reconcile")
    /\ UNCHANGED <<runner, sub, link, client, screen, trouble, budget>>
    /\ \E type \in {"reconciled", "mismatch"} : Told(<<Say(type, gen)>>)

LEMMA Identifying == ASSUME Base, AnswerReconcile PROVE Identified
<1>1. gen \in Nat /\ Typed /\ Taken("reconcile")
  BY Reading DEF Base, Typed, TypeOK, AnswerReconcile
<1>2. PICK type \in {"reconciled", "mismatch"} : Tell(<<Say(type, gen)>>)
  BY DEF AnswerReconcile
<1>3. <<Say(type, gen)>> \in Seq(Message)
  BY <1>1, Messages
<1>4. Told(<<Say(type, gen)>>)
  BY <1>1, <1>2, <1>3, Telling
<1> QED BY <1>1, <1>4 DEF AnswerReconcile, Identified

----------------------------------------------------------------------------
(* Every step, by what it does.                                            *)

\* What the client hears.
Hears ==
    \/ Heard("hello") /\ Hello
    \/ Heard("reconciled") /\ Reconciled
    \/ Heard("mismatch") /\ Mismatched
    \/ Heard("failed") /\ Failed
    \/ Heard("proof") /\ Proven
    \/ Heard("begin") /\ Begun
    \/ Heard("frame") /\ Framed
    \/ Heard("end") /\ Ended
    \/ Heard("required") /\ Required
    \/ Heard("output") /\ Printed

\* What the runner does.
Asks ==
    /\ Taken("subscribe") /\ up[1].n \in Nat /\ Answer(up[1].n)
    /\ UNCHANGED <<runner, link, client, screen, trouble, budget>>
Serves == Produced \/ Captured \/ Rendered \/ Unrendered \/ Unproven \/ Asks \/ Identified

Lost ==
    /\ Unlinked
    /\ \/ UNCHANGED runner
       \/ gen' = gen + 1 /\ last' = 0 /\ evicted' = 0

LEMMA Steps ==
    ASSUME Base, [Next]_vars
    PROVE  Serves \/ Hears \/ TimedOut \/ GaveUp \/ Lost \/ Connected \/ UNCHANGED vars
<1>1. CASE RunnerReads
  BY <1>1, Answering, Identifying DEF RunnerReads, Serves, Asks
<1>2. CASE Output \/ Capture \/ Render \/ CaptureFails \/ ReporterReset
  BY <1>2, Producing, Capturing, Rendering, CaptureFailing, Resetting DEF Serves
<1>3. CASE ClientHears
  BY <1>3, HelloHeard, ReconciledHeard, MismatchHeard, FailedHeard, ProofHeard, BeginHeard,
     FrameHeard, EndHeard, EndAndAskHeard, RequiredHeard, OutputHeard
  DEF ClientHears, Hears, Ended
<1>4. CASE ProbeTimeout \/ ReconcileTimeout \/ Connect
  BY <1>4, ProbeTimedOut, ReconcileTimedOut, Connecting
<1>5. gen \in Nat
  BY DEF Base, Typed, TypeOK
<1>6. CASE Drop
  <2>1. Unlink /\ screen' = screen /\ UNCHANGED runner /\ gen' = gen
    BY <1>6 DEF Drop, runner
  <2>2. gen' \in Nat /\ gen' >= gen
    BY <1>5, <2>1
  <2> QED BY <2>1, <2>2, Unlinking DEF Lost
<1>7. CASE ReplaceHost
  <2>1. Unlink /\ screen' = screen /\ gen' = gen + 1 /\ last' = 0 /\ evicted' = 0
    BY <1>7 DEF ReplaceHost
  <2>2. gen' \in Nat /\ gen' >= gen
    BY <1>5, <2>1
  <2> QED BY <2>1, <2>2, Unlinking DEF Lost
<1> QED BY <1>1, <1>2, <1>3, <1>4, <1>6, <1>7 DEF Next

----------------------------------------------------------------------------
(* Types, and what they rest on.                                           *)

Parts ==
    /\ gen \in Nat \ {0} /\ last \in Nat /\ evicted \in 0..last
    /\ sub \in Sub /\ link \in BOOLEAN
    /\ up \in Seq(Request) /\ down \in Seq(Message)
    /\ client \in Client /\ screen \in Screen /\ trouble \subseteq Troubles

LEMMA TypedParts == Typed <=> Parts /\ budget \in Budget
<1>1. ASSUME NEW S, NEW s \in Seq(S) PROVE \A i \in DOMAIN s : s[i] \in S
  BY LenProperties, ElementOfSeq
<1>2. ASSUME up \in Seq(Request) PROVE \A i \in DOMAIN up : up[i] \in Request
  BY <1>1, <1>2
<1>3. ASSUME down \in Seq(Message) PROVE \A i \in DOMAIN down : down[i] \in Message
  BY <1>1, <1>3
<1>4. ASSUME Parts, budget \in Budget PROVE Typed
  BY <1>2, <1>3, <1>4
  DEF Typed, TypeOK, Parts, Sub, Client, Part, Screen, Request, Message
<1>5. ASSUME Typed PROVE Parts /\ budget \in Budget
  BY <1>5 DEF Typed, TypeOK, Parts, Sub, Client, Part, Screen
<1> QED BY <1>4, <1>5

LEMMA BudgetStep == ASSUME Base, [Next]_vars PROVE budget' \in Budget
<1>1. budget \in Budget
  BY TypedParts DEF Base
<1>2. CASE budget' = budget
  BY <1>1, <1>2
<1>3. CASE \/ Spend("outputs") \/ Spend("drops") \/ Spend("hosts") \/ Spend("faults")
           \/ Spend("resets") \/ Spend("late") \/ Spend("asks")
  BY <1>1, <1>3 DEF Spend, Budget
<1>4. budget' = budget \/ \/ Spend("outputs") \/ Spend("drops") \/ Spend("hosts")
                          \/ Spend("faults") \/ Spend("resets") \/ Spend("late")
                          \/ Spend("asks")
  <2>1. CASE RunnerReads \/ ClientHears
    <3>1. CASE RunnerReads
      BY <3>1 DEF RunnerReads, Subscribe, AnswerReconcile
    <3>2. CASE \/ HearHello \/ HearReconciled \/ HearMismatch \/ HearFailed \/ HearProof
               \/ HearBegin \/ HearFrame \/ HearRequired
      BY <3>2, HelloHeard, ReconciledHeard, MismatchHeard, FailedHeard, ProofHeard,
         BeginHeard, FrameHeard, RequiredHeard
      DEF Hello, Unmoved, Unseen, HearReconciled, HearMismatch, Failed, Proven, Begun, Framed,
          Required
    <3>3. CASE HearEnd
      BY <3>3, EndHeard DEF HearEnd, Ignore, Heal
    <3>4. CASE HearEndAndAsk
      BY <3>4 DEF HearEndAndAsk
    <3>5. CASE HearOutput
      BY <3>5, OutputHeard DEF HearOutput, OutputLive, OutputCollecting, OutputResyncing,
         OutputReconciling, Ignore, Heal, Set
    <3> QED BY <2>1, <3>1, <3>2, <3>3, <3>4, <3>5 DEF ClientHears
  <2>2. CASE Output \/ Capture \/ Render \/ CaptureFails \/ ReporterReset \/ ProbeTimeout
             \/ ReconcileTimeout \/ Drop \/ ReplaceHost \/ Connect
    BY <2>2
    DEF Output, Capture, Render, CaptureFails, ReporterReset, ProbeTimeout,
        ReconcileTimeout, Drop, ReplaceHost, Connect
  <2>3. CASE UNCHANGED vars
    BY <2>3 DEF vars
  <2> QED BY <2>1, <2>2, <2>3 DEF Next
<1> QED BY <1>2, <1>3, <1>4

\* What the runner says of itself is true as long as it is the same runner.
LEMMA GreetsTold ==
    ASSUME Base, NEW t \in Seq(Message), Told(t), gen' = gen,
           \A i \in 1..Len(t) :
              t[i].type \in {"hello", "reconciled", "mismatch"} => t[i].n = gen
    PROVE  Greets'
<1>1. CASE ~link
  BY <1>1 DEF Told, Base, Greets
<1>2. CASE link
  <2>1. \A i \in 1..Len(down') :
            i \in 1..Len(down) \/ \E j \in 1..Len(t) : i = Len(down) + j
    <3>1. Len(down') = Len(down) + Len(t) /\ Len(down) \in Nat /\ Len(t) \in Nat
      BY <1>2 DEF Told
    <3>2. ASSUME NEW i \in 1..Len(down'), i \notin 1..Len(down)
          PROVE  \E j \in 1..Len(t) : i = Len(down) + j
      <4>1. i - Len(down) \in 1..Len(t) /\ i = Len(down) + (i - Len(down))
        BY <3>1, <3>2
      <4> QED BY <4>1
    <3> QED BY <3>2
  <2>2. /\ \A i \in 1..Len(down) : down'[i] = down[i]
        /\ \A j \in 1..Len(t) : down'[Len(down) + j] = t[j]
    BY <1>2 DEF Told
  <2> QED BY <2>1, <2>2 DEF Base, Greets
<1> QED BY <1>1, <1>2

LEMMA GreetsHeard ==
    ASSUME Base, NEW type, Heard(type)
    PROVE  Greets'
<1>1. \A i \in 1..Len(down') : i + 1 \in 1..Len(down) /\ down'[i] = down[i + 1]
  BY DEF Heard
<1>2. gen' = gen
  BY DEF Heard
<1> QED BY <1>1, <1>2 DEF Base, Greets

LEMMA ServesParts ==
    ASSUME Base, Serves
    PROVE  Parts' /\ Greets' /\ Streams'
<1>1. Parts
  BY TypedParts DEF Base
<1>2. CASE Produced
  <2>1. sub' \in Sub' /\ down' \in Seq(Message)
    <3>1. CASE UNCHANGED sub
      BY <1>1, <1>2, <3>1 DEF Produced, Parts, Sub, Told
    <3>2. CASE sub' = [sub EXCEPT !.seq = last + 1]
      <4>1. sub \in Sub /\ last \in Nat /\ last' \in Nat /\ last' = last + 1 /\ last' >= last
        BY <1>1, <1>2 DEF Produced, Parts
      <4>2. sub' \in Sub'
        BY <3>2, <4>1, SubStep
      <4> QED BY <1>1, <1>2, <4>2 DEF Produced, Parts, Told
    <3> QED BY <1>2, <3>1, <3>2 DEF Produced
  <2>2. Greets'
    <3>1. CASE down' = down
      BY <1>2, <3>1 DEF Produced, Base, Greets
    <3>2. CASE Told(<<Say("output", last + 1)>>)
      <4>1. <<Say("output", last + 1)>> \in Seq(Message)
        BY <1>1, Messages DEF Parts
      <4>2. \A i \in 1..Len(<<Say("output", last + 1)>>) :
               <<Say("output", last + 1)>>[i].type \notin {"hello", "reconciled", "mismatch"}
        BY DEF Say
      <4> QED BY <1>2, <3>2, <4>1, <4>2, GreetsTold DEF Produced
    <3> QED BY <1>2, <3>1, <3>2 DEF Produced
  <2>3. Streams'
    BY <1>1, <1>2 DEF Produced, Base, Streams, Parts, Sub
  <2>4. /\ gen' \in Nat \ {0} /\ last' \in Nat /\ evicted' \in 0..last' /\ link' \in BOOLEAN
        /\ up' \in Seq(Request) /\ client' \in Client' /\ screen' \in Screen'
        /\ trouble' \subseteq Troubles
    BY <1>1, <1>2 DEF Produced, Parts, Client, Screen
  <2> QED BY <2>1, <2>2, <2>3, <2>4 DEF Parts
<1>3. CASE Captured \/ Rendered \/ Unrendered \/ Unproven \/ Asks \/ Identified
  <2>1. /\ gen' \in Nat \ {0} /\ last' \in Nat /\ evicted' \in 0..last' /\ link' \in BOOLEAN
        /\ client' \in Client' /\ screen' \in Screen' /\ trouble' \subseteq Troubles
        /\ gen' = gen /\ last' = last /\ link' = link
    BY <1>1, <1>3
    DEF Captured, Rendered, Unrendered, Unproven, Asks, Identified, Parts, Client, Screen,
        runner
  <2>2. up' \in Seq(Request)
    BY <1>1, <1>3
    DEF Captured, Rendered, Unrendered, Unproven, Asks, Identified, Parts, Taken
  <2>a. sub \in Sub /\ last \in Nat /\ last' \in Nat /\ last' >= last
    BY <1>1, <2>1 DEF Parts
  <2>3. CASE Captured
    <3>1. <<Say("begin", last)>> \in Seq(Message)
      BY <1>1, Messages DEF Parts
    <3>2. \A i \in 1..Len(<<Say("begin", last)>>) :
             <<Say("begin", last)>>[i].type \notin {"hello", "reconciled", "mismatch"}
      BY DEF Say
    <3>3. Greets'
      BY <2>1, <2>3, <3>1, <3>2, GreetsTold DEF Captured
    <3>4. sub' \in Sub' /\ sub'.pc = "rendering" /\ sub'.owns = sub.owns
      BY <2>a, <2>3, SubStep DEF Captured
    <3>5. Streams' /\ down' \in Seq(Message)
      BY <2>1, <2>3, <3>4 DEF Captured, Base, Streams, Told
    <3> QED BY <2>1, <2>2, <3>3, <3>4, <3>5 DEF Parts
  <2>4. CASE Rendered
    <3>1. sub' \in Sub' /\ Streams'
      <4>1. CASE sub' = [sub EXCEPT !.pc = "idle"]
        BY <2>a, <4>1, SubStep DEF Streams
      <4>2. CASE sub' = [sub EXCEPT !.pc = "live", !.seq = last]
        <5>1. sub' \in Sub' /\ sub'.pc = "live" /\ sub'.owns = sub.owns /\ sub'.seq = last
          BY <2>a, <4>2, SubStep
        <5> QED BY <2>1, <2>4, <5>1 DEF Rendered, Base, Streams
      <4> QED BY <2>4, <4>1, <4>2 DEF Rendered
    <3>2. CASE Told(<<Say("frame", sub.dto), Say("required", 0)>>)
      <4> DEFINE t == <<Say("frame", sub.dto), Say("required", 0)>>
      <4>1. Say("frame", sub.dto) \in Message /\ Say("required", 0) \in Message
        BY <1>1, Messages DEF Parts, Sub
      <4>2. t \in Seq(Message)
        BY <4>1
      <4>3. \A i \in 1..Len(t) : t[i].type \notin {"hello", "reconciled", "mismatch"}
        BY DEF Say
      <4>4. Told(t)
        BY <3>2
      <4> HIDE DEF t
      <4>5. Greets' /\ down' \in Seq(Message)
        BY <2>1, <4>2, <4>3, <4>4, GreetsTold DEF Told
      <4> QED BY <2>1, <2>2, <3>1, <4>5 DEF Parts
    <3>3. ASSUME NEW t \in Seq(Message),
                 /\ Told(t) /\ Len(t) = last - sub.dto + 2
                 /\ t[1] = Say("frame", sub.dto)
                 /\ t[last - sub.dto + 2] = Say("end", last + 1)
                 /\ \A k \in 1..last - sub.dto : t[k + 1] = Say("output", sub.dto + k)
          PROVE  Parts' /\ Greets' /\ Streams'
      <4>0. last \in Nat /\ sub.dto \in Nat /\ sub.dto <= last
        BY <1>1 DEF Parts, Sub
      <4>1. ASSUME NEW i \in 1..Len(t)
            PROVE  t[i].type \notin {"hello", "reconciled", "mismatch"}
        <5>1. \/ i = 1 \/ i = last - sub.dto + 2
              \/ i - 1 \in 1..last - sub.dto /\ i = (i - 1) + 1
          BY <3>3, <4>0
        <5>2. \/ t[i] = Say("frame", sub.dto) \/ t[i] = Say("end", last + 1)
              \/ t[i] = Say("output", sub.dto + (i - 1))
          BY <3>3, <5>1
        <5> QED BY <5>2 DEF Say
      <4>2. Greets' /\ down' \in Seq(Message)
        BY <2>1, <3>3, <4>1, GreetsTold DEF Told
      <4> QED BY <2>1, <2>2, <3>1, <4>2 DEF Parts
    <3> QED BY <2>4, <3>2, <3>3 DEF Rendered
  <2>5. CASE Unrendered
    <3>1. <<Say("failed", 0)>> \in Seq(Message)
      BY Messages
    <3>2. \A i \in 1..Len(<<Say("failed", 0)>>) :
             <<Say("failed", 0)>>[i].type \notin {"hello", "reconciled", "mismatch"}
      BY DEF Say
    <3>3. Greets'
      BY <2>1, <2>5, <3>1, <3>2, GreetsTold DEF Unrendered
    <3>4. sub' \in Sub' /\ Streams' /\ down' \in Seq(Message)
      BY <1>1, <2>1, <2>5 DEF Unrendered, Parts, Sub, Base, Streams, Told
    <3> QED BY <2>1, <2>2, <3>3, <3>4 DEF Parts
  <2>6. CASE Unproven
    <3>1. <<Say("proof", 0)>> \in Seq(Message)
      BY Messages
    <3>2. \A i \in 1..Len(<<Say("proof", 0)>>) :
             <<Say("proof", 0)>>[i].type \notin {"hello", "reconciled", "mismatch"}
      BY DEF Say
    <3>3. Greets'
      BY <2>1, <2>6, <3>1, <3>2, GreetsTold DEF Unproven
    <3>4. sub' \in Sub' /\ Streams' /\ down' \in Seq(Message)
      BY <1>1, <2>1, <2>6 DEF Unproven, Parts, Sub, Base, Streams, Told
    <3> QED BY <2>1, <2>2, <3>3, <3>4 DEF Parts
  <2>7. CASE Identified
    <3>1. PICK type \in {"reconciled", "mismatch"} : Told(<<Say(type, gen)>>)
      BY <2>7 DEF Identified
    <3>2. <<Say(type, gen)>> \in Seq(Message)
      BY <1>1, <3>1, Messages DEF Parts
    <3>3. \A i \in 1..Len(<<Say(type, gen)>>) : <<Say(type, gen)>>[i].n = gen
      BY DEF Say
    <3>4. Greets'
      BY <2>1, <3>1, <3>2, <3>3, GreetsTold
    <3>5. sub' \in Sub' /\ Streams' /\ down' \in Seq(Message)
      BY <1>1, <2>1, <2>7, <3>1 DEF Identified, Parts, Sub, Base, Streams, Told
    <3> QED BY <2>1, <2>2, <3>4, <3>5 DEF Parts
  <2>8. CASE Asks
    <3>0. sub' \in Sub' /\ Streams'
      <4>1. link
        BY <2>8 DEF Asks, Taken
      <4>2. CASE sub' = sub
        BY <2>1, <2>a, <4>2, SubStep DEF Base, Streams
      <4>3. CASE last = 0 /\ sub' = [sub EXCEPT !.owns = TRUE, !.pc = "live", !.seq = 0]
        <5>1. sub' \in Sub' /\ sub'.pc = "live" /\ sub'.owns /\ sub'.seq = 0
          BY <2>a, <4>3, SubStep
        <5> QED BY <2>1, <4>1, <4>3, <5>1 DEF Streams
      <4>4. CASE sub' = [sub EXCEPT !.owns = TRUE, !.pc = "capturing"]
        <5>1. sub' \in Sub' /\ sub'.pc = "capturing" /\ sub'.owns
          BY <2>a, <4>4, SubStep
        <5> QED BY <2>1, <4>1, <5>1 DEF Streams
      <4>5. CASE sub' = [sub EXCEPT !.owns = TRUE, !.pc = "live", !.seq = last]
        <5>1. sub' \in Sub' /\ sub'.pc = "live" /\ sub'.owns /\ sub'.seq = last
          BY <2>a, <4>5, SubStep
        <5> QED BY <2>1, <4>1, <5>1 DEF Streams
      <4> QED BY <2>8, <4>2, <4>3, <4>4, <4>5 DEF Asks, Answer
    <3>1. CASE down' = down
      BY <1>1, <2>1, <2>2, <3>0, <3>1 DEF Parts, Base, Greets
    <3>2. ASSUME NEW t \in Seq(Message), Told(t),
                 \A i \in 1..Len(t) : t[i].type \notin {"hello", "reconciled", "mismatch"}
          PROVE  Parts' /\ Greets' /\ Streams'
      <4>1. Greets' /\ down' \in Seq(Message)
        BY <2>1, <3>2, GreetsTold DEF Told
      <4> QED BY <2>1, <2>2, <3>0, <4>1 DEF Parts
    <3>3. CASE Told(<<Say("begin", 0), Say("end", 1)>>)
      <4>1. <<Say("begin", 0), Say("end", 1)>> \in Seq(Message)
        BY DEF Say, Message
      <4>2. \A i \in 1..Len(<<Say("begin", 0), Say("end", 1)>>) :
               <<Say("begin", 0), Say("end", 1)>>[i].type
                  \notin {"hello", "reconciled", "mismatch"}
        BY DEF Say
      <4> QED BY <3>2, <3>3, <4>1, <4>2
    <3>4. CASE \E t \in Seq(Message) :
                  Told(t) /\ \A i \in 1..Len(t) : t[i].type \in {"output", "proof"}
      BY <3>2, <3>4
    <3> QED BY <2>8, <3>1, <3>3, <3>4 DEF Asks, Answer
  <2> QED BY <1>3, <2>3, <2>4, <2>5, <2>6, <2>7, <2>8
<1> QED BY <1>2, <1>3 DEF Serves


LEMMA HearsParts ==
    ASSUME Base, Hears
    PROVE  Parts' /\ Greets' /\ Streams'
<1>1. Parts
  BY TypedParts DEF Base
<1>2. PICK type : Heard(type)
  BY DEF Hears
<1>3. Greets'
  BY <1>2, GreetsHeard
<1>4. /\ link' = link /\ UNCHANGED <<gen, last, evicted, sub>> /\ down' \in Seq(Message)
  BY <1>2 DEF Heard
<1>5. Streams'
  BY <1>4 DEF Base, Streams
<1>6. client' \in Client /\ up' \in Seq(Request)
  <2>1. CASE Unmoved
    BY <1>1, <2>1 DEF Unmoved, Parts
  <2>2. CASE Healed
    BY <2>2 DEF Healed, Asked
  <2>3. CASE Completes
    BY <1>1, <2>3 DEF Completes, Asked, Parts
  <2>4. CASE Hello \/ Proven \/ Begun
    BY <1>1, <2>1, <2>2, <2>4 DEF Hello, Proven, Begun, Parts
  <2>5. CASE Reconciled \/ Mismatched
    BY <1>1, <2>1, <2>5 DEF Reconciled, Mismatched, Subscribed, Asked, Parts
  <2>6. CASE Failed \/ Required \/ Framed \/ Ended
    BY <1>1, <2>1, <2>2, <2>3, <2>6 DEF Failed, Required, Framed, Ended, Parts
  <2>7. CASE Printed
    BY <1>1, <2>1, <2>2, <2>7 DEF Printed, Parts
  <2> QED BY <2>4, <2>5, <2>6, <2>7 DEF Hears
<1>7. screen' \in Screen /\ trouble' \subseteq Troubles
  <2>1. CASE Unmoved \/ Unseen
    BY <1>1, <2>1 DEF Unmoved, Unseen, Parts
  <2>2. CASE Completes
    BY <1>1, <2>2 DEF Completes, Parts, Troubles
  <2>3. CASE UNCHANGED <<screen, trouble>>
    BY <1>1, <2>3 DEF Parts
  <2>4. CASE Hello \/ Proven \/ Begun \/ Reconciled \/ Mismatched \/ Failed \/ Required \/ Framed
    BY <2>1, <2>3, <2>4
    DEF Hello, Unmoved, Unseen, Proven, Begun, Reconciled, Mismatched, Failed, Required, Framed
  <2>5. CASE Ended
    BY <2>1, <2>2, <2>5 DEF Ended
  <2>6. CASE Printed
    BY <1>1, <2>1, <2>6 DEF Printed, Painted, Spoils, Troubles, Parts
  <2> QED BY <2>4, <2>5, <2>6 DEF Hears
<1>8. client' \in Client' /\ screen' \in Screen'
  BY <1>4, <1>6, <1>7 DEF Client, Screen
<1>9. /\ gen' \in Nat \ {0} /\ last' \in Nat /\ evicted' \in 0..last' /\ sub' \in Sub'
      /\ link' \in BOOLEAN
  BY <1>1, <1>4 DEF Parts, Sub
<1> QED BY <1>3, <1>4, <1>5, <1>6, <1>7, <1>8, <1>9 DEF Parts

LEMMA SocketParts ==
    ASSUME Base, TimedOut \/ GaveUp \/ Lost \/ Connected \/ UNCHANGED vars
    PROVE  Parts' /\ Greets' /\ Streams'
<1>1. Parts
  BY TypedParts DEF Base
<1>2. <<>> \in Seq(Message) /\ <<>> \in Seq(Request) /\ Len(<<>>) = 0
  OBVIOUS
<1>3. ASSUME last' \in Nat PROVE NoSub \in Sub'
  BY <1>3 DEF NoSub, Sub
<1>4. CASE TimedOut \/ GaveUp
  <2>1. UNCHANGED <<gen, last, evicted, sub, link, down, screen>>
    BY <1>4 DEF TimedOut, GaveUp, runner
  <2>2. client' \in Client /\ up' \in Seq(Request) /\ trouble' \subseteq Troubles
    BY <1>1, <1>4 DEF TimedOut, GaveUp, Subscribed, Asked, Spoils, Troubles, Parts
  <2>3. client' \in Client'
    BY <2>1, <2>2 DEF Client
  <2>4. Greets' /\ Streams'
    BY <2>1 DEF Base, Greets, Streams
  <2>5. sub' \in Sub' /\ screen' \in Screen'
    BY <1>1, <2>1 DEF Parts, Sub, Screen
  <2> QED BY <1>1, <2>1, <2>2, <2>3, <2>4, <2>5 DEF Parts
<1>5. CASE Lost
  <2>1. /\ link' = FALSE /\ up' = <<>> /\ down' = <<>> /\ sub' = NoSub /\ screen' = screen
        /\ client' \in Client
    BY <1>5 DEF Lost, Unlinked
  <2>2. gen' \in Nat \ {0} /\ gen' >= gen /\ last' \in Nat /\ evicted' \in 0..last'
    BY <1>1, <1>5 DEF Lost, runner, Parts
  <2>3. client' \in Client' /\ screen' \in Screen'
    <3>1. gen \in Nat /\ \A g \in 0..gen : g \in 0..gen'
      BY <1>1, <2>2 DEF Parts
    <3>2. client' \in Client'
      BY <2>1, <3>1 DEF Client
    <3>3. screen \in Screen
      BY <1>1 DEF Parts
    <3> QED BY <2>1, <3>1, <3>2, <3>3 DEF Screen
  <2>4. trouble' \subseteq Troubles
    BY <1>1, <1>5 DEF Lost, Unlinked, Spoils, Troubles, Parts
  <2>5. Greets' /\ Streams' /\ sub' \in Sub'
    BY <1>2, <1>3, <2>1, <2>2 DEF Greets, Streams, NoSub
  <2> QED BY <1>2, <2>1, <2>2, <2>3, <2>4, <2>5 DEF Parts
<1>6. CASE Connected
  <2>1. /\ link' = TRUE /\ down' = <<Say("hello", gen)>> /\ sub' = NoSub
        /\ UNCHANGED <<gen, last, evicted, screen, trouble>> /\ client' \in Client
    BY <1>6 DEF Connected, runner
  <2>2. client' \in Client' /\ screen' \in Screen'
    BY <1>1, <2>1 DEF Client, Screen, Parts
  <2>3. up' \in Seq(Request)
    <3>1. client.inst \in Nat
      BY <1>1 DEF Parts, Client
    <3> QED BY <1>2, <1>6, <3>1, Requests DEF Connected
  <2>4. down' \in Seq(Message)
    BY <1>1, <2>1, Messages DEF Parts
  <2>5. Greets' /\ Streams' /\ sub' \in Sub'
    <3>1. Greets'
      BY <2>1 DEF Greets, Say
    <3> QED BY <1>1, <1>3, <2>1, <3>1 DEF Streams, NoSub, Parts
  <2> QED BY <1>1, <2>1, <2>2, <2>3, <2>4, <2>5 DEF Parts
<1>7. CASE UNCHANGED vars
  <2>1. UNCHANGED <<gen, last, evicted, sub, link, up, down, client, screen, trouble>>
    BY <1>7 DEF vars
  <2>2. Greets' /\ Streams'
    BY <2>1 DEF Base, Greets, Streams
  <2>3. sub' \in Sub' /\ client' \in Client' /\ screen' \in Screen'
    BY <1>1, <2>1 DEF Parts, Sub, Client, Screen
  <2> QED BY <1>1, <2>1, <2>2, <2>3 DEF Parts
<1> QED BY <1>4, <1>5, <1>6, <1>7

LEMMA BaseStep == ASSUME Base, [Next]_vars PROVE Base'
<1>1. Parts' /\ Greets' /\ Streams'
  BY Steps, ServesParts, HearsParts, SocketParts
<1>2. budget' \in Budget
  BY BudgetStep
<1>3. (Typed <=> Parts /\ budget \in Budget)'
  BY TypedParts, PTL
<1>4. Typed'
  BY <1>1, <1>2, <1>3
<1> QED BY <1>1, <1>4 DEF Base

LEMMA InitBase == Init => Base
<1> SUFFICES ASSUME Init PROVE Base
  OBVIOUS
<1>1. gen = 1 /\ last = 0 /\ evicted = 0 /\ sub = NoSub /\ link = FALSE /\ up = <<>> /\ down = <<>>
  BY DEF Init
<1>2. client \in Client
  BY <1>1, AttachAssumption DEF Init, Client, Part, NoPart, States
<1>3. screen \in Screen /\ trouble \subseteq Troubles
  BY <1>1 DEF Init, Screen
<1>4. sub \in Sub
  BY <1>1 DEF NoSub, Sub
<1>5. up \in Seq(Request) /\ down \in Seq(Message)
  BY <1>1
<1>6. budget \in Budget
  BY AttachAssumption DEF Init
<1>7. Parts
  <2>1. gen \in Nat \ {0} /\ last \in Nat /\ evicted \in 0..last
    <3>1. gen = 1 /\ last = 0 /\ evicted = 0
      BY <1>1
    <3> QED BY <3>1
  <2>2. link \in BOOLEAN
    BY <1>1
  <2> QED BY <1>2, <1>3, <1>4, <1>5, <2>1, <2>2 DEF Parts
<1>8. Greets /\ Streams
  BY <1>1 DEF Greets, Streams, NoSub
<1> QED BY <1>6, <1>7, <1>8, TypedParts DEF Base

----------------------------------------------------------------------------
(* The client's mode and the socket.                                       *)

\* Whatever a client that is not on the legacy path hears after the greeting, it knows
\* the runner that says it.
LEMMA Greeted ==
    ASSUME Base, SocketInvariant, NEW type, type # "hello", Heard(type), client.state # "legacy"
    PROVE  client.gen = gen /\ gen # 0
  BY DEF Base, Typed, TypeOK, SocketInvariant, Heard

LEMMA ModeStep ==
    ASSUME AttachInvariant, [Next]_vars
    PROVE  ModeInvariant'
<1>1. /\ Base /\ ModeInvariant /\ SocketInvariant /\ Parts
      /\ client.state \in States /\ client.mode \in {"undecided", "protocol", "legacy"}
      /\ gen \in Nat \ {0}
  BY TypedParts DEF AttachInvariant, Base, Parts, Client
<1>2. CASE Serves \/ UNCHANGED vars
  <2>1. UNCHANGED <<client, screen>>
    BY <1>2 DEF Serves, Produced, Captured, Rendered, Unrendered, Unproven, Asks, Identified, vars
  <2> QED BY <1>1, <2>1 DEF ModeInvariant
<1>3. ASSUME Unmoved PROVE ModeInvariant'
  BY <1>1, <1>3 DEF ModeInvariant, Unmoved
<1>4. ASSUME Healed, Unseen, client.state # "legacy" PROVE ModeInvariant'
  BY <1>1, <1>4 DEF ModeInvariant, Healed, Unseen, SamePlace, SameMode, SameRunner
<1>5. CASE Hears
  <2>1. CASE Heard("hello") /\ Hello
    BY <1>1, <1>3, <2>1
    DEF Hello, ModeInvariant, SameState, SameMode, SamePlace
  <2>2. CASE Heard("reconciled") /\ Reconciled
    BY <1>1, <1>3, <2>2 DEF Reconciled, Subscribed, SameMode, ModeInvariant
  <2>3. CASE Heard("mismatch") /\ Mismatched
    BY <1>1, <1>3, <2>3
    DEF Mismatched, ModeInvariant, SameState, SameMode, SamePlace, SameRunner
  <2>4. CASE Heard("failed") /\ Failed
    BY <1>1, <1>3, <1>4, <2>4 DEF Failed
  <2>5. CASE Heard("proof") /\ Proven
    <3>1. CASE Unmoved
      BY <1>3, <3>1
    <3>2. CASE ~Unmoved
      <4>1. client.gen = gen
        BY <1>1, <2>5, <3>2, Greeted DEF Proven
      <4> QED BY <1>1, <2>5, <3>2, <4>1 DEF Proven, ModeInvariant, SamePlace, SameRunner
    <3> QED BY <3>1, <3>2
  <2>6. CASE Heard("begin") /\ Begun
    BY <1>1, <1>3, <1>4, <2>6
    DEF Begun, ModeInvariant, Unseen, SameState, SameMode, SamePlace
  <2>7. CASE Heard("frame") /\ Framed
    BY <1>1, <1>3, <1>4, <2>7
    DEF Framed, ModeInvariant, Unseen, SameState, SameMode, SamePlace, SameRunner
  <2>8. CASE Heard("end") /\ Ended
    BY <1>1, <1>3, <1>4, <2>8 DEF Ended, Completes, ModeInvariant, SameMode, SameRunner
  <2>9. CASE Heard("required") /\ Required
    BY <1>1, <1>3, <1>4, <2>9 DEF Required
  <2>10. CASE Heard("output") /\ Printed
    <3>1. CASE Unmoved
      BY <1>3, <3>1
    <3>2. CASE Healed /\ Unseen /\ client.state \in {"live", "collecting"}
      BY <1>4, <3>2
    <3>3. CASE ~Unmoved /\ ~(Healed /\ Unseen /\ client.state \in {"live", "collecting"})
      <4>1. client.state # "legacy" => client.gen = gen
        BY <1>1, <2>10, Greeted
      <4> QED
        BY <1>1, <2>10, <3>3, <4>1
        DEF Printed, ModeInvariant, Unseen, SameState, SameMode, SamePlace, SameRunner
    <3> QED BY <3>1, <3>2, <3>3
  <2> QED BY <1>5, <2>1, <2>2, <2>3, <2>4, <2>5, <2>6, <2>7, <2>8, <2>9, <2>10 DEF Hears
<1>6. CASE TimedOut
  BY <1>6 DEF TimedOut, ModeInvariant
<1>7. CASE GaveUp
  BY <1>1, <1>7 DEF GaveUp, Subscribed, SameMode, ModeInvariant
<1>8. CASE Lost
  BY <1>1, <1>8 DEF Lost, Unlinked, SameState, SameMode, SamePlace, ModeInvariant
<1>9. CASE Connected
  BY <1>1, <1>9 DEF Connected, SameState, SameMode, SamePlace, ModeInvariant
<1> QED BY <1>1, <1>2, <1>5, <1>6, <1>7, <1>8, <1>9, Steps

\* What is said keeps a queue's head, and its calm if it is calm.
LEMMA HeadKept ==
    ASSUME NEW t \in Seq(Message), Told(t), Len(down) > 0
    PROVE  Len(down') > 0 /\ down'[1] = down[1]
<1>1. CASE ~link
  BY <1>1 DEF Told
<1>2. CASE link
  <2>1. Len(down) \in Nat /\ Len(t) \in Nat /\ Len(down') = Len(down) + Len(t) /\ 1 \in 1..Len(down)
    BY <1>2 DEF Told
  <2>2. \A i \in 1..Len(down) : down'[i] = down[i]
    BY <1>2 DEF Told
  <2> QED BY <2>1, <2>2
<1> QED BY <1>1, <1>2

LEMMA Places ==
    ASSUME NEW m \in Nat, NEW n \in Nat, NEW i \in 1..m + n
    PROVE  i \in 1..m \/ \E j \in 1..n : i = m + j
<1>1. CASE i <= m
  BY <1>1
<1>2. CASE ~(i <= m)
  <2>1. i - m \in 1..n /\ i = m + (i - m)
    BY <1>2
  <2> QED BY <2>1
<1> QED BY <1>1, <1>2

LEMMA NoisyTold ==
    ASSUME NEW t \in Seq(Message), Told(t), Noisy, \A i \in 1..Len(t) : t[i].type \in Noise
    PROVE  Noisy'
<1>1. CASE ~link
  BY <1>1 DEF Told, Noisy
<1>2. CASE link
  <2>1. Len(down) \in Nat /\ Len(t) \in Nat /\ Len(down') = Len(down) + Len(t)
    BY <1>2 DEF Told
  <2>2. \A i \in 1..Len(down') : i \in 1..Len(down) \/ \E j \in 1..Len(t) : i = Len(down) + j
    BY <2>1, Places
  <2>3. /\ \A i \in 1..Len(down) : down'[i] = down[i]
        /\ \A j \in 1..Len(t) : down'[Len(down) + j] = t[j]
    BY <1>2 DEF Told
  <2> QED BY <2>2, <2>3 DEF Noisy
<1> QED BY <1>1, <1>2

LEMMA NoisyHeard ==
    ASSUME Noisy, NEW type, Heard(type)
    PROVE  Noisy' /\ type \in Noise
<1>1. \A i \in 1..Len(down') : i + 1 \in 1..Len(down) /\ down'[i] = down[i + 1]
  BY DEF Heard
<1>2. 1 \in 1..Len(down) /\ down[1].type = type
  BY DEF Heard
<1> QED BY <1>1, <1>2 DEF Noisy

LEMMA OneSaid ==
    ASSUME NEW type \in {"hello", "reconciled", "mismatch", "begin", "frame", "end",
                         "output", "proof", "required", "failed"}, NEW n \in Nat
    PROVE  /\ <<Say(type, n)>> \in Seq(Message) /\ Len(<<Say(type, n)>>) = 1
           /\ <<Say(type, n)>>[1] = Say(type, n)
           /\ Say(type, n).type = type /\ Say(type, n).n = n
  BY Messages DEF Say

LEMMA NoisySaid ==
    ASSUME Noisy, NEW type \in Noise, NEW n \in Nat, Told(<<Say(type, n)>>)
    PROVE  Noisy'
<1> DEFINE t == <<Say(type, n)>>
<1>1. t \in Seq(Message) /\ Len(t) = 1 /\ t[1].type = type
  BY OneSaid DEF Noise
<1>2. Told(t)
  OBVIOUS
<1> HIDE DEF t
<1>3. \A i \in 1..Len(t) : t[i].type \in Noise
  BY <1>1
<1> QED BY <1>1, <1>2, <1>3, NoisyTold

\* Every step of the runner keeps what its socket's queue begins with.
LEMMA ServesHead ==
    ASSUME Base, Serves, Len(down) > 0
    PROVE  Len(down') > 0 /\ down'[1] = down[1]
<1>1. CASE down' = down
  BY <1>1
<1>2. ASSUME NEW type \in {"hello", "reconciled", "mismatch", "begin", "frame", "end",
                           "output", "proof", "required", "failed"}, NEW n \in Nat,
             Told(<<Say(type, n)>>)
      PROVE  Len(down') > 0 /\ down'[1] = down[1]
  <2> DEFINE t == <<Say(type, n)>>
  <2>1. t \in Seq(Message) /\ Told(t)
    BY <1>2, OneSaid
  <2> HIDE DEF t
  <2> QED BY <2>1, HeadKept
<1>3. last \in Nat /\ last + 1 \in Nat /\ gen \in Nat /\ sub.dto \in Nat
  <2>1. last \in Nat /\ gen \in Nat /\ sub \in Sub
    BY TypedParts DEF Base, Parts
  <2> QED BY <2>1 DEF Sub
<1>4. CASE Produced \/ Captured \/ Unrendered \/ Unproven \/ Identified
  BY <1>1, <1>2, <1>3, <1>4 DEF Produced, Captured, Unrendered, Unproven, Identified
<1>5. CASE Rendered
  <2>1. Say("frame", sub.dto) \in Message /\ Say("required", 0) \in Message
    BY <1>3, Messages
  <2>2. <<Say("frame", sub.dto), Say("required", 0)>> \in Seq(Message)
    BY <2>1
  <2>3. \E t \in Seq(Message) : Told(t)
    BY <1>5, <2>2 DEF Rendered
  <2> QED BY <2>3, HeadKept
<1>6. CASE Asks
  <2>1. <<Say("begin", 0), Say("end", 1)>> \in Seq(Message)
    BY DEF Say, Message
  <2>2. down' = down \/ \E t \in Seq(Message) : Told(t)
    BY <1>6, <2>1 DEF Asks, Answer
  <2> QED BY <1>1, <2>2, HeadKept
<1> QED BY <1>4, <1>5, <1>6 DEF Serves

LEMMA SocketServes ==
    ASSUME AttachInvariant, Serves
    PROVE  SocketInvariant'
<1>1. Base /\ SocketInvariant
  BY DEF AttachInvariant
<1>2. UNCHANGED <<gen, link, client>>
  BY DEF Serves, Produced, Captured, Rendered, Unrendered, Unproven, Asks, Identified, runner
<1>3. Len(down) > 0 => Len(down') > 0 /\ down'[1] = down[1]
  BY <1>1, ServesHead
<1>4. ASSUME link, client.state = "reconciling"
      PROVE  sub' = NoSub /\ Noisy' /\ \A i \in 1..Len(up') : up'[i].type = "reconcile"
  <2>1. /\ sub = NoSub /\ Noisy /\ \A i \in 1..Len(up) : up[i].type = "reconcile"
        /\ sub.pc = "idle" /\ ~sub.owns
    BY <1>1, <1>4 DEF SocketInvariant, NoSub
  <2>2. last + 1 \in Nat /\ gen \in Nat
    BY <1>1 DEF Base, Typed, TypeOK
  <2>3. CASE Produced
    <3>1. sub' = sub /\ Told(<<Say("output", last + 1)>>) /\ up' = up
      BY <2>1, <2>3 DEF Produced
    <3>2. Noisy'
      BY <2>1, <2>2, <3>1, NoisySaid DEF Noise
    <3> QED BY <2>1, <3>1, <3>2
  <2>4. CASE Identified
    <3>1. PICK type \in {"reconciled", "mismatch"} : Told(<<Say(type, gen)>>)
      BY <2>4 DEF Identified
    <3>2. Noisy'
      BY <2>1, <2>2, <3>1, NoisySaid DEF Noise
    <3>3. \A i \in 1..Len(up') : i + 1 \in 1..Len(up) /\ up'[i] = up[i + 1]
      BY <2>4 DEF Identified, Taken
    <3> QED BY <2>1, <2>4, <3>2, <3>3 DEF Identified
  <2>5. CASE Asks
    <3>1. 1 \in 1..Len(up) /\ up[1].type = "subscribe"
      BY <2>5 DEF Asks, Taken
    <3> QED BY <2>1, <3>1
  <2>6. ~Captured /\ ~Rendered /\ ~Unrendered /\ ~Unproven
    BY <2>1 DEF Captured, Rendered, Unrendered, Unproven
  <2> QED BY <2>3, <2>4, <2>5, <2>6 DEF Serves
<1> QED BY <1>1, <1>2, <1>3, <1>4 DEF SocketInvariant

LEMMA SocketHears ==
    ASSUME AttachInvariant, Hears
    PROVE  SocketInvariant'
<1>1. /\ Base /\ ModeInvariant /\ SocketInvariant /\ client.state \in States
      /\ gen \in Nat \ {0}
  BY TypedParts DEF AttachInvariant, Base, Parts, Client
<1>2. PICK type : Heard(type)
  BY DEF Hears
<1>3. link /\ link' = link /\ UNCHANGED <<gen, last, evicted, sub>>
  BY <1>2 DEF Heard
<1>4. client'.state # "legacy" => client'.gen = gen /\ client.state # "legacy"
  <2>1. CASE Heard("hello") /\ Hello
    BY <2>1 DEF Hello, Unmoved, SameState
  <2>2. ASSUME NEW u, u # "hello", Heard(u)
        PROVE  client'.state # "legacy" => client'.gen = gen /\ client.state # "legacy"
    <3>1. client.state # "legacy" => client.gen = gen
      BY <1>1, <1>2, <2>2, Greeted
    <3>2. client.state = "legacy" => Unmoved
      BY <2>2
      DEF Hears, Hello, Reconciled, Mismatched, Failed, Proven, Begun, Framed, Ended,
          Completes, Required, Printed, Waits
    <3>3. \/ client'.state = "legacy" \/ client'.gen = client.gen \/ client'.gen = gen
      BY <2>2
      DEF Hears, Hello, Reconciled, Mismatched, Failed, Proven, Begun, Framed, Ended,
          Completes, Required, Printed, Unmoved, Healed, Subscribed, SameRunner
    <3>4. client.state = "legacy" => client'.state = "legacy"
      BY <3>2 DEF Unmoved
    <3> QED BY <3>1, <3>3, <3>4
  <2> QED BY <2>1, <2>2 DEF Hears
<1>5. client'.state \notin {"reconciling", "legacy"} => client'.high = 0
  <2>1. client.state \notin {"reconciling", "legacy"} => client.high = 0
    BY <1>1, <1>3 DEF SocketInvariant
  <2> QED
    BY <1>1, <2>1
    DEF Hears, Hello, Reconciled, Mismatched, Failed, Proven, Begun, Framed, Ended, Completes,
        Required, Printed, Unmoved, Healed, Subscribed, SamePlace, SameState, Waits
<1>6. ASSUME client'.state = "reconciling"
      PROVE  /\ sub' = NoSub /\ Noisy' /\ client'.from # 0
             /\ \A i \in 1..Len(up') : up'[i].type = "reconcile"
  <2>1. client.state = "reconciling"
    BY <1>1, <1>6
    DEF Hears, Hello, Reconciled, Mismatched, Failed, Proven, Begun, Framed, Ended, Completes,
        Required, Printed, Unmoved, Healed, Subscribed, SameState, Waits
  <2>2. /\ sub = NoSub /\ Noisy /\ client.from # 0
        /\ \A i \in 1..Len(up) : up[i].type = "reconcile"
    BY <1>1, <1>3, <2>1 DEF SocketInvariant
  <2>3. Noisy'
    BY <1>2, <2>2, NoisyHeard
  <2>4. client'.from = client.from
    BY <1>6, <2>1
    DEF Hears, Hello, Reconciled, Mismatched, Failed, Proven, Begun, Framed, Ended, Completes,
        Required, Printed, Unmoved, Healed, Subscribed, SameRunner, Waits
  <2>5. up' = up \/ Asked(<<Reconcile(gen)>>)
    BY <1>6, <2>1
    DEF Hears, Hello, Reconciled, Mismatched, Failed, Proven, Begun, Framed, Ended, Completes,
        Required, Printed, Unmoved, Healed, Subscribed, Waits
  <2>6. CASE Asked(<<Reconcile(gen)>>)
    <3> DEFINE t == <<Reconcile(gen)>>
    <3>1. Asked(t) /\ Len(t) = 1 /\ t[1].type = "reconcile"
      BY <2>6 DEF Reconcile
    <3> HIDE DEF t
    <3>2. Len(up) \in Nat /\ Len(up') = Len(up) + 1
      BY <3>1 DEF Asked
    <3>3. \A i \in 1..Len(up') : i \in 1..Len(up) \/ i = Len(up) + 1
      BY <3>2
    <3>4. /\ \A i \in 1..Len(up) : up'[i] = up[i]
          /\ up'[Len(up) + 1] = t[1]
      BY <3>1 DEF Asked
    <3> QED BY <1>3, <2>2, <2>3, <2>4, <3>1, <3>3, <3>4
  <2> QED BY <1>3, <2>2, <2>3, <2>4, <2>5, <2>6
<1> QED BY <1>3, <1>4, <1>5, <1>6 DEF SocketInvariant

LEMMA SocketStep ==
    ASSUME AttachInvariant, [Next]_vars
    PROVE  SocketInvariant'
<1>1. Base /\ ModeInvariant /\ SocketInvariant /\ client.state \in States /\ Parts
  BY TypedParts DEF AttachInvariant, Base, Parts, Client
<1>2. CASE TimedOut
  BY <1>2 DEF TimedOut, SocketInvariant
<1>3. CASE GaveUp
  <2>1. /\ client'.state = "resyncing" /\ client'.high = 0 /\ client'.gen = client.gen
        /\ UNCHANGED <<gen, link, down>> /\ link /\ client.state = "reconciling"
    BY <1>3 DEF GaveUp, Subscribed, runner
  <2> QED BY <1>1, <2>1 DEF SocketInvariant
<1>4. CASE Lost
  BY <1>4 DEF Lost, Unlinked, SocketInvariant
<1>5. CASE Connected
  <2>1. /\ sub' = NoSub /\ down' = <<Say("hello", gen)>> /\ gen' = gen
    BY <1>5 DEF Connected, runner
  <2>2. Len(down') = 1 /\ down'[1].type = "hello" /\ Noisy'
    BY <2>1 DEF Say, Noisy, Noise
  <2>3. client'.state \notin {"reconciling", "legacy"} => client'.high = 0
    BY <1>1, <1>5 DEF Connected, ModeInvariant, SamePlace, SameState, Parts, Client
  <2>4. client'.state = "reconciling" =>
           /\ client'.from = (IF client.atDrop = 0 THEN client.gen ELSE client.atDrop)
           /\ client.mode = "protocol" /\ up' = <<Reconcile(client.inst)>>
    BY <1>1, <1>5 DEF Connected, ModeInvariant, SameState
  <2>5. client'.state = "reconciling" =>
           /\ client'.from # 0 /\ \A i \in 1..Len(up') : up'[i].type = "reconcile"
    <3>1. ASSUME NEW n
          PROVE  \A i \in 1..Len(<<Reconcile(n)>>) : <<Reconcile(n)>>[i].type = "reconcile"
      BY DEF Reconcile
    <3>2. client.mode = "protocol" => client.gen # 0
      BY <1>1 DEF ModeInvariant
    <3> QED BY <2>4, <3>1, <3>2
  <2> QED BY <2>1, <2>2, <2>3, <2>5 DEF SocketInvariant
<1>6. CASE UNCHANGED vars
  <2>1. UNCHANGED <<gen, last, evicted, sub, link, up, down, client>>
    BY <1>6 DEF vars
  <2> QED BY <1>1, <2>1 DEF SocketInvariant, Noisy
<1> QED BY <1>1, <1>2, <1>3, <1>4, <1>5, <1>6, SocketServes, SocketHears, Steps

----------------------------------------------------------------------------
(* The screen.                                                             *)

\* What an answer's places hold.
LEMMA WithinCases ==
    ASSUME NEW i \in Int, NEW b \in Int, NEW d \in Nat, NEW e \in Nat, d <= e,
           Within(i, b, d, e)
    PROVE  /\ i < b => down[i].type \in Noise
           /\ i = b => down[i] = Say("begin", d)
           /\ i = b + 1 /\ d = 0 => down[i] = Say("end", 1)
           /\ i = b + 1 /\ d > 0 => down[i] = Say("frame", d)
           /\ i > b + 1 /\ d > 0 /\ i - b <= e - d + 1 => down[i] = Say("output", d + (i - b) - 1)
           /\ i > b + 1 /\ d > 0 /\ i - b = e - d + 2 => down[i] = Say("end", e + 1)
           /\ i > b + 1 /\ d = 0 => down[i].type \in {"output", "proof"}
           /\ i > b + 1 /\ i - b > e - d + 2 /\ d > 0 => down[i].type \in {"output", "proof"}
<1> DEFINE k == i - b
<1>1. /\ k \in Int /\ (i < b <=> k < 0) /\ (i = b <=> k = 0) /\ (i = b + 1 <=> k = 1)
      /\ (i > b + 1 <=> k > 1) /\ (d = 0 \/ d > 0)
  OBVIOUS
<1>2. \/ k < 0 /\ down[i].type \in Noise
      \/ k = 0 /\ down[i] = Say("begin", d)
      \/ k = 1 /\ d = 0 /\ down[i] = Say("end", 1)
      \/ k = 1 /\ d > 0 /\ down[i] = Say("frame", d)
      \/ k > 1 /\ d > 0 /\ k <= e - d + 1 /\ down[i] = Say("output", d + k - 1)
      \/ k > 1 /\ d > 0 /\ k = e - d + 2 /\ down[i] = Say("end", e + 1)
      \/ k > 1 /\ d = 0 /\ down[i].type \in {"output", "proof"}
      \/ k > e - d + 2 /\ d > 0 /\ down[i].type \in {"output", "proof"}
  BY DEF Within
<1>3. (i - b > e - d + 2 <=> k > e - d + 2) /\ (k > e - d + 2 => k > 2)
  OBVIOUS
<1> QED BY <1>1, <1>2

\* A client without a screen of the current runner hears no proof of coverage.
LEMMA NoProofYet ==
    ASSUME Base, SessionInvariant, trouble = {}, client.state = "resyncing", screen.gen # gen,
           Heard("proof")
    PROVE  FALSE
<1>1. /\ link /\ down[1].type = "proof" /\ Len(down) \in Nat \ {0} /\ 1 \in 1..Len(down)
  BY DEF Heard
<1>2. ~Noisy
  BY <1>1 DEF Noisy, Noise
<1>3. ASSUME NEW b \in Int, NEW d \in Nat, NEW e \in Nat, Answered(b, d, e)
      PROVE  FALSE
  <2>1. b > 0
    BY <1>3 DEF Answered, Took
  <2>2. ~Within(1, b, d, e)
    <3>1. (1 < b \/ 1 = b) /\ d <= e
      BY <1>3, <2>1 DEF Answered
    <3>2. Say("begin", d).type = "begin"
      BY DEF Say
    <3>3. ASSUME Within(1, b, d, e) PROVE FALSE
      <4>1. (1 < b => down[1].type \in Noise) /\ (1 = b => down[1] = Say("begin", d))
        BY <3>1, <3>3, WithinCases
      <4> QED BY <1>1, <3>1, <3>2, <4>1 DEF Noise
    <3> QED BY <3>3
  <2>3. CASE \A i \in 1..Len(down) : Within(i, b, d, e)
    BY <1>1, <2>2, <2>3
  <2>4. CASE /\ \A i \in 1..Len(down) - 1 : Within(i, b, d, e)
             /\ down[Len(down)].type \in {"failed", "required"}
    <3>1. Len(down) # 1
      BY <1>1, <2>4
    <3>2. 1 \in 1..Len(down) - 1
      <4>1. PICK n \in Nat : n = Len(down) /\ n # 0
        BY <1>1
      <4>2. n > 1
        BY <3>1, <4>1
      <4>3. 1 \in 1..n - 1
        BY <4>2
      <4> QED BY <4>1, <4>3
    <3> QED BY <2>2, <2>4, <3>2
  <2> QED BY <1>3, <2>3, <2>4 DEF Answered
<1>4. Asking \/ Preparing \/ \E b \in Int, d, e \in Nat : Answered(b, d, e)
  BY <1>1 DEF SessionInvariant
<1> QED BY <1>2, <1>3, <1>4 DEF Asking, Preparing

LEMMA Largest ==
    ASSUME NEW m \in Nat, NEW n \in Nat
    PROVE  /\ Larger(m, n) \in Nat /\ Larger(m, n) >= m /\ Larger(m, n) >= n
           /\ Larger(m, n) = m \/ Larger(m, n) = n
           /\ Larger(m, 0) = m /\ Larger(0, 0) = 0
  BY DEF Larger

LEMMA ScreenHears ==
    ASSUME AttachInvariant, Hears
    PROVE  ScreenInvariant'
<1>1. /\ Base /\ ModeInvariant /\ SocketInvariant /\ ScreenInvariant /\ SessionInvariant
      /\ client.state \in States /\ gen \in Nat \ {0}
      /\ client.seq \in Nat /\ client.high \in Nat /\ screen.upto \in Nat
  BY TypedParts DEF AttachInvariant, Base, Parts, Client, Screen
<1>2. PICK type : Heard(type)
  BY DEF Hears
<1>3. link /\ link' = link /\ gen' = gen
  BY <1>2 DEF Heard
<1>4. ASSUME Unmoved PROVE ScreenInvariant'
  <2>1. UNCHANGED <<client, screen, trouble>>
    BY <1>4 DEF Unmoved
  <2>2. Believed' = Believed
    BY <1>3, <2>1 DEF Believed
  <2> QED BY <1>1, <1>3, <2>1, <2>2 DEF ScreenInvariant
<1> DEFINE Mine == link /\ client.state \notin {"reconciling", "legacy"}
<1>5. ASSUME Mine PROVE Believed = gen /\ client.high = 0
  BY <1>1, <1>5 DEF Believed, SocketInvariant
<1>6. ASSUME client'.state \notin {"reconciling", "legacy"} PROVE Believed' = gen
  BY <1>3, <1>6 DEF Believed
<1>7. ASSUME Mine, Unseen, client'.state \notin {"live", "reconciling"},
             SamePlace, client'.gen \in {client.gen, gen}
      PROVE  ScreenInvariant'
  <2>1. CASE client'.state # "legacy"
    <3>1. Believed = gen /\ Believed' = gen
      BY <1>5, <1>6, <1>7, <2>1
    <3> QED BY <1>1, <1>3, <1>7, <2>1, <3>1 DEF ScreenInvariant, Unseen, SamePlace
  <2>2. CASE client'.state = "legacy"
    BY <2>2 DEF ScreenInvariant
  <2> QED BY <2>1, <2>2
<1>8. ASSUME Healed, Unseen, client.state \notin {"reconciling", "legacy"} PROVE ScreenInvariant'
  BY <1>3, <1>7, <1>8 DEF Healed, SameRunner
<1>9. ASSUME SameState, client.state # "legacy", SamePlace, UNCHANGED <<screen, trouble>>,
             client'.gen \in {client.gen, gen}, client'.from = client.from
      PROVE  ScreenInvariant'
  <2>1. Believed' = Believed
    BY <1>3, <1>9 DEF Believed, SameState
  <2> QED BY <1>1, <1>3, <1>9, <2>1 DEF ScreenInvariant, SamePlace, SameState
<1>10. CASE Heard("hello") /\ Hello
  BY <1>4, <1>9, <1>10 DEF Hello
<1>11. CASE Heard("reconciled") /\ Reconciled
  <2>1. CASE Unmoved
    BY <1>4, <2>1
  <2> DEFINE cursor == Larger(client.seq, client.high)
  <2>2. CASE client.state = "reconciling" /\ ~Unmoved
    <3>1. client.from # 0 /\ Believed = client.from
      BY <1>1, <1>3, <2>2 DEF SocketInvariant, Believed
    <3>2. /\ UNCHANGED <<screen, trouble>> /\ client'.state = "resyncing" /\ client'.gen = gen
          /\ client'.high = 0
          /\ \/ gen # client.from /\ client'.seq = 0
             \/ gen = client.from /\ client'.seq = cursor
      BY <1>11, <2>2, <3>1 DEF Reconciled, Subscribed
    <3>3. Believed' = gen
      BY <1>6, <3>2
    <3>4. /\ Larger(cursor, 0) = cursor /\ cursor \in Nat
          /\ (client.seq = 0 /\ client.high = 0 => cursor = 0)
      BY <1>1, Largest
    <3> HIDE DEF cursor
    <3>5. trouble = {} =>
            /\ screen.gen = gen => Believed = gen /\ screen.exact /\ screen.upto = cursor
            /\ screen.gen # gen /\ Believed = gen => cursor = 0
      BY <1>1, <2>2, <3>4 DEF ScreenInvariant, cursor
    <3>6. ASSUME trouble' = {}
          PROVE  /\ screen.gen = gen =>
                        screen.exact /\ screen.upto = Larger(client'.seq, client'.high)
                 /\ screen.gen # gen => client'.seq = 0
      BY <3>1, <3>2, <3>4, <3>5, <3>6
    <3> QED BY <1>3, <3>2, <3>3, <3>6 DEF ScreenInvariant
  <2> QED BY <1>11, <2>1, <2>2 DEF Reconciled
<1>12. CASE Heard("mismatch") /\ Mismatched
  BY <1>4, <1>9, <1>12 DEF Mismatched, SameRunner
<1>13. CASE Heard("failed") /\ Failed
  BY <1>4, <1>8, <1>13 DEF Failed
<1>14. CASE Heard("required") /\ Required
  BY <1>4, <1>8, <1>14 DEF Required
<1>15. CASE Heard("proof") /\ Proven
  <2>1. CASE Unmoved
    BY <1>4, <2>1
  <2>2. CASE ~Unmoved
    <3>1. /\ Unseen /\ client.state = "resyncing" /\ client'.state = "live"
          /\ SamePlace /\ SameRunner
      BY <1>15, <2>2 DEF Proven
    <3>2. Believed = gen /\ Believed' = gen
      BY <1>3, <1>5, <1>6, <3>1
    <3>3. trouble = {} => screen.gen = gen
      BY <1>1, <1>15, <3>1, NoProofYet
    <3> QED
      BY <1>1, <1>3, <3>1, <3>2, <3>3 DEF ScreenInvariant, Unseen, SamePlace, SameRunner
  <2> QED BY <2>1, <2>2
<1>16. CASE Heard("begin") /\ Begun
  <2>1. CASE Unmoved
    BY <1>4, <2>1
  <2>2. CASE Healed /\ Unseen /\ client.state \in {"live", "collecting"}
    BY <1>8, <2>2
  <2>3. CASE Waits /\ client'.state = "collecting" /\ Unseen /\ SamePlace /\ client'.gen = gen
    BY <1>3, <1>7, <2>3 DEF Waits
  <2>4. CASE /\ client.state = "reconciling" /\ Unseen /\ SamePlace /\ client'.gen = gen
             /\ SameState /\ client'.from = client.from
    BY <1>9, <2>4 DEF Unseen
  <2> QED BY <1>16, <2>1, <2>2, <2>3, <2>4 DEF Begun
<1>17. CASE Heard("frame") /\ Framed
  BY <1>1, <1>4, <1>8, <1>9, <1>17 DEF Framed, Unseen, SameRunner
<1>18. CASE Heard("end") /\ Ended
  <2>1. CASE Completes
    <3>1. client.gen = gen /\ client.high = 0
      BY <1>1, <1>3, <1>5, <1>18, <2>1, Greeted DEF Completes
    <3>2. client'.state = "live" /\ client'.gen = gen /\ client'.high = 0 /\ client'.seq = N - 1
      BY <2>1, <3>1 DEF Completes, SameRunner
    <3>3. Believed' = gen
      BY <1>6, <3>2
    <3>4. N - 1 \in Nat
      <4>1. Heard("end") /\ client.state = "collecting" /\ Complete(client.part)
        BY <1>18, <2>1 DEF Completes
      <4> QED BY <1>1, <4>1, Finishing
    <3>5. Larger(client'.seq, client'.high) = N - 1
      BY <3>2, <3>4, Largest
    <3>6. trouble' = {} => screen'.gen = gen /\ screen'.exact /\ screen'.upto = N - 1
      BY <2>1 DEF Completes
    <3> QED BY <1>3, <3>2, <3>3, <3>5, <3>6 DEF ScreenInvariant
  <2> QED BY <1>4, <1>8, <1>18, <2>1 DEF Ended
<1>19. CASE Heard("output") /\ Printed
  <2>1. CASE Unmoved
    BY <1>4, <2>1
  <2>2. CASE Healed /\ Unseen /\ client.state \in {"live", "collecting"}
    BY <1>8, <2>2
  <2>3. CASE client.state = "collecting" /\ Unseen /\ SameState /\ SamePlace /\ SameRunner
    BY <1>9, <2>3 DEF Unseen, SameRunner
  <2>4. CASE /\ client.state \in {"live", "resyncing"} /\ N = client.seq + 1
             /\ client'.state = "live" /\ SameRunner /\ client'.seq = N
             /\ client'.high = client.high /\ Painted(N)
             /\ \/ client.state = "live" /\ trouble' = trouble
                \/ client.state = "resyncing" /\ Spoils("early chunk", screen.gen # gen)
    <3>1. Believed = gen /\ Believed' = gen /\ client.high = 0
      BY <1>3, <1>5, <1>6, <2>4
    <3>2. ASSUME trouble' = {}
          PROVE  /\ screen'.gen = gen /\ client'.gen = gen /\ screen'.exact /\ screen'.upto = N
      <4>1. trouble = {} /\ screen.gen = gen
        BY <1>1, <1>3, <2>4, <3>2 DEF Spoils, ScreenInvariant
      <4>2. client.gen = gen /\ screen.exact /\ screen.upto = Larger(client.seq, client.high)
        BY <1>1, <2>4, <4>1 DEF ScreenInvariant
      <4>3. screen.upto = client.seq
        BY <1>1, <3>1, <4>2, Largest
      <4> QED BY <2>4, <4>1, <4>2, <4>3 DEF Painted, SameRunner
    <3>3. N \in Nat
      BY <1>19 DEF Heard
    <3>4. Larger(client'.seq, client'.high) = N
      BY <2>4, <3>1, <3>3, Largest
    <3> QED BY <1>3, <2>4, <3>1, <3>2, <3>4 DEF ScreenInvariant
  <2>5. CASE /\ client.state = "reconciling" /\ SameState /\ SameRunner
             /\ client'.seq = client.seq /\ client'.high = Larger(client.high, N)
             /\ Painted(N)
             /\ Spoils("skipped strays", IF screen.gen = gen THEN N # screen.upto + 1
                                                             ELSE client.from = gen)
    <3>1. Believed = client.from /\ Believed' = client.from
      BY <1>3, <2>5 DEF Believed, SameState, SameRunner
    <3>2. trouble' = {} => /\ trouble = {}
                           /\ screen.gen = gen => N = screen.upto + 1
                           /\ screen.gen # gen => client.from # gen
      BY <2>5 DEF Spoils
    <3>3. N \in Nat
      BY <1>19 DEF Heard
    <3>4. ASSUME trouble' = {}, screen.gen = gen
          PROVE  /\ Believed = gen /\ client'.gen = gen /\ screen'.exact /\ screen'.gen = gen
                 /\ screen'.upto = Larger(client'.seq, client'.high)
      <4>1. /\ Believed = gen /\ client.gen = gen /\ screen.exact
            /\ screen.upto = Larger(client.seq, client.high)
        BY <1>1, <2>5, <3>2, <3>4 DEF ScreenInvariant
      <4>2. screen'.upto = N /\ screen'.exact /\ screen'.gen = gen
        BY <2>5, <3>2, <3>4, <4>1 DEF Painted
      <4>3. N > client.seq /\ N > client.high
        <5>1. N = Larger(client.seq, client.high) + 1
          BY <3>2, <3>4, <4>1
        <5>2. /\ Larger(client.seq, client.high) >= client.seq
              /\ Larger(client.seq, client.high) >= client.high
              /\ Larger(client.seq, client.high) \in Nat
          BY <1>1, Largest
        <5> QED BY <1>1, <5>1, <5>2
      <4>4. Larger(client.seq, Larger(client.high, N)) = N
        BY <1>1, <3>3, <4>3 DEF Larger
      <4> QED BY <2>5, <4>1, <4>2, <4>4 DEF SameRunner
    <3>5. screen'.gen = screen.gen /\ client'.state = "reconciling"
      BY <2>5 DEF Painted, SameState
    <3> QED BY <1>3, <3>1, <3>2, <3>4, <3>5 DEF ScreenInvariant
  <2> QED BY <1>19, <2>1, <2>2, <2>3, <2>4, <2>5 DEF Printed, SameState
<1> QED
  BY <1>10, <1>11, <1>12, <1>13, <1>14, <1>15, <1>16, <1>17, <1>18, <1>19 DEF Hears

LEMMA ScreenStep ==
    ASSUME AttachInvariant, [Next]_vars
    PROVE  ScreenInvariant'
<1>1. /\ Base /\ ModeInvariant /\ SocketInvariant /\ ScreenInvariant
      /\ client.state \in States /\ client.mode \in {"undecided", "protocol", "legacy"}
      /\ gen \in Nat \ {0} /\ client.gen \in 0..gen /\ client.atDrop \in 0..gen
      /\ client.seq \in Nat /\ client.high \in Nat /\ screen.gen \in 0..gen
  BY TypedParts DEF AttachInvariant, Base, Parts, Client, Screen
<1>2. CASE Serves \/ UNCHANGED vars
  <2>1. UNCHANGED <<gen, link, client, screen, trouble>>
    BY <1>2
    DEF Serves, Produced, Captured, Rendered, Unrendered, Unproven, Asks, Identified, runner,
        vars
  <2>2. Believed' = Believed
    BY <2>1 DEF Believed
  <2> QED BY <1>1, <2>1, <2>2 DEF ScreenInvariant
<1>3. CASE TimedOut
  BY <1>3 DEF TimedOut, ScreenInvariant
<1>4. CASE GaveUp
  <2> DEFINE cursor == Larger(client.seq, client.high)
  <2>1. /\ link /\ client.state = "reconciling" /\ client'.state = "resyncing"
        /\ client'.seq = cursor /\ client'.high = 0 /\ client'.gen = client.gen
        /\ link' = link /\ gen' = gen /\ screen' = screen
        /\ Spoils("foreign cursor", screen.gen # gen)
    BY <1>4 DEF GaveUp, Subscribed, runner
  <2>2. Believed' = gen /\ cursor \in Nat /\ Larger(cursor, 0) = cursor
    BY <1>1, <2>1, Largest DEF Believed
  <2>3. ASSUME trouble' = {}
        PROVE  screen.gen = gen /\ client.gen = gen /\ screen.exact /\ screen.upto = cursor
    <3>1. trouble = {} /\ screen.gen = gen
      BY <2>1, <2>3 DEF Spoils
    <3> QED BY <1>1, <2>1, <3>1 DEF ScreenInvariant
  <2> HIDE DEF cursor
  <2> QED BY <2>1, <2>2, <2>3 DEF ScreenInvariant
<1>5. CASE Lost
  <2>1. /\ link' = FALSE /\ screen' = screen
        /\ SameState /\ SameMode /\ SamePlace /\ client'.gen = client.gen
        /\ client'.atDrop = IF client.state = "legacy" \/ ~link \/ client.gen = 0
                            THEN client.atDrop ELSE client.gen
        /\ Spoils("lost baseline",
                  link /\ client.state = "reconciling" /\ client.gen # screen.gen)
        /\ gen' \in {gen, gen + 1}
    BY <1>5 DEF Lost, Unlinked, runner
  <2>2. SUFFICES ASSUME client.state # "legacy", trouble' = {}
                 PROVE  /\ screen.gen = gen' =>
                              /\ Believed' = gen' /\ client.gen = gen' /\ screen.exact
                              /\ screen.upto = Larger(client.seq, client.high)
                        /\ screen.gen # gen' /\ Believed' = gen' =>
                              client.seq = 0 /\ client.high = 0
    BY <2>1 DEF ScreenInvariant, SameState, SamePlace
  <2>3. trouble = {} /\ ~(link /\ client.state = "reconciling" /\ client.gen # screen.gen)
    BY <2>1, <2>2 DEF Spoils
  <2>4. CASE client.gen = 0
    <3>1. client.mode = "undecided"
      BY <1>1, <2>2, <2>4 DEF ModeInvariant
    <3>2. screen.gen = 0 /\ client.seq = 0 /\ client.high = 0
      BY <1>1, <3>1 DEF ModeInvariant
    <3>3. gen' # 0
      <4>1. gen \in Nat /\ gen # 0
        BY <1>1
      <4>2. gen' = gen \/ gen' = gen + 1
        BY <2>1
      <4> QED BY <4>1, <4>2
    <3> QED BY <3>2, <3>3
  <2>5. Believed' = IF client'.atDrop = 0 THEN client.gen ELSE client'.atDrop
    BY <2>1 DEF Believed
  <2>6. CASE gen' = gen + 1
    <3>1. Believed' \in 0..gen
      BY <1>1, <2>1, <2>5
    <3> QED BY <1>1, <2>6, <3>1
  <2>7. CASE gen' = gen /\ client.gen # 0 /\ link
    <3>1. Believed' = client.gen
      BY <2>1, <2>2, <2>5, <2>7
    <3>2. client.state # "reconciling" => Believed = gen
      BY <2>7 DEF Believed
    <3> QED BY <1>1, <2>2, <2>3, <2>7, <3>1, <3>2 DEF ScreenInvariant
  <2>8. CASE gen' = gen /\ ~link
    <3>1. Believed' = Believed
      BY <2>1, <2>5, <2>8 DEF Believed
    <3> QED BY <1>1, <2>2, <2>3, <2>8, <3>1 DEF ScreenInvariant
  <2> QED BY <2>1, <2>4, <2>6, <2>7, <2>8
<1>6. CASE Connected
  <2>1. /\ ~link /\ link' = TRUE /\ UNCHANGED <<gen, screen, trouble>>
        /\ SamePlace /\ client'.gen = client.gen
    BY <1>6 DEF Connected, runner
  <2>2. CASE client.mode = "protocol"
    <3>1. Believed' = Believed /\ client'.state = "reconciling"
      BY <1>6, <2>1, <2>2 DEF Connected, Believed
    <3>2. client.state # "legacy"
      BY <1>1, <2>2 DEF ModeInvariant
    <3> QED BY <1>1, <2>1, <3>1, <3>2 DEF ScreenInvariant, SamePlace
  <2>3. CASE client.mode = "undecided"
    <3>1. screen.gen = 0 /\ client.seq = 0 /\ client.high = 0
      BY <1>1, <2>3 DEF ModeInvariant
    <3>2. client'.state # "live"
      BY <1>1, <1>6, <2>3 DEF Connected, SameState, ModeInvariant
    <3> QED BY <1>1, <2>1, <3>1, <3>2 DEF ScreenInvariant, SamePlace
  <2>4. CASE client.mode = "legacy"
    <3>1. client'.state = "legacy"
      BY <1>1, <1>6, <2>4 DEF Connected, SameState, ModeInvariant
    <3> QED BY <3>1 DEF ScreenInvariant
  <2> QED BY <1>1, <2>2, <2>3, <2>4
<1> QED BY <1>1, <1>2, <1>3, <1>4, <1>5, <1>6, ScreenHears, Steps

----------------------------------------------------------------------------
(* A subscribe that resumes.                                               *)

Resuming(r) == r.type = "subscribe" /\ r.n > 0

\* Nothing that resumes is added.
SameResuming ==
    \A i \in 1..Len(up') :
        Resuming(up'[i]) => i \in 1..Len(up) /\ \A j \in 1..i : up'[j] = up[j]

LEMMA ResumingAsked ==
    ASSUME NEW t \in Seq(Request), Asked(t), \A i \in 1..Len(t) : ~Resuming(t[i])
    PROVE  SameResuming
<1>1. Len(up') = Len(up) + Len(t) /\ Len(up) \in Nat /\ Len(t) \in Nat
  BY DEF Asked
<1>2. ASSUME NEW i \in 1..Len(up'), Resuming(up'[i])
      PROVE  i \in 1..Len(up) /\ \A j \in 1..i : up'[j] = up[j]
  <2>0. i \in 1..Len(up) + Len(t)
    BY <1>1
  <2>1. i \in 1..Len(up) \/ \E j \in 1..Len(t) : i = Len(up) + j
    BY <1>1, <2>0, Places
  <2>2. ~\E j \in 1..Len(t) : i = Len(up) + j
    BY <1>2 DEF Asked
  <2>3. i \in 1..Len(up)
    BY <2>1, <2>2
  <2>4. \A j \in 1..i : j \in 1..Len(up)
    BY <2>3
  <2> QED BY <2>3, <2>4 DEF Asked
<1> QED BY <1>2 DEF SameResuming

LEMMA OneAsked ==
    ASSUME NEW r \in Request, Asked(<<r>>)
    PROVE  /\ ~Resuming(r) => SameResuming
           /\ Len(up') = Len(up) + 1 /\ Len(up) \in Nat /\ up'[Len(up) + 1] = r
           /\ \A i \in 1..Len(up) : up'[i] = up[i]
<1> DEFINE t == <<r>>
<1>1. t \in Seq(Request) /\ Len(t) = 1 /\ t[1] = r /\ Asked(t)
  OBVIOUS
<1> HIDE DEF t
<1>2. \A i \in 1..Len(t) : t[i] = r
  BY <1>1
<1>3. ~Resuming(r) => SameResuming
  BY <1>1, <1>2, ResumingAsked
<1>4. /\ Len(up') = Len(up) + 1 /\ Len(up) \in Nat /\ up'[Len(up) + 1] = r
      /\ \A i \in 1..Len(up) : up'[i] = up[i]
  BY <1>1 DEF Asked
<1> QED BY <1>3, <1>4

LEMMA NoneAsked ==
    ASSUME Asked(<<>>) \/ up' = up, Typed
    PROVE  /\ SameResuming
           /\ Len(up') = Len(up) /\ \A i \in 1..Len(up) : up'[i] = up[i]
<1>1. Len(up) \in Nat
  BY LenProperties DEF Typed
<1>2. Len(up') = Len(up) /\ \A i \in 1..Len(up) : up'[i] = up[i]
  BY <1>1 DEF Asked
<1>3. \A i \in 1..Len(up) : \A j \in 1..i : j \in 1..Len(up)
  BY <1>1
<1> QED BY <1>2, <1>3 DEF SameResuming

LEMMA CursorKept ==
    ASSUME CursorInvariant, SameResuming, sub' = sub, Noisy => Noisy',
           Noisy /\ trouble' = {} => trouble = {},
           Noisy /\ trouble' = {} /\ screen.gen = gen /\ screen.exact =>
              screen'.gen = gen' /\ screen'.exact /\ screen'.upto >= screen.upto,
           Typed, Typed'
    PROVE  CursorInvariant'
<1> SUFFICES ASSUME NEW i \in 1..Len(up'), Resuming(up'[i])
             PROVE  /\ sub' = NoSub /\ Noisy' /\ \A j \in 1..i - 1 : up'[j].type = "reconcile"
                    /\ trouble' = {} =>
                          screen'.gen = gen' /\ screen'.exact /\ screen'.upto >= up'[i].n
  BY DEF CursorInvariant, Resuming
<1>1. i \in 1..Len(up) /\ \A j \in 1..i : up'[j] = up[j]
  BY DEF SameResuming
<1>2. up'[i] = up[i] /\ up[i].type = "subscribe" /\ up[i].n > 0
  BY <1>1 DEF Resuming
<1>3. /\ sub = NoSub /\ Noisy /\ \A j \in 1..i - 1 : up[j].type = "reconcile"
      /\ trouble = {} => screen.gen = gen /\ screen.exact /\ screen.upto >= up[i].n
  BY <1>1, <1>2 DEF CursorInvariant
<1>4. \A j \in 1..i - 1 : up'[j].type = "reconcile"
  BY <1>1, <1>3
<1>5. screen.upto \in Nat /\ screen'.upto \in Nat /\ up[i].n \in Nat
  <2>1. screen \in Screen /\ screen' \in Screen' /\ up \in Seq(Request)
    BY TypedParts DEF Parts, Typed, TypeOK, Screen
  <2>2. up[i] \in Request
    BY <1>1, <2>1, ElementOfSeq
  <2> QED BY <2>1, <2>2 DEF Screen, Request
<1>6. ASSUME trouble' = {}
      PROVE  screen'.gen = gen' /\ screen'.exact /\ screen'.upto >= up'[i].n
  <2>1. /\ screen.gen = gen /\ screen.exact /\ screen.upto >= up[i].n
        /\ screen'.gen = gen' /\ screen'.exact /\ screen'.upto >= screen.upto
    BY <1>3, <1>6
  <2> QED BY <1>2, <1>5, <2>1
<1> QED BY <1>3, <1>4, <1>6

\* What the screen keeps of the current runner, a resuming subscribe can rest on.
ScreenKept ==
    /\ trouble' = {} => trouble = {}
    /\ trouble' = {} /\ screen.gen = gen /\ screen.exact =>
          screen'.gen = gen' /\ screen'.exact /\ screen'.upto >= screen.upto

LEMMA ScreenUnchanged ==
    ASSUME Base, UNCHANGED <<gen, screen, trouble>>
    PROVE  ScreenKept
<1>1. screen.upto \in Nat
  BY DEF Base, Typed, TypeOK
<1> QED BY <1>1 DEF ScreenKept

LEMMA CursorServes ==
    ASSUME AttachInvariant, Base', Serves
    PROVE  CursorInvariant'
<1>1. Base /\ CursorInvariant /\ Typed /\ Typed' /\ last + 1 \in Nat /\ gen \in Nat
  <2>1. Base /\ CursorInvariant /\ Typed /\ Typed'
    BY DEF AttachInvariant, Base
  <2>2. last \in Nat /\ gen \in Nat
    BY <2>1 DEF Typed, TypeOK
  <2> QED BY <2>1, <2>2
<1>2. UNCHANGED <<gen, screen, trouble>>
  BY DEF Serves, Produced, Captured, Rendered, Unrendered, Unproven, Asks, Identified, runner
<1>3. screen.upto \in Nat
  BY <1>1 DEF Typed, TypeOK
<1>4. CASE Produced
  <2>1. SameResuming
    BY <1>1, <1>4, NoneAsked DEF Produced
  <2>2. CASE sub' = sub /\ (Noisy => Noisy')
    BY <1>1, <1>2, <1>3, <2>1, <2>2, CursorKept
  <2>3. CASE ~(sub' = sub /\ (Noisy => Noisy'))
    <3>1. sub.owns
      BY <1>1, <1>4, <2>3, NoisySaid DEF Produced, Noise, Noisy
    <3>2. \A i \in 1..Len(up) : ~Resuming(up[i])
      BY <1>1, <3>1 DEF CursorInvariant, Resuming, NoSub
    <3> QED BY <1>4, <3>2 DEF Produced, CursorInvariant, Resuming
  <2> QED BY <2>2, <2>3
<1>5. CASE Captured \/ Rendered \/ Unrendered \/ Unproven
  <2>1. sub.pc # "idle" /\ up' = up
    BY <1>5 DEF Captured, Rendered, Unrendered, Unproven
  <2>2. \A i \in 1..Len(up) : ~Resuming(up[i])
    BY <1>1, <2>1 DEF CursorInvariant, Resuming, NoSub
  <2> QED BY <2>1, <2>2 DEF CursorInvariant, Resuming
<1>6. ASSUME NEW type, Taken(type)
      PROVE  \A i \in 1..Len(up') : up'[i] = up[i + 1] /\ i + 1 \in 1..Len(up) /\ 1 \in 1..i
  BY <1>6 DEF Taken
<1>7. CASE Asks
  <2>1. up[1].type = "subscribe"
    BY <1>7 DEF Asks, Taken
  <2>2. \A i \in 1..Len(up') : up'[i] = up[i + 1] /\ i + 1 \in 1..Len(up) /\ 1 \in 1..i
    BY <1>6, <1>7 DEF Asks
  <2>3. ASSUME NEW i \in 1..Len(up'), Resuming(up'[i]) PROVE FALSE
    <3>1. i + 1 \in 1..Len(up) /\ Resuming(up[i + 1]) /\ 1 \in 1..(i + 1) - 1
      BY <2>2, <2>3
    <3>2. \A j \in 1..(i + 1) - 1 : up[j].type = "reconcile"
      BY <1>1, <3>1 DEF CursorInvariant, Resuming
    <3> QED BY <2>1, <3>1, <3>2
  <2> QED BY <2>3 DEF CursorInvariant, Resuming
<1>8. CASE Identified
  <2>1. PICK type \in {"reconciled", "mismatch"} : Told(<<Say(type, gen)>>)
    BY <1>8 DEF Identified
  <2>2. Noisy => Noisy'
    BY <1>1, <2>1, NoisySaid DEF Noise
  <2>3. \A i \in 1..Len(up') : up'[i] = up[i + 1] /\ i + 1 \in 1..Len(up) /\ 1 \in 1..i
    BY <1>6, <1>8 DEF Identified
  <2>4. sub' = sub
    BY <1>8 DEF Identified
  <2>5. ASSUME NEW i \in 1..Len(up'), Resuming(up'[i])
        PROVE  /\ sub' = NoSub /\ Noisy' /\ \A j \in 1..i - 1 : up'[j].type = "reconcile"
               /\ trouble' = {} =>
                     screen'.gen = gen' /\ screen'.exact /\ screen'.upto >= up'[i].n
    <3>1. i + 1 \in 1..Len(up) /\ Resuming(up[i + 1]) /\ up'[i] = up[i + 1]
      BY <2>3, <2>5
    <3>2. /\ sub = NoSub /\ Noisy /\ \A j \in 1..(i + 1) - 1 : up[j].type = "reconcile"
          /\ trouble = {} => screen.gen = gen /\ screen.exact /\ screen.upto >= up[i + 1].n
      BY <1>1, <3>1 DEF CursorInvariant, Resuming
    <3>3. \A j \in 1..i - 1 : j \in 1..Len(up') /\ j + 1 \in 1..(i + 1) - 1
      OBVIOUS
    <3>4. \A j \in 1..i - 1 : up'[j].type = "reconcile"
      BY <2>3, <3>2, <3>3
    <3> QED BY <1>2, <2>2, <2>4, <3>1, <3>2, <3>4
  <2> QED BY <2>5 DEF CursorInvariant, Resuming
<1> QED BY <1>4, <1>5, <1>7, <1>8 DEF Serves

LEMMA ResumingSubscribe ==
    ASSUME AttachInvariant, Typed', NEW n \in Nat, Asked(<<Since(n)>>),
           sub' = sub, link, client.state = "reconciling", Noisy',
           trouble' = {} /\ n > 0 => screen'.gen = gen' /\ screen'.exact /\ screen'.upto >= n
    PROVE  CursorInvariant'
<1>1. sub = NoSub /\ \A i \in 1..Len(up) : up[i].type = "reconcile"
  BY DEF AttachInvariant, SocketInvariant
<1>2. Since(n) \in Request
  BY Requests
<1>3. /\ Len(up') = Len(up) + 1 /\ Len(up) \in Nat /\ up'[Len(up) + 1] = Since(n)
      /\ \A i \in 1..Len(up) : up'[i] = up[i]
  BY <1>2, OneAsked
<1> SUFFICES ASSUME NEW i \in 1..Len(up'), Resuming(up'[i])
             PROVE  /\ sub' = NoSub /\ Noisy' /\ \A j \in 1..i - 1 : up'[j].type = "reconcile"
                    /\ trouble' = {} =>
                          screen'.gen = gen' /\ screen'.exact /\ screen'.upto >= up'[i].n
  BY DEF CursorInvariant, Resuming
<1>4. i = Len(up) + 1
  <2>1. i \in 1..Len(up) \/ i = Len(up) + 1
    BY <1>3
  <2> QED BY <1>1, <1>3, <2>1 DEF Resuming
<1>5. \A j \in 1..i - 1 : up'[j].type = "reconcile"
  BY <1>1, <1>3, <1>4
<1>6. up'[i].n = n /\ n > 0
  BY <1>3, <1>4 DEF Since, Resuming
<1> QED BY <1>1, <1>5, <1>6

LEMMA CursorHears ==
    ASSUME AttachInvariant, Base', ScreenInvariant', Hears
    PROVE  CursorInvariant'
<1>1. /\ Base /\ SocketInvariant /\ ScreenInvariant /\ CursorInvariant /\ Typed /\ Typed'
      /\ client.state \in States /\ client.seq \in Nat /\ client.high \in Nat /\ gen \in Nat
  <2>1. /\ Base /\ SocketInvariant /\ ScreenInvariant /\ CursorInvariant /\ Typed /\ Typed'
    BY DEF AttachInvariant, Base
  <2>2. client.state \in States /\ client.seq \in Nat /\ client.high \in Nat /\ gen \in Nat
    BY <2>1, TypedParts DEF Parts, Client
  <2> QED BY <2>1, <2>2
<1>2. PICK type : Heard(type)
  BY DEF Hears
<1>3. link /\ link' = link /\ gen' = gen /\ sub' = sub
  BY <1>2 DEF Heard
<1>4. Noisy => Noisy'
  BY <1>2, NoisyHeard
<1>5. CASE Heard("reconciled") /\ Reconciled /\ client.state = "reconciling"
  <2> DEFINE cursor == Larger(client.seq, client.high)
  <2>1. client.from # 0 /\ Noisy /\ Believed = client.from
    BY <1>1, <1>3, <1>5 DEF SocketInvariant, Believed
  <2>2. CASE Subscribed(0, gen)
    <3>1. Asked(<<Since(0)>>) /\ ~(0 > 0)
      BY <2>2 DEF Subscribed
    <3> QED BY <1>1, <1>3, <1>4, <1>5, <2>1, <3>1, ResumingSubscribe
  <2>3. CASE Subscribed(cursor, gen) /\ gen = client.from
    <3>1. Asked(<<Since(cursor)>>) /\ UNCHANGED <<screen, trouble>> /\ cursor \in Nat
      BY <1>1, <1>5, <2>3, Largest DEF Subscribed, Reconciled
    <3>2. client.seq = 0 /\ client.high = 0 => cursor = 0
      BY Largest
    <3>3. trouble = {} =>
            /\ screen.gen = gen => screen.exact /\ screen.upto = cursor
            /\ screen.gen # gen => client.seq = 0 /\ client.high = 0
      BY <1>1, <1>5, <2>1, <2>3 DEF ScreenInvariant
    <3> HIDE DEF cursor
    <3>4. trouble' = {} /\ cursor > 0 =>
             screen'.gen = gen' /\ screen'.exact /\ screen'.upto >= cursor
      BY <1>3, <3>1, <3>2, <3>3
    <3> QED BY <1>3, <1>1, <1>4, <1>5, <2>1, <3>1, <3>4, ResumingSubscribe
  <2> QED BY <1>5, <2>1, <2>2, <2>3 DEF Reconciled, Unmoved
<1>6. CASE ~(Heard("reconciled") /\ Reconciled /\ client.state = "reconciling")
  <2>1. \/ up' = up \/ Asked(<<>>) \/ Asked(<<Fresh>>) \/ Asked(<<Reconcile(gen)>>)
    BY <1>6
    DEF Hears, Hello, Reconciled, Mismatched, Failed, Proven, Begun, Framed, Ended, Completes,
        Required, Printed, Unmoved, Healed
  <2>2. SameResuming
    <3>1. Fresh \in Request /\ ~Resuming(Fresh)
      BY Requests DEF Fresh, Resuming
    <3>2. Reconcile(gen) \in Request /\ ~Resuming(Reconcile(gen))
      BY <1>1, Requests DEF Reconcile, Resuming
    <3> QED BY <1>1, <2>1, <3>1, <3>2, NoneAsked, OneAsked
  <2>3. ASSUME Noisy PROVE ScreenKept
    <3>1. \/ UNCHANGED <<screen, trouble>>
          \/ Heard("end") /\ Completes
          \/ Heard("output") /\ Printed
      BY DEF Hears, Hello, Reconciled, Mismatched, Failed, Proven, Begun, Framed, Ended,
             Required, Unmoved, Unseen
    <3>2. CASE UNCHANGED <<screen, trouble>>
      BY <1>1, <1>3, <3>2, ScreenUnchanged
    <3>3. CASE Heard("end")
      BY <2>3, <3>3, NoisyHeard DEF Noise
    <3>4. CASE Painted(N) /\ client'.state # "legacy" /\ (trouble' = {} => trouble = {})
      BY <1>3, <3>4 DEF Painted, ScreenKept, ScreenInvariant
    <3>5. CASE Heard("output") /\ Printed /\ ~UNCHANGED <<screen, trouble>>
      BY <3>4, <3>5 DEF Printed, Unmoved, Unseen, SameState, Spoils
    <3> QED BY <3>1, <3>2, <3>3, <3>5
  <2> QED BY <1>1, <1>3, <1>4, <2>2, <2>3, CursorKept DEF ScreenKept
<1> QED BY <1>5, <1>6

LEMMA CursorStep ==
    ASSUME AttachInvariant, Base', ScreenInvariant', [Next]_vars
    PROVE  CursorInvariant'
<1>1. /\ Base /\ SocketInvariant /\ ScreenInvariant /\ CursorInvariant /\ Typed /\ Typed'
      /\ client.seq \in Nat /\ client.high \in Nat /\ gen \in Nat /\ client.inst \in Nat
  <2>1. /\ Base /\ SocketInvariant /\ ScreenInvariant /\ CursorInvariant /\ Typed /\ Typed'
    BY DEF AttachInvariant, Base
  <2>2. client.seq \in Nat /\ client.high \in Nat /\ gen \in Nat /\ client.inst \in Nat
    BY <2>1, TypedParts DEF Parts, Client
  <2> QED BY <2>1, <2>2
<1>2. CASE TimedOut \/ UNCHANGED vars
  <2>1. /\ UNCHANGED <<gen, sub, down, screen, trouble>>
        /\ Len(up') = Len(up) /\ \A i \in 1..Len(up) : up'[i] = up[i]
    BY <1>2 DEF TimedOut, vars, runner
  <2>2. SameResuming
    <3>1. Len(up) \in Nat
      BY <1>1, LenProperties DEF Typed
    <3>2. \A i \in 1..Len(up) : \A j \in 1..i : j \in 1..Len(up)
      BY <3>1
    <3> QED BY <2>1, <3>2 DEF SameResuming
  <2>3. Noisy => Noisy'
    BY <2>1 DEF Noisy
  <2>4. ScreenKept
    BY <1>1, <2>1, ScreenUnchanged
  <2> QED BY <1>1, <2>1, <2>2, <2>3, <2>4, CursorKept DEF ScreenKept
<1>3. CASE GaveUp
  <2> DEFINE cursor == Larger(client.seq, client.high)
  <2>1. /\ Asked(<<Since(cursor)>>) /\ cursor \in Nat /\ sub' = sub /\ link
        /\ client.state = "reconciling" /\ screen' = screen /\ gen' = gen /\ down' = down
        /\ Spoils("foreign cursor", screen.gen # gen)
    BY <1>1, <1>3, Largest DEF GaveUp, Subscribed, runner
  <2>2. Noisy'
    BY <1>1, <2>1 DEF SocketInvariant, Noisy
  <2>3. ASSUME trouble' = {} PROVE screen.gen = gen /\ screen.exact /\ screen.upto = cursor
    <3>1. trouble = {} /\ screen.gen = gen
      BY <2>1, <2>3 DEF Spoils
    <3> QED BY <1>1, <2>1, <3>1 DEF ScreenInvariant
  <2> HIDE DEF cursor
  <2>4. trouble' = {} /\ cursor > 0 =>
           screen'.gen = gen' /\ screen'.exact /\ screen'.upto >= cursor
    <3>1. cursor \in Nat /\ screen' = screen /\ gen' = gen
      BY <2>1
    <3>2. cursor >= cursor
      BY <3>1
    <3> QED BY <2>3, <3>1, <3>2
  <2> QED BY <1>1, <2>1, <2>2, <2>4, ResumingSubscribe
<1>4. CASE Lost
  <2>1. up' = <<>>
    BY <1>4 DEF Lost, Unlinked
  <2> QED BY <2>1 DEF CursorInvariant
<1>5. CASE Connected
  <2>1. ASSUME NEW r \in Request, ~Resuming(r), up' = <<r>> PROVE CursorInvariant'
    <3>1. \A i \in 1..Len(up') : up'[i] = r
      BY <2>1
    <3> QED BY <2>1, <3>1 DEF CursorInvariant, Resuming
  <2>2. CASE up' = <<>>
    BY <2>2 DEF CursorInvariant
  <2>3. CASE up' = <<Fresh>>
    <3>1. Fresh \in Request /\ ~Resuming(Fresh)
      BY Requests DEF Fresh, Resuming
    <3> QED BY <2>1, <2>3, <3>1
  <2>4. CASE up' = <<Reconcile(client.inst)>>
    <3>1. Reconcile(client.inst) \in Request /\ ~Resuming(Reconcile(client.inst))
      BY <1>1, Requests DEF Reconcile, Resuming
    <3> QED BY <2>1, <2>4, <3>1
  <2> QED BY <1>5, <2>2, <2>3, <2>4 DEF Connected
<1> QED BY <1>2, <1>3, <1>4, <1>5, CursorServes, CursorHears, Steps DEF AttachInvariant

----------------------------------------------------------------------------
(* The answer to a subscribe without a cursor.                             *)

LEMMA WithinKept ==
    ASSUME NEW i \in Int, NEW b \in Int, NEW d \in Nat, NEW e \in Nat,
           Within(i, b, d, e), down'[i] = down[i]
    PROVE  Within(i, b, d, e)'
  BY DEF Within

LEMMA WithinShifts ==
    ASSUME NEW i \in Int, NEW b \in Int, NEW d \in Nat, NEW e \in Nat,
           Within(i + 1, b, d, e), down'[i] = down[i + 1]
    PROVE  Within(i, b - 1, d, e)'
<1>1. (i + 1) - b = i - (b - 1)
  OBVIOUS
<1> QED BY <1>1 DEF Within

\* The socket's next message is the answer's next, or the one that breaks it off.
LEMMA FirstPlace ==
    ASSUME NEW b \in Int, NEW d \in Nat, NEW e \in Nat, Answered(b, d, e),
           NEW type, Heard(type)
    PROVE  \/ /\ Within(1, b, d, e)
              /\ \/ sub.pc = "rendering" /\ b = Len(down) /\ d > 0
                 \/ sub.pc = "live" /\ EndsAt(b, d, e) \in 1..Len(down)
                 \/ /\ sub.pc = "idle" /\ d > 0 /\ Len(down) > 1
                    /\ b <= Len(down) /\ Len(down) <= b + 2
           \/ /\ sub.pc = "idle" /\ Len(down) = 1
              /\ \/ type = "failed" /\ b \in {0, 1}
                 \/ type = "required" /\ b = 0 - 1
<1>1. PICK n \in Nat : n = Len(down) /\ n # 0 /\ 1 \in 1..n
  BY DEF Heard
<1>2. down[1].type = type
  BY DEF Heard
<1>3. CASE sub.pc \in {"rendering", "live"}
  BY <1>1, <1>3 DEF Answered
<1>4. CASE sub.pc = "idle"
  <2>1. /\ d > 0 /\ b <= n /\ n <= b + 2
        /\ \A i \in 1..n - 1 : Within(i, b, d, e)
        /\ \/ down[n].type = "failed" /\ n <= b + 1
           \/ down[n].type = "required" /\ n = b + 2
    BY <1>1, <1>4 DEF Answered
  <2>2. CASE n = 1
    BY <1>1, <1>2, <1>4, <2>1, <2>2
  <2>3. CASE n > 1
    <3>1. 1 \in 1..n - 1
      BY <2>3
    <3> QED BY <1>1, <1>4, <2>1, <2>3, <3>1
  <2> QED BY <1>1, <2>2, <2>3
<1> QED BY <1>3, <1>4 DEF Answered

LEMMA AnsweredShifts ==
    ASSUME NEW b \in Int, NEW d \in Nat, NEW e \in Nat, Answered(b, d, e),
           NEW type, Heard(type), up' = up, Took(b - 1, d)',
           sub.pc = "live" => EndsAt(b, d, e) > 1,
           sub.pc = "idle" => Len(down) > 1
    PROVE  Answered(b - 1, d, e)'
<1>1. PICK n \in Nat : n = Len(down) /\ n # 0 /\ Len(down') = n - 1
  BY DEF Heard
<1>2. sub' = sub /\ \A i \in 1..n - 1 : down'[i] = down[i + 1]
  BY <1>1 DEF Heard
<1>3. \A m \in Nat : (\A i \in 1..m : Within(i, b, d, e)) =>
                        (m <= n => \A i \in 1..m - 1 : Within(i, b - 1, d, e)')
  <2>1. SUFFICES ASSUME NEW m \in Nat, \A i \in 1..m : Within(i, b, d, e), m <= n,
                        NEW i \in 1..m - 1
                 PROVE  Within(i, b - 1, d, e)'
    OBVIOUS
  <2>2. i + 1 \in 1..m /\ i \in 1..n - 1 /\ i \in Int
    BY <2>1
  <2>3. Within(i + 1, b, d, e) /\ down'[i] = down[i + 1]
    BY <1>2, <2>1, <2>2
  <2> QED BY <2>2, <2>3, WithinShifts
<1>4. sub.owns /\ up = <<>> /\ d <= e
  BY DEF Answered
<1>5. CASE sub.pc = "rendering"
  <2>1. d = sub.dto /\ d > 0 /\ b = n /\ \A i \in 1..n : Within(i, b, d, e)
    BY <1>1, <1>5 DEF Answered
  <2>2. \A i \in 1..n - 1 : Within(i, b - 1, d, e)'
    BY <1>3, <2>1
  <2> QED BY <1>1, <1>2, <1>4, <1>5, <2>1, <2>2 DEF Answered
<1>6. CASE sub.pc = "live"
  <2>1. EndsAt(b, d, e) \in 1..n /\ \A i \in 1..n : Within(i, b, d, e)
    BY <1>1, <1>6 DEF Answered
  <2>2. \A i \in 1..n - 1 : Within(i, b - 1, d, e)'
    BY <1>3, <2>1
  <2>3. EndsAt(b - 1, d, e) = EndsAt(b, d, e) - 1
    BY DEF EndsAt
  <2>4. EndsAt(b - 1, d, e) \in 1..n - 1
    BY <1>6, <2>1, <2>3
  <2> QED BY <1>1, <1>2, <1>4, <1>6, <2>2, <2>4 DEF Answered
<1>7. CASE sub.pc = "idle"
  <2>1. /\ d > 0 /\ b <= n /\ n <= b + 2 /\ n > 1
        /\ \A i \in 1..n - 1 : Within(i, b, d, e)
        /\ \/ down[n].type = "failed" /\ n <= b + 1
           \/ down[n].type = "required" /\ n = b + 2
    BY <1>1, <1>7 DEF Answered
  <2>2. \A i \in 1..(n - 1) - 1 : Within(i, b - 1, d, e)'
    BY <1>3, <2>1
  <2>3. n - 1 \in 1..n - 1 /\ (n - 1) + 1 = n
    BY <2>1
  <2>4. down'[n - 1] = down[n]
    BY <1>2, <2>3
  <2>5. n - 1 > 0 /\ b - 1 <= n - 1 /\ n - 1 <= (b - 1) + 2
    BY <2>1
  <2>6. \/ down'[n - 1].type = "failed" /\ n - 1 <= (b - 1) + 1
        \/ down'[n - 1].type = "required" /\ n - 1 = (b - 1) + 2
    BY <2>1, <2>4
  <2> QED BY <1>1, <1>2, <1>4, <1>7, <2>1, <2>2, <2>5, <2>6 DEF Answered
<1> QED BY <1>5, <1>6, <1>7 DEF Answered

\* A waiting client makes nothing of what comes before the answer.
LEMMA NoiseHeard ==
    ASSUME NEW type \in Noise, Heard(type), Hears, Waits, screen.gen # gen, trouble' = {}
    PROVE  SameState /\ up' = up /\ sub' = sub
<1>1. down[1].type = type /\ sub' = sub
  BY DEF Heard
<1>2. \/ Heard("hello") /\ Hello
      \/ Heard("reconciled") /\ Reconciled
      \/ Heard("mismatch") /\ Mismatched
      \/ Heard("output") /\ Printed
  <2>1. ASSUME NEW other \in {"failed", "proof", "begin", "frame", "end", "required"}
        PROVE  ~Heard(other)
    BY <1>1, <2>1 DEF Heard, Noise
  <2> QED BY <2>1 DEF Hears
<1>3. client.state \in {"probing", "resyncing"}
  BY DEF Waits
<1>4. CASE Heard("hello") /\ Hello
  BY <1>1, <1>4 DEF Hello, Unmoved, SameState
<1>5. CASE Reconciled \/ Mismatched
  BY <1>1, <1>3, <1>5 DEF Reconciled, Mismatched, Unmoved, SameState
<1>6. CASE Printed
  <2>1. ~Spoils("early chunk", screen.gen # gen)
    BY DEF Spoils
  <2> QED BY <1>1, <1>3, <1>6, <2>1 DEF Printed, Unmoved, SameState
<1> QED BY <1>2, <1>4, <1>5, <1>6

LEMMA AskingHeard ==
    ASSUME Hears, screen.gen # gen, trouble' = {}
    PROVE  (Asking => Asking') /\ (Preparing => Preparing')
<1>1. PICK type : Heard(type)
  BY DEF Hears
<1>2. ASSUME Noisy, Waits PROVE Noisy' /\ Waits' /\ up' = up /\ sub' = sub /\ last' = last
  <2>1. Noisy' /\ type \in Noise
    BY <1>1, <1>2, NoisyHeard
  <2>2. SameState /\ up' = up /\ sub' = sub
    BY <1>1, <1>2, <2>1, NoiseHeard
  <2> QED BY <1>1, <1>2, <2>1, <2>2 DEF Heard, Waits, SameState
<1> QED BY <1>2 DEF Asking, Preparing

\* The answer was broken off: the client asks once more.
LEMMA AskingAgain ==
    ASSUME NEW type, Heard(type), Healed, client'.state # "legacy", up = <<>>,
           sub.pc = "idle", Len(down) = 1
    PROVE  Asking'
<1>1. sub' = sub /\ Len(down') = 0
  BY DEF Heard
<1>2. client'.state = "resyncing" /\ Asked(<<Fresh>>)
  BY DEF Healed
<1>3. Fresh \in Request /\ Fresh.type = "subscribe" /\ Fresh.n = 0
  BY Requests DEF Fresh
<1>4. Len(up) = 0
  OBVIOUS
<1>5. Len(up') = 1 /\ up'[1] = Fresh
  BY <1>2, <1>3, <1>4, OneAsked
<1>6. Noisy'
  BY <1>1 DEF Noisy
<1>7. \A i \in 1..Len(up') : i = 1
  BY <1>5
<1>8. \A i \in 1..Len(up') : up'[i].type = "subscribe" => i = Len(up') /\ up'[i].n = 0
  BY <1>3, <1>5, <1>7
<1> QED BY <1>1, <1>2, <1>6, <1>8 DEF Asking, Waits

LEMMA TookCases ==
    ASSUME NEW b \in Int, NEW d \in Nat
    PROVE  /\ b > 0 => (Took(b, d) => Waits) /\ (Waits' => Took(b, d)')
           /\ b = 0 =>
                 /\ Took(b, d) =>
                       /\ client.state = "collecting" /\ client.part.begin = d
                       /\ client.part.frame = FALSE /\ client.part.flush = 0
                 /\ /\ client'.state = "collecting" /\ client'.part.begin = d
                    /\ client'.part.frame = FALSE /\ client'.part.flush = 0
                    => Took(b, d)'
           /\ b < 0 =>
                 /\ Took(b, d) =>
                       /\ client.state = "collecting" /\ client.part.begin = d
                       /\ client.part.frame = TRUE /\ client.part.flush = 0 - b - 1
                 /\ /\ client'.state = "collecting" /\ client'.part.begin = d
                    /\ client'.part.frame = TRUE /\ client'.part.flush = 0 - b - 1
                    => Took(b, d)'
<1>1. CASE b > 0
  <2>1. b # 0 /\ ~(b < 0)
    BY <1>1
  <2> QED BY <1>1, <2>1 DEF Took
<1>2. CASE b = 0
  <2>1. ~(b > 0) /\ ~(b < 0) /\ (b < 0) = FALSE
    BY <1>2
  <2> QED BY <1>2, <2>1, Zenon DEF Took
<1>3. CASE b < 0
  <2>1. ~(b > 0) /\ b # 0 /\ (b < 0) = TRUE
    BY <1>3
  <2> QED BY <1>3, <2>1, Zenon DEF Took
<1> QED BY <1>1, <1>2, <1>3

\* The client takes the answer's next message.
LEMMA AnsweredHeard ==
    ASSUME Base, Hears, screen.gen # gen, trouble' = {}, client'.state # "legacy",
           screen'.gen # gen, NEW b \in Int, NEW d \in Nat, NEW e \in Nat, Answered(b, d, e)
    PROVE  Asking' \/ Answered(b - 1, d, e)'
<1>1. PICK type : Heard(type)
  BY DEF Hears
<1>2. PICK n \in Nat : n = Len(down) /\ n # 0
  BY <1>1 DEF Heard
<1>3. up = <<>> /\ Took(b, d) /\ d <= e /\ client.part \in Part
  BY TypedParts DEF Answered, Base, Parts, Client
<1>4. down[1].type = type
  BY <1>1 DEF Heard
<1>5. CASE /\ sub.pc = "idle" /\ n = 1
           /\ \/ type = "failed" /\ b \in {0, 1}
              \/ type = "required" /\ b = 0 - 1
  <2>1. client.state \in {"probing", "resyncing", "collecting"}
    BY <1>3 DEF Took, Waits
  <2>2. CASE type = "failed"
    <3>1. Heard("failed") /\ Failed
      BY <1>1, <1>4, <2>2 DEF Hears, Heard
    <3>2. Healed
      BY <2>1, <3>1 DEF Failed
    <3> QED BY <1>2, <1>3, <1>5, <3>1, <3>2, AskingAgain
  <2>3. CASE type = "required" /\ b = 0 - 1
    <3>1. Heard("required") /\ Required
      BY <1>1, <1>4, <2>3 DEF Hears, Heard
    <3>2. client.state = "collecting"
      BY <1>3, <2>3 DEF Took
    <3>3. Healed
      BY <3>1, <3>2 DEF Required
    <3> QED BY <1>2, <1>3, <1>5, <3>1, <3>3, AskingAgain
  <2> QED BY <1>5, <2>2, <2>3
<1>6. CASE /\ Within(1, b, d, e)
           /\ \/ sub.pc = "rendering" /\ b = n /\ d > 0
              \/ sub.pc = "live" /\ EndsAt(b, d, e) \in 1..n
              \/ /\ sub.pc = "idle" /\ d > 0 /\ n > 1
                 /\ b <= n /\ n <= b + 2
  <2>1. sub.pc = "idle" => Len(down) > 1
    BY <1>2, <1>6
  <2>0. d <= e /\ 1 \in Int /\ Within(1, b, d, e)
    BY <1>3, <1>6
  <2>a. /\ 1 < b => down[1].type \in Noise
        /\ 1 = b => down[1] = Say("begin", d)
        /\ 1 = b + 1 /\ d = 0 => down[1] = Say("end", 1)
        /\ 1 = b + 1 /\ d > 0 => down[1] = Say("frame", d)
    BY <2>0, WithinCases
  <2>2. CASE b > 1
    <3>1. type \in Noise
      BY <1>4, <2>2, <2>a
    <3>2. Waits
      BY <1>3, <2>2 DEF Took
    <3>3. SameState /\ up' = up
      BY <1>1, <3>1, <3>2, NoiseHeard
    <3>4. Took(b - 1, d)'
      <4>1. b - 1 > 0
        BY <2>2
      <4> QED BY <3>2, <3>3, <4>1 DEF Took, Waits, SameState
    <3>5. sub.pc = "live" => EndsAt(b, d, e) > 1
      BY <1>3, <2>2 DEF EndsAt
    <3>6. Answered(b - 1, d, e)'
      BY <1>1, <2>1, <3>3, <3>4, <3>5, AnsweredShifts
    <3> QED BY <3>6
  <2>3. CASE b = 1
    <3>1. down[1] = Say("begin", d)
      BY <2>3, <2>a
    <3>2. Heard("begin") /\ Begun /\ N = d
      BY <1>1, <1>4, <3>1 DEF Hears, Heard, Say
    <3>3. Waits
      BY <1>3, <2>3 DEF Took
    <3>4. /\ up' = up /\ client'.state = "collecting"
          /\ client'.part = [NoPart EXCEPT !.begin = d]
      BY <3>2, <3>3 DEF Begun, Waits
    <3>5. client'.part.begin = d /\ client'.part.frame = FALSE /\ client'.part.flush = 0
      BY <3>4 DEF NoPart
    <3>6. Took(b - 1, d)'
      <4>1. b - 1 \in Int /\ b - 1 = 0
        BY <2>3
      <4>2. /\ client'.state = "collecting" /\ client'.part.begin = d
            /\ client'.part.frame = FALSE /\ client'.part.flush = 0
            => Took(b - 1, d)'
        BY <4>1, TookCases
      <4> QED BY <3>4, <3>5, <4>2
    <3>7. sub.pc = "live" => EndsAt(b, d, e) > 1
      BY <1>3, <2>3 DEF EndsAt
    <3>8. Answered(b - 1, d, e)'
      BY <1>1, <2>1, <3>4, <3>6, <3>7, AnsweredShifts
    <3> QED BY <3>8
  <2>4. CASE b = 0
    <3>1. /\ client.state = "collecting" /\ client.part.begin = d
          /\ client.part.frame = FALSE /\ client.part.flush = 0
      BY <1>3, <2>4, TookCases
    <3>2. CASE d = 0
      <4>1. down[1] = Say("end", 1)
        BY <2>4, <2>a, <3>2
      <4>2. Heard("end") /\ Ended /\ N = 1
        BY <1>1, <1>4, <4>1 DEF Hears, Heard, Say
      <4>3. Complete(client.part)
        BY <3>1, <3>2, <4>2 DEF Complete
      <4>4. Completes
        BY <3>1, <4>2, <4>3 DEF Ended
      <4> QED BY <4>4 DEF Completes
    <3>3. CASE d > 0
      <4>1. down[1] = Say("frame", d)
        BY <2>4, <2>a, <3>3
      <4>2. Heard("frame") /\ Framed
        BY <1>1, <1>4, <4>1 DEF Hears, Heard, Say
      <4>3. /\ up' = up /\ client'.state = "collecting"
            /\ client'.part = [client.part EXCEPT !.frame = TRUE]
        BY <3>1, <3>3, <4>2 DEF Framed, SameState
      <4>4. client'.part.begin = d /\ client'.part.frame = TRUE /\ client'.part.flush = 0
        BY <1>3, <3>1, <4>3 DEF Part
      <4>5. Took(b - 1, d)'
        <5>1. ~(b - 1 > 0) /\ b - 1 < 0 /\ 0 - (b - 1) - 1 = 0
          BY <2>4
        <5> QED BY <4>3, <4>4, <5>1 DEF Took
      <4>6. sub.pc = "live" => EndsAt(b, d, e) > 1
        BY <1>3, <2>4, <3>3 DEF EndsAt
      <4>7. Answered(b - 1, d, e)'
        BY <1>1, <2>1, <4>3, <4>5, <4>6, AnsweredShifts
      <4> QED BY <4>7
    <3> QED BY <3>2, <3>3
  <2>5. CASE b < 0
    <3>1. /\ client.state = "collecting" /\ client.part.begin = d
          /\ client.part.frame = TRUE /\ client.part.flush = 0 - b - 1
      BY <1>3, <2>5, TookCases
    <3>2. sub.pc = "live" /\ EndsAt(b, d, e) \in 1..n /\ d > 0
      BY <1>6, <2>5 DEF EndsAt
    <3>3. b + e - d + 2 >= 1
      BY <3>2 DEF EndsAt
    <3>4. CASE 1 - b = e - d + 2
      <4>1. down[1] = Say("end", e + 1)
        <5>1. 1 > b + 1
          BY <2>5
        <5> QED BY <2>0, <3>2, <3>4, <5>1, WithinCases
      <4>2. Heard("end") /\ Ended /\ N = e + 1
        BY <1>1, <1>4, <4>1 DEF Hears, Heard, Say
      <4>3. client.part.begin + client.part.flush + 1 = e + 1
        BY <3>1, <3>4
      <4>4. Complete(client.part)
        BY <3>1, <4>2, <4>3 DEF Complete
      <4>5. Completes
        BY <3>1, <4>2, <4>4 DEF Ended
      <4> QED BY <4>5 DEF Completes
    <3>5. CASE 1 - b # e - d + 2
      <4>0. 1 > b + 1 /\ 1 - b <= e - d + 1
        BY <2>5, <3>3, <3>5
      <4>1. down[1] = Say("output", d + (1 - b) - 1)
        BY <2>0, <3>2, <4>0, WithinCases
      <4>2. Heard("output") /\ Printed /\ N = d + (1 - b) - 1
        BY <1>1, <1>4, <4>1 DEF Hears, Heard, Say
      <4>3. N = client.part.begin + client.part.flush + 1
        BY <3>1, <4>2
      <4>4. /\ up' = up /\ client'.state = "collecting"
            /\ client'.part = [client.part EXCEPT !.flush = @ + 1]
        BY <3>1, <4>2, <4>3 DEF Printed, SameState
      <4>5. /\ client'.part.begin = d /\ client'.part.frame = TRUE
            /\ client'.part.flush = 0 - (b - 1) - 1
        BY <1>3, <3>1, <4>4 DEF Part
      <4>6. Took(b - 1, d)'
        <5>1. ~(b - 1 > 0) /\ b - 1 < 0
          BY <2>5
        <5> QED BY <4>4, <4>5, <5>1 DEF Took
      <4>7. EndsAt(b, d, e) > 1
        BY <3>2, <4>0 DEF EndsAt
      <4>8. Answered(b - 1, d, e)'
        BY <1>1, <2>1, <4>4, <4>6, <4>7, AnsweredShifts
      <4> QED BY <4>8
    <3> QED BY <3>4, <3>5
  <2> QED BY <2>2, <2>3, <2>4, <2>5
<1> QED BY <1>1, <1>2, <1>5, <1>6, FirstPlace

LEMMA SessionHears ==
    ASSUME AttachInvariant, Hears
    PROVE  SessionInvariant'
<1>1. /\ Base /\ SocketInvariant /\ ScreenInvariant /\ SessionInvariant
      /\ client.state \in States /\ client.seq \in Nat /\ client.high \in Nat /\ gen \in Nat
  <2>1. /\ Base /\ SocketInvariant /\ ScreenInvariant /\ SessionInvariant
    BY DEF AttachInvariant
  <2>2. client.state \in States /\ client.seq \in Nat /\ client.high \in Nat /\ gen \in Nat
    BY <2>1, TypedParts DEF Base, Parts, Client
  <2> QED BY <2>1, <2>2
<1>2. PICK type : Heard(type)
  BY DEF Hears
<1>3. link /\ link' = link /\ gen' = gen /\ sub' = sub
  BY <1>2 DEF Heard
<1>4. SUFFICES ASSUME trouble' = {}, client'.state \notin {"legacy", "reconciling"},
                      screen'.gen # gen
               PROVE  Asking' \/ \/ Preparing'
                                 \/ \E b \in Int, d, e \in Nat : Answered(b, d, e)'
  BY <1>3 DEF SessionInvariant
<1>5. ~Completes
  BY <1>4 DEF Completes
<1>6. screen.gen # gen /\ trouble = {} /\ client.state # "legacy"
  <2>1. client.state = "legacy" => Unmoved
    BY <1>5
    DEF Hears, Hello, Reconciled, Mismatched, Failed, Proven, Begun, Framed, Ended, Required,
        Printed, Waits
  <2>2. client.state # "legacy"
    BY <1>4, <2>1 DEF Unmoved
  <2>3. UNCHANGED <<screen, trouble>> \/ Printed
    BY <1>5
    DEF Hears, Hello, Reconciled, Mismatched, Failed, Proven, Begun, Framed, Ended, Required,
        Unmoved, Unseen
  <2>4. CASE Printed
    <3>1. screen'.gen = screen.gen
      BY <2>4 DEF Printed, Painted, Unmoved, Unseen
    <3>2. trouble' = {} => trouble = {}
      BY <2>4 DEF Printed, Spoils, Unmoved, Unseen
    <3> QED BY <1>4, <2>2, <3>1, <3>2
  <2> QED BY <1>4, <2>2, <2>3, <2>4
<1>7. CASE client.state = "reconciling"
  <2>1. /\ sub = NoSub /\ Noisy /\ client.from # 0 /\ Believed = client.from
        /\ \A i \in 1..Len(up) : up[i].type = "reconcile"
    BY <1>1, <1>3, <1>7 DEF SocketInvariant, Believed
  <2>2. Noisy'
    BY <1>2, <2>1, NoisyHeard
  <2>3. Reconciled /\ ~Unmoved
    BY <1>4, <1>5, <1>7
    DEF Hears, Hello, Mismatched, Failed, Proven, Begun, Framed, Ended, Required, Printed,
        Unmoved, SameState, Waits
  <2>4. Subscribed(0, gen)
    <3>1. gen # client.from => Subscribed(0, gen)
      BY <1>7, <2>1, <2>3 DEF Reconciled
    <3>2. CASE gen = client.from
      <4>1. client.seq = 0 /\ client.high = 0
        BY <1>1, <1>6, <1>7, <2>1, <3>2 DEF ScreenInvariant
      <4>2. Larger(client.seq, client.high) = 0
        BY <4>1, Largest
      <4> QED BY <1>7, <2>1, <2>3, <3>2, <4>2 DEF Reconciled
    <3> QED BY <3>1, <3>2
  <2>5. client'.state = "resyncing" /\ Asked(<<Since(0)>>) /\ Since(0) \in Request
    BY <2>4, Requests DEF Subscribed
  <2>6. /\ Len(up') = Len(up) + 1 /\ Len(up) \in Nat /\ up'[Len(up) + 1] = Since(0)
        /\ \A i \in 1..Len(up) : up'[i] = up[i]
    BY <2>5, OneAsked
  <2>7. ASSUME NEW i \in 1..Len(up'), up'[i].type = "subscribe"
        PROVE  i = Len(up') /\ up'[i].n = 0
    <3>1. i \in 1..Len(up) \/ i = Len(up) + 1
      BY <2>6
    <3>2. i \notin 1..Len(up)
      BY <2>1, <2>6, <2>7
    <3> QED BY <2>6, <3>1, <3>2 DEF Since
  <2>8. sub'.pc = "idle"
    BY <1>3, <2>1 DEF NoSub
  <2> QED BY <2>2, <2>5, <2>7, <2>8 DEF Asking, Waits
<1>8. CASE client.state # "reconciling"
  <2>1. Asking \/ Preparing \/ \E b \in Int, d, e \in Nat : Answered(b, d, e)
    BY <1>1, <1>3, <1>6, <1>8 DEF SessionInvariant
  <2>2. CASE Asking \/ Preparing
    BY <1>4, <1>6, <2>2, AskingHeard
  <2>3. ASSUME NEW b \in Int, NEW d \in Nat, NEW e \in Nat, Answered(b, d, e)
        PROVE  Asking' \/ \E c \in Int, f, g \in Nat : Answered(c, f, g)'
    <3>1. Asking' \/ Answered(b - 1, d, e)'
      BY <1>1, <1>4, <1>6, <2>3, AnsweredHeard
    <3>2. b - 1 \in Int
      OBVIOUS
    <3> QED BY <3>1, <3>2
  <2> QED BY <2>1, <2>2, <2>3
<1> QED BY <1>7, <1>8

LEMMA SessionSockets ==
    ASSUME AttachInvariant, TimedOut \/ GaveUp \/ Lost \/ Connected \/ UNCHANGED vars
    PROVE  SessionInvariant'
<1>1. /\ Base /\ ModeInvariant /\ SessionInvariant
      /\ client.state \in States /\ client.mode \in {"undecided", "protocol", "legacy"}
      /\ gen \in Nat
  <2>1. Base /\ ModeInvariant /\ SessionInvariant
    BY DEF AttachInvariant
  <2> QED BY <2>1, TypedParts DEF Base, Parts, Client
<1>2. CASE TimedOut
  BY <1>2 DEF TimedOut, SessionInvariant
<1>3. CASE GaveUp
  <2>1. trouble' = {} => screen'.gen = gen'
    BY <1>3 DEF GaveUp, Spoils, runner
  <2> QED BY <2>1 DEF SessionInvariant
<1>4. CASE Lost
  BY <1>4 DEF Lost, Unlinked, SessionInvariant
<1>5. CASE Connected
  <2>1. sub' = NoSub /\ down' = <<Say("hello", gen)>>
    BY <1>5 DEF Connected
  <2>2. sub'.pc = "idle" /\ Noisy'
    <3>1. Len(down') = 1 /\ down'[1].type = "hello"
      BY <2>1 DEF Say
    <3>2. \A i \in 1..Len(down') : down'[i].type \in Noise
      BY <3>1 DEF Noise
    <3> QED BY <2>1, <3>2 DEF NoSub, Noisy
  <2>3. CASE client'.state \in {"legacy", "reconciling"}
    BY <2>3 DEF SessionInvariant
  <2>4. CASE client'.state \notin {"legacy", "reconciling"}
    <3>1. /\ client.mode # "protocol" /\ SameState /\ client.state # "legacy"
          /\ up' = <<Fresh>> \/ up' = <<>>
      BY <1>1, <1>5, <2>4 DEF Connected, SameState
    <3>2. client.mode = "undecided"
      BY <1>1, <3>1 DEF ModeInvariant
    <3>3. Waits'
      BY <1>1, <3>1, <3>2 DEF ModeInvariant, States, SameState, Waits
    <3>4. \A i \in 1..Len(up') : up'[i].type = "subscribe" => i = Len(up') /\ up'[i].n = 0
      <4>1. CASE up' = <<>>
        BY <4>1
      <4>2. CASE up' = <<Fresh>>
        <5>1. Len(up') = 1 /\ up'[1] = Fresh /\ Fresh.n = 0
          BY <4>2 DEF Fresh
        <5>2. \A i \in 1..Len(up') : i = 1
          BY <5>1
        <5> QED BY <5>1, <5>2
      <4> QED BY <3>1, <4>1, <4>2
    <3> QED BY <2>2, <3>3, <3>4 DEF SessionInvariant, Asking
  <2> QED BY <2>3, <2>4
<1>6. CASE UNCHANGED vars
  <2>1. UNCHANGED <<gen, last, sub, link, up, down, client, screen, trouble>>
    BY <1>6 DEF vars
  <2>2. Asking => Asking'
    BY <2>1 DEF Asking, Waits, Noisy
  <2>3. Preparing => Preparing'
    BY <2>1 DEF Preparing, Waits, Noisy
  <2>4. ASSUME NEW b \in Int, NEW d \in Nat, NEW e \in Nat, Answered(b, d, e)
        PROVE  Answered(b, d, e)'
    <3>1. \A i \in Int : Within(i, b, d, e) <=> Within(i, b, d, e)'
      BY <2>1 DEF Within
    <3>2. Took(b, d)'
      BY <2>1, <2>4 DEF Answered, Took, Waits
    <3>3. \A m \in Int : \A i \in 1..m : i \in Int
      OBVIOUS
    <3>4. Len(down) \in Int /\ Len(down) - 1 \in Int
      BY <1>1, LenProperties DEF Base, Typed
    <3> QED BY <2>1, <2>4, <3>1, <3>2, <3>3, <3>4 DEF Answered
  <2> QED BY <1>1, <2>1, <2>2, <2>3, <2>4 DEF SessionInvariant
<1> QED BY <1>2, <1>3, <1>4, <1>5, <1>6

\* What the runner says leaves the places before it.
LEMMA NoisyPlaces ==
    ASSUME Noisy, NEW t, Told(t), link, NEW b \in Int, NEW d \in Nat, NEW e \in Nat, b > Len(down)
    PROVE  \A i \in 1..Len(down) : Within(i, b, d, e)'
<1>1. PICK n \in Nat : n = Len(down) /\ \A i \in 1..n : down'[i] = down[i]
  BY DEF Told
<1>2. ASSUME NEW i \in 1..n PROVE Within(i, b, d, e)'
  <2>1. i - b < 0
    BY <1>1
  <2>2. down'[i].type \in Noise
    BY <1>1 DEF Noisy
  <2> QED BY <2>1, <2>2 DEF Within
<1> QED BY <1>1, <1>2

LEMMA PlacesKept ==
    ASSUME NEW t, Told(t), link, NEW m \in Nat, m <= Len(down),
           NEW b \in Int, NEW d \in Nat, NEW e \in Nat, \A i \in 1..m : Within(i, b, d, e)
    PROVE  \A i \in 1..m : Within(i, b, d, e)'
<1>1. PICK n \in Nat : n = Len(down) /\ \A i \in 1..n : down'[i] = down[i]
  BY DEF Told
<1>2. ASSUME NEW i \in 1..m PROVE Within(i, b, d, e)'
  <2>1. i \in 1..n /\ i \in Int
    BY <1>1
  <2>2. Within(i, b, d, e) /\ down'[i] = down[i]
    BY <1>1, <2>1
  <2> QED BY <2>1, <2>2, WithinKept
<1> QED BY <1>2

\* The runner takes the subscribe of a client that asks.
LEMMA AskingServed ==
    ASSUME Base, Asking, Serves, link, client' = client
    PROVE  Asking' \/ Preparing' \/ \E b \in Int, d, e \in Nat : Answered(b, d, e)'
<1>1. /\ sub.pc = "idle" /\ Waits /\ Noisy /\ Waits' /\ last \in Nat /\ gen \in Nat
      /\ \A i \in 1..Len(up) : up[i].type = "subscribe" => i = Len(up) /\ up[i].n = 0
      /\ Typed /\ sub \in Sub
  <2>1. Typed /\ sub \in Sub /\ last \in Nat /\ gen \in Nat
    BY TypedParts DEF Base, Parts
  <2> QED BY <2>1 DEF Asking, Waits
<1>2. CASE Captured \/ Rendered \/ Unrendered \/ Unproven
  BY <1>1, <1>2 DEF Captured, Rendered, Unrendered, Unproven
<1>3. CASE Produced
  <2>1. sub' = sub /\ up' = up
    BY <1>1, <1>3 DEF Produced
  <2>2. Noisy'
    <3>1. CASE down' = down
      BY <1>1, <3>1 DEF Noisy
    <3>2. CASE Told(<<Say("output", last + 1)>>)
      BY <1>1, <3>2, NoisySaid DEF Noise
    <3> QED BY <1>1, <1>3, <3>1, <3>2 DEF Produced
  <2> QED BY <1>1, <2>1, <2>2 DEF Asking
<1>4. CASE Identified
  <2>1. sub' = sub /\ Taken("reconcile")
    BY <1>4 DEF Identified
  <2>2. PICK type \in {"reconciled", "mismatch"} : Told(<<Say(type, gen)>>)
    BY <1>4 DEF Identified
  <2>3. Noisy'
    BY <1>1, <2>2, NoisySaid DEF Noise
  <2>4. ASSUME NEW i \in 1..Len(up'), up'[i].type = "subscribe"
        PROVE  i = Len(up') /\ up'[i].n = 0
    <3>1. i + 1 \in 1..Len(up) /\ up'[i] = up[i + 1] /\ Len(up') = Len(up) - 1
      BY <2>1 DEF Taken
    <3>2. i + 1 = Len(up) /\ up[i + 1].n = 0
      BY <1>1, <2>4, <3>1
    <3>3. i = Len(up')
      BY <3>1, <3>2
    <3> QED BY <3>1, <3>2, <3>3
  <2> QED BY <1>1, <2>1, <2>3, <2>4 DEF Asking
<1>5. CASE Asks
  <2>1. Taken("subscribe") /\ Answer(up[1].n) /\ last' = last
    BY <1>5 DEF Asks, runner
  <2>2. 1 = Len(up) /\ up[1].n = 0
    <3>1. 1 \in 1..Len(up) /\ up[1].type = "subscribe"
      BY <2>1 DEF Taken
    <3> QED BY <1>1, <3>1
  <2>3. up' = <<>>
    <3>1. up' \in Seq(Request) /\ Len(up') = Len(up) - 1
      BY <2>1 DEF Taken
    <3>2. Len(up') = 0
      BY <2>2, <3>1
    <3> QED BY <3>1, <3>2, EmptySeq
  <2>4. CASE last > 0
    <3>1. sub' = [sub EXCEPT !.owns = TRUE, !.pc = "capturing"] /\ down' = down
      BY <1>1, <2>1, <2>2, <2>4 DEF Answer
    <3>2. sub'.pc = "capturing"
      BY <1>1, <2>1, <3>1, SubStep
    <3>3. Noisy'
      BY <1>1, <3>1 DEF Noisy
    <3> QED BY <1>1, <2>1, <2>3, <2>4, <3>2, <3>3 DEF Preparing
  <2>5. CASE last = 0
    <3> DEFINE t == <<Say("begin", 0), Say("end", 1)>>
    <3>1. sub' = [sub EXCEPT !.owns = TRUE, !.pc = "live", !.seq = 0] /\ Told(t)
      BY <1>1, <2>1, <2>2, <2>5 DEF Answer
    <3>2. sub'.pc = "live" /\ sub'.owns
      BY <1>1, <2>1, <3>1, SubStep
    <3>3. Len(t) = 2 /\ t[1] = Say("begin", 0) /\ t[2] = Say("end", 1)
      OBVIOUS
    <3> HIDE DEF t
    <3>4. PICK n \in Nat : /\ n = Len(down) /\ Len(down') = n + 2
                           /\ down'[n + 1] = Say("begin", 0) /\ down'[n + 2] = Say("end", 1)
      <4>1. /\ Len(down') = Len(down) + 2 /\ Len(down) \in Nat
            /\ \A i \in 1..2 : down'[Len(down) + i] = t[i]
        BY <3>1, <3>3 DEF Told
      <4>2. 1 \in 1..2 /\ 2 \in 1..2
        OBVIOUS
      <4>3. down'[Len(down) + 1] = t[1] /\ down'[Len(down) + 2] = t[2]
        BY <4>1, <4>2
      <4> QED BY <3>3, <4>1, <4>3
    <3>a. n + 1 \in Int /\ n + 1 > n /\ n + 1 > 0
      OBVIOUS
    <3>5. \A i \in 1..n : Within(i, n + 1, 0, 0)'
      BY <1>1, <3>1, <3>4, <3>a, NoisyPlaces
    <3>6. Within(n + 1, n + 1, 0, 0)' /\ Within(n + 2, n + 1, 0, 0)'
      <4>1. (n + 1) - (n + 1) = 0 /\ (n + 2) - (n + 1) = 1
        OBVIOUS
      <4> QED BY <3>4, <4>1 DEF Within
    <3>7. \A i \in 1..n + 2 : i \in 1..n \/ i = n + 1 \/ i = n + 2
      OBVIOUS
    <3>8. \A i \in 1..Len(down') : Within(i, n + 1, 0, 0)'
      BY <3>4, <3>5, <3>6, <3>7
    <3>9. EndsAt(n + 1, 0, 0) \in 1..Len(down')
      BY <3>4 DEF EndsAt
    <3>10. Took(n + 1, 0)'
      BY <1>1, <3>a, TookCases
    <3>11. Answered(n + 1, 0, 0)'
      BY <2>3, <3>2, <3>8, <3>9, <3>10 DEF Answered
    <3> QED BY <3>11
  <2> QED BY <1>1, <2>4, <2>5
<1> QED BY <1>2, <1>3, <1>4, <1>5 DEF Serves

LEMMA PreparingServed ==
    ASSUME Base, Preparing, Serves, link, client' = client
    PROVE  Preparing' \/ \E b \in Int, d, e \in Nat : Answered(b, d, e)'
<1>1. /\ sub.pc = "capturing" /\ sub.owns /\ Waits /\ Noisy /\ Waits' /\ up = <<>>
      /\ last \in Nat /\ last > 0 /\ Typed /\ sub \in Sub
  <2>1. Typed /\ sub \in Sub /\ last \in Nat
    BY TypedParts DEF Base, Parts
  <2> QED BY <2>1 DEF Preparing, Waits, Base, Streams
<1>2. CASE Rendered \/ Unproven \/ Asks \/ Identified
  BY <1>1, <1>2 DEF Rendered, Unproven, Asks, Identified, Taken
<1>3. CASE Produced
  <2>1. UNCHANGED <<sub, down, up>> /\ last' = last + 1
    BY <1>1, <1>3 DEF Produced
  <2>2. Noisy' /\ last' > 0
    BY <1>1, <2>1 DEF Noisy
  <2> QED BY <1>1, <2>1, <2>2 DEF Preparing
<1>4. ASSUME NEW type \in {"begin", "failed"}, NEW m \in Nat, Told(<<Say(type, m)>>),
             NEW d \in Nat
      PROVE  \E n \in Nat : /\ n = Len(down) /\ Len(down') = n + 1
                            /\ down'[n + 1] = Say(type, m)
                            /\ \A i \in 1..n : Within(i, n + 1, d, d)'
  <2> DEFINE t == <<Say(type, m)>>
  <2>1. Told(t) /\ Len(t) = 1 /\ t[1] = Say(type, m)
    BY <1>4
  <2> HIDE DEF t
  <2>2. PICK n \in Nat : /\ n = Len(down) /\ Len(down') = n + 1
                         /\ down'[n + 1] = Say(type, m)
    BY <2>1 DEF Told
  <2>3. \A i \in 1..n : Within(i, n + 1, d, d)'
    BY <1>1, <2>1, <2>2, NoisyPlaces
  <2> QED BY <2>2, <2>3
<1>5. CASE Captured
  <2>1. sub' = [sub EXCEPT !.pc = "rendering", !.dto = last] /\ Told(<<Say("begin", last)>>)
        /\ up' = up /\ last' = last
    BY <1>5 DEF Captured, runner
  <2>2. sub'.pc = "rendering" /\ sub'.owns /\ sub'.dto = last
    BY <1>1, <2>1, SubStep
  <2>3. PICK n \in Nat : /\ n = Len(down) /\ Len(down') = n + 1
                         /\ down'[n + 1] = Say("begin", last)
                         /\ \A i \in 1..n : Within(i, n + 1, last, last)'
    BY <1>1, <1>4, <2>1
  <2>4. Within(n + 1, n + 1, last, last)'
    <3>1. (n + 1) - (n + 1) = 0
      OBVIOUS
    <3> QED BY <2>1, <2>3, <3>1 DEF Within
  <2>5. \A i \in 1..n + 1 : i \in 1..n \/ i = n + 1
    OBVIOUS
  <2>6. \A i \in 1..Len(down') : Within(i, n + 1, last, last)'
    BY <2>3, <2>4, <2>5
  <2>7. PICK d \in Nat : d = last /\ d > 0
    BY <1>1
  <2>a. n + 1 \in Int /\ n + 1 > 0
    OBVIOUS
  <2>8. Took(n + 1, d)'
    BY <1>1, <2>a, TookCases
  <2>9. Answered(n + 1, d, d)'
    BY <1>1, <2>1, <2>2, <2>3, <2>6, <2>7, <2>8 DEF Answered
  <2> QED BY <2>9
<1>6. CASE Unrendered
  <2>1. sub' = [sub EXCEPT !.pc = "idle"] /\ Told(<<Say("failed", 0)>>) /\ up' = up /\ last' = last
    BY <1>6 DEF Unrendered, runner
  <2>2. sub'.pc = "idle" /\ sub'.owns
    BY <1>1, <2>1, SubStep
  <2>3. PICK n \in Nat : /\ n = Len(down) /\ Len(down') = n + 1
                         /\ down'[n + 1] = Say("failed", 0)
                         /\ \A i \in 1..n : Within(i, n + 1, 1, 1)'
    BY <1>4, <2>1
  <2>a. n + 1 \in Int /\ n + 1 > 0
    OBVIOUS
  <2>4. Took(n + 1, 1)'
    BY <1>1, <2>a, TookCases
  <2>5. down'[n + 1].type = "failed"
    BY <2>3 DEF Say
  <2>6. (n + 1) - 1 = n /\ n + 1 > 0 /\ n + 1 <= (n + 1) + 2 /\ n + 1 <= (n + 1) + 1
    OBVIOUS
  <2>7. Answered(n + 1, 1, 1)'
    BY <1>1, <2>1, <2>2, <2>3, <2>4, <2>5, <2>6 DEF Answered
  <2> QED BY <2>7
<1> QED BY <1>2, <1>3, <1>5, <1>6 DEF Serves

\* The runner adds to its answer.
LEMMA AnsweredServed ==
    ASSUME Base, NEW b \in Int, NEW d \in Nat, NEW e \in Nat, Answered(b, d, e), Serves, link,
           client' = client
    PROVE  \E g \in Nat : Answered(b, d, g)'
<1>1. /\ sub.owns /\ up = <<>> /\ Took(b, d) /\ d <= e /\ Typed /\ sub \in Sub
      /\ last \in Nat /\ sub.dto \in Nat /\ sub.dto <= last
  <2>1. Typed /\ sub \in Sub /\ last \in Nat
    BY TypedParts DEF Base, Parts
  <2>2. sub.dto \in Nat /\ sub.dto <= last
    BY <2>1 DEF Sub
  <2> QED BY <2>1, <2>2 DEF Answered
<1>2. Took(b, d)'
  BY <1>1 DEF Took, Waits
<1>3. PICK n \in Nat : n = Len(down)
  BY <1>1, LenProperties DEF Typed
<1>a. n <= Len(down) /\ n - 1 <= Len(down)
  BY <1>3
<1>4. ~Asks /\ ~Identified /\ ~Captured
  BY <1>1 DEF Asks, Identified, Taken, Captured, Answered
<1>5. ASSUME NEW m \in Nat, m <= n, \A i \in 1..m : Within(i, b, d, e), down' = down
      PROVE  \A i \in 1..m : Within(i, b, d, e)'
  <2>1. ASSUME NEW i \in 1..m PROVE Within(i, b, d, e)'
    BY <1>5, <2>1, WithinKept
  <2> QED BY <2>1
<1>6. ASSUME NEW type \in {"output", "proof", "failed"}, NEW k \in Nat, Told(<<Say(type, k)>>)
      PROVE  Len(down') = n + 1 /\ down'[n + 1] = Say(type, k) /\ down'[n + 1].type = type
  <2> DEFINE t == <<Say(type, k)>>
  <2>1. Told(t) /\ Len(t) = 1 /\ t[1] = Say(type, k)
    BY <1>6
  <2> HIDE DEF t
  <2>2. Len(down') = n + 1 /\ down'[n + 1] = Say(type, k)
    <3>1. /\ Len(down') = n + 1 /\ \A i \in 1..1 : down'[n + i] = t[i]
      BY <1>3, <2>1 DEF Told
    <3>2. 1 \in 1..1
      OBVIOUS
    <3> QED BY <2>1, <3>1, <3>2
  <2> QED BY <2>2 DEF Say
<1>7. CASE sub.pc = "live"
  <2>1. EndsAt(b, d, e) \in 1..n /\ \A i \in 1..n : Within(i, b, d, e)
    BY <1>3, <1>7 DEF Answered
  <2>2. PICK type \in {"output", "proof"}, k \in Nat :
           /\ Told(<<Say(type, k)>>) /\ up' = up /\ sub'.pc = "live" /\ sub'.owns
    <3>1. CASE Produced
      <4>1. /\ Told(<<Say("output", last + 1)>>) /\ up' = up /\ last' = last + 1
            /\ sub' = [sub EXCEPT !.seq = last + 1]
        BY <1>1, <1>7, <3>1 DEF Produced
      <4>2. last' \in Nat /\ last' >= last /\ last + 1 \in Nat
        BY <1>1, <4>1
      <4>3. sub'.pc = sub.pc /\ sub'.owns = sub.owns
        BY <1>1, <4>1, <4>2, SubStep
      <4> QED BY <1>1, <1>7, <4>1, <4>2, <4>3
    <3>2. CASE Unproven
      BY <1>1, <1>7, <3>2 DEF Unproven
    <3>3. ~Captured /\ ~Rendered /\ ~Unrendered
      BY <1>7 DEF Captured, Rendered, Unrendered
    <3> QED BY <1>4, <3>1, <3>2, <3>3 DEF Serves
  <2>3. Len(down') = n + 1 /\ down'[n + 1].type \in {"output", "proof"}
    BY <1>6, <2>2
  <2>4. \A i \in 1..n : Within(i, b, d, e)'
    BY <1>a, <2>1, <2>2, PlacesKept
  <2>5. Within(n + 1, b, d, e)'
    <3>1. CASE d = 0
      <4>1. (n + 1) - b > 1
        BY <2>1, <3>1 DEF EndsAt
      <4> QED BY <2>3, <3>1, <4>1 DEF Within
    <3>2. CASE d > 0
      <4>1. (n + 1) - b > e - d + 2
        BY <2>1, <3>2 DEF EndsAt
      <4> QED BY <2>3, <3>2, <4>1 DEF Within
    <3> QED BY <3>1, <3>2
  <2>6. \A i \in 1..n + 1 : i \in 1..n \/ i = n + 1
    OBVIOUS
  <2>7. \A i \in 1..Len(down') : Within(i, b, d, e)'
    BY <2>3, <2>4, <2>5, <2>6
  <2>8. EndsAt(b, d, e) \in 1..Len(down')
    BY <2>1, <2>3
  <2>9. Answered(b, d, e)'
    BY <1>1, <1>2, <2>2, <2>7, <2>8 DEF Answered
  <2> QED BY <2>9
<1>8. CASE sub.pc # "live" /\ Produced
  <2>1. UNCHANGED <<sub, down, up>>
    BY <1>1, <1>8 DEF Produced
  <2>2. CASE sub.pc = "rendering"
    <3>1. d = sub.dto /\ d > 0 /\ b = n /\ \A i \in 1..n : Within(i, b, d, e)
      BY <1>3, <2>2 DEF Answered
    <3>2. \A i \in 1..n : Within(i, b, d, e)'
      BY <1>5, <2>1, <3>1
    <3>3. Answered(b, d, e)'
      BY <1>1, <1>2, <1>3, <2>1, <2>2, <3>1, <3>2 DEF Answered
    <3> QED BY <3>3
  <2>3. CASE sub.pc = "idle"
    <3>1. /\ d > 0 /\ n > 0 /\ b <= n /\ n <= b + 2
          /\ \A i \in 1..n - 1 : Within(i, b, d, e)
          /\ \/ down[n].type = "failed" /\ n <= b + 1
             \/ down[n].type = "required" /\ n = b + 2
      BY <1>3, <2>3 DEF Answered
    <3>2. n - 1 \in Nat /\ n - 1 <= n
      BY <3>1
    <3>3. \A i \in 1..n - 1 : Within(i, b, d, e)'
      BY <1>5, <2>1, <3>1, <3>2
    <3>4. Answered(b, d, e)'
      BY <1>1, <1>2, <1>3, <2>1, <2>3, <3>1, <3>3 DEF Answered
    <3> QED BY <3>4
  <2> QED BY <1>8, <2>2, <2>3 DEF Answered
<1>9. ASSUME sub.pc = "rendering"
      PROVE  d = sub.dto /\ d > 0 /\ b = n /\ \A i \in 1..n : Within(i, b, d, e)
  BY <1>3, <1>9 DEF Answered
<1>10. CASE Unrendered
  <2>1. /\ sub.pc = "rendering" /\ sub' = [sub EXCEPT !.pc = "idle"] /\ up' = up /\ last' = last
        /\ Told(<<Say("failed", 0)>>)
    BY <1>10 DEF Unrendered, Answered, runner
  <2>2. sub'.pc = "idle" /\ sub'.owns
    BY <1>1, <2>1, SubStep
  <2>3. Len(down') = n + 1 /\ down'[n + 1].type = "failed"
    BY <1>6, <2>1
  <2>4. \A i \in 1..n : Within(i, b, d, e)'
    BY <1>a, <1>9, <2>1, PlacesKept
  <2>5. /\ (n + 1) - 1 = n /\ n + 1 > 0 /\ b <= n + 1 /\ n + 1 <= b + 2 /\ n + 1 <= b + 1
    BY <1>9, <2>1
  <2>6. Answered(b, d, e)'
    BY <1>1, <1>2, <1>9, <2>1, <2>2, <2>3, <2>4, <2>5 DEF Answered
  <2> QED BY <2>6
<1>11. CASE Rendered
  <2>1. sub.pc = "rendering" /\ up' = up /\ last' = last
    BY <1>11 DEF Rendered, runner
  <2>2. d = sub.dto /\ d > 0 /\ b = n /\ \A i \in 1..n : Within(i, b, d, e)
    BY <1>9, <2>1
  <2>3. CASE /\ sub' = [sub EXCEPT !.pc = "idle"]
             /\ Told(<<Say("frame", sub.dto), Say("required", 0)>>)
    <3> DEFINE t == <<Say("frame", d), Say("required", 0)>>
    <3>1. Told(t) /\ Len(t) = 2 /\ t[1] = Say("frame", d) /\ t[2] = Say("required", 0)
      BY <2>2, <2>3
    <3> HIDE DEF t
    <3>2. sub'.pc = "idle" /\ sub'.owns
      BY <1>1, <2>1, <2>3, SubStep
    <3>3. /\ Len(down') = n + 2 /\ down'[n + 1] = Say("frame", d)
          /\ down'[n + 2] = Say("required", 0)
      <4>1. Len(down') = n + 2 /\ \A i \in 1..2 : down'[n + i] = t[i]
        BY <1>3, <3>1 DEF Told
      <4>2. 1 \in 1..2 /\ 2 \in 1..2
        OBVIOUS
      <4> QED BY <3>1, <4>1, <4>2
    <3>4. \A i \in 1..n : Within(i, b, d, e)'
      BY <1>a, <2>2, <3>1, PlacesKept
    <3>5. Within(n + 1, b, d, e)'
      <4>1. (n + 1) - b = 1
        BY <2>2
      <4> QED BY <2>2, <3>3, <4>1 DEF Within
    <3>6. \A i \in 1..(n + 2) - 1 : i \in 1..n \/ i = n + 1
      OBVIOUS
    <3>7. \A i \in 1..Len(down') - 1 : Within(i, b, d, e)'
      BY <3>3, <3>4, <3>5, <3>6
    <3>8. down'[n + 2].type = "required"
      BY <3>3 DEF Say
    <3>9. n + 2 > 0 /\ b <= n + 2 /\ n + 2 <= b + 2 /\ n + 2 = b + 2
      BY <2>2
    <3>10. Answered(b, d, e)'
      BY <1>1, <1>2, <2>1, <2>2, <3>2, <3>3, <3>7, <3>8, <3>9 DEF Answered
    <3> QED BY <3>10
  <2>a. PICK g \in Nat : g = last /\ d <= g
    BY <1>1, <2>2
  <2>4. ASSUME sub' = [sub EXCEPT !.pc = "live", !.seq = last],
               NEW t \in Seq(Message), Told(t), Len(t) = g - d + 2, t[1] = Say("frame", d),
               t[g - d + 2] = Say("end", g + 1),
               \A k \in 1..g - d : t[k + 1] = Say("output", d + k)
        PROVE  Answered(b, d, g)'
    <3>1. sub'.pc = "live" /\ sub'.owns
      BY <1>1, <2>1, <2>4, SubStep
    <3>2. /\ Len(down') = n + (g - d + 2)
          /\ \A j \in 1..g - d + 2 : down'[n + j] = t[j]
      BY <1>3, <2>4 DEF Told
    <3>3. \A i \in 1..n : Within(i, b, d, g)
      <4>1. ASSUME NEW i \in 1..n PROVE Within(i, b, d, g)
        <5>1. Within(i, b, d, e) /\ i \in Int /\ (i < b \/ i = b)
          BY <2>2
        <5>a. d <= e
          BY <1>1
        <5>b. i \in Int /\ Within(i, b, d, e)
          BY <5>1
        <5>2. (i < b => down[i].type \in Noise) /\ (i = b => down[i] = Say("begin", d))
          BY <5>a, <5>b, WithinCases
        <5>3. (i < b => i - b < 0) /\ (i = b => i - b = 0)
          OBVIOUS
        <5> QED BY <5>1, <5>2, <5>3 DEF Within
      <4> QED BY <4>1
    <3>4. \A i \in 1..n : Within(i, b, d, g)'
      BY <1>a, <2>4, <3>3, PlacesKept
    <3>5. ASSUME NEW j \in 1..g - d + 2 PROVE Within(n + j, b, d, g)'
      <4>1. (n + j) - b = j /\ down'[n + j] = t[j] /\ d > 0
        BY <2>2, <3>2
      <4>2. CASE j = 1
        BY <2>4, <4>1, <4>2 DEF Within
      <4>3. CASE j = g - d + 2
        <5>1. j > 1
          BY <2>a, <4>3
        <5>2. down'[n + j] = Say("end", g + 1)
          BY <2>4, <4>1, <4>3
        <5> QED BY <4>1, <4>3, <5>1, <5>2 DEF Within
      <4>4. CASE j > 1 /\ j # g - d + 2
        <5>1. j - 1 \in 1..g - d /\ j = (j - 1) + 1 /\ j <= g - d + 1
          BY <2>a, <4>4
        <5>2. t[(j - 1) + 1] = Say("output", d + (j - 1))
          BY <2>4, <5>1
        <5>3. d + (j - 1) = d + j - 1
          OBVIOUS
        <5>4. down'[n + j] = Say("output", d + j - 1)
          BY <4>1, <5>1, <5>2, <5>3
        <5> QED BY <4>1, <4>4, <5>1, <5>4 DEF Within
      <4> QED BY <4>2, <4>3, <4>4
    <3>6. \A i \in 1..Len(down') : i \in 1..n \/ \E j \in 1..g - d + 2 : i = n + j
      <4>1. g - d + 2 \in Nat
        BY <2>a
      <4> QED BY <3>2, <4>1, Places
    <3>7. \A i \in 1..Len(down') : Within(i, b, d, g)'
      BY <3>4, <3>5, <3>6
    <3>8. EndsAt(b, d, g) \in 1..Len(down')
      BY <2>2, <2>a, <3>2 DEF EndsAt
    <3> QED BY <1>1, <1>2, <2>1, <2>a, <3>1, <3>7, <3>8 DEF Answered
  <2>5. \/ /\ sub' = [sub EXCEPT !.pc = "idle"]
           /\ Told(<<Say("frame", sub.dto), Say("required", 0)>>)
        \/ \E h \in Nat : Answered(b, d, h)'
    <3>1. CASE /\ sub' = [sub EXCEPT !.pc = "live", !.seq = last]
               /\ \E t \in Seq(Message) :
                     /\ Told(t) /\ Len(t) = last - sub.dto + 2
                     /\ t[1] = Say("frame", sub.dto)
                     /\ t[last - sub.dto + 2] = Say("end", last + 1)
                     /\ \A k \in 1..last - sub.dto : t[k + 1] = Say("output", sub.dto + k)
      <4>1. PICK t \in Seq(Message) :
               /\ Told(t) /\ Len(t) = g - d + 2
               /\ t[1] = Say("frame", d)
               /\ t[g - d + 2] = Say("end", g + 1)
               /\ \A k \in 1..g - d : t[k + 1] = Say("output", d + k)
        BY <2>2, <2>a, <3>1
      <4>2. Answered(b, d, g)'
        BY <2>4, <3>1, <4>1
      <4> QED BY <4>2
    <3> QED BY <1>11, <3>1 DEF Rendered
  <2> QED BY <2>3, <2>5
<1> QED BY <1>4, <1>7, <1>8, <1>10, <1>11 DEF Serves, Unproven

----------------------------------------------------------------------------
(* The theorems.                                                           *)

LEMMA SessionStep ==
    ASSUME AttachInvariant, [Next]_vars
    PROVE  SessionInvariant'
<1>1. Base /\ SessionInvariant
  BY DEF AttachInvariant
<1>2. CASE Serves
  <2>1. UNCHANGED <<gen, link, client, screen, trouble>>
    BY <1>2
    DEF Serves, Produced, Captured, Rendered, Unrendered, Unproven, Asks, Identified, runner
  <2>2. SUFFICES ASSUME trouble = {}, link, client.state \notin {"legacy", "reconciling"},
                        screen.gen # gen
                 PROVE  Asking' \/ Preparing' \/ \E b \in Int, d, e \in Nat : Answered(b, d, e)'
    BY <2>1 DEF SessionInvariant
  <2>3. CASE Asking
    BY <1>1, <1>2, <2>1, <2>2, <2>3, AskingServed
  <2>4. CASE Preparing
    BY <1>1, <1>2, <2>1, <2>2, <2>4, PreparingServed
  <2>5. ASSUME NEW b \in Int, NEW d \in Nat, NEW e \in Nat, Answered(b, d, e)
        PROVE  \E c \in Int, f, g \in Nat : Answered(c, f, g)'
    <3>1. \E g \in Nat : Answered(b, d, g)'
      BY <1>1, <1>2, <2>1, <2>2, <2>5, AnsweredServed
    <3> QED BY <3>1
  <2> QED BY <1>1, <2>2, <2>3, <2>4, <2>5 DEF SessionInvariant
<1> QED BY <1>1, <1>2, Steps, SessionHears, SessionSockets

LEMMA AttachStep ==
    ASSUME AttachInvariant, [Next]_vars
    PROVE  AttachInvariant'
<1>1. Base
  BY DEF AttachInvariant
<1>2. Base'
  BY <1>1, BaseStep
<1>3. ModeInvariant' /\ SocketInvariant'
  BY ModeStep, SocketStep
<1>4. ScreenInvariant'
  BY ScreenStep
<1>5. SessionInvariant'
  BY SessionStep
<1>6. CursorInvariant'
  BY <1>2, <1>4, CursorStep
<1> QED BY <1>2, <1>3, <1>4, <1>5, <1>6 DEF AttachInvariant

LEMMA InitAttach == Init => AttachInvariant
<1> SUFFICES ASSUME Init PROVE AttachInvariant
  OBVIOUS
<1>1. /\ gen = 1 /\ link = FALSE /\ Len(up) = 0 /\ screen.gen = 0
      /\ client.state = "probing" /\ client.mode = "undecided"
      /\ client.seq = 0 /\ client.high = 0 /\ client.gen = 0
  BY DEF Init
<1>2. Base
  BY InitBase
<1>3. ModeInvariant
  BY <1>1 DEF ModeInvariant
<1>4. SocketInvariant
  BY <1>1 DEF SocketInvariant
<1>5. ScreenInvariant
  BY <1>1 DEF ScreenInvariant
<1>6. SessionInvariant
  BY <1>1 DEF SessionInvariant
<1>7. CursorInvariant
  BY <1>1 DEF CursorInvariant
<1> QED BY <1>2, <1>3, <1>4, <1>5, <1>6, <1>7 DEF AttachInvariant

\* The invariant of attaching: what the runner, the socket and the client of
\* terminal-attach-protocol.mjs and terminal-attach-client.mjs agree on after any
\* interleaving of chunks, messages, drops, replaced hosts and late timers.
THEOREM AttachInductive == Spec => []AttachInvariant
<1>1. Init => AttachInvariant
  BY InitAttach
<1>2. AttachInvariant /\ [Next]_vars => AttachInvariant'
  BY AttachStep
<1> QED BY <1>1, <1>2, PTL DEF Spec

\* The variables of the attach keep their types: a subscription's cursor stays below
\* the model's last chunk, a client counts no generation that has not existed.
THEOREM TypeCorrect == Spec => []TypeOK
<1>1. AttachInvariant => TypeOK
  BY DEF AttachInvariant, Base, Typed
<1> QED BY <1>1, AttachInductive, PTL

\* A live client shows the chunks of its runner up to its cursor, each once and in
\* order (terminal-attach-client.mjs, deliver and finishCollecting), for any ring and
\* any number of drops, hosts, failed captures and late timers.
THEOREM ScreenStaysExact == Spec => []ScreenIsExact
<1>1. ASSUME AttachInvariant PROVE ScreenIsExact
  <2> SUFFICES ASSUME link, client.state = "live", trouble = {}
               PROVE  screen = [gen |-> gen, upto |-> client.seq, exact |-> TRUE]
    BY DEF ScreenIsExact
  <2>1. Base /\ SocketInvariant /\ ScreenInvariant
    BY <1>1 DEF AttachInvariant
  <2>2. client.seq \in Nat /\ screen \in Screen
    BY <2>1, TypedParts DEF Base, Parts, Client
  <2>3. client.high = 0
    BY <2>1 DEF SocketInvariant
  <2>4. screen.gen = gen /\ screen.exact /\ screen.upto = Larger(client.seq, client.high)
    BY <2>1 DEF ScreenInvariant
  <2>5. screen.upto = client.seq
    BY <2>2, <2>3, <2>4, Largest
  <2>6. screen = [gen |-> screen.gen, upto |-> screen.upto, exact |-> screen.exact]
        /\ screen.exact \in BOOLEAN
    BY <2>2 DEF Screen
  <2> QED BY <2>4, <2>5, <2>6
<1>2. AttachInvariant => ScreenIsExact
  BY <1>1
<1> QED BY <1>2, AttachInductive, PTL

\* The reconnect gate (hello, reconcile, subscribe since a cursor) resumes a stream only
\* over a screen of that very runner boot that holds every chunk up to the cursor.
THEOREM ResumeIsSafe == Spec => []ResumesWhatItShows
<1>1. ASSUME AttachInvariant PROVE ResumesWhatItShows
  <2>1. CursorInvariant /\ DOMAIN up = 1..Len(up)
    BY <1>1, LenProperties DEF AttachInvariant, Base, Typed
  <2> QED BY <2>1 DEF CursorInvariant, ResumesWhatItShows
<1>2. AttachInvariant => ResumesWhatItShows
  BY <1>1
<1> QED BY <1>2, AttachInductive, PTL
=============================================================================
