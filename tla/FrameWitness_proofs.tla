------------------------- MODULE FrameWitness_proofs -------------------------
(***************************************************************************)
(* Theorems about FrameWitness, for every set of sizes and scripts and     *)
(* every budget: the markers of a trusted reporter never reach the output, *)
(* a resize counts as answered only if a proof was written under its       *)
(* intent, and markers are written outside of cut controls.                *)
(*                                                                         *)
(* The argument: between two operations the reporter's evaluator is at     *)
(* rest, i.e. no complete frame is undecided and what waits are A's; while *)
(* a frame is open it knows which control the stream is in the middle of;  *)
(* and a session's markers come after its hello, by which the runner takes *)
(* the trust from the session before it.                                   *)
(***************************************************************************)
EXTENDS FrameWitness, WellFoundedInduction, SequenceTheorems, TLAPS

----------------------------------------------------------------------------
(* The types of what a turn changes.                                       *)

PairType == Seq(Nat)
IntentType == [rev : Nat, size : PairType]
CandType ==
    [frame : Nat, size : PairType, intent : IntentType, fact : Foci \cup {"unseen"},
     opened : BOOLEAN, closed : BOOLEAN, cursor : BOOLEAN, park : BOOLEAN, vis : BOOLEAN,
     links : Nat]
DecisionType == [kind : {"F", "A"}, frame : Nat, mode : Modes, size : PairType, rev : Nat]
EscapeType == Escapes \cup {"none"}
EvType ==
    [mode : Modes, cols : Nat, rows : Nat, cand : CandType, intent : IntentType,
     esc : EscapeType, log : Seq(DecisionType)]
RepType ==
    [session : Nat, state : {"announced", "enabled", "disposed", "failed"}, bound : BOOLEAN,
     frames : Nat, written : SUBSET Nat, ev : EvType, stash : EvType, stashed : BOOLEAN,
     focus : Foci, rev : Nat, consumed : Nat, rearmed : SUBSET Nat]
TokenType == [kind : {"token"}, token : Tokens, size : Nat, mode : Modes]
MarkerType ==
    [kind : {"S", "F", "A"}, frame : Nat, session : Nat, inside : BOOLEAN, size : PairType,
     mode : Modes \cup {"none"}, rev : Nat]
ItemType == TokenType \cup MarkerType
TurnType ==
    [rep : RepType, out : Seq(ItemType), half : EscapeType, proven : SUBSET Nat,
     thrown : BOOLEAN]
TuiType == [mode : Modes, up : BOOLEAN, size : Sizes, focus : Foci, half : EscapeType]

----------------------------------------------------------------------------
(* The inductive invariant.                                                *)

\* A candidate is sampled under the evaluator's intent, opens as a frame, and is
\* closed, parked and shown in this order; a fullscreen one opens whole.
Ordered(ev) ==
    /\ ev.cand.frame # 0 => ev.cand.intent.rev = ev.intent.rev
    /\ IF ev.cand.opened THEN ev.cand.frame # 0
       ELSE ~ ev.cand.closed /\ ~ ev.cand.park /\ ~ ev.cand.vis
    /\ ev.cand.vis => ev.cand.park
    /\ ev.cand.park => ev.cand.closed
    /\ ev.cand.opened /\ ev.mode = "fullscreen" => ev.cand.closed /\ ev.cand.cursor

\* No decision that waits proves a frame.
Unproving(log) == \A i \in DOMAIN log : log[i].kind = "A"

\* Between two operations no complete frame is left undecided.
AtRest(ev) == Ordered(ev) /\ ~ Completed(ev) /\ Unproving(ev.log)

\* The markers of a turn are its reporter's, which was enabled, and are outside of
\* cut controls.
Proper(t) ==
    \A i \in DOMAIN t.out : t.out[i].kind # "token" =>
        /\ t.out[i].session = rep.session /\ rep.state = "enabled"
        /\ FailsCleanly => ~ t.out[i].inside

\* The reporter's evaluator knows what the terminal is in the middle of, if a frame
\* is open or a decision waits.
Follows(t) ==
    /\ t.rep.ev.cand.opened => t.half = t.rep.ev.esc
    /\ FailsCleanly /\ Shadowed(t) /\ t.rep.ev.log # <<>> => t.half \in {"none", t.rep.ev.esc}

Kept(t) ==
    /\ t.rep.session = rep.session /\ t.rep.state \in {rep.state, "disposed"}
    /\ t.rep.bound => t.rep.state = "enabled"
    /\ t.rep.state = "announced" => t.rep.rev = 0
    /\ ~ t.rep.bound => ~ t.rep.ev.cand.opened
    /\ ~ t.rep.stash.cand.opened

\* The evaluator stamps what it proves with the runner's last request, if that is
\* neither answered nor out of its sight.
Stamps(t) ==
    t.rep.bound /\ t.rep.rev # 0 /\ t.rep.consumed # t.rep.rev /\ t.rep.rev \notin t.rep.rearmed
        => t.rep.ev.intent.rev = t.rep.rev
Answers(t) ==
    \/ t.rep.consumed = 0 \/ t.rep.consumed \in t.rep.rearmed \/ t.rep.consumed \in t.proven
    \/ [session |-> rep.session, rev |-> t.rep.consumed] \in past.proven

Steady(t) ==
    /\ t \in TurnType
    /\ AtRest(t.rep.ev) /\ AtRest(t.rep.stash)
    /\ Proper(t) /\ Kept(t) /\ Stamps(t) /\ Answers(t)

TurnInvariant(t) == Steady(t) /\ Follows(t)

\* A session that the runner has heard of.
Greeted(s) == s \in 1..rep.session /\ \A i \in DOMAIN up[s] : up[s][i] # "hello"

\* A hello comes first on its socket, and the enable first of what answers it.
Sockets ==
    /\ up \in [Sessions -> Seq({"hello", "close"})] /\ down \in [Sessions -> Seq(IntentType)]
    /\ \A s \in Sessions : \A i \in DOMAIN up[s] : up[s][i] = "hello" => i = 1
    /\ \A s \in Sessions : s > rep.session => up[s] = <<>> /\ down[s] = <<>>
    /\ ~ Greeted(rep.session) => down[rep.session] = <<>> /\ rep.state # "enabled"
    /\ rep.state = "announced" =>
          /\ \A i \in DOMAIN down[rep.session] : down[rep.session][i].rev = 0 <=> i = 1
          /\ Greeted(rep.session) => down[rep.session] # <<>>
    /\ rep.state = "enabled" => \A i \in DOMAIN down[rep.session] : down[rep.session][i].rev # 0

\* The markers in the stream are of sessions that were heard of.
Stream ==
    /\ pty \in Seq(ItemType)
    /\ \A i \in DOMAIN pty : pty[i].kind # "token" =>
          Greeted(pty[i].session) /\ (FailsCleanly => ~ pty[i].inside)

\* The runner reads half of the next marker, or has lost the parser that did.
Runner ==
    /\ host = [size |-> host.size, seq |-> host.seq, fr |-> host.fr, cut |-> host.cut]
    /\ host.fr = [session |-> host.fr.session, parser |-> host.fr.parser,
                  tracker |-> host.fr.tracker, sizes |-> host.fr.sizes]
    /\ host.fr.parser = [last |-> host.fr.parser.last, open |-> host.fr.parser.open,
                         half |-> host.fr.parser.half]
    /\ host.size \in Sizes /\ host.fr.sizes \in Seq(Sizes) /\ host.cut \in BOOLEAN
    /\ host.fr.parser.half \in BOOLEAN
    /\ host.fr.session # 0 => Greeted(host.fr.session)
    /\ host.fr.parser.half => host.fr.session # 0 /\ ~ host.cut
    /\ host.fr.parser.half \/ host.cut => pty # <<>> /\ Head(pty).kind # "token"
    /\ host.cut => Head(pty).session # host.fr.session

\* What was shown is of sessions that were heard of, and not of the trusted one.
Past ==
    /\ past = [whole |-> past.whole, proven |-> past.proven, shown |-> past.shown]
    /\ \A s \in past.shown : Greeted(s) /\ s # host.fr.session

Child ==
    /\ tui \in TuiType /\ rep.session \in Sessions
    /\ rep.state \in {"announced", "enabled", "disposed"} /\ TurnInvariant(Turn)

WitnessInvariant == Child /\ Sockets /\ Stream /\ Runner /\ Past

----------------------------------------------------------------------------
(* Folds.                                                                  *)

\* Every set of naturals has a least element.
LEMMA LeastNatural ==
    ASSUME NEW T \in SUBSET Nat, T # {}
    PROVE  \E m \in T : \A k \in T : m <= k
<1>1. \E m \in T : \A k \in T : <<k, m>> \notin OpToRel(<, Nat)
  BY NatLessThanWellFounded, WFMin
<1>2. ASSUME NEW m \in T, NEW k \in T, <<k, m>> \notin OpToRel(<, Nat) PROVE m <= k
  BY <1>2 DEF OpToRel
<1> QED BY <1>1, <1>2

\* Induction up to a bound, over a set.
LEMMA PrefixInduction ==
    ASSUME NEW n \in Nat, NEW S, 0 \in S, \A k \in 1..n : k - 1 \in S => k \in S
    PROVE  \A k \in 0..n : k \in S
<1> SUFFICES ASSUME NEW j \in 0..n, j \notin S PROVE FALSE
  OBVIOUS
<1> DEFINE T == {k \in 0..n : k \notin S}
<1>1. PICK m \in T : \A k \in T : m <= k
  <2>1. T \in SUBSET Nat /\ T # {}
    OBVIOUS
  <2> QED BY <2>1, LeastNatural
<1>2. m # 0 /\ m \in 1..n
  OBVIOUS
<1>3. m - 1 \notin T /\ m - 1 \in 0..n
  BY <1>1, <1>2
<1> QED BY <1>2, <1>3

\* The greatest element of a set of indices.
LEMMA MaxOfIndices ==
    ASSUME NEW k \in Nat, NEW s \in SUBSET (1..k), s # {}
    PROVE  Max(s) \in s /\ \A i \in s : i <= Max(s)
<1> DEFINE U == {k - i : i \in s}
<1>1. \A i \in s : i \in 1..k /\ k - i \in Nat
  OBVIOUS
<1>2. U \in SUBSET Nat /\ U # {}
  BY <1>1
<1>3. PICK u \in U : \A i \in U : u <= i
  BY <1>2, LeastNatural
<1>4. PICK m \in s : u = k - m
  OBVIOUS
<1>5. ASSUME NEW i \in s PROVE i <= m
  <2>1. k - m <= k - i
    BY <1>3, <1>4
  <2> QED BY <1>1, <2>1
<1>6. Max(s) = CHOOSE x \in s : \A y \in s : x >= y
  BY DEF Max
<1>7. m \in s /\ \A y \in s : m >= y
  BY <1>1, <1>5
<1>8. Max(s) \in s /\ \A y \in s : Max(s) >= y
  BY <1>6, <1>7
<1> QED BY <1>1, <1>8

\* What is before the last of the first k indices.
LEMMA PrefixOfIndices ==
    ASSUME NEW n \in Nat, NEW k \in 1..n
    PROVE  /\ 1..k \in SUBSET (1..n) /\ 1..k # {} /\ Max(1..k) = k
           /\ (1..k) \ {k} = 1..(k - 1)
<1>1. 1..k \in SUBSET (1..k) /\ 1..k # {} /\ k \in Nat /\ k \in 1..k
  OBVIOUS
<1>2. Max(1..k) \in 1..k /\ \A i \in 1..k : i <= Max(1..k)
  BY <1>1, MaxOfIndices
<1>3. Max(1..k) = k
  BY <1>1, <1>2
<1> QED BY <1>3

\* Folding over a set of indices from its greatest one down is a function of the set.
Tabled(f, n, T, t, F) ==
    /\ f \in [SUBSET (1..n) -> T]
    /\ \A s \in SUBSET (1..n) : f[s] = IF s = {} THEN t ELSE F[Max(s)][f[s \ {Max(s)}]]

\* There is one for every sequence of steps.
LEMMA TableFold ==
    ASSUME NEW n \in Nat, NEW T, NEW t \in T, NEW F \in [1..n -> [T -> T]]
    PROVE  \E f : Tabled(f, n, T, t, F)
<1> DEFINE Folds(k, f) == \A s \in SUBSET (1..k) :
                             f[s] = IF s = {} THEN t ELSE F[Max(s)][f[s \ {Max(s)}]]
           Good == {k \in 0..n : \E f \in [SUBSET (1..k) -> T] : Folds(k, f)}
<1>1. ASSUME NEW k, k = 0 PROVE k \in Good
  <2> DEFINE f == [s \in SUBSET (1..k) |-> t]
  <2>1. f \in [SUBSET (1..k) -> T] /\ Folds(k, f)
    <3>1. 1..k = {}
      BY <1>1
    <3> QED BY <3>1
  <2> HIDE DEF f, Folds
  <2>2. \E h \in [SUBSET (1..k) -> T] : Folds(k, h)
    BY <2>1
  <2>3. k \in 0..n
    BY <1>1
  <2> QED BY <2>2, <2>3
<1>2. ASSUME NEW k \in 1..n, k - 1 \in Good PROVE k \in Good
  <2>1. PICK f \in [SUBSET (1..(k - 1)) -> T] : Folds(k - 1, f)
    BY <1>2
  <2> DEFINE g == [s \in SUBSET (1..k) |-> IF k \in s THEN F[k][f[s \ {k}]] ELSE f[s]]
  <2>2. ASSUME NEW s \in SUBSET (1..k) PROVE g[s] \in T
    <3>1. CASE k \in s
      <4>1. s \ {k} \in SUBSET (1..(k - 1))
        OBVIOUS
      <4> QED BY <3>1, <4>1
    <3>2. CASE k \notin s
      <4>1. s \in SUBSET (1..(k - 1))
        BY <3>2
      <4> QED BY <3>2, <4>1
    <3> QED BY <3>1, <3>2
  <2>3. ASSUME NEW s \in SUBSET (1..k), s # {}
        PROVE  g[s] = F[Max(s)][g[s \ {Max(s)}]]
    <3>0. k \in Nat
      OBVIOUS
    <3>1. Max(s) \in s /\ \A i \in s : i <= Max(s)
      BY <2>3, <3>0, MaxOfIndices
    <3>2. CASE k \in s
      <4>1. Max(s) = k
        <5>1. PICK m : m = Max(s)
          OBVIOUS
        <5>2. m \in 1..k /\ k <= m
          BY <3>1, <3>2, <5>1
        <5> QED BY <3>0, <5>1, <5>2
      <4>2. s \ {k} \in SUBSET (1..k) /\ k \notin s \ {k}
        OBVIOUS
      <4> QED BY <3>2, <4>1, <4>2
    <3>3. CASE k \notin s
      <4>1. s \in SUBSET (1..(k - 1)) /\ s \ {Max(s)} \in SUBSET (1..k) /\ k \notin s \ {Max(s)}
        <5>1. \A i \in s : i \in 1..(k - 1)
          BY <3>3
        <5> QED BY <3>3, <5>1
      <4>2. f[s] = F[Max(s)][f[s \ {Max(s)}]]
        BY <2>1, <2>3, <4>1
      <4> QED BY <3>3, <4>1, <4>2
    <3> QED BY <3>2, <3>3
  <2>4. g[{}] = t
    <3>1. f[{}] = t
      BY <2>1
    <3> QED BY <3>1
  <2>5. g \in [SUBSET (1..k) -> T] /\ Folds(k, g)
    <3> HIDE DEF g
    <3>1. Folds(k, g)
      BY <2>3, <2>4
    <3>2. g = [s \in SUBSET (1..k) |-> g[s]]
      BY DEF g
    <3> QED BY <2>2, <3>1, <3>2
  <2> HIDE DEF g, Folds
  <2>6. \E h \in [SUBSET (1..k) -> T] : Folds(k, h)
    BY <2>5
  <2> QED BY <2>6
<1>3. n \in Good
  <2> HIDE DEF Good, Folds
  <2>1. \A k \in 1..n : k - 1 \in Good => k \in Good
    BY <1>2
  <2>2. \A k \in 0..n : k \in Good
    BY <1>1, <2>1, PrefixInduction
  <2> QED BY <2>2
<1>4. PICK f \in [SUBSET (1..n) -> T] : Folds(n, f)
  BY <1>3
<1>5. Tabled(f, n, T, t, F)
  BY <1>4 DEF Tabled
<1> QED BY <1>5

----------------------------------------------------------------------------
(* The evaluator.                                                          *)

\* A new evaluator is at rest and has seen nothing.
LEMMA NewEvaluatorFacts ==
    ASSUME NEW mode \in Modes
    PROVE  LET e == NewEvaluator(mode)
           IN  /\ e \in EvType /\ AtRest(e) /\ ~ e.cand.opened
               /\ e.log = <<>> /\ e.esc = "none" /\ e.intent = NoIntent
<1>1. <<>> \in PairType /\ <<>> \in Seq(DecisionType)
  BY DEF PairType
<1>2. NoIntent \in IntentType
  BY <1>1 DEF NoIntent, IntentType
<1>3. NoCand \in CandType
  BY <1>1, <1>2 DEF NoCand, CandType
<1>4. NewEvaluator(mode) \in EvType
  BY <1>1, <1>2, <1>3 DEF NewEvaluator, EvType, EscapeType
<1> QED BY <1>4 DEF NewEvaluator, AtRest, Ordered, Completed, Unproving, NoCand

\* A decision takes the candidate away.
LEMMA DecideFacts ==
    ASSUME NEW ev \in EvType, NEW kind \in {"F", "A"}
    PROVE  LET e == Decide(ev, kind)
               d == e.log[Len(ev.log) + 1]
           IN  /\ e \in EvType /\ e = [ev EXCEPT !.cand = NoCand, !.log = e.log]
               /\ d \in DecisionType /\ d.kind = kind /\ e.log = Append(ev.log, d)
               /\ kind = "F" => d.rev = ev.cand.intent.rev
<1> DEFINE d == [kind |-> kind, frame |-> ev.cand.frame, mode |-> ev.mode,
                 size |-> IF kind = "F" THEN ev.cand.size ELSE <<>>,
                 rev |-> IF kind = "F" THEN ev.cand.intent.rev ELSE 0]
<1>1. d \in DecisionType /\ d.kind = kind /\ (kind = "F" => d.rev = ev.cand.intent.rev)
  BY DEF DecisionType, EvType, CandType, IntentType, PairType
<1>2. Decide(ev, kind) = [ev EXCEPT !.cand = NoCand, !.log = Append(@, d)]
  BY DEF Decide
<1>3. ev.log \in Seq(DecisionType) /\ NoCand \in CandType
  BY DEF EvType, NoCand, CandType, NoIntent, IntentType, PairType
<1> HIDE DEF d
<1>4. Append(ev.log, d) \in Seq(DecisionType) /\ Append(ev.log, d)[Len(ev.log) + 1] = d
  BY <1>1, <1>3
<1>5. Decide(ev, kind) \in EvType
  BY <1>2, <1>3, <1>4 DEF EvType
<1>6. Decide(ev, kind).log = Append(ev.log, d)
  BY <1>2 DEF EvType
<1>7. Decide(ev, kind) = [ev EXCEPT !.cand = NoCand, !.log = Append(ev.log, d)]
  BY <1>2
<1> QED BY <1>1, <1>4, <1>5, <1>6, <1>7

\* What giving a candidate up leaves.
Aborted(ev, e) ==
    /\ e \in EvType /\ e.cand.frame = 0 /\ ~ e.cand.opened /\ Ordered(e) /\ ~ Completed(e)
    /\ e.mode = ev.mode /\ e.cols = ev.cols /\ e.rows = ev.rows
    /\ e.intent = ev.intent /\ e.esc = ev.esc
    /\ Unproving(ev.log) => Unproving(e.log)
    /\ e.log # <<>> => ev.log # <<>> \/ ev.cand.opened

\* An aborted evaluator has no candidate; an A for its open frame waits.
LEMMA AbortFacts ==
    ASSUME NEW ev \in EvType
    PROVE  Aborted(ev, Abort(ev))
<1>0. NoCand \in CandType /\ NoCand.frame = 0 /\ ~ NoCand.opened /\ ~ NoCand.closed
         /\ ~ NoCand.park /\ ~ NoCand.vis
  BY DEF NoCand, CandType, NoIntent, IntentType, PairType
<1>1. CASE ev.cand.opened
  <2> DEFINE e == Decide(ev, "A")
             d == e.log[Len(ev.log) + 1]
  <2>1. /\ e \in EvType /\ e = [ev EXCEPT !.cand = NoCand, !.log = e.log]
        /\ d.kind = "A" /\ e.log = Append(ev.log, d)
    BY DecideFacts
  <2>2. Abort(ev) = e
    BY <1>1 DEF Abort
  <2>3. ev.log \in Seq(DecisionType)
    BY DEF EvType
  <2> HIDE DEF e, d
  <2>4. /\ e.cand = NoCand /\ e.mode = ev.mode /\ e.cols = ev.cols /\ e.rows = ev.rows
        /\ e.intent = ev.intent /\ e.esc = ev.esc
    BY <2>1 DEF EvType
  <2>5. Unproving(ev.log) => Unproving(e.log)
    BY <2>1, <2>3 DEF Unproving
  <2>6. Ordered(e) /\ ~ Completed(e)
    BY <1>0, <2>4 DEF Ordered, Completed
  <2> QED BY <1>0, <1>1, <2>1, <2>2, <2>4, <2>5, <2>6 DEF Aborted
<1>2. CASE ~ ev.cand.opened
  <2>1. Abort(ev) = [ev EXCEPT !.cand = NoCand]
    BY <1>2 DEF Abort
  <2>2. Abort(ev) \in EvType
    BY <1>0, <2>1 DEF EvType
  <2>3. /\ Abort(ev).cand = NoCand /\ Abort(ev).mode = ev.mode /\ Abort(ev).cols = ev.cols
        /\ Abort(ev).rows = ev.rows /\ Abort(ev).intent = ev.intent /\ Abort(ev).esc = ev.esc
        /\ Abort(ev).log = ev.log
    BY <2>1 DEF EvType
  <2> QED BY <1>0, <2>2, <2>3 DEF Aborted, Ordered, Completed
<1> QED BY <1>1, <1>2 DEF EvType, CandType

\* What the operations that write nothing leave: an open candidate was open before,
\* and nothing is decided but that it ends.
Continued(ev, e) ==
    /\ e \in EvType /\ AtRest(e) /\ e.esc = ev.esc
    /\ e.cand.opened => ev.cand.opened
    /\ e.log # <<>> => ev.log # <<>> \/ ev.cand.opened

\* An intent that the candidate was not sampled under aborts it.
LEMMA SetIntentFacts ==
    ASSUME NEW ev \in EvType, AtRest(ev), NEW intent \in IntentType
    PROVE  Continued(ev, SetIntent(ev, intent)) /\ SetIntent(ev, intent).intent = intent
<1>1. CASE ev.cand.frame # 0 /\ intent.rev # ev.intent.rev
  <2> DEFINE e == Abort(ev)
  <2>1. Aborted(ev, e)
    BY AbortFacts
  <2>2. SetIntent(ev, intent) = [e EXCEPT !.intent = intent]
    BY <1>1 DEF SetIntent
  <2>3. e.cand.frame = 0
    BY <2>1 DEF Aborted
  <2> HIDE DEF e
  <2>4. [e EXCEPT !.intent = intent] \in EvType
    BY <2>1 DEF Aborted, EvType
  <2>5. LET w == [e EXCEPT !.intent = intent]
        IN  /\ w.cand = e.cand /\ w.mode = e.mode /\ w.esc = e.esc
            /\ w.log = e.log /\ w.intent = intent
    BY <2>1 DEF Aborted, EvType
  <2> QED BY <2>1, <2>2, <2>3, <2>4, <2>5 DEF Aborted, Continued, AtRest, Ordered, Completed
<1>2. CASE ~ (ev.cand.frame # 0 /\ intent.rev # ev.intent.rev)
  <2>2. SetIntent(ev, intent) = [ev EXCEPT !.intent = intent]
    BY <1>2 DEF SetIntent
  <2>4. [ev EXCEPT !.intent = intent] \in EvType
    BY DEF EvType
  <2>5. LET w == [ev EXCEPT !.intent = intent]
        IN  w.cand = ev.cand /\ w.mode = ev.mode /\ w.esc = ev.esc /\ w.log = ev.log
            /\ w.intent = intent
    BY DEF EvType
  <2> QED BY <1>2, <2>2, <2>4, <2>5 DEF Continued, AtRest, Ordered, Completed
<1> QED BY <1>1, <1>2

\* A size getter starts, completes or aborts a candidate.
LEMMA SizeReadFacts ==
    ASSUME NEW ev \in EvType, AtRest(ev), NEW key \in {"cols", "rows"},
           NEW value \in Nat, NEW frame \in Nat
    PROVE  LET e == SizeRead(ev, key, value, frame)
           IN  Continued(ev, e) /\ e.intent = ev.intent
<1> DEFINE e == [ev EXCEPT ![key] = value]
<1>1. e \in EvType
  BY DEF EvType
<1>2. /\ e.cand = ev.cand /\ e.mode = ev.mode /\ e.esc = ev.esc /\ e.log = ev.log
      /\ e.intent = ev.intent
  BY DEF EvType
<1> HIDE DEF e
<1>3. AtRest(e)
  BY <1>2 DEF AtRest, Ordered, Completed
<1>4. CASE e.cols = 0 \/ e.rows = 0
  <2>1. SizeRead(ev, key, value, frame) = e
    BY <1>4 DEF SizeRead, e
  <2> QED BY <1>1, <1>2, <1>3, <2>1 DEF Continued
<1>5. CASE ~ (e.cols = 0 \/ e.rows = 0)
  <2> DEFINE a == Abort(e)
             c == [NoCand EXCEPT !.frame = frame, !.size = <<e.cols, e.rows>>, !.intent = e.intent]
             w == [a EXCEPT !.cand = c, !.cols = 0, !.rows = 0]
  <2>1. Aborted(e, a)
    BY <1>1, AbortFacts
  <2>2. SizeRead(ev, key, value, frame) = w
    BY <1>5 DEF SizeRead, e
  <2>3. c \in CandType
    <3>1. <<e.cols, e.rows>> \in PairType /\ e.intent \in IntentType
      BY <1>1 DEF EvType, PairType
    <3> QED BY <3>1 DEF NoCand, CandType
  <2>4. c.intent = e.intent /\ ~ c.opened /\ ~ c.closed /\ ~ c.park /\ ~ c.vis
    BY DEF NoCand
  <2> HIDE DEF a, c
  <2>5. w \in EvType
    BY <2>1, <2>3 DEF Aborted, EvType
  <2>6. /\ w.cand = c /\ w.mode = a.mode /\ w.esc = a.esc /\ w.log = a.log
        /\ w.intent = a.intent
    BY <2>1 DEF Aborted, EvType
  <2> HIDE DEF w
  <2>7. AtRest(w)
    BY <1>3, <2>1, <2>4, <2>6 DEF Aborted, AtRest, Ordered, Completed
  <2> QED BY <1>2, <2>1, <2>2, <2>4, <2>5, <2>6, <2>7 DEF Aborted, Continued
<1> QED BY <1>4, <1>5

\* The sentinel's render tells the candidate the focus, or aborts it.
LEMMA SentinelFacts ==
    ASSUME NEW ev \in EvType, AtRest(ev), NEW focus \in Foci
    PROVE  LET e == Sentinel(ev, focus)
           IN  Continued(ev, e) /\ e.intent = ev.intent
<1>1. CASE ev.cand.frame # 0 /\ ev.cand.fact = "unseen"
  <2>1. Sentinel(ev, focus) = [ev EXCEPT !.cand.fact = focus]
    BY <1>1 DEF Sentinel
  <2>2. [ev.cand EXCEPT !.fact = focus] \in CandType
    BY DEF EvType, CandType
  <2>3. [ev EXCEPT !.cand.fact = focus] \in EvType
    BY <2>2 DEF EvType
  <2>4. LET w == [ev EXCEPT !.cand.fact = focus]
        IN  /\ w.cand = [ev.cand EXCEPT !.fact = focus] /\ w.mode = ev.mode /\ w.esc = ev.esc
            /\ w.log = ev.log /\ w.intent = ev.intent
    BY DEF EvType
  <2>5. LET c == [ev.cand EXCEPT !.fact = focus]
        IN  /\ c.frame = ev.cand.frame /\ c.intent = ev.cand.intent /\ c.opened = ev.cand.opened
            /\ c.closed = ev.cand.closed /\ c.cursor = ev.cand.cursor /\ c.park = ev.cand.park
            /\ c.vis = ev.cand.vis
    BY DEF EvType, CandType
  <2> QED BY <2>1, <2>3, <2>4, <2>5 DEF Continued, AtRest, Ordered, Completed
<1>2. CASE ~ (ev.cand.frame # 0 /\ ev.cand.fact = "unseen")
  BY <1>2 DEF Sentinel, Continued
<1> QED BY <1>1, <1>2

\* A complete frame is decided, as an F of the evaluator's intent or as an A.
LEMMA FinishWriteFacts ==
    ASSUME NEW e \in EvType, Ordered(e), Unproving(e.log), NEW focus \in Foci
    PROVE  LET w == FinishWrite(e, focus)
           IN  /\ w \in EvType /\ Ordered(w) /\ ~ Completed(w)
               /\ w.esc = e.esc /\ w.intent = e.intent
               /\ w.cand.opened => e.cand.opened
               /\ w.log # <<>> => e.log # <<>> \/ e.cand.opened
               /\ \/ Unproving(w.log)
                  \/ /\ Completed(e) /\ w.cand.frame = 0 /\ ~ w.cand.opened
                     /\ \E d \in DecisionType :
                           d.kind = "F" /\ d.rev = e.intent.rev /\ w.log = Append(e.log, d)
<1>1. CASE ~ Completed(e)
  BY <1>1 DEF FinishWrite
<1>2. CASE Completed(e) /\ focus # NoFocus /\ focus = e.cand.fact /\ e.cand.links = 0
  <2> DEFINE w == Decide(e, "F")
             d == w.log[Len(e.log) + 1]
  <2>1. /\ w \in EvType /\ w = [e EXCEPT !.cand = NoCand, !.log = w.log]
        /\ d \in DecisionType /\ d.kind = "F" /\ w.log = Append(e.log, d)
        /\ d.rev = e.cand.intent.rev
    BY DecideFacts
  <2>2. FinishWrite(e, focus) = w
    BY <1>2 DEF FinishWrite
  <2>3. e.cand.opened /\ d.rev = e.intent.rev
    BY <1>2, <2>1 DEF Completed, Ordered
  <2> HIDE DEF w, d
  <2>4. w.cand = NoCand /\ w.mode = e.mode /\ w.esc = e.esc /\ w.intent = e.intent
    BY <2>1 DEF EvType
  <2>5. Ordered(w) /\ ~ Completed(w) /\ w.cand.frame = 0 /\ ~ w.cand.opened
    BY <2>4 DEF Ordered, Completed, NoCand
  <2> QED BY <1>2, <2>1, <2>2, <2>3, <2>4, <2>5
<1>3. CASE Completed(e) /\ ~ (focus # NoFocus /\ focus = e.cand.fact /\ e.cand.links = 0)
  <2>1. FinishWrite(e, focus) = Abort(e)
    BY <1>3 DEF FinishWrite
  <2> QED BY <2>1, AbortFacts DEF Aborted
<1> QED BY <1>1, <1>2, <1>3

\* The hyperlinks left open are counted.
LEMMA LinksTyped ==
    ASSUME NEW ev \in EvType, NEW toks \in Seq(Tokens)
    PROVE  Links(ev, toks) \in Nat
<1> DEFINE n == Len(toks)
           ids == [i \in DOMAIN toks |-> i]
           F == [i \in 1..n |-> [m \in Nat |-> LinksUpTo(ev, toks, m, i)]]
           Body(f) == [s \in SUBSET (DOMAIN ids) |-> IF s = {} THEN ev.cand.links
                        ELSE LinksUpTo(ev, toks, f[s \ {Max(s)}], ids[Max(s)])]
           c == CHOOSE f : f = Body(f)
<1>1. n \in Nat /\ DOMAIN ids = 1..n /\ ev.cand.links \in Nat /\ (\A i \in 1..n : ids[i] = i)
  BY DEF EvType, CandType
<1>2. \A i \in 1..n, m \in Nat : LinksUpTo(ev, toks, m, i) \in Nat
  BY DEF LinksUpTo
<1>3. Links(ev, toks) = c[DOMAIN ids]
  BY DEF Links, FoldLeftDomain, FoldLeft, MapThenFoldSet
<1> HIDE DEF n, ids
<1>4. F \in [1..n -> [Nat -> Nat]]
  BY <1>2
<1>5. PICK f : Tabled(f, n, Nat, ev.cand.links, F)
  <2> HIDE DEF F
  <2> QED BY <1>1, <1>4, TableFold
<1>6. \A s \in SUBSET (1..n) : s # {} => Max(s) \in 1..n
  BY <1>1, MaxOfIndices
<1>7. f = Body(f)
  <2>1. ASSUME NEW s \in SUBSET (1..n), s # {}
        PROVE  f[s] = LinksUpTo(ev, toks, f[s \ {Max(s)}], ids[Max(s)])
    <3>1. Max(s) \in 1..n /\ f[s \ {Max(s)}] \in Nat /\ ids[Max(s)] = Max(s)
      BY <1>1, <1>5, <1>6, <2>1 DEF Tabled
    <3> QED BY <1>5, <2>1, <3>1 DEF Tabled
  <2>2. f[{}] = ev.cand.links
    BY <1>5 DEF Tabled
  <2> QED BY <1>1, <1>5, <2>1, <2>2 DEF Tabled
<1>8. c = Body(c)
  <2> HIDE DEF Body
  <2> QED BY <1>7
<1> DEFINE Good == {k \in 0..n : c[1..k] \in Nat}
<1> HIDE DEF c
<1>9. \A s \in SUBSET (1..n) : c[s] = IF s = {} THEN ev.cand.links
                                   ELSE LinksUpTo(ev, toks, c[s \ {Max(s)}], ids[Max(s)])
  BY <1>1, <1>8
<1>10. 0 \in Good
  <2>1. \A k \in 0..n : k = 0 => 1..k = {}
    BY <1>1
  <2>2. \A k \in 0..n : k = 0 => c[1..k] \in Nat
    BY <1>1, <1>9, <2>1
  <2> QED BY <1>1, <2>2
<1>11. ASSUME NEW k \in 1..n, k - 1 \in Good PROVE k \in Good
  <2>1. 1..k \in SUBSET (1..n) /\ 1..k # {} /\ Max(1..k) = k /\ (1..k) \ {k} = 1..(k - 1)
    BY <1>1, PrefixOfIndices
  <2>2. PICK s : s = 1..k
    OBVIOUS
  <2>3. c[s] = LinksUpTo(ev, toks, c[s \ {Max(s)}], ids[Max(s)])
    BY <1>9, <2>1, <2>2
  <2>4. c[s \ {Max(s)}] \in Nat /\ ids[Max(s)] \in 1..n
    BY <1>1, <1>11, <2>1, <2>2
  <2>5. c[1..k] \in Nat
    BY <1>2, <2>2, <2>3, <2>4
  <2>6. k \in 0..n
    BY <1>1
  <2> QED BY <2>5, <2>6
<1>12. n \in Good
  <2> HIDE DEF Good
  <2>1. \A k \in 1..n : k - 1 \in Good => k \in Good
    BY <1>11
  <2>2. \A k \in 0..n : k \in Good
    BY <1>1, <1>10, <2>1, PrefixInduction
  <2>3. n \in 0..n
    BY <1>1
  <2> QED BY <2>2, <2>3
<1> QED BY <1>1, <1>3, <1>12

----------------------------------------------------------------------------
(* One operation on the evaluator.                                         *)

\* A write of the program: its cuts are at its end, and not after cursor moves.
Printable(toks) ==
    /\ toks \in Seq(Tokens)
    /\ \A k \in DOMAIN toks : IsHalf(toks[k]) => k = Len(toks)
    /\ OpenEscape(toks, "none") # "none" => Where(toks, Cursor) = {}

\* What is left open is a control or none.
LEMMA EscapeTyped ==
    ASSUME NEW toks \in Seq(Tokens), NEW before \in EscapeType
    PROVE  OpenEscape(toks, before) \in EscapeType
<1>1. ASSUME NEW tok, IsHalf(tok) PROVE HalfOf(tok) \in Escapes
  BY <1>1 DEF IsHalf, HalfOf
<1> QED BY <1>1 DEF OpenEscape, EscapeType

\* The completed control takes the place of its rest, and the last half is left out.
LEMMA ScanFacts ==
    ASSUME NEW ev \in EvType, NEW toks \in Seq(Tokens)
    PROVE  LET body == Scan(ev, toks)
           IN  /\ body \in Seq(Tokens)
               /\ Where(body, Cursor) # {} => Where(toks, Cursor) # {}
               /\ Where(body, {"open"}) # {} /\ Completes(ev, toks) # "open"
                     => Where(toks, {"open"}) # {}
<1> DEFINE early == Completes(ev, toks)
           whole == IF early = "none" THEN toks ELSE <<early>> \o Tail(toks)
           body == Scan(ev, toks)
           Of(s) == /\ s \in Seq(Tokens) /\ Len(s) <= Len(toks)
                    /\ \A i \in 1..Len(s) : s[i] = toks[i] \/ (s[i] = early /\ early \in Escapes)
<1>1. early = "none" \/ (early \in Escapes /\ toks # <<>>)
  BY DEF Completes, EvType, EscapeType
<1>2. Escapes = {"open", "close", "safe"} /\ Escapes \subseteq Tokens
  BY DEF Escapes, Half, Tokens
<1> HIDE DEF early
<1>3. Of(whole)
  <2>1. CASE early = "none"
    BY <2>1
  <2>2. CASE early \in Escapes /\ early # "none" /\ toks # <<>>
    <3> DEFINE s == Tail(toks)
    <3>1. s \in Seq(Tokens) /\ Len(s) = Len(toks) - 1 /\ \A i \in 1..Len(s) : s[i] = toks[i + 1]
      BY <2>2
    <3> HIDE DEF s
    <3> DEFINE w == <<early>> \o s
    <3>2. w \in Seq(Tokens) /\ Len(w) = Len(s) + 1 /\ w[1] = early
             /\ \A i \in 2..Len(w) : w[i] = s[i - 1]
      BY <1>2, <2>2, <3>1
    <3>3. Of(w)
      <4> HIDE DEF w
      <4>1. ASSUME NEW i \in 1..Len(w), i # 1 PROVE w[i] = toks[i]
        <5>1. i \in 2..Len(w) /\ i - 1 \in 1..Len(s) /\ (i - 1) + 1 = i
          BY <3>1, <3>2, <4>1
        <5> QED BY <3>1, <3>2, <5>1
      <4> QED BY <2>2, <3>1, <3>2, <4>1
    <3>4. whole = w
      BY <2>2 DEF s
    <3> HIDE DEF whole, w, Of
    <3> QED BY <3>3, <3>4
  <2> QED BY <1>1, <1>2, <2>1, <2>2
<1> HIDE DEF whole
<1>4. Of(body)
  <2>1. CASE whole # <<>> /\ IsHalf(Last(whole))
    <3>1. body = SubSeq(whole, 1, Len(whole) - 1)
      BY <2>1 DEF Scan, Front, whole, early
    <3>2. SubSeq(whole, 1, Len(whole) - 1) \in Seq(Tokens)
             /\ Len(SubSeq(whole, 1, Len(whole) - 1)) = Len(whole) - 1
             /\ \A i \in 1..Len(whole) - 1 : SubSeq(whole, 1, Len(whole) - 1)[i] = whole[i]
      <4>1. whole \in Seq(Tokens) /\ Len(whole) \in Nat /\ Len(whole) # 0
        BY <1>3, <2>1
      <4>2. PICK m : m = Len(whole) - 1
        OBVIOUS
      <4>3. m \in Nat /\ m <= Len(whole)
        BY <4>1, <4>2
      <4>4. /\ SubSeq(whole, 1, m) \in Seq(Tokens)
            /\ Len(SubSeq(whole, 1, m)) = IF 1 <= m THEN m - 1 + 1 ELSE 0
            /\ \A i \in 1..m - 1 + 1 : SubSeq(whole, 1, m)[i] = whole[1 + i - 1]
        BY <4>1, <4>3, SubSeqProperties
      <4>5. Len(SubSeq(whole, 1, m)) = m /\ \A i \in 1..m : SubSeq(whole, 1, m)[i] = whole[i]
        BY <4>3, <4>4
      <4> QED BY <4>2, <4>4, <4>5
    <3> HIDE DEF body
    <3> QED BY <1>3, <3>1, <3>2
  <2>2. CASE ~ (whole # <<>> /\ IsHalf(Last(whole)))
    <3>1. body = whole
      BY <2>2 DEF Scan, whole, early
    <3> HIDE DEF body
    <3> QED BY <1>3, <3>1
  <2> QED BY <2>1, <2>2
<1> HIDE DEF body
<1>5. ASSUME NEW kinds, early \notin kinds \/ early \notin Escapes, Where(body, kinds) # {}
      PROVE  Where(toks, kinds) # {}
  <2>1. PICK i \in 1..Len(body) : body[i] \in kinds
    BY <1>4, <1>5 DEF Where
  <2>2. i \in 1..Len(toks) /\ toks[i] \in kinds
    BY <1>4, <1>5, <2>1
  <2> QED BY <2>2 DEF Where
<1>6. Where(body, Cursor) # {} => Where(toks, Cursor) # {}
  <2>1. early \notin Cursor \/ early \notin Escapes
    BY <1>2 DEF Cursor
  <2> QED BY <1>5, <2>1
<1>7. Where(body, {"open"}) # {} /\ early # "open" => Where(toks, {"open"}) # {}
  BY <1>5
<1> QED BY <1>4, <1>6, <1>7 DEF early, body

\* What an operation keeps of the evaluator but its candidate.
Besides(ev, e) ==
    e.log = ev.log /\ e.esc = ev.esc /\ e.intent = ev.intent /\ e.mode = ev.mode

\* A write that opens a frame completes it only if it moves the cursor.
LEMMA OpensFacts ==
    ASSUME NEW ev \in EvType, AtRest(ev), ~ ev.cand.opened, ev.cand.frame # 0,
           NEW toks \in Seq(Tokens)
    PROVE  LET e == Opens(ev, toks)
           IN  /\ e \in EvType /\ Ordered(e) /\ Besides(ev, e)
               /\ Completed(e) => Where(toks, Cursor) # {}
<1> DEFINE at == First(Where(toks, {"open"}))
           closed == \E i \in Where(toks, {"close"}) : i > at
           cursor == \E i \in Where(toks, Cursor) : i > at
           c == [ev.cand EXCEPT !.opened = TRUE, !.closed = closed, !.cursor = cursor]
           e == [ev EXCEPT !.cand = c]
<1>1. cursor => Where(toks, Cursor) # {}
  OBVIOUS
<1>2. closed \in BOOLEAN /\ cursor \in BOOLEAN
  OBVIOUS
<1>3. Opens(ev, toks) = IF (ev.mode = "fullscreen" => closed /\ cursor) /\ Eligible(ev)
                        THEN e ELSE ev
  BY DEF Opens
<1> HIDE DEF at, closed, cursor
<1>4. c \in CandType /\ c.frame = ev.cand.frame /\ c.intent = ev.cand.intent /\ c.opened
  BY <1>2 DEF EvType, CandType
<1>5. /\ c.closed = closed /\ c.cursor = cursor /\ c.park = ev.cand.park /\ c.vis = ev.cand.vis
  BY <1>2 DEF EvType, CandType
<1> HIDE DEF c
<1>6. e \in EvType /\ Besides(ev, e) /\ e.cand = c
  BY <1>4 DEF EvType, Besides
<1> HIDE DEF e
<1>7. CASE (ev.mode = "fullscreen" => closed /\ cursor) /\ Eligible(ev)
  <2>1. Ordered(e)
    BY <1>2, <1>4, <1>5, <1>6, <1>7 DEF Ordered, AtRest, Besides
  <2>2. Completed(e) => Where(toks, Cursor) # {}
    BY <1>1, <1>4, <1>5, <1>6, <1>7 DEF Completed, Ordered, AtRest, Besides, EvType, Modes
  <2> QED BY <1>3, <1>6, <1>7, <2>1, <2>2
<1>8. CASE ~ ((ev.mode = "fullscreen" => closed /\ cursor) /\ Eligible(ev))
  BY <1>3, <1>8 DEF AtRest, Besides
<1> QED BY <1>7, <1>8

\* The same for a write that continues an open frame.
LEMMA ContinuesFacts ==
    ASSUME NEW ev \in EvType, AtRest(ev), ev.cand.opened, NEW toks \in Seq(Tokens)
    PROVE  LET e == Continues(ev, toks)
           IN  /\ e \in EvType /\ Ordered(e) /\ Besides(ev, e)
               /\ Completed(e) => Where(toks, Cursor) # {}
<1> DEFINE closes == Where(toks, {"close"})
           closed == ev.cand.closed \/ closes # {}
           after == {i \in Where(toks, Cursor) :
                       ev.cand.closed \/ (closes # {} /\ i > First(closes))}
           cursor == ev.cand.cursor \/ Where(toks, Cursor) # {}
           park == ev.cand.park \/ after # {}
           vis == ev.cand.vis \/ \E i \in after : toks[i] = "vis"
           c == [ev.cand EXCEPT !.closed = closed, !.cursor = cursor, !.park = park, !.vis = vis]
           e == [ev EXCEPT !.cand = c]
<1>1. /\ after # {} => closed /\ Where(toks, Cursor) # {}
      /\ (\E i \in after : toks[i] = "vis") => after # {}
  OBVIOUS
<1>2. ev.cand \in CandType
  BY DEF EvType
<1>3. closed \in BOOLEAN /\ cursor \in BOOLEAN /\ park \in BOOLEAN /\ vis \in BOOLEAN
  BY <1>2 DEF CandType
<1>4. Continues(ev, toks) = e
  <2>1. Continues(ev, toks) =
          [ev EXCEPT !.cand.closed = closed, !.cand.cursor = @ \/ Where(toks, Cursor) # {},
                     !.cand.park = @ \/ after # {},
                     !.cand.vis = @ \/ \E i \in after : toks[i] = "vis"]
    BY DEF Continues
  <2> HIDE DEF closes, after
  <2> QED BY <1>2, <2>1 DEF EvType, CandType
<1> HIDE DEF after, closes
<1>5. /\ ev.cand.closed => closed /\ (ev.cand.cursor => cursor)
      /\ ev.cand.park \/ after # {} <=> park
      /\ vis => ev.cand.vis \/ after # {}
      /\ cursor => ev.cand.cursor \/ Where(toks, Cursor) # {}
      /\ ev.cand.cursor => cursor
      /\ after # {} => closed /\ Where(toks, Cursor) # {}
  BY <1>1
<1> HIDE DEF closed, cursor, park, vis
<1>6. c \in CandType /\ c.frame = ev.cand.frame /\ c.intent = ev.cand.intent
         /\ c.opened = ev.cand.opened
  BY <1>2, <1>3 DEF CandType
<1>7. c.closed = closed /\ c.cursor = cursor /\ c.park = park /\ c.vis = vis
  BY <1>2, <1>3 DEF CandType
<1> HIDE DEF c
<1>8. e \in EvType /\ Besides(ev, e) /\ e.cand = c
  BY <1>6 DEF EvType, Besides
<1> HIDE DEF e
<1>9. Ordered(e)
  BY <1>5, <1>6, <1>7, <1>8 DEF Ordered, AtRest, Besides
<1>10. Completed(e) => Where(toks, Cursor) # {}
  BY <1>5, <1>6, <1>7, <1>8 DEF Completed, Ordered, AtRest, Besides, EvType, Modes
<1> QED BY <1>4, <1>8, <1>9, <1>10

\* A cursor call parks a candidate or aborts it.
LEMMA HandleNonWriteFacts ==
    ASSUME NEW ev \in EvType, AtRest(ev)
    PROVE  LET e == HandleNonWrite(ev)
           IN  /\ e \in EvType /\ Ordered(e) /\ Unproving(e.log)
               /\ e.esc = ev.esc /\ e.intent = ev.intent /\ e.mode = ev.mode
               /\ e.cand.opened => ev.cand.opened
               /\ e.log # <<>> => ev.log # <<>> \/ ev.cand.opened
<1>1. CASE ~ ev.cand.opened
  BY <1>1 DEF HandleNonWrite, AtRest, Ordered
<1>2. CASE ev.cand.opened /\ ~ ev.cand.closed
  <2>1. HandleNonWrite(ev) = Abort(ev)
    BY <1>2 DEF HandleNonWrite
  <2> QED BY <2>1, AbortFacts DEF Aborted, AtRest
<1>3. CASE ev.cand.opened /\ ev.cand.closed
  <2> DEFINE c == [ev.cand EXCEPT !.vis = @ \/ ev.cand.park]
             e == [ev EXCEPT !.cand = c]
  <2>1. HandleNonWrite(ev) = e
    BY <1>3 DEF HandleNonWrite
  <2>2. c \in CandType /\ c.frame = ev.cand.frame /\ c.intent = ev.cand.intent
           /\ c.opened = ev.cand.opened
    BY DEF EvType, CandType
  <2>3. c.closed = ev.cand.closed /\ c.cursor = ev.cand.cursor /\ c.park = ev.cand.park
           /\ (c.vis => ev.cand.vis \/ ev.cand.park)
    BY DEF EvType, CandType
  <2> HIDE DEF c
  <2>4. e \in EvType /\ Besides(ev, e) /\ e.cand = c
    BY <2>2 DEF EvType, Besides
  <2> HIDE DEF e
  <2>5. Ordered(e)
    BY <1>3, <2>2, <2>3, <2>4 DEF Ordered, AtRest, Besides
  <2> QED BY <1>3, <2>1, <2>4, <2>5 DEF Besides, AtRest
<1> QED BY <1>1, <1>2, <1>3 DEF EvType, CandType

\* What an operation makes of the evaluator: only a write with an OPEN opens a frame,
\* and only one that moves the cursor completes it.
Operated(ev, e, kind, toks) ==
    /\ e \in EvType /\ Ordered(e) /\ Unproving(e.log)
    /\ e.esc = OpenEscape(toks, ev.esc) /\ e.intent = ev.intent
    /\ e.cand.opened /\ ~ ev.cand.opened => kind = "write" /\ Where(toks, {"open"}) # {}
    /\ e.log # <<>> => ev.log # <<>> \/ ev.cand.opened
    /\ Completed(e) => IF kind = "write" THEN Where(toks, Cursor) # {} ELSE ev.cand.opened

\* The evaluator keeps its order whatever operation it is handed.
LEMMA OperateFacts ==
    ASSUME NEW ev \in EvType, AtRest(ev), NEW kind \in {"write", "cursor"},
           NEW toks \in Seq(Tokens)
    PROVE  Operated(ev, Operate(ev, kind, toks), kind, toks)
<1> DEFINE early == Completes(ev, toks)
           body == Scan(ev, toks)
           open == OpenEscape(toks, ev.esc)
           e == [ev EXCEPT !.esc = open]
           n == Links(e, body)
           b == [e EXCEPT !.cand.links = n]
           op == Operate(ev, kind, toks)
<1>1. open \in EscapeType
  BY EscapeTyped DEF EvType
<1>2. /\ body \in Seq(Tokens)
      /\ Where(body, Cursor) # {} => Where(toks, Cursor) # {}
      /\ Where(body, {"open"}) # {} /\ early # "open" => Where(toks, {"open"}) # {}
  BY ScanFacts
<1>3. op = CASE e.cand.frame = 0 -> e
             [] e.cand.frame # 0 /\ e.cand.fact = "unseen" -> [e EXCEPT !.cand = NoCand]
             [] e.cand.frame # 0 /\ e.cand.fact # "unseen" ->
                  IF Where(body, {"bad"}) # {} \/ early = "open" THEN Abort(e)
                  ELSE IF kind # "write" THEN HandleNonWrite(e)
                  ELSE IF LinkAfterClose(e, body, early) THEN Abort(e)
                  ELSE HandleWrite(b, body)
  BY DEF Operate
<1> HIDE DEF early, body, open, op
<1>4. e \in EvType /\ e.cand = ev.cand /\ e.log = ev.log /\ e.intent = ev.intent
         /\ e.mode = ev.mode /\ e.esc = open
  BY <1>1 DEF EvType
<1> HIDE DEF e
<1>5. AtRest(e)
  BY <1>4 DEF AtRest, Ordered, Completed
<1>6. n \in Nat
  BY <1>2, <1>4, LinksTyped
<1> HIDE DEF n
<1>7. b \in EvType /\ Besides(e, b) /\ b.cand = [e.cand EXCEPT !.links = n]
  <2>1. [e.cand EXCEPT !.links = n] \in CandType
    BY <1>4, <1>6 DEF EvType, CandType
  <2> QED BY <1>4, <2>1 DEF EvType, Besides
<1>8. /\ b.cand.frame = e.cand.frame /\ b.cand.intent = e.cand.intent
      /\ b.cand.opened = e.cand.opened /\ b.cand.closed = e.cand.closed
      /\ b.cand.cursor = e.cand.cursor /\ b.cand.park = e.cand.park /\ b.cand.vis = e.cand.vis
  BY <1>4, <1>7 DEF EvType, CandType
<1> HIDE DEF b
<1>9. AtRest(b)
  BY <1>5, <1>7, <1>8 DEF AtRest, Ordered, Completed, Besides
<1>10. ASSUME NEW x \in {e, b} PROVE Operated(ev, Abort(x), kind, toks)
  <2>1. /\ x \in EvType /\ AtRest(x) /\ x.log = ev.log /\ x.intent = ev.intent /\ x.esc = open
        /\ x.cand.opened = ev.cand.opened
    BY <1>4, <1>5, <1>7, <1>8, <1>9 DEF Besides
  <2>2. Aborted(x, Abort(x))
    BY <2>1, AbortFacts
  <2> QED BY <2>1, <2>2 DEF Operated, Aborted, AtRest, open
<1>11. Operated(ev, e, kind, toks)
  BY <1>4, <1>5 DEF Operated, AtRest, open
<1>12. CASE e.cand.frame = 0
  <2>1. op = e
    BY <1>3, <1>12
  <2> QED BY <1>11, <2>1 DEF op
<1>13. CASE e.cand.frame # 0 /\ e.cand.fact = "unseen"
  <2> DEFINE w == [e EXCEPT !.cand = NoCand]
  <2>1. op = w
    BY <1>3, <1>13
  <2>2. NoCand \in CandType /\ NoCand.frame = 0 /\ ~ NoCand.opened /\ ~ NoCand.closed
           /\ ~ NoCand.park /\ ~ NoCand.vis
    BY DEF NoCand, CandType, NoIntent, IntentType, PairType
  <2>3. w \in EvType /\ w.cand = NoCand /\ Besides(e, w)
    BY <1>4, <2>2 DEF EvType, Besides
  <2> HIDE DEF w
  <2>4. Operated(ev, w, kind, toks)
    BY <1>4, <1>5, <2>2, <2>3 DEF Operated, Ordered, Completed, Besides, AtRest, open
  <2> QED BY <2>1, <2>4 DEF op
<1>14. CASE e.cand.frame # 0 /\ e.cand.fact # "unseen"
  <2>1. op = IF Where(body, {"bad"}) # {} \/ early = "open" THEN Abort(e)
             ELSE IF kind # "write" THEN HandleNonWrite(e)
             ELSE IF LinkAfterClose(e, body, early) THEN Abort(e)
             ELSE HandleWrite(b, body)
    BY <1>3, <1>14
  <2>2. Operated(ev, Abort(e), kind, toks) /\ Operated(ev, Abort(b), kind, toks)
    BY <1>10
  <2>3. CASE kind # "write"
    <3> DEFINE w == HandleNonWrite(e)
    <3>1. /\ w \in EvType /\ Ordered(w) /\ Unproving(w.log)
          /\ w.esc = e.esc /\ w.intent = e.intent
          /\ w.cand.opened => e.cand.opened
          /\ w.log # <<>> => e.log # <<>> \/ e.cand.opened
      BY <1>4, <1>5, HandleNonWriteFacts
    <3> HIDE DEF w
    <3>2. Completed(w) => ev.cand.opened
      BY <1>4, <3>1 DEF Completed
    <3>3. Operated(ev, w, kind, toks)
      BY <1>4, <2>3, <3>1, <3>2 DEF Operated, open
    <3> QED BY <2>1, <2>2, <2>3, <3>3 DEF op, w
  <2>4. CASE kind = "write" /\ early # "open"
    <3> DEFINE w == HandleWrite(b, body)
    <3>1. w = IF ~ b.cand.opened THEN IF Where(body, {"open"}) # {} THEN Opens(b, body) ELSE b
              ELSE IF Where(body, {"open"}) # {} THEN Abort(b) ELSE Continues(b, body)
      <4>1. b.cand.opened \in BOOLEAN
        BY <1>7 DEF EvType, CandType
      <4> QED BY <4>1 DEF HandleWrite
    <3> HIDE DEF w
    <3>2. ASSUME ~ b.cand.opened /\ Where(body, {"open"}) # {}
        PROVE  Operated(ev, w, kind, toks)
      <4> DEFINE o == Opens(b, body)
      <4>1. /\ o \in EvType /\ Ordered(o) /\ Besides(b, o)
            /\ Completed(o) => Where(body, Cursor) # {}
        BY <1>2, <1>7, <1>8, <1>9, <1>14, <3>2, OpensFacts
      <4>2. w = o
        BY <3>1, <3>2
      <4> HIDE DEF o
      <4> QED BY <1>2, <1>4, <1>5, <1>7, <1>8, <2>4, <3>2, <4>1, <4>2
              DEF Operated, Besides, AtRest, open
    <3>3. ASSUME ~ b.cand.opened /\ Where(body, {"open"}) = {}
        PROVE  Operated(ev, w, kind, toks)
      <4>1. w = b
        BY <3>1, <3>3
      <4> QED BY <1>4, <1>7, <1>8, <1>9, <4>1 DEF Operated, Besides, AtRest, open
    <3>4. ASSUME b.cand.opened /\ Where(body, {"open"}) # {}
        PROVE  Operated(ev, w, kind, toks)
      BY <2>2, <3>1, <3>4
    <3>5. ASSUME b.cand.opened /\ Where(body, {"open"}) = {}
        PROVE  Operated(ev, w, kind, toks)
      <4> DEFINE o == Continues(b, body)
      <4>1. /\ o \in EvType /\ Ordered(o) /\ Besides(b, o)
            /\ Completed(o) => Where(body, Cursor) # {}
        BY <1>2, <1>7, <1>9, <3>5, ContinuesFacts
      <4>2. w = o
        BY <3>1, <3>5
      <4> HIDE DEF o
      <4> QED BY <1>2, <1>4, <1>5, <1>7, <1>8, <2>4, <3>5, <4>1, <4>2
              DEF Operated, Besides, AtRest, open
    <3>6. Operated(ev, w, kind, toks)
      <4>1. b.cand.opened \in BOOLEAN
        BY <1>7 DEF EvType, CandType
      <4> QED BY <3>2, <3>3, <3>4, <3>5, <4>1
    <3> QED BY <2>1, <2>2, <2>4, <3>6 DEF op, w
  <2> QED BY <2>1, <2>2, <2>3, <2>4 DEF op
<1> QED BY <1>12, <1>13, <1>14

----------------------------------------------------------------------------
(* Decisions become markers.                                               *)

\* The turn with another evaluator.
OnlyEv(t, u) ==
    /\ u.out = t.out /\ u.half = t.half /\ u.proven = t.proven /\ u.thrown = t.thrown
    /\ u.rep.session = t.rep.session /\ u.rep.state = t.rep.state /\ u.rep.bound = t.rep.bound
    /\ u.rep.written = t.rep.written /\ u.rep.stash = t.rep.stash
    /\ u.rep.stashed = t.rep.stashed /\ u.rep.rev = t.rep.rev
    /\ u.rep.consumed = t.rep.consumed /\ u.rep.rearmed = t.rep.rearmed

\* A turn with another evaluator.
LEMMA WithEv ==
    ASSUME NEW t \in TurnType, NEW e \in EvType
    PROVE  LET u == [t EXCEPT !.rep.ev = e]
           IN  /\ u \in TurnType /\ OnlyEv(t, u) /\ u.rep.ev = e
               /\ u.rep.frames = t.rep.frames /\ u.rep.focus = t.rep.focus
<1>1. t.rep \in RepType
  BY DEF TurnType
<1> DEFINE r == [t.rep EXCEPT !.ev = e]
<1>2. r \in RepType
  BY <1>1 DEF RepType
<1>3. /\ r.ev = e /\ r.session = t.rep.session /\ r.state = t.rep.state /\ r.bound = t.rep.bound
      /\ r.written = t.rep.written /\ r.stash = t.rep.stash /\ r.stashed = t.rep.stashed
      /\ r.focus = t.rep.focus /\ r.rev = t.rep.rev /\ r.consumed = t.rep.consumed
      /\ r.rearmed = t.rep.rearmed /\ r.frames = t.rep.frames
  BY <1>1 DEF RepType
<1>4. [t EXCEPT !.rep.ev = e] = [t EXCEPT !.rep = r]
  BY DEF TurnType
<1> HIDE DEF r
<1>5. LET u == [t EXCEPT !.rep = r]
      IN  /\ u \in TurnType /\ u.rep = r /\ u.out = t.out /\ u.half = t.half
          /\ u.proven = t.proven /\ u.thrown = t.thrown
  BY <1>2 DEF TurnType
<1> QED BY <1>3, <1>4, <1>5 DEF OnlyEv

\* What a marker says of the reporter that writes it.
MarkerOf(t, d) ==
    [Marker(t, d.kind, d.frame) EXCEPT !.size = d.size, !.mode = d.mode, !.rev = d.rev]
Writes(t, r, m, p) == [t EXCEPT !.rep = r, !.out = Append(@, m), !.proven = p]

\* A marker is an item; it is inside a control if one is open.
LEMMA MarkerTyped ==
    ASSUME NEW t \in TurnType, NEW d \in DecisionType
    PROVE  LET m == MarkerOf(t, d)
           IN  /\ m \in ItemType /\ m.kind = d.kind /\ m.session = t.rep.session
               /\ m.inside = (t.half # "none")
<1>1. t.rep.session \in Nat
  BY DEF TurnType, RepType
<1>2. MarkerOf(t, d) = [kind |-> d.kind, frame |-> d.frame, session |-> t.rep.session,
                        inside |-> t.half # "none", size |-> d.size, mode |-> d.mode,
                        rev |-> d.rev]
  <2> DEFINE cut == t.half # "none"
  <2>1. MarkerOf(t, d) =
          [[kind |-> d.kind, frame |-> d.frame, session |-> t.rep.session, inside |-> cut,
            size |-> <<>>, mode |-> "none", rev |-> 0]
              EXCEPT !.size = d.size, !.mode = d.mode, !.rev = d.rev]
    BY DEF MarkerOf, Marker
  <2> HIDE DEF cut
  <2>2. MarkerOf(t, d) = [kind |-> d.kind, frame |-> d.frame, session |-> t.rep.session,
                          inside |-> cut, size |-> d.size, mode |-> d.mode, rev |-> d.rev]
    BY <2>1
  <2> QED BY <2>2 DEF cut
<1>3. MarkerOf(t, d) \in MarkerType
  BY <1>1, <1>2 DEF MarkerType, DecisionType
<1> QED BY <1>2, <1>3 DEF ItemType

\* A turn that writes one marker.
LEMMA WritesFacts ==
    ASSUME NEW t \in TurnType, NEW r \in RepType, NEW m \in ItemType, NEW p \in SUBSET Nat
    PROVE  LET u == Writes(t, r, m, p)
           IN  /\ u \in TurnType /\ u.rep = r /\ u.out = Append(t.out, m) /\ u.proven = p
               /\ u.half = t.half /\ u.thrown = t.thrown
<1>1. Append(t.out, m) \in Seq(ItemType)
  BY DEF TurnType
<1>2. Writes(t, r, m, p) = [t EXCEPT !.rep = r, !.out = Append(t.out, m), !.proven = p]
  BY DEF Writes
<1> QED BY <1>1, <1>2 DEF TurnType

\* What an emission leaves of the reporter: an A all of it, an F answers the request.
Answered(t) == [t.rep EXCEPT !.consumed = t.rep.rev, !.ev.intent = NoIntent]

\* A reporter whose F answered the request.
LEMMA AnsweredFacts ==
    ASSUME NEW t \in TurnType
    PROVE  LET r == Answered(t)
           IN  /\ r \in RepType /\ r.consumed = t.rep.rev /\ r.rev = t.rep.rev
               /\ r.session = t.rep.session /\ r.state = t.rep.state /\ r.bound = t.rep.bound
               /\ r.stash = t.rep.stash /\ r.stashed = t.rep.stashed
               /\ r.rearmed = t.rep.rearmed /\ r.focus = t.rep.focus /\ r.frames = t.rep.frames
               /\ r.ev.cand = t.rep.ev.cand /\ r.ev.esc = t.rep.ev.esc
               /\ r.ev.log = t.rep.ev.log /\ r.ev.mode = t.rep.ev.mode
<1> DEFINE e == [t.rep.ev EXCEPT !.intent = NoIntent]
<1>1. t.rep \in RepType /\ t.rep.ev \in EvType /\ t.rep.rev \in Nat
  BY DEF TurnType, RepType
<1>2. NoIntent \in IntentType
  BY DEF NoIntent, IntentType, PairType
<1>3. e \in EvType /\ e.cand = t.rep.ev.cand /\ e.esc = t.rep.ev.esc /\ e.log = t.rep.ev.log
         /\ e.mode = t.rep.ev.mode
  BY <1>1, <1>2 DEF EvType
<1>4. Answered(t) = [t.rep EXCEPT !.consumed = t.rep.rev, !.ev = e]
  BY <1>1 DEF Answered, RepType
<1> HIDE DEF e
<1> DEFINE r == [t.rep EXCEPT !.consumed = t.rep.rev, !.ev = e]
<1>5. r \in RepType
  BY <1>1, <1>3 DEF RepType
<1>6. /\ r.consumed = t.rep.rev /\ r.ev = e /\ r.rev = t.rep.rev
      /\ r.session = t.rep.session /\ r.state = t.rep.state /\ r.bound = t.rep.bound
      /\ r.stash = t.rep.stash /\ r.stashed = t.rep.stashed
      /\ r.rearmed = t.rep.rearmed /\ r.focus = t.rep.focus /\ r.frames = t.rep.frames
  BY <1>1 DEF RepType
<1> HIDE DEF r
<1> QED BY <1>3, <1>4, <1>5, <1>6 DEF r

\* An emission drops an A, writes one, or writes an F that may answer a request.
LEMMA EmitCases ==
    ASSUME NEW t \in TurnType, NEW d \in DecisionType
    PROVE  \/ d.kind = "A" /\ Emit(t, d) = t
           \/ d.kind = "A" /\ Emit(t, d) = Writes(t, t.rep, MarkerOf(t, d), t.proven)
           \/ /\ d.kind = "F" /\ t.rep.rev # 0 /\ t.rep.consumed # t.rep.rev
              /\ Emit(t, d) = Writes(t, Answered(t), MarkerOf(t, d), t.proven \cup {d.rev})
           \/ /\ d.kind = "F" /\ ~ (t.rep.rev # 0 /\ t.rep.consumed # t.rep.rev)
              /\ Emit(t, d) = Writes(t, t.rep, MarkerOf(t, d), t.proven \cup {d.rev})
<1>1. d.kind \in {"F", "A"}
  BY DEF DecisionType
<1> DEFINE r == IF d.kind = "F" /\ t.rep.rev # 0 /\ t.rep.consumed # t.rep.rev
                THEN Answered(t) ELSE t.rep
           p == IF d.kind = "F" THEN t.proven \cup {d.rev} ELSE t.proven
<1>2. Emit(t, d) = IF d.kind = "A" /\ d.frame \notin t.rep.written THEN t
                   ELSE Writes(t, r, MarkerOf(t, d), p)
  <2>1. t = [rep |-> t.rep, out |-> t.out, half |-> t.half, proven |-> t.proven,
             thrown |-> t.thrown]
    BY DEF TurnType
  <2>2. Emit(t, d) = IF d.kind = "A" /\ d.frame \notin t.rep.written THEN t
                     ELSE [t EXCEPT !.rep = r, !.out = Append(@, MarkerOf(t, d)), !.proven = p]
    BY <2>1 DEF Emit, Answered, MarkerOf
  <2> HIDE DEF r, p
  <2> QED BY <2>2 DEF Writes
<1>3. CASE d.kind = "A"
  BY <1>2, <1>3
<1>4. CASE d.kind = "F" /\ t.rep.rev # 0 /\ t.rep.consumed # t.rep.rev
  BY <1>2, <1>4
<1>5. CASE d.kind = "F" /\ ~ (t.rep.rev # 0 /\ t.rep.consumed # t.rep.rev)
  BY <1>2, <1>5
<1> QED BY <1>1, <1>3, <1>4, <1>5

\* An emission keeps a turn's types.
LEMMA EmitTyped ==
    ASSUME NEW t \in TurnType, NEW d \in DecisionType
    PROVE  Emit(t, d) \in TurnType
<1>1. MarkerOf(t, d) \in ItemType
  BY MarkerTyped
<1>2. Answered(t) \in RepType /\ t.rep \in RepType
  BY AnsweredFacts DEF TurnType
<1>3. t.proven \in SUBSET Nat /\ t.proven \cup {d.rev} \in SUBSET Nat
  BY DEF TurnType, DecisionType
<1>4. \A r \in RepType, p \in SUBSET Nat : Writes(t, r, MarkerOf(t, d), p) \in TurnType
  BY <1>1, WritesFacts
<1> QED BY <1>2, <1>3, <1>4, EmitCases

\* What a drain keeps of the turn.
Emits(t, u) ==
    /\ u.half = t.half /\ u.thrown = t.thrown
    /\ u.rep.state = t.rep.state /\ u.rep.bound = t.rep.bound
    /\ u.rep.ev.cand = t.rep.ev.cand /\ u.rep.ev.esc = t.rep.ev.esc
    /\ u.rep.ev.log = t.rep.ev.log

\* An F proves the request that it answers.
Proves(t, d) ==
    d.kind = "F" => /\ t.rep.bound /\ t.rep.ev.cand.frame = 0
                    /\ d.rev = t.rep.ev.intent.rev

\* A decision written where no control is open keeps a turn's facts.
LEMMA EmitFacts ==
    ASSUME NEW t, Steady(t), rep.state = "enabled", FailsCleanly => t.half = "none",
           NEW d \in DecisionType, Proves(t, d)
    PROVE  LET u == Emit(t, d)
           IN  /\ Steady(u) /\ Emits(t, u)
               /\ d.kind = "A" => u.rep = t.rep /\ u.proven = t.proven
<1> DEFINE m == MarkerOf(t, d)
<1>1. t \in TurnType
  BY DEF Steady
<1>2. m \in ItemType /\ m.session = rep.session /\ (FailsCleanly => ~ m.inside)
  BY <1>1, MarkerTyped DEF Steady, Kept
<1>3. t.rep \in RepType /\ t.proven \in SUBSET Nat /\ t.proven \cup {d.rev} \in SUBSET Nat
         /\ t.out \in Seq(ItemType)
  BY <1>1 DEF TurnType, DecisionType
<1> HIDE DEF m
<1>4. \A o : o = Append(t.out, m) => \A i \in DOMAIN o : o[i].kind # "token" =>
         o[i].session = rep.session /\ rep.state = "enabled" /\ (FailsCleanly => ~ o[i].inside)
  <2>1. Proper(t)
    BY DEF Steady
  <2>2. Len(t.out) \in Nat /\ DOMAIN t.out = 1..Len(t.out)
    BY <1>3
  <2>3. ASSUME NEW i \in 1..Len(t.out) + 1
        PROVE  Append(t.out, m)[i] = IF i \in 1..Len(t.out) THEN t.out[i] ELSE m
    BY <1>2, <1>3, <2>2
  <2>4. DOMAIN Append(t.out, m) = 1..Len(t.out) + 1
    BY <1>2, <1>3, <2>2
  <2> QED BY <1>2, <2>1, <2>2, <2>3, <2>4 DEF Proper
<1>5. ASSUME NEW p \in SUBSET Nat, t.proven \subseteq p
      PROVE  LET u == Writes(t, t.rep, m, p)
             IN  Steady(u) /\ Emits(t, u) /\ u.rep = t.rep /\ u.proven = p
  <2> DEFINE u == Writes(t, t.rep, m, p)
  <2>1. /\ u \in TurnType /\ u.rep = t.rep /\ u.out = Append(t.out, m) /\ u.proven = p
        /\ u.half = t.half /\ u.thrown = t.thrown
    BY <1>1, <1>2, <1>3, WritesFacts
  <2> HIDE DEF u
  <2>2. Proper(u)
    BY <1>4, <2>1 DEF Proper
  <2>3. AtRest(u.rep.ev) /\ AtRest(u.rep.stash) /\ Kept(u) /\ Stamps(u)
    BY <2>1 DEF Steady, Kept, Stamps
  <2>4. Answers(u)
    BY <1>5, <2>1 DEF Steady, Answers
  <2> QED BY <2>1, <2>2, <2>3, <2>4 DEF Steady, Emits, u
<1>6. ASSUME d.kind = "F", t.rep.rev # 0, t.rep.consumed # t.rep.rev
      PROVE  LET u == Writes(t, Answered(t), m, t.proven \cup {d.rev})
             IN  Steady(u) /\ Emits(t, u)
  <2> DEFINE r == Answered(t)
             p == t.proven \cup {d.rev}
             u == Writes(t, r, m, p)
  <2>0. p \in SUBSET Nat
    BY <1>3
  <2>1. /\ r \in RepType /\ r.consumed = t.rep.rev /\ r.rev = t.rep.rev
        /\ r.session = t.rep.session /\ r.state = t.rep.state /\ r.bound = t.rep.bound
        /\ r.stash = t.rep.stash /\ r.stashed = t.rep.stashed
        /\ r.rearmed = t.rep.rearmed
        /\ r.ev.cand = t.rep.ev.cand /\ r.ev.esc = t.rep.ev.esc
        /\ r.ev.log = t.rep.ev.log /\ r.ev.mode = t.rep.ev.mode
    BY <1>1, AnsweredFacts
  <2> HIDE DEF r
  <2>2. /\ u \in TurnType /\ u.rep = r /\ u.out = Append(t.out, m)
        /\ u.proven = p /\ u.half = t.half /\ u.thrown = t.thrown
    <3> HIDE DEF p
    <3> QED BY <1>1, <1>2, <2>0, <2>1, WritesFacts
  <2> HIDE DEF u
  <2>3. Proper(u)
    BY <1>4, <2>2 DEF Proper
  <2>4. AtRest(u.rep.ev) /\ AtRest(u.rep.stash)
    BY <1>6, <2>1, <2>2 DEF Steady, Proves, AtRest, Ordered, Completed
  <2>5. Kept(u) /\ Stamps(u)
    BY <2>1, <2>2 DEF Steady, Kept, Stamps
  <2>6. Answers(u)
    BY <1>6, <2>1, <2>2 DEF Steady, Proves, Stamps, Answers
  <2> QED BY <2>1, <2>2, <2>3, <2>4, <2>5, <2>6 DEF Steady, Emits, u, r, p
<1>7. d.kind = "A" \/ d.kind = "F"
  BY DEF DecisionType
<1>8. CASE Emit(t, d) = t /\ d.kind = "A"
  BY <1>8 DEF Emits
<1>9. CASE d.kind = "A" /\ Emit(t, d) = Writes(t, t.rep, m, t.proven)
  BY <1>3, <1>5, <1>9
<1>10. CASE /\ d.kind = "F" /\ t.rep.rev # 0 /\ t.rep.consumed # t.rep.rev
            /\ Emit(t, d) = Writes(t, Answered(t), m, t.proven \cup {d.rev})
  BY <1>6, <1>10
<1>11. CASE d.kind = "F" /\ Emit(t, d) = Writes(t, t.rep, m, t.proven \cup {d.rev})
  BY <1>3, <1>5, <1>11
<1> QED BY <1>1, <1>8, <1>9, <1>10, <1>11, EmitCases DEF m

----------------------------------------------------------------------------
(* A drain writes all decisions, in their order.                           *)

\* A drain emits its decisions one by one.
LEMMA EmitFold ==
    ASSUME NEW t \in TurnType, NEW log \in Seq(DecisionType)
    PROVE  \E r : /\ r[0] = t /\ r[Len(log)] = FoldLeft(Emit, t, log)
                  /\ \A k \in 1..Len(log) : r[k] = Emit(r[k - 1], log[k])
<1> DEFINE n == Len(log)
           F == [i \in 1..n |-> [u \in TurnType |-> Emit(u, log[i])]]
           Body(f) == [s \in SUBSET (DOMAIN log) |-> IF s = {} THEN t
                        ELSE Emit(f[s \ {Max(s)}], log[Max(s)])]
           c == CHOOSE f : f = Body(f)
           r == [k \in 0..n |-> c[1..k]]
<1>1. n \in Nat /\ DOMAIN log = 1..n /\ \A i \in 1..n : log[i] \in DecisionType
  OBVIOUS
<1>2. FoldLeft(Emit, t, log) = c[DOMAIN log]
  BY DEF FoldLeft, MapThenFoldSet
<1>3. F \in [1..n -> [TurnType -> TurnType]]
  BY <1>1, EmitTyped
<1> HIDE DEF n
<1>4. PICK f : Tabled(f, n, TurnType, t, F)
  <2> HIDE DEF F
  <2> QED BY <1>1, <1>3, TableFold
<1>5. f = Body(f)
  <2>1. ASSUME NEW s \in SUBSET (1..n), s # {}
        PROVE  f[s] = Emit(f[s \ {Max(s)}], log[Max(s)])
    <3>1. Max(s) \in 1..n
      BY <1>1, <2>1, MaxOfIndices
    <3>2. f[s \ {Max(s)}] \in TurnType /\ f[s] = F[Max(s)][f[s \ {Max(s)}]]
      BY <1>4, <2>1 DEF Tabled
    <3> QED BY <3>1, <3>2
  <2>2. f[{}] = t
    BY <1>4 DEF Tabled
  <2>3. f = [s \in SUBSET (1..n) |-> f[s]]
    BY <1>4 DEF Tabled
  <2> HIDE DEF F
  <2> QED BY <1>1, <2>1, <2>2, <2>3
<1>6. c = Body(c)
  <2> HIDE DEF Body
  <2> QED BY <1>5
<1> HIDE DEF c
<1>7. \A s \in SUBSET (1..n) : c[s] = IF s = {} THEN t ELSE Emit(c[s \ {Max(s)}], log[Max(s)])
  BY <1>1, <1>6
<1>8. r[0] = t
  <2>1. 1..0 = {} /\ 0 \in 0..n
    BY <1>1
  <2>2. c[{}] = t
    BY <1>7
  <2> QED BY <2>1, <2>2
<1>9. ASSUME NEW k \in 1..n PROVE r[k] = Emit(r[k - 1], log[k])
  <2>1. 1..k \in SUBSET (1..n) /\ 1..k # {} /\ Max(1..k) = k /\ (1..k) \ {k} = 1..(k - 1)
    BY <1>1, PrefixOfIndices
  <2>2. PICK s : s = 1..k
    OBVIOUS
  <2>3. c[s] = Emit(c[s \ {Max(s)}], log[Max(s)])
    BY <1>7, <2>1, <2>2
  <2>4. r[k] = c[1..k] /\ r[k - 1] = c[1..(k - 1)]
    BY <1>1
  <2> HIDE DEF r
  <2> QED BY <2>1, <2>2, <2>3, <2>4
<1>10. r[n] = FoldLeft(Emit, t, log)
  <2>1. n \in 0..n
    BY <1>1
  <2> QED BY <1>1, <1>2, <2>1
<1> HIDE DEF r
<1> QED BY <1>8, <1>9, <1>10 DEF n

\* At most the last decision is an F.
LEMMA EmitsFacts ==
    ASSUME NEW t, Steady(t), NEW log \in Seq(DecisionType),
           log # <<>> => rep.state = "enabled" /\ (FailsCleanly => t.half = "none"),
           \A i \in 1..Len(log) : Proves(t, log[i]) /\ (log[i].kind = "F" => i = Len(log))
    PROVE  LET u == FoldLeft(Emit, t, log)
           IN  Steady(u) /\ Emits(t, u) /\ (Unproving(log) => u.proven = t.proven)
<1>1. t \in TurnType /\ Len(log) \in Nat
  BY DEF Steady
<1>2. PICK r : /\ r[0] = t /\ r[Len(log)] = FoldLeft(Emit, t, log)
               /\ \A k \in 1..Len(log) : r[k] = Emit(r[k - 1], log[k])
  BY <1>1, EmitFold
<1> DEFINE Good == {k \in 0..Len(log) : /\ Steady(r[k]) /\ Emits(t, r[k])
                                        /\ k < Len(log) => r[k].rep = t.rep
                                        /\ Unproving(log) => r[k].proven = t.proven}
<1>3. 0 \in Good
  <2>1. Emits(t, r[0]) /\ Steady(r[0]) /\ r[0].rep = t.rep /\ r[0].proven = t.proven
    BY <1>2 DEF Emits
  <2> QED BY <1>1, <2>1
<1>4. ASSUME NEW k \in 1..Len(log), k - 1 \in Good PROVE k \in Good
  <2>1. /\ Steady(r[k - 1]) /\ Emits(t, r[k - 1])
        /\ r[k - 1].rep = t.rep /\ (Unproving(log) => r[k - 1].proven = t.proven)
    BY <1>1, <1>4
  <2>2. log[k] \in DecisionType /\ Proves(t, log[k]) /\ log # <<>>
           /\ (log[k].kind = "F" => k = Len(log))
    BY <1>1
  <2>3. r[k] = Emit(r[k - 1], log[k])
    BY <1>2
  <2>4. PICK p : p = r[k - 1]
    OBVIOUS
  <2>5. Proves(p, log[k]) /\ (FailsCleanly => p.half = "none") /\ rep.state = "enabled"
    BY <2>1, <2>2, <2>4 DEF Proves, Emits
  <2>6. Steady(Emit(p, log[k])) /\ Emits(p, Emit(p, log[k]))
           /\ (log[k].kind = "A" => /\ Emit(p, log[k]).rep = p.rep
                                    /\ Emit(p, log[k]).proven = p.proven)
    BY <2>1, <2>2, <2>4, <2>5, EmitFacts
  <2>7. Steady(r[k]) /\ Emits(t, r[k]) /\ (log[k].kind = "A" => r[k].rep = t.rep)
    BY <2>1, <2>3, <2>4, <2>6 DEF Emits
  <2>8. k < Len(log) => log[k].kind = "A"
    BY <1>1, <2>2 DEF DecisionType
  <2>9. Unproving(log) => r[k].proven = t.proven
    <3>1. k \in DOMAIN log
      BY <1>1
    <3> QED BY <2>1, <2>3, <2>4, <2>6, <3>1 DEF Unproving
  <2> QED BY <1>1, <2>7, <2>8, <2>9
<1>5. Len(log) \in Good
  <2> HIDE DEF Good
  <2>1. \A k \in 1..Len(log) : k - 1 \in Good => k \in Good
    BY <1>4
  <2>2. \A k \in 0..Len(log) : k \in Good
    BY <1>1, <1>3, <2>1, PrefixInduction
  <2>3. Len(log) \in 0..Len(log)
    BY <1>1
  <2> QED BY <2>2, <2>3
<1> QED BY <1>2, <1>5

\* Decided, not yet drained: an F is the last decision, and can be drained at once.
Decided(t) ==
    \/ Unproving(t.rep.ev.log)
    \/ /\ Shadowed(t) /\ t.rep.ev.esc = "none" /\ t.rep.ev.cand.frame = 0
       /\ \E d \in DecisionType, old \in Seq(DecisionType) :
             /\ Unproving(old) /\ t.rep.ev.log = Append(old, d)
             /\ d.kind = "F" /\ d.rev = t.rep.ev.intent.rev
Pending(t) ==
    /\ t \in TurnType /\ Ordered(t.rep.ev) /\ ~ Completed(t.rep.ev) /\ AtRest(t.rep.stash)
    /\ Proper(t) /\ Follows(t) /\ Kept(t) /\ Stamps(t) /\ Answers(t) /\ Decided(t)

\* A drain restores the invariant and proves nothing when only A's wait.
LEMMA DrainFacts ==
    ASSUME NEW t, Pending(t)
    PROVE  LET u == Drain(t)
           IN  /\ TurnInvariant(u) /\ u.half = t.half /\ u.thrown = t.thrown
               /\ u.rep.state = t.rep.state /\ u.rep.bound = t.rep.bound
               /\ u.rep.ev.cand = t.rep.ev.cand /\ u.rep.ev.esc = t.rep.ev.esc
               /\ Unproving(t.rep.ev.log) => u.proven = t.proven
<1>1. CASE t.rep.ev.esc # "none" \/ ~ Shadowed(t)
  <2>1. Drain(t) = t
    BY <1>1 DEF Drain
  <2>2. Unproving(t.rep.ev.log)
    BY <1>1 DEF Pending, Decided
  <2> QED BY <2>1, <2>2 DEF Pending, TurnInvariant, Steady, AtRest
<1>2. CASE t.rep.ev.esc = "none" /\ Shadowed(t)
  <2> DEFINE e == [t.rep.ev EXCEPT !.log = <<>>]
             s == [t EXCEPT !.rep.ev = e]
             log == t.rep.ev.log
             u == FoldLeft(Emit, s, log)
  <2>1. Drain(t) = u
    <3>1. [t EXCEPT !.rep.ev.log = <<>>] = s
      BY DEF Pending, TurnType, RepType
    <3> QED BY <1>2, <3>1 DEF Drain
  <2>2. t \in TurnType /\ t.rep.ev \in EvType /\ log \in Seq(DecisionType)
    BY DEF Pending, TurnType, RepType, EvType
  <2>3. /\ e \in EvType /\ e.cand = t.rep.ev.cand /\ e.esc = t.rep.ev.esc
        /\ e.intent = t.rep.ev.intent /\ e.mode = t.rep.ev.mode /\ e.log = <<>>
    <3>1. <<>> \in Seq(DecisionType)
      OBVIOUS
    <3>2. e \in EvType
      BY <2>2, <3>1 DEF EvType
    <3> QED BY <2>2, <3>2 DEF EvType
  <2> HIDE DEF e
  <2>4. s \in TurnType /\ OnlyEv(t, s) /\ s.rep.ev = e
    BY <2>2, <2>3, WithEv
  <2> HIDE DEF s
  <2>5. Steady(s)
    <3>1. AtRest(e)
      BY <2>3 DEF Pending, AtRest, Ordered, Completed, Unproving
    <3>2. Proper(s) /\ Answers(s)
      BY <2>4 DEF Pending, Proper, Answers, OnlyEv
    <3>3. Kept(s) /\ Stamps(s)
      BY <2>3, <2>4 DEF Pending, Kept, Stamps, OnlyEv
    <3>4. AtRest(s.rep.stash)
      BY <2>4 DEF Pending, OnlyEv
    <3> QED BY <2>4, <3>1, <3>2, <3>3, <3>4 DEF Steady
  <2>6. log # <<>> => rep.state = "enabled" /\ (FailsCleanly => s.half = "none")
    BY <1>2, <2>4 DEF Pending, Kept, Follows, Shadowed, OnlyEv
  <2>7. ASSUME NEW i \in 1..Len(log)
        PROVE  Proves(s, log[i]) /\ (log[i].kind = "F" => i = Len(log))
    <3>1. CASE Unproving(log)
      BY <2>2, <3>1 DEF Unproving, Proves
    <3>2. CASE ~ Unproving(log)
      <4>1. PICK d \in DecisionType, old \in Seq(DecisionType) :
               /\ Unproving(old) /\ log = Append(old, d)
               /\ d.kind = "F" /\ d.rev = t.rep.ev.intent.rev
        BY <3>2 DEF Pending, Decided
      <4>2. t.rep.ev.cand.frame = 0
        BY <3>2 DEF Pending, Decided
      <4>3. (i = Len(log) /\ log[i] = d) \/ (i \in 1..Len(old) /\ log[i] = old[i])
        BY <4>1
      <4>4. s.rep.bound /\ s.rep.ev.cand.frame = 0 /\ s.rep.ev.intent = t.rep.ev.intent
        BY <1>2, <2>3, <2>4, <4>2 DEF OnlyEv, Shadowed
      <4> HIDE DEF log
      <4> QED BY <4>1, <4>3, <4>4 DEF Unproving, Proves
    <3> QED BY <3>1, <3>2
  <2> HIDE DEF log
  <2>8. Steady(u) /\ Emits(s, u) /\ (Unproving(log) => u.proven = s.proven)
    BY <2>2, <2>5, <2>6, <2>7, EmitsFacts
  <2> HIDE DEF u
  <2>9. Follows(u)
    BY <2>3, <2>4, <2>8 DEF Pending, Follows, Emits, OnlyEv
  <2> QED BY <2>1, <2>3, <2>4, <2>8, <2>9 DEF TurnInvariant, Emits, OnlyEv, log
<1> QED BY <1>1, <1>2

\* An evaluator that is given up proves nothing.
LEMMA DrainAbandonedFacts ==
    ASSUME NEW t, Steady(t), rep.state = "enabled", NEW log \in Seq(DecisionType),
           Unproving(log)
    PROVE  LET u == DrainAbandoned(t, log)
           IN  Steady(u) /\ Emits(t, u) /\ u.proven = t.proven
<1> DEFINE s == [t EXCEPT !.half = "none"]
           f == FoldLeft(Emit, s, log)
           u == [f EXCEPT !.half = t.half]
<1>1. t \in TurnType
  BY DEF Steady
<1>2. /\ s \in TurnType /\ s.rep = t.rep /\ s.out = t.out /\ s.proven = t.proven
      /\ s.thrown = t.thrown /\ s.half = "none"
  BY <1>1 DEF TurnType, EscapeType
<1> HIDE DEF s
<1>3. Steady(s)
  BY <1>2 DEF Steady, Proper, Kept, Stamps, Answers
<1>4. \A i \in 1..Len(log) : Proves(s, log[i]) /\ (log[i].kind = "F" => i = Len(log))
  BY DEF Unproving, Proves
<1>5. Steady(f) /\ Emits(s, f) /\ f.proven = s.proven
  BY <1>2, <1>3, <1>4, EmitsFacts
<1> HIDE DEF f
<1>6. f \in TurnType /\ t.half \in EscapeType
  BY <1>1, <1>5 DEF Steady, TurnType
<1>7. /\ u \in TurnType /\ u.rep = f.rep /\ u.out = f.out /\ u.proven = f.proven
      /\ u.thrown = f.thrown /\ u.half = t.half
  BY <1>6 DEF TurnType
<1>8. DrainAbandoned(t, log) = u
  BY DEF DrainAbandoned, f, s
<1> HIDE DEF u
<1>9. Steady(u)
  BY <1>5, <1>7 DEF Steady, Proper, Kept, Stamps, Answers
<1> QED BY <1>2, <1>5, <1>7, <1>8, <1>9 DEF Emits

----------------------------------------------------------------------------
(* The steps of a turn.                                                    *)

\* A turn whose decisions are all A's needs no drain.
LEMMA InitiallyProper ==
    ASSUME NEW t, Pending(t), Unproving(t.rep.ev.log)
    PROVE  TurnInvariant(t)
BY DEF Pending, TurnInvariant, Steady, AtRest

\* An evaluator that continues as it was keeps the invariant.
LEMMA ContinuedPending ==
    ASSUME NEW t, TurnInvariant(t), NEW s \in TurnType, OnlyEv(t, s),
           Continued(t.rep.ev, s.rep.ev), Stamps(s)
    PROVE  Pending(s) /\ Unproving(s.rep.ev.log)
<1>1. t \in TurnType /\ AtRest(s.rep.ev) /\ AtRest(s.rep.stash)
  BY DEF TurnInvariant, Steady, Continued, OnlyEv
<1>2. Proper(s) /\ Answers(s)
  BY DEF TurnInvariant, Steady, Proper, Answers, OnlyEv
<1>3. Kept(s)
  BY DEF TurnInvariant, Steady, Kept, OnlyEv, Continued
<1>4. Follows(s)
  BY DEF TurnInvariant, Follows, Shadowed, OnlyEv, Continued
<1> QED BY <1>1, <1>2, <1>3, <1>4 DEF Pending, Decided, AtRest

\* A size getter keeps the invariant.
LEMMA ReadSizeFacts ==
    ASSUME NEW t, TurnInvariant(t), NEW key \in {"cols", "rows"}, tui \in TuiType
    PROVE  LET u == ReadSize(t, key) IN TurnInvariant(u) /\ u.half = t.half
<1>1. CASE ~ Shadowed(t)
  BY <1>1 DEF ReadSize
<1>2. CASE Shadowed(t)
  <2> DEFINE e == SizeRead(t.rep.ev, key, tui.size, t.rep.frames + 1)
             n == IF e.cand.frame > t.rep.frames THEN t.rep.frames + 1 ELSE t.rep.frames
             x == [t EXCEPT !.rep.ev = e]
             s == [x EXCEPT !.rep.frames = n]
  <2>1. t \in TurnType /\ t.rep.ev \in EvType /\ AtRest(t.rep.ev) /\ t.rep.frames \in Nat
    BY DEF TurnInvariant, Steady, TurnType, RepType
  <2>2. ReadSize(t, key) = Drain(s)
    <3>1. ReadSize(t, key) = Drain([t EXCEPT !.rep.ev = e, !.rep.frames = n])
      <4>1. [t EXCEPT !.rep.ev = e,
                      !.rep.frames = IF e.cand.frame > t.rep.frames THEN @ + 1 ELSE @] =
            [t EXCEPT !.rep.ev = e, !.rep.frames = n]
        <5> HIDE DEF e
        <5> QED BY <2>1 DEF TurnType, RepType
      <4> QED BY <1>2, <4>1 DEF ReadSize
    <3>2. [t EXCEPT !.rep.ev = e, !.rep.frames = n] = s
      <4> HIDE DEF e, n
      <4> QED BY <2>1 DEF TurnType, RepType
    <3> QED BY <3>1, <3>2
  <2>3. tui.size \in Nat /\ t.rep.frames + 1 \in Nat
    <3>1. Sizes \subseteq Nat
      BY WitnessAssumption
    <3>2. tui.size \in Sizes
      BY DEF TuiType
    <3>3. tui.size \in Nat
      BY <3>1, <3>2
    <3>4. t.rep.frames + 1 \in Nat
      BY <2>1
    <3> QED BY <3>3, <3>4
  <2>4. Continued(t.rep.ev, e) /\ e.intent = t.rep.ev.intent
    BY <2>1, <2>3, SizeReadFacts
  <2>5. n \in Nat
    BY <2>1
  <2> HIDE DEF e, n
  <2>6. x \in TurnType /\ OnlyEv(t, x) /\ x.rep.ev = e
    BY <2>1, <2>4, WithEv DEF Continued
  <2> HIDE DEF x
  <2>7. s \in TurnType
    BY <2>5, <2>6 DEF TurnType, RepType
  <2>8. OnlyEv(x, s) /\ s.rep.ev = x.rep.ev
    BY <2>6 DEF TurnType, RepType, OnlyEv
  <2> HIDE DEF s
  <2>9. OnlyEv(t, s) /\ s.rep.ev = e
    BY <2>6, <2>8 DEF OnlyEv
  <2>10. Stamps(s)
    BY <2>4, <2>9 DEF TurnInvariant, Steady, Stamps, OnlyEv
  <2>11. Pending(s)
    BY <2>4, <2>7, <2>9, <2>10, ContinuedPending
  <2> QED BY <2>2, <2>9, <2>11, DrainFacts DEF OnlyEv
<1> QED BY <1>1, <1>2

\* The sentinel's first render after a stop binds the terminal again.
LEMMA ReactivateFacts ==
    ASSUME NEW t, TurnInvariant(t), t.rep.state = "enabled", ~ t.rep.bound, tui \in TuiType
    PROVE  LET u == Reactivate(t) IN TurnInvariant(u) /\ u.half = t.half
<1> DEFINE new == NewEvaluator(tui.mode)
           blank == NewEvaluator("fullscreen")
           old == IF t.rep.stashed THEN t.rep.stash ELSE t.rep.ev
           again == t.rep.rearmed \cup {t.rep.rev}
           r == [t.rep EXCEPT !.ev = new, !.bound = TRUE, !.stashed = FALSE, !.stash = blank,
                              !.rearmed = again]
           x == [t EXCEPT !.rep = r]
           u == DrainAbandoned(x, old.log)
<1>1. t \in TurnType /\ t.rep \in RepType
  BY DEF TurnInvariant, Steady, TurnType
<1>2. old.log \in Seq(DecisionType) /\ Unproving(old.log)
  BY <1>1 DEF TurnInvariant, Steady, AtRest, RepType, EvType
<1>3. again \in SUBSET Nat
  BY <1>1 DEF RepType
<1>4. /\ new \in EvType /\ AtRest(new) /\ ~ new.cand.opened /\ new.log = <<>>
      /\ blank \in EvType /\ AtRest(blank) /\ ~ blank.cand.opened
  BY NewEvaluatorFacts DEF TuiType, Modes
<1>5. Reactivate(t) = u
  <2>1. [t EXCEPT !.rep.ev = new, !.rep.bound = TRUE, !.rep.stashed = FALSE, !.rep.stash = blank,
                  !.rep.rearmed = @ \cup {t.rep.rev}] = x
    <3> HIDE DEF new, blank
    <3> QED BY <1>1 DEF TurnType, RepType
  <2> QED BY <2>1 DEF Reactivate
<1> HIDE DEF new, blank, old, again
<1>6. r \in RepType
  BY <1>1, <1>3, <1>4 DEF RepType
<1>7. /\ r.ev = new /\ r.bound /\ r.stash = blank /\ r.rearmed = again /\ r.rev = t.rep.rev
      /\ r.session = t.rep.session /\ r.state = t.rep.state /\ r.consumed = t.rep.consumed
  BY <1>1 DEF RepType
<1> HIDE DEF r
<1>8. /\ x \in TurnType /\ x.rep = r /\ x.out = t.out /\ x.half = t.half /\ x.thrown = t.thrown
      /\ x.proven = t.proven
  BY <1>1, <1>6 DEF TurnType
<1> HIDE DEF x
<1>9. t.rep.rev \in again /\ t.rep.rearmed \subseteq again
  BY DEF again
<1>10. Steady(x)
  <2>1. Proper(x)
    BY <1>8 DEF TurnInvariant, Steady, Proper
  <2>2. Kept(x)
    BY <1>4, <1>7, <1>8 DEF TurnInvariant, Steady, Kept
  <2>3. Stamps(x) /\ Answers(x)
    BY <1>7, <1>8, <1>9 DEF TurnInvariant, Steady, Stamps, Answers
  <2> QED BY <1>4, <1>7, <1>8, <2>1, <2>2, <2>3 DEF Steady
<1>11. rep.state = "enabled"
  BY DEF TurnInvariant, Steady, Kept
<1>12. Steady(u) /\ Emits(x, u)
  BY <1>2, <1>10, <1>11, DrainAbandonedFacts
<1> HIDE DEF u
<1>13. Follows(u)
  BY <1>4, <1>7, <1>8, <1>12 DEF Follows, Emits
<1> QED BY <1>5, <1>8, <1>12, <1>13 DEF TurnInvariant, Emits

\* The sentinel's render keeps the invariant.
LEMMA RenderSentinelFacts ==
    ASSUME NEW t, TurnInvariant(t), tui \in TuiType
    PROVE  LET u == RenderSentinel(t) IN TurnInvariant(u) /\ u.half = t.half
<1>1. CASE t.rep.state # "enabled"
  BY <1>1 DEF RenderSentinel
<1>2. CASE t.rep.state = "enabled"
  <2> DEFINE a == IF t.rep.bound THEN t ELSE Reactivate(t)
             e == Sentinel(a.rep.ev, tui.focus)
             x == [a EXCEPT !.rep.ev = e]
             s == [x EXCEPT !.rep.focus = tui.focus]
  <2>1. TurnInvariant(a) /\ a.half = t.half
    BY <1>2, ReactivateFacts DEF TurnInvariant, Steady, TurnType, RepType
  <2>2. RenderSentinel(t) = [a EXCEPT !.rep.focus = tui.focus, !.rep.ev = Sentinel(@, tui.focus)]
    BY <1>2 DEF RenderSentinel
  <2> HIDE DEF a
  <2>3. a \in TurnType /\ a.rep.ev \in EvType /\ AtRest(a.rep.ev) /\ tui.focus \in Foci
    BY <2>1 DEF TurnInvariant, Steady, TurnType, RepType, TuiType
  <2>4. Continued(a.rep.ev, e) /\ e.intent = a.rep.ev.intent
    BY <2>3, SentinelFacts
  <2>5. RenderSentinel(t) = s
    BY <2>2, <2>3 DEF TurnType, RepType
  <2> HIDE DEF e
  <2>6. x \in TurnType /\ OnlyEv(a, x) /\ x.rep.ev = e
    BY <2>3, <2>4, WithEv DEF Continued
  <2> HIDE DEF x
  <2>7. s \in TurnType
    BY <2>3, <2>6 DEF TurnType, RepType
  <2>8. OnlyEv(x, s) /\ s.rep.ev = x.rep.ev
    BY <2>6 DEF TurnType, RepType, OnlyEv
  <2> HIDE DEF s
  <2>9. OnlyEv(a, s) /\ s.rep.ev = e
    BY <2>6, <2>8 DEF OnlyEv
  <2>10. Stamps(s)
    BY <2>1, <2>4, <2>9 DEF TurnInvariant, Steady, Stamps, OnlyEv
  <2>11. TurnInvariant(s)
    BY <2>1, <2>4, <2>7, <2>9, <2>10, ContinuedPending, InitiallyProper
  <2> QED BY <2>1, <2>5, <2>9, <2>11 DEF OnlyEv
<1> QED BY <1>1, <1>2

\* Tokens in the stream are no marker, and cut it where the last one does.
LEMMA PutFacts ==
    ASSUME NEW t \in TurnType, NEW toks \in Seq(Tokens), NEW size \in Nat, tui \in TuiType
    PROVE  LET u == Put(t, toks, size)
           IN  /\ u \in TurnType /\ u.rep = t.rep /\ u.proven = t.proven /\ u.thrown = t.thrown
               /\ u.half = OpenEscape(toks, t.half) /\ (Proper(t) => Proper(u))
<1> DEFINE items == [i \in DOMAIN toks |-> Token(toks[i], size)]
           o == t.out \o items
           h == OpenEscape(toks, t.half)
           u == [t EXCEPT !.out = o, !.half = h]
<1>1. Put(t, toks, size) = u
  BY DEF Put
<1>2. items \in Seq(TokenType) /\ items \in Seq(ItemType)
  <2>1. \A i \in DOMAIN toks : Token(toks[i], size) \in TokenType
    BY DEF Token, TokenType, TuiType
  <2> QED BY <2>1 DEF ItemType
<1>3. \A i \in DOMAIN items : items[i].kind = "token"
  BY DEF Token
<1> HIDE DEF items
<1>4. t.out \in Seq(ItemType) /\ h \in EscapeType
  BY EscapeTyped DEF TurnType
<1>5. o \in Seq(ItemType)
  BY <1>2, <1>4
<1>6. \A i \in DOMAIN o : o[i].kind = "token" \/ (i \in DOMAIN t.out /\ o[i] = t.out[i])
  <2>1. ASSUME NEW i \in DOMAIN o
        PROVE  (i \in DOMAIN t.out /\ o[i] = t.out[i])
                  \/ (i - Len(t.out) \in DOMAIN items /\ o[i] = items[i - Len(t.out)])
    BY <1>2, <1>4
  <2> HIDE DEF o
  <2> QED BY <1>3, <2>1
<1> HIDE DEF o, h
<1>7. /\ u \in TurnType /\ u.rep = t.rep /\ u.proven = t.proven /\ u.thrown = t.thrown
      /\ u.half = h /\ u.out = o
  BY <1>4, <1>5 DEF TurnType
<1> HIDE DEF u
<1>8. Proper(t) => Proper(u)
  BY <1>6, <1>7 DEF Proper
<1> QED BY <1>1, <1>7, <1>8 DEF h

\* A reporter that is disposed is out of the terminal.
Disposed(a) ==
    [a EXCEPT !.rep.ev = NewEvaluator("fullscreen"), !.rep.state = "disposed",
              !.rep.bound = FALSE, !.rep.stashed = FALSE,
              !.rep.stash = NewEvaluator("fullscreen")]

\* A disposed reporter is at rest: both evaluators are new.
LEMMA DisposedFacts ==
    ASSUME NEW a \in TurnType, Proper(a), Answers(a), a.rep.session = rep.session
    PROVE  LET u == Disposed(a)
           IN  /\ TurnInvariant(u) /\ u.half = a.half /\ u.thrown = a.thrown
               /\ u.rep.state = "disposed" /\ ~ u.rep.bound /\ ~ Completed(u.rep.ev)
               /\ u.proven = a.proven
<1> DEFINE blank == NewEvaluator("fullscreen")
           r == [a.rep EXCEPT !.ev = blank, !.state = "disposed", !.bound = FALSE,
                              !.stashed = FALSE, !.stash = blank]
           u == [a EXCEPT !.rep = r]
<1>1. a.rep \in RepType
  BY DEF TurnType
<1>2. blank \in EvType /\ AtRest(blank) /\ ~ blank.cand.opened /\ blank.log = <<>>
  BY NewEvaluatorFacts DEF Modes
<1>3. Disposed(a) = u
  <2> HIDE DEF blank
  <2> QED BY <1>1 DEF Disposed, TurnType, RepType, blank
<1> HIDE DEF blank
<1>4. r \in RepType
  BY <1>1, <1>2 DEF RepType
<1>5. /\ r.ev = blank /\ r.stash = blank /\ r.state = "disposed" /\ ~ r.bound
      /\ r.session = a.rep.session /\ r.consumed = a.rep.consumed /\ r.rearmed = a.rep.rearmed
  BY <1>1 DEF RepType
<1> HIDE DEF r
<1>6. /\ u \in TurnType /\ u.rep = r /\ u.out = a.out /\ u.half = a.half /\ u.thrown = a.thrown
      /\ u.proven = a.proven
  BY <1>4 DEF TurnType
<1> HIDE DEF u
<1>7. Proper(u) /\ Answers(u)
  BY <1>5, <1>6 DEF Proper, Answers
<1>8. Kept(u) /\ Stamps(u) /\ Follows(u)
  BY <1>2, <1>5, <1>6 DEF Kept, Stamps, Follows, Shadowed
<1>9. ~ Completed(blank)
  BY <1>2 DEF Completed
<1> QED BY <1>2, <1>3, <1>5, <1>6, <1>7, <1>8, <1>9 DEF TurnInvariant, Steady

\* Disposing ends an open frame and keeps the invariant, whatever was open.
LEMMA DisposeFacts ==
    ASSUME NEW t, Steady(t), t.rep.state = "disposed" => TurnInvariant(t)
    PROVE  LET u == Dispose(t)
           IN  /\ TurnInvariant(u) /\ u.half = t.half /\ u.rep.state = "disposed"
               /\ u.proven = t.proven
<1>1. CASE t.rep.state = "disposed"
  BY <1>1 DEF Dispose
<1>2. CASE t.rep.state # "disposed"
  <2> DEFINE e == Abort(t.rep.ev)
             a == IF Shadowed(t) THEN DrainAbandoned(t, e.log) ELSE t
  <2>1. Dispose(t) = Disposed(a)
    BY <1>2 DEF Dispose, Disposed
  <2>2. t.rep.ev \in EvType /\ AtRest(t.rep.ev) /\ t \in TurnType
    BY DEF Steady, TurnType, RepType
  <2>3. Aborted(t.rep.ev, e)
    BY <2>2, AbortFacts
  <2> HIDE DEF e
  <2>4. e.log \in Seq(DecisionType) /\ Unproving(e.log)
    BY <2>2, <2>3 DEF Aborted, AtRest, EvType
  <2>5. Steady(a) /\ a.half = t.half /\ a.proven = t.proven
    <3>1. CASE Shadowed(t)
      <4>1. rep.state = "enabled"
        BY <3>1 DEF Shadowed, Steady, Kept
      <4> QED BY <2>4, <3>1, <4>1, DrainAbandonedFacts DEF Emits
    <3>2. CASE ~ Shadowed(t)
      BY <3>2
    <3> QED BY <3>1, <3>2
  <2> HIDE DEF a
  <2>6. a \in TurnType /\ Proper(a) /\ Answers(a) /\ a.rep.session = rep.session
    BY <2>5 DEF Steady, Kept
  <2> QED BY <2>1, <2>5, <2>6, DisposedFacts
<1> QED BY <1>1, <1>2

\* An unshadowed turn stays as it is, whatever is written.
LEMMA Unshadowed ==
    ASSUME NEW t, TurnInvariant(t), ~ Shadowed(t), NEW u \in TurnType,
           u.rep = t.rep, u.proven = t.proven, Proper(u)
    PROVE  TurnInvariant(u)
<1>1. ~ t.rep.ev.cand.opened
  BY DEF TurnInvariant, Steady, Kept, Shadowed, TurnType, RepType
<1>2. Kept(u) /\ Stamps(u) /\ Answers(u)
  BY DEF TurnInvariant, Steady, Kept, Stamps, Answers
<1>3. Follows(u)
  BY <1>1 DEF Follows, Shadowed
<1> QED BY <1>2, <1>3 DEF TurnInvariant, Steady

\* In the middle of an operation: t is what the turn was before it, and s has the
\* evaluator e that has seen it and what was written so far.
Amid(t, e, s) ==
    /\ s \in TurnType /\ Ordered(e) /\ Unproving(e.log) /\ e.intent = t.rep.ev.intent
    /\ s.rep.ev = e /\ s.rep.session = t.rep.session /\ s.rep.state = t.rep.state
    /\ s.rep.bound = t.rep.bound /\ s.rep.stash = t.rep.stash
    /\ s.rep.rev = t.rep.rev /\ s.rep.consumed = t.rep.consumed
    /\ s.rep.rearmed = t.rep.rearmed /\ s.proven = t.proven /\ s.thrown = t.thrown
    /\ Proper(s)

\* What the evaluator makes of the operation's end, e becoming w.
LEMMA AmidPending ==
    ASSUME NEW t, TurnInvariant(t), Shadowed(t), NEW e \in EvType, NEW s, Amid(t, e, s),
           NEW w \in EvType, Ordered(w), ~ Completed(w), w.intent = e.intent, w.esc = e.esc,
           Unproving(w.log) \/
              (/\ w.esc = "none" /\ w.cand.frame = 0
               /\ \E d \in DecisionType :
                    d.kind = "F" /\ d.rev = e.intent.rev /\ w.log = Append(e.log, d)),
           w.cand.opened => s.half = w.esc,
           FailsCleanly /\ w.log # <<>> => s.half \in {"none", w.esc}
    PROVE  LET u == [s EXCEPT !.rep.ev = w] IN Pending(u) /\ u.half = s.half /\ u.thrown = t.thrown
<1> DEFINE u == [s EXCEPT !.rep.ev = w]
<1>1. u \in TurnType /\ OnlyEv(s, u) /\ u.rep.ev = w
  BY WithEv DEF Amid
<1> HIDE DEF u
<1>2. t \in TurnType /\ Steady(t)
  BY DEF TurnInvariant, Steady
<1>3. AtRest(u.rep.stash)
  BY <1>1, <1>2 DEF Amid, OnlyEv, Steady
<1>4. Proper(u)
  BY <1>1 DEF Amid, OnlyEv, Proper
<1>5. Kept(u)
  BY <1>1, <1>2 DEF Amid, OnlyEv, Steady, Kept, Shadowed
<1>6. Stamps(u) /\ Answers(u)
  BY <1>1, <1>2 DEF Amid, OnlyEv, Steady, Stamps, Answers
<1>7. Follows(u)
  BY <1>1 DEF OnlyEv, Follows
<1>8. Shadowed(u)
  BY <1>1 DEF Amid, OnlyEv, Shadowed
<1>9. Decided(u)
  <2>1. CASE Unproving(w.log)
    BY <1>1, <2>1 DEF Decided
  <2>2. CASE ~ Unproving(w.log)
    <3>1. e.log \in Seq(DecisionType) /\ Unproving(e.log)
      BY DEF EvType, Amid
    <3> QED BY <1>1, <1>8, <2>2, <3>1 DEF Decided
  <2> QED BY <2>1, <2>2
<1>10. u.half = s.half /\ u.thrown = t.thrown
  BY <1>1 DEF Amid, OnlyEv
<1> QED BY <1>1, <1>3, <1>4, <1>5, <1>6, <1>7, <1>9, <1>10 DEF Pending, u

\* The operation ends, and what is complete is decided.
LEMMA FinishFacts ==
    ASSUME NEW t, TurnInvariant(t), Shadowed(t), NEW e \in EvType, NEW s, Amid(t, e, s),
           Completed(e) => e.esc = "none",
           e.cand.opened => s.half = e.esc,
           FailsCleanly /\ (e.log # <<>> \/ e.cand.opened) => s.half \in {"none", e.esc}
    PROVE  LET u == Finish(s) IN TurnInvariant(u) /\ u.half = s.half
<1> DEFINE w == FinishWrite(e, s.rep.focus)
           x == [s EXCEPT !.rep.ev = w]
<1>1. s \in TurnType /\ s.rep.ev = e /\ s.rep.focus \in Foci /\ Ordered(e) /\ Unproving(e.log)
  BY DEF Amid, TurnType, RepType
<1>2. /\ w \in EvType /\ Ordered(w) /\ ~ Completed(w)
      /\ w.esc = e.esc /\ w.intent = e.intent
      /\ w.cand.opened => e.cand.opened
      /\ w.log # <<>> => e.log # <<>> \/ e.cand.opened
      /\ \/ Unproving(w.log)
         \/ /\ Completed(e) /\ w.cand.frame = 0 /\ ~ w.cand.opened
            /\ \E d \in DecisionType :
                  d.kind = "F" /\ d.rev = e.intent.rev /\ w.log = Append(e.log, d)
  BY <1>1, FinishWriteFacts
<1>3. Finish(s) = Drain(x)
  <2>1. [s EXCEPT !.rep.ev = FinishWrite(@, s.rep.focus)] = x
    BY <1>1 DEF TurnType, RepType
  <2> QED BY <2>1 DEF Finish
<1> HIDE DEF w
<1>4. Pending(x) /\ x.half = s.half
  <2>1. Unproving(w.log) \/
           (/\ w.esc = "none" /\ w.cand.frame = 0
            /\ \E d \in DecisionType :
                 d.kind = "F" /\ d.rev = e.intent.rev /\ w.log = Append(e.log, d))
    BY <1>2
  <2>2. (w.cand.opened => s.half = w.esc)
           /\ (FailsCleanly /\ w.log # <<>> => s.half \in {"none", w.esc})
    BY <1>2
  <2> QED BY <1>2, <2>1, <2>2, AmidPending
<1> HIDE DEF x
<1> QED BY <1>3, <1>4, DrainFacts

\* The operation throws, and the candidate is given up.
LEMMA FailFacts ==
    ASSUME NEW t, TurnInvariant(t), Shadowed(t), NEW e \in EvType, NEW s, Amid(t, e, s),
           FailsCleanly /\ (e.log # <<>> \/ e.cand.opened) => s.half \in {"none", e.esc}
    PROVE  LET u == Fail(s) IN TurnInvariant(u) /\ u.thrown
<1> DEFINE w == Abort(e)
           x == [s EXCEPT !.rep.ev = w]
           d == Drain(x)
           u == [d EXCEPT !.thrown = TRUE]
<1>1. s \in TurnType /\ s.rep.ev = e /\ Unproving(e.log)
  BY DEF Amid
<1>2. Aborted(e, w)
  BY AbortFacts
<1>3. Fail(s) = u
  <2>1. [s EXCEPT !.rep.ev = Abort(@)] = x
    BY <1>1 DEF TurnType, RepType
  <2> QED BY <2>1 DEF Fail
<1> HIDE DEF w
<1>4. Pending(x)
  <2>1. Unproving(w.log) /\ (w.cand.opened => s.half = w.esc)
           /\ (FailsCleanly /\ w.log # <<>> => s.half \in {"none", w.esc})
    BY <1>1, <1>2 DEF Aborted
  <2> QED BY <1>2, <2>1, AmidPending DEF Aborted
<1> HIDE DEF x
<1>5. TurnInvariant(d)
  BY <1>4, DrainFacts
<1> HIDE DEF d
<1>6. /\ u \in TurnType /\ u.rep = d.rep /\ u.out = d.out /\ u.half = d.half
      /\ u.proven = d.proven /\ u.thrown
  BY <1>5 DEF TurnInvariant, Steady, TurnType
<1> HIDE DEF u
<1>7. TurnInvariant(u)
  BY <1>5, <1>6 DEF TurnInvariant, Steady, Proper, Follows, Kept, Stamps, Answers, Shadowed
<1> QED BY <1>3, <1>6, <1>7

----------------------------------------------------------------------------
(* Writes.                                                                 *)

\* What the program may do while half of a control, or none, is open.
Legal(op, half) ==
    /\ op \in Operation /\ (op.do # "write" => op.toks = <<>>) /\ Printable(op.toks)
    /\ Prints(op) => Resumes(op, half)
    /\ FailsCleanly /\ op.fails = "write"
          => op.toks = <<>> \/ \A e \in Escapes : Head(op.toks) # Rest[e]

\* The least of some positions.
LEMMA FirstFacts ==
    ASSUME NEW toks \in Seq(Tokens), NEW kinds, Where(toks, kinds) # {}
    PROVE  LET at == First(Where(toks, kinds)) IN at \in 1..Len(toks) /\ toks[at] \in kinds
<1>1. Where(toks, kinds) \in SUBSET Nat
  BY DEF Where
<1>2. PICK m \in Where(toks, kinds) : \A k \in Where(toks, kinds) : m <= k
  BY <1>1, LeastNatural
<1>3. First(Where(toks, kinds)) \in Where(toks, kinds)
  <2> DEFINE w == Where(toks, kinds)
  <2> HIDE DEF w
  <2>1. \E i \in w : \A j \in w : i <= j
    BY <1>2 DEF w
  <2>2. First(w) \in w
    BY <2>1 DEF First
  <2> QED BY <2>2 DEF w
<1> QED BY <1>3 DEF Where

\* The slices of a write that begins a frame.
LEMMA SliceFacts ==
    ASSUME NEW toks, Printable(toks), NEW at \in 1..Len(toks), NEW h
    PROVE  LET early == SubSeq(toks, 1, at - 1)
               late == SubSeq(toks, at, Len(toks))
           IN  /\ early \in Seq(Tokens) /\ late \in Seq(Tokens)
               /\ early = <<>> <=> at = 1
               /\ early # <<>> => OpenEscape(early, h) = "none"
               /\ OpenEscape(late, h) = OpenEscape(toks, "none")
<1> DEFINE early == SubSeq(toks, 1, at - 1)
           late == SubSeq(toks, at, Len(toks))
           n == Len(toks)
<1>1. toks \in Seq(Tokens) /\ n \in Nat /\ at \in Nat /\ at >= 1 /\ at <= n
         /\ \A i \in 1..n : toks[i] \in Tokens
  BY DEF Printable
<1>2. PICK m : m = at - 1
  OBVIOUS
<1>3. m \in Nat /\ m < n
  BY <1>1, <1>2
<1>4. /\ SubSeq(toks, 1, m) \in Seq(Tokens)
      /\ Len(SubSeq(toks, 1, m)) = IF 1 <= m THEN m - 1 + 1 ELSE 0
      /\ \A i \in 1..m - 1 + 1 : SubSeq(toks, 1, m)[i] = toks[1 + i - 1]
  BY <1>1, <1>3, SubSeqProperties
<1>5. early \in Seq(Tokens) /\ Len(early) = m /\ \A i \in 1..m : early[i] = toks[i]
  BY <1>2, <1>3, <1>4
<1>6. /\ late \in Seq(Tokens)
      /\ Len(late) = IF at <= n THEN n - at + 1 ELSE 0
      /\ \A i \in 1..n - at + 1 : late[i] = toks[at + i - 1]
  BY <1>1, SubSeqProperties
<1>7. Len(late) = n - m /\ Len(late) # 0 /\ late[Len(late)] = toks[n]
  <2>1. n - at + 1 \in 1..n - at + 1 /\ n - at + 1 = n - m /\ at + (n - at + 1) - 1 = n
    BY <1>1, <1>2
  <2> HIDE DEF late, n
  <2>2. late[n - at + 1] = toks[at + (n - at + 1) - 1]
    BY <1>6, <2>1
  <2> QED BY <1>1, <1>3, <1>6, <2>1, <2>2
<1> HIDE DEF early, late
<1>8. early = <<>> <=> at = 1
  BY <1>1, <1>2, <1>5
<1>9. ASSUME early # <<>> PROVE OpenEscape(early, h) = "none"
  <2>1. m \in 1..n /\ m # n /\ Last(early) = toks[m]
    BY <1>1, <1>3, <1>5, <1>9 DEF Last
  <2>2. ~ IsHalf(toks[m])
    BY <1>1, <2>1 DEF Printable
  <2> QED BY <1>9, <2>1, <2>2 DEF OpenEscape
<1>10. OpenEscape(late, h) = OpenEscape(toks, "none")
  <2>1. late # <<>> /\ toks # <<>> /\ Last(late) = Last(toks)
    BY <1>1, <1>6, <1>7 DEF Last
  <2> QED BY <2>1 DEF OpenEscape
<1> QED BY <1>5, <1>6, <1>8, <1>9, <1>10 DEF early, late

\* The operation as the evaluator has seen it, before anything is written.
LEMMA AmidOperation ==
    ASSUME NEW t, TurnInvariant(t), NEW e, NEW kind, NEW toks,
           Operated(t.rep.ev, e, kind, toks)
    PROVE  LET s == [t EXCEPT !.rep.ev = e] IN Amid(t, e, s) /\ s.half = t.half
<1>1. t \in TurnType /\ e \in EvType
  BY DEF TurnInvariant, Steady, Operated
<1>2. LET s == [t EXCEPT !.rep.ev = e] IN s \in TurnType /\ OnlyEv(t, s) /\ s.rep.ev = e
  BY <1>1, WithEv
<1> DEFINE s == [t EXCEPT !.rep.ev = e]
<1> HIDE DEF s
<1>3. Proper(s)
  BY <1>2 DEF TurnInvariant, Steady, Proper, OnlyEv, s
<1> QED BY <1>2, <1>3 DEF Amid, OnlyEv, Operated, s

\* Tokens that are written meanwhile.
LEMMA AmidPut ==
    ASSUME NEW t, NEW e, NEW s, Amid(t, e, s), NEW toks \in Seq(Tokens), NEW size \in Nat,
           tui \in TuiType
    PROVE  LET u == Put(s, toks, size) IN Amid(t, e, u) /\ u.half = OpenEscape(toks, s.half)
<1>1. s \in TurnType /\ Proper(s)
  BY DEF Amid
<1> DEFINE u == Put(s, toks, size)
<1>2. /\ u \in TurnType /\ u.rep = s.rep /\ u.proven = s.proven /\ u.thrown = s.thrown
      /\ u.half = OpenEscape(toks, s.half) /\ Proper(u)
  BY <1>1, PutFacts
<1> HIDE DEF u
<1> QED BY <1>2 DEF Amid, u

\* The S before a frame's OPEN.
LEMMA AmidEmitS ==
    ASSUME NEW t, TurnInvariant(t), Shadowed(t), NEW e \in EvType, NEW s, Amid(t, e, s),
           s.half = "none"
    PROVE  LET u == EmitS(s, FALSE) IN Amid(t, e, u) /\ u.half = "none"
<1> DEFINE c == e.cand
           m == [kind |-> "S", frame |-> c.frame, session |-> s.rep.session, inside |-> FALSE,
                 size |-> c.size, mode |-> "none", rev |-> c.intent.rev]
           o == Append(s.out, m)
           w == s.rep.written \cup {c.frame}
           r == [s.rep EXCEPT !.written = w]
           u == [s EXCEPT !.out = o, !.rep = r]
<1>1. s \in TurnType /\ s.rep \in RepType /\ s.rep.ev = e /\ s.out \in Seq(ItemType)
  BY DEF Amid, TurnType
<1>2. m \in ItemType /\ m.kind = "S" /\ m.session = rep.session /\ ~ m.inside
  <2>1. c.frame \in Nat /\ c.size \in PairType /\ c.intent.rev \in Nat /\ s.rep.session \in Nat
    BY <1>1 DEF EvType, CandType, IntentType, RepType
  <2>2. s.rep.session = rep.session
    BY DEF Amid, TurnInvariant, Steady, Kept
  <2> HIDE DEF c
  <2> QED BY <2>1, <2>2 DEF ItemType, MarkerType
<1>3. EmitS(s, FALSE) = u
  <2>1. [Marker(s, "S", c.frame) EXCEPT !.size = c.size, !.rev = c.intent.rev] = m
    <3>1. (s.half # "none") = FALSE
      OBVIOUS
    <3>2. Marker(s, "S", c.frame) =
            [kind |-> "S", frame |-> c.frame, session |-> s.rep.session, inside |-> FALSE,
             size |-> <<>>, mode |-> "none", rev |-> 0]
      BY <3>1 DEF Marker
    <3> DEFINE k == [Marker(s, "S", c.frame) EXCEPT !.size = c.size, !.rev = c.intent.rev]
    <3>3. k = [[kind |-> "S", frame |-> c.frame, session |-> s.rep.session, inside |-> FALSE,
                size |-> <<>>, mode |-> "none", rev |-> 0]
                  EXCEPT !.size = c.size, !.rev = c.intent.rev]
      BY <3>2
    <3> HIDE DEF k, c
    <3>4. k = m
      BY <3>3
    <3> QED BY <3>4 DEF k
  <2>2. EmitS(s, FALSE) = [s EXCEPT !.out = o, !.rep.written = @ \cup {c.frame}]
    <3> HIDE DEF m
    <3> QED BY <1>1, <2>1 DEF EmitS
  <2> HIDE DEF m, c, o
  <2> QED BY <1>1, <2>2 DEF TurnType, RepType
<1>4. w \in SUBSET Nat
  BY <1>1 DEF RepType, EvType, CandType
<1> HIDE DEF m, c, w
<1>5. r \in RepType
  BY <1>1, <1>4 DEF RepType
<1>6. /\ r.ev = e /\ r.session = s.rep.session /\ r.state = s.rep.state
      /\ r.bound = s.rep.bound /\ r.stash = s.rep.stash /\ r.rev = s.rep.rev
      /\ r.consumed = s.rep.consumed /\ r.rearmed = s.rep.rearmed
  BY <1>1 DEF RepType
<1>7. o \in Seq(ItemType)
  BY <1>1, <1>2
<1>8. Proper([s EXCEPT !.out = o])
  <2>1. rep.state = "enabled"
    BY DEF Shadowed, TurnInvariant, Steady, Kept
  <2>2. [s EXCEPT !.out = o].out = o
    BY <1>1 DEF TurnType
  <2>3. ASSUME NEW i \in DOMAIN o
        PROVE  (i \in DOMAIN s.out /\ o[i] = s.out[i]) \/ o[i] = m
    BY <1>1, <1>2
  <2>4. Proper(s)
    BY DEF Amid
  <2> HIDE DEF o
  <2> QED BY <1>2, <2>1, <2>2, <2>3, <2>4 DEF Proper
<1> HIDE DEF r, o
<1>9. /\ u \in TurnType /\ u.rep = r /\ u.out = o /\ u.half = s.half /\ u.proven = s.proven
      /\ u.thrown = s.thrown
  BY <1>1, <1>5, <1>7 DEF TurnType
<1>10. Proper(u)
  <2>1. [s EXCEPT !.out = o].out = o
    BY <1>1 DEF TurnType
  <2> HIDE DEF u
  <2> QED BY <1>8, <1>9, <2>1 DEF Proper
<1> HIDE DEF u
<1> QED BY <1>3, <1>6, <1>9, <1>10 DEF Amid

\* When it cannot be written, the reporter fails.
LEMMA AmidFailS ==
    ASSUME NEW t, TurnInvariant(t), NEW e \in EvType, NEW s, Amid(t, e, s)
    PROVE  LET u == EmitS(s, TRUE)
           IN  TurnInvariant(u) /\ u.half = s.half /\ ~ u.rep.bound /\ ~ Completed(u.rep.ev)
<1> DEFINE r == [s.rep EXCEPT !.state = "failed"]
           y == [s EXCEPT !.rep = r]
<1>1. s \in TurnType /\ s.rep \in RepType
  BY DEF Amid, TurnType
<1>2. r \in RepType /\ r.state = "failed" /\ r.session = s.rep.session
         /\ r.consumed = s.rep.consumed /\ r.rearmed = s.rep.rearmed
  BY <1>1 DEF RepType
<1>3. EmitS(s, TRUE) = Dispose(y)
  <2>1. [s EXCEPT !.rep.state = "failed"] = y
    BY <1>1 DEF TurnType
  <2> QED BY <2>1 DEF EmitS
<1> HIDE DEF r
<1>4. /\ y \in TurnType /\ y.rep = r /\ y.out = s.out /\ y.half = s.half /\ y.thrown = s.thrown
      /\ y.proven = s.proven
  BY <1>1, <1>2 DEF TurnType
<1> HIDE DEF y
<1>5. Dispose(y) = Disposed(y)
  BY <1>2, <1>4 DEF Dispose, Disposed, Shadowed
<1>6. Proper(y) /\ Answers(y) /\ y.rep.session = rep.session
  BY <1>2, <1>4 DEF Amid, Proper, Answers, TurnInvariant, Steady, Kept
<1> QED BY <1>3, <1>4, <1>5, <1>6, DisposedFacts

\* A write that is all done.
LEMMA WriteDone ==
    ASSUME NEW t, TurnInvariant(t), Shadowed(t), NEW op, Legal(op, t.half), op.toks \in Seq(Tokens),
           NEW e, Operated(t.rep.ev, e, "write", op.toks), NEW s, Amid(t, e, s),
           s.half = OpenEscape(op.toks, t.half),
           op.toks = <<>> => (e.cand.opened => t.rep.ev.cand.opened)
    PROVE  LET u == Finish(s) IN TurnInvariant(u) /\ u.half = OpenEscape(op.toks, t.half)
<1> DEFINE toks == op.toks
<1>1. e \in EvType /\ e.esc = OpenEscape(toks, t.rep.ev.esc) /\ Printable(toks)
  BY DEF Operated, Legal
<1>2. Completed(e) => e.esc = "none"
  <2>1. SUFFICES ASSUME Completed(e) PROVE e.esc = "none"
    OBVIOUS
  <2>2. Where(toks, Cursor) # {}
    BY <2>1 DEF Operated
  <2>3. toks # <<>> /\ OpenEscape(toks, "none") = "none"
    BY <1>1, <2>2 DEF Printable, Where
  <2> QED BY <1>1, <2>3 DEF OpenEscape
<1>3. CASE toks # <<>>
  <2>1. s.half = e.esc
    BY <1>1, <1>3 DEF OpenEscape
  <2> QED BY <1>1, <1>2, <2>1, FinishFacts
<1>4. CASE toks = <<>>
  <2>1. s.half = t.half /\ e.esc = t.rep.ev.esc
    BY <1>1, <1>4 DEF OpenEscape
  <2>2. (e.log # <<>> \/ e.cand.opened)
           => t.rep.ev.log # <<>> \/ t.rep.ev.cand.opened
    BY <1>4 DEF Operated
  <2>3. (t.rep.ev.cand.opened => t.half = t.rep.ev.esc)
           /\ (FailsCleanly /\ t.rep.ev.log # <<>> => t.half \in {"none", t.rep.ev.esc})
    BY DEF TurnInvariant, Follows
  <2> QED BY <1>1, <1>2, <1>4, <2>1, <2>2, <2>3, FinishFacts
<1> QED BY <1>3, <1>4

\* One that throws: nothing was written.
LEMMA WriteFailed ==
    ASSUME NEW t, TurnInvariant(t), Shadowed(t), NEW op, Legal(op, t.half), op.fails = "write",
           NEW e, Operated(t.rep.ev, e, "write", op.toks), NEW s, Amid(t, e, s),
           s.half = t.half,
           op.toks = <<>> => (e.cand.opened => t.rep.ev.cand.opened)
    PROVE  LET u == Fail(s) IN TurnInvariant(u) /\ u.thrown
<1> DEFINE toks == op.toks
<1>1. e \in EvType /\ e.esc = OpenEscape(toks, t.rep.ev.esc)
  BY DEF Operated
<1>2. FailsCleanly /\ (e.log # <<>> \/ e.cand.opened) => s.half \in {"none", e.esc}
  <2>1. SUFFICES ASSUME FailsCleanly, e.log # <<>> \/ e.cand.opened
                 PROVE  t.half \in {"none", e.esc}
    OBVIOUS
  <2>2. CASE toks = <<>>
    <3>1. e.esc = t.rep.ev.esc
      BY <1>1, <2>2 DEF OpenEscape
    <3>2. t.rep.ev.log # <<>> \/ t.rep.ev.cand.opened
      BY <2>1, <2>2 DEF Operated
    <3> QED BY <2>1, <3>1, <3>2 DEF TurnInvariant, Follows
  <2>3. CASE toks # <<>>
    <3>1. Prints(op) /\ \A x \in Escapes : Head(toks) # Rest[x]
      BY <2>1, <2>3 DEF Legal, Prints
    <3>2. t.half = "none" \/ Head(toks) = Rest[t.half]
      BY <3>1 DEF Legal, Resumes
    <3>3. t.half \in Escapes \cup {"none"}
      BY DEF TurnInvariant, Steady, TurnType, EscapeType
    <3> QED BY <3>1, <3>2, <3>3
  <2> QED BY <2>2, <2>3
<1> QED BY <1>1, <1>2, FailFacts

\* A write keeps the invariant, done or thrown, wherever its OPEN is.
LEMMA WriteFacts ==
    ASSUME NEW t, TurnInvariant(t), NEW op, op.do = "write", Legal(op, t.half),
           NEW size \in Nat, tui \in TuiType
    PROVE  LET u == Write(t, op, size)
           IN  TurnInvariant(u) /\ (~ u.thrown => u.half = OpenEscape(op.toks, t.half))
<1> DEFINE toks == op.toks
           e == Operate(t.rep.ev, "write", toks)
           begins == e.cand.opened /\ ~ t.rep.ev.cand.opened
           at == IF begins THEN First(Where(toks, {"open"})) ELSE 1
           early == SubSeq(toks, 1, at - 1)
           late == SubSeq(toks, at, Len(toks))
           x == [t EXCEPT !.rep.ev = e]
           p == Put(x, early, size)
           s == IF begins THEN EmitS(p, op.fails = "marker") ELSE p
           u == Write(t, op, size)
<1>1. t \in TurnType /\ t.rep.ev \in EvType /\ AtRest(t.rep.ev) /\ t.half \in EscapeType
  BY DEF TurnInvariant, Steady, TurnType, RepType
<1>2. toks \in Seq(Tokens) /\ Printable(toks) /\ op.fails \in {"no", "write", "marker"}
  BY DEF Legal, Printable, Operation
<1>3. u = IF ~ Shadowed(t)
          THEN IF op.fails = "write" THEN [t EXCEPT !.thrown = TRUE] ELSE Put(t, toks, size)
          ELSE IF op.fails = "write" THEN Fail(IF early = <<>> THEN s ELSE x)
               ELSE Finish(Put(s, late, size))
  BY DEF Write
<1>4. Operated(t.rep.ev, e, "write", toks)
  BY <1>1, <1>2, OperateFacts
<1>5. Amid(t, e, x) /\ x.half = t.half
  BY <1>4, AmidOperation
<1>6. e \in EvType
  BY <1>4 DEF Operated
<1> HIDE DEF e, u, x
<1>7. CASE ~ Shadowed(t)
  <2>1. CASE op.fails = "write"
    <3> DEFINE y == [t EXCEPT !.thrown = TRUE]
    <3>1. u = y
      BY <1>3, <1>7, <2>1
    <3>2. y \in TurnType /\ y.rep = t.rep /\ y.proven = t.proven /\ y.out = t.out /\ y.thrown
      BY <1>1 DEF TurnType
    <3> HIDE DEF y
    <3>3. Proper(y)
      BY <3>2 DEF TurnInvariant, Steady, Proper
    <3> QED BY <1>7, <3>1, <3>2, <3>3, Unshadowed DEF u
  <2>2. CASE op.fails # "write"
    <3> DEFINE y == Put(t, toks, size)
    <3>1. u = y
      BY <1>3, <1>7, <2>2
    <3>2. /\ y \in TurnType /\ y.rep = t.rep /\ y.proven = t.proven
          /\ y.half = OpenEscape(toks, t.half) /\ (Proper(t) => Proper(y))
      BY <1>1, <1>2, PutFacts
    <3> HIDE DEF y
    <3>3. Proper(y)
      BY <3>2 DEF TurnInvariant, Steady
    <3> QED BY <1>7, <3>1, <3>2, <3>3, Unshadowed DEF u
  <2> QED BY <2>1, <2>2
<1>8. CASE Shadowed(t) /\ ~ begins
  <2>1. at = 1
    BY <1>8
  <2>2. early = <<>>
    <3>1. SubSeq(toks, 1, 0) = <<>>
      BY SubSeqEmpty
    <3> QED BY <2>1, <3>1
  <2>3. late = toks
    <3>1. SubSeq(toks, 1, Len(toks)) = toks
      BY <1>2, SubSeqFull
    <3> HIDE DEF at
    <3> QED BY <2>1, <3>1
  <2> HIDE DEF early, late
  <2>4. Amid(t, e, p) /\ p.half = t.half
    <3>1. <<>> \in Seq(Tokens)
      OBVIOUS
    <3>2. Amid(t, e, p) /\ p.half = OpenEscape(<<>>, x.half)
      BY <1>5, <2>2, <3>1, AmidPut
    <3> QED BY <1>5, <3>2 DEF OpenEscape
  <2>5. s = p
    BY <1>8
  <2> HIDE DEF p, s
  <2>6. e.cand.opened => t.rep.ev.cand.opened
    BY <1>1, <1>6, <1>8 DEF EvType, CandType
  <2>7. CASE op.fails = "write"
    <3>1. u = Fail(p)
      BY <1>3, <1>8, <2>2, <2>5, <2>7
    <3>2. TurnInvariant(Fail(p)) /\ Fail(p).thrown
      BY <1>4, <1>8, <2>4, <2>6, <2>7, WriteFailed
    <3> QED BY <3>1, <3>2 DEF u
  <2>8. CASE op.fails # "write"
    <3> DEFINE y == Put(p, toks, size)
    <3>1. u = Finish(y)
      BY <1>3, <1>8, <2>3, <2>5, <2>8
    <3>2. Amid(t, e, y) /\ y.half = OpenEscape(toks, t.half)
      BY <1>2, <2>4, AmidPut
    <3> HIDE DEF y
    <3>3. TurnInvariant(Finish(y)) /\ Finish(y).half = OpenEscape(toks, t.half)
      BY <1>2, <1>4, <1>8, <2>6, <3>2, WriteDone
    <3> QED BY <3>1, <3>3 DEF u
  <2> QED BY <2>7, <2>8
<1>9. CASE Shadowed(t) /\ begins
  <2>1. Where(toks, {"open"}) # {}
    BY <1>4, <1>9 DEF Operated
  <2>2. at \in 1..Len(toks) /\ toks[at] = "open"
    <3>1. at = First(Where(toks, {"open"}))
      BY <1>9
    <3> HIDE DEF at
    <3> QED BY <1>2, <2>1, <3>1, FirstFacts
  <2> HIDE DEF at
  <2>3. toks # <<>> /\ OpenEscape(toks, t.half) = OpenEscape(toks, "none")
    BY <1>2, <2>2 DEF OpenEscape
  <2>4. /\ early \in Seq(Tokens) /\ late \in Seq(Tokens) /\ (early = <<>> <=> at = 1)
        /\ early # <<>> => OpenEscape(early, t.half) = "none"
    <3>1. PICK h : h = t.half
      OBVIOUS
    <3>2. early \in Seq(Tokens) /\ late \in Seq(Tokens)
      BY <1>2, <2>2, SliceFacts
    <3>3. early = <<>> <=> at = 1
      BY <1>2, <2>2, SliceFacts
    <3>4. early # <<>> => OpenEscape(early, h) = "none"
      <4>1. ASSUME NEW tt, Printable(tt), NEW aa \in 1..Len(tt)
            PROVE  SubSeq(tt, 1, aa - 1) # <<>> => OpenEscape(SubSeq(tt, 1, aa - 1), h) = "none"
        BY <4>1, SliceFacts
      <4> QED BY <1>2, <2>2, <4>1
    <3> QED BY <3>1, <3>2, <3>3, <3>4
  <2>5. \A h : OpenEscape(late, h) = OpenEscape(toks, "none")
    BY <1>2, <2>2, SliceFacts
  <2>6. early = <<>> => t.half = "none"
    <3>1. SUFFICES ASSUME early = <<>>, t.half # "none" PROVE FALSE
      OBVIOUS
    <3>2. Head(toks) = "open"
      BY <1>2, <2>2, <2>3, <2>4, <3>1
    <3>3. Head(toks) = Rest[t.half] /\ t.half \in Escapes
      BY <1>1, <2>3, <3>1 DEF Legal, Prints, Resumes, EscapeType
    <3> QED BY <3>2, <3>3 DEF Rest, Escapes, Half
  <2> HIDE DEF early, late
  <2>7. Amid(t, e, p) /\ p.half = "none"
    <3>1. Amid(t, e, p) /\ p.half = OpenEscape(early, t.half)
      BY <1>5, <2>4, AmidPut
    <3>2. OpenEscape(early, t.half) = "none"
      BY <2>4, <2>6 DEF OpenEscape
    <3> QED BY <3>1, <3>2
  <2> HIDE DEF p
  <2>8. s = EmitS(p, op.fails = "marker")
    BY <1>9
  <2> HIDE DEF s
  <2>9. CASE op.fails = "write"
    <3>1. s = EmitS(p, FALSE)
      BY <2>8, <2>9
    <3>2. Amid(t, e, s) /\ s.half = "none"
      BY <1>6, <1>9, <2>7, <3>1, AmidEmitS
    <3>3. CASE early = <<>>
      <4>1. u = Fail(s) /\ s.half = t.half
        BY <1>3, <1>9, <2>6, <2>9, <3>2, <3>3
      <4> QED BY <1>4, <1>9, <2>3, <2>9, <3>2, <4>1, WriteFailed DEF u
    <3>4. CASE early # <<>>
      <4>1. u = Fail(x)
        BY <1>3, <1>9, <2>9, <3>4
      <4> QED BY <1>4, <1>5, <1>9, <2>3, <2>9, <4>1, WriteFailed DEF u
    <3> QED BY <3>3, <3>4
  <2>10. CASE op.fails = "no"
    <3>1. s = EmitS(p, FALSE)
      BY <2>8, <2>10
    <3>2. Amid(t, e, s)
      BY <1>6, <1>9, <2>7, <3>1, AmidEmitS
    <3> DEFINE y == Put(s, late, size)
    <3>3. u = Finish(y)
      BY <1>3, <1>9, <2>10
    <3>4. Amid(t, e, y) /\ y.half = OpenEscape(late, s.half)
      BY <2>4, <3>2, AmidPut
    <3>5. y.half = OpenEscape(toks, t.half)
      BY <2>3, <2>5, <3>4
    <3> HIDE DEF y
    <3> QED BY <1>2, <1>4, <1>9, <2>3, <3>3, <3>4, <3>5, WriteDone DEF u
  <2>11. CASE op.fails = "marker"
    <3>1. s = EmitS(p, TRUE)
      BY <2>8, <2>11
    <3>2. TurnInvariant(s) /\ ~ s.rep.bound /\ ~ Completed(s.rep.ev)
      BY <1>6, <2>7, <3>1, AmidFailS
    <3> DEFINE y == Put(s, late, size)
    <3>3. u = Finish(y)
      BY <1>3, <1>9, <2>11
    <3>4. /\ y \in TurnType /\ y.rep = s.rep /\ y.proven = s.proven
          /\ y.half = OpenEscape(late, s.half) /\ (Proper(s) => Proper(y))
      BY <2>4, <3>2, PutFacts DEF TurnInvariant, Steady
    <3> HIDE DEF y
    <3>5. TurnInvariant(y)
      BY <3>2, <3>4, Unshadowed DEF TurnInvariant, Steady, Shadowed
    <3>6. Finish(y) = y
      <4>1. y.rep.ev = s.rep.ev /\ ~ Completed(y.rep.ev) /\ ~ Shadowed(y)
        BY <3>2, <3>4 DEF Shadowed
      <4>2. [y EXCEPT !.rep.ev = FinishWrite(@, y.rep.focus)] = y
        BY <3>4, <4>1 DEF FinishWrite, TurnType, RepType
      <4> QED BY <4>1, <4>2 DEF Finish, Drain
    <3>7. y.half = OpenEscape(toks, t.half)
      BY <2>3, <2>5, <3>4
    <3> QED BY <3>3, <3>5, <3>6, <3>7 DEF u
  <2> QED BY <1>2, <2>9, <2>10, <2>11
<1> QED BY <1>7, <1>8, <1>9

\* A cursor call keeps the invariant and cuts nothing.
LEMMA CursorialFacts ==
    ASSUME NEW t, TurnInvariant(t), t.half = "none", NEW size \in Nat, tui \in TuiType
    PROVE  LET u == Cursorial(t, size) IN TurnInvariant(u) /\ u.half = "none"
<1> DEFINE toks == <<"vis">>
           e == Operate(t.rep.ev, "cursor", <<>>)
           x == [t EXCEPT !.rep.ev = e]
           y == Put(x, toks, size)
           z == Put(t, toks, size)
<1>1. t \in TurnType /\ t.rep.ev \in EvType /\ AtRest(t.rep.ev) /\ Proper(t)
  BY DEF TurnInvariant, Steady, TurnType, RepType
<1>2. toks \in Seq(Tokens) /\ <<>> \in Seq(Tokens) /\ \A h : OpenEscape(toks, h) = "none"
  <2>1. ~ IsHalf("vis") /\ "vis" \in Tokens
    BY DEF IsHalf, Half, Escapes, Tokens
  <2>2. Last(toks) = "vis" /\ toks # <<>>
    BY DEF Last
  <2> QED BY <2>1, <2>2 DEF OpenEscape
<1> HIDE DEF toks
<1>3. Cursorial(t, size) = IF ~ Shadowed(t) THEN z ELSE Finish(y)
  <2>1. [t EXCEPT !.rep.ev = Operate(@, "cursor", <<>>)] = x
    BY <1>1 DEF TurnType, RepType
  <2> QED BY <2>1 DEF Cursorial, toks
<1>4. CASE ~ Shadowed(t)
  <2>1. /\ z \in TurnType /\ z.rep = t.rep /\ z.proven = t.proven
        /\ z.half = OpenEscape(toks, t.half) /\ Proper(z)
    BY <1>1, <1>2, PutFacts
  <2> HIDE DEF z
  <2> QED BY <1>2, <1>3, <1>4, <2>1, Unshadowed
<1>5. CASE Shadowed(t)
  <2>1. Operated(t.rep.ev, e, "cursor", <<>>)
    BY <1>1, <1>2, OperateFacts
  <2> HIDE DEF e
  <2>2. Amid(t, e, x)
    BY <2>1, AmidOperation
  <2> HIDE DEF x
  <2>3. Amid(t, e, y) /\ y.half = "none"
    BY <1>2, <2>2, AmidPut
  <2> HIDE DEF y
  <2>4. /\ e \in EvType /\ e.esc = t.rep.ev.esc
        /\ e.cand.opened => t.rep.ev.cand.opened
        /\ Completed(e) => t.rep.ev.cand.opened
    BY <1>1, <2>1 DEF Operated, OpenEscape, EvType, CandType
  <2>5. t.rep.ev.cand.opened => t.rep.ev.esc = "none"
    BY DEF TurnInvariant, Follows
  <2> QED BY <1>3, <1>5, <2>3, <2>4, <2>5, FinishFacts
<1> QED BY <1>4, <1>5

----------------------------------------------------------------------------
(* A turn.                                                                 *)

\* An operation keeps the invariant, and nothing follows one that threw.
LEMMA StepFacts ==
    ASSUME NEW t, TurnInvariant(t), NEW op, op \in Operation, ~ t.thrown => Legal(op, t.half),
           NEW size \in Nat, tui \in TuiType
    PROVE  LET u == Step(t, op, size)
           IN  /\ TurnInvariant(u) /\ (t.thrown => u.thrown)
               /\ ~ u.thrown => u.half = IF Prints(op) THEN Ending(op) ELSE t.half
<1> DEFINE u == Step(t, op, size)
<1>1. t.thrown \in BOOLEAN /\ op.do \in {"cols", "rows", "sentinel", "cursor", "write"}
  BY DEF TurnInvariant, Steady, TurnType, Operation
<1>2. CASE t.thrown
  BY <1>2 DEF Step
<1>3. CASE ~ t.thrown /\ op.do \in {"cols", "rows"}
  <2>1. u = ReadSize(t, op.do)
    BY <1>3 DEF Step
  <2>2. ~ Prints(op)
    BY <1>3 DEF Legal, Prints
  <2> QED BY <1>3, <2>1, <2>2, ReadSizeFacts
<1>4. CASE ~ t.thrown /\ op.do = "sentinel"
  <2>1. u = RenderSentinel(t)
    BY <1>4 DEF Step
  <2>2. ~ Prints(op)
    BY <1>4 DEF Legal, Prints
  <2> QED BY <1>4, <2>1, <2>2, RenderSentinelFacts
<1>5. CASE ~ t.thrown /\ op.do = "cursor"
  <2>1. u = Cursorial(t, size)
    BY <1>5 DEF Step
  <2>2. Prints(op) /\ op.toks = <<>>
    BY <1>5 DEF Legal, Prints
  <2>3. t.half = "none" /\ Ending(op) = "none"
    BY <1>5, <2>2 DEF Legal, Resumes, Ending, OpenEscape
  <2> QED BY <1>5, <2>1, <2>2, <2>3, CursorialFacts
<1>6. CASE ~ t.thrown /\ op.do = "write"
  <2>1. u = Write(t, op, size)
    BY <1>6 DEF Step
  <2>2. OpenEscape(op.toks, t.half) = IF Prints(op) THEN Ending(op) ELSE t.half
    BY <1>6 DEF Prints, Ending, OpenEscape
  <2> QED BY <1>6, <2>1, <2>2, WriteFacts
<1> QED BY <1>1, <1>2, <1>3, <1>4, <1>5, <1>6

\* What a turn t becomes by the operations of a log, and by each of them.
Taken(t, log, size) == FoldLeft(LAMBDA u, op : Step(u, op, size), t, log)
Traced(r, t, log, size, n) ==
    /\ r[0] = t /\ r[n] = Taken(t, log, size)
    /\ \A k \in 1..n : r[k] = Step(r[k - 1], log[k], size)

\* A turn takes its script's operations one by one.
LEMMA StepFold ==
    ASSUME NEW t, NEW size, NEW log, NEW n \in Nat, DOMAIN log = 1..n
    PROVE  \E r : Traced(r, t, log, size, n)
<1> DEFINE Body(S, f) == [s \in SUBSET S |-> IF s = {} THEN t
                            ELSE Step(f[s \ {Max(s)}], log[Max(s)], size)]
           Good == {k \in 0..n : \E f : f = Body(1..k, f)}
<1>1. 0 \in Good
  <2>1. 1..0 = {}
    OBVIOUS
  <2> DEFINE f == [s \in SUBSET {} |-> t]
  <2>2. f = Body({}, f)
    OBVIOUS
  <2>3. \E h : h = Body(1..0, h)
    BY <2>1, <2>2
  <2> HIDE DEF f, Body
  <2> QED BY <2>3
<1>2. ASSUME NEW k \in 1..n, k - 1 \in Good PROVE k \in Good
  <2>1. PICK f : f = Body(1..(k - 1), f)
    BY <1>2
  <2> DEFINE g == [s \in SUBSET (1..k) |-> IF k \in s THEN Step(f[s \ {k}], log[k], size)
                                           ELSE f[s]]
  <2>2. ASSUME NEW s \in SUBSET (1..k), s # {}
        PROVE  g[s] = Step(g[s \ {Max(s)}], log[Max(s)], size)
    <3>0. k \in Nat
      OBVIOUS
    <3>1. Max(s) \in s /\ \A i \in s : i <= Max(s)
      BY <2>2, <3>0, MaxOfIndices
    <3>2. CASE k \in s
      <4>1. Max(s) = k
        <5>1. PICK m : m = Max(s)
          OBVIOUS
        <5>2. m \in 1..k /\ k <= m
          BY <3>1, <3>2, <5>1
        <5> QED BY <3>0, <5>1, <5>2
      <4>2. s \ {k} \in SUBSET (1..k) /\ k \notin s \ {k}
        OBVIOUS
      <4> QED BY <3>2, <4>1, <4>2
    <3>3. CASE k \notin s
      <4>1. s \in SUBSET (1..(k - 1)) /\ s \ {Max(s)} \in SUBSET (1..k) /\ k \notin s \ {Max(s)}
        <5>1. \A i \in s : i \in 1..(k - 1)
          BY <3>3
        <5> QED BY <3>3, <5>1
      <4>2. f[s] = Step(f[s \ {Max(s)}], log[Max(s)], size)
        BY <2>1, <2>2, <4>1
      <4> QED BY <3>3, <4>1, <4>2
    <3> QED BY <3>2, <3>3
  <2>3. g[{}] = t
    <3>1. f[{}] = t
      BY <2>1
    <3> QED BY <3>1
  <2>4. g = Body(1..k, g)
    <3>1. \A s \in SUBSET (1..k) :
             g[s] = IF s = {} THEN t ELSE Step(g[s \ {Max(s)}], log[Max(s)], size)
      BY <2>2, <2>3
    <3>2. g = [s \in SUBSET (1..k) |-> g[s]]
      OBVIOUS
    <3> HIDE DEF g
    <3> QED BY <3>1, <3>2
  <2> HIDE DEF g, Body
  <2>5. \E h : h = Body(1..k, h)
    BY <2>4
  <2> QED BY <2>5
<1>3. n \in Good
  <2> HIDE DEF Good
  <2>1. \A k \in 1..n : k - 1 \in Good => k \in Good
    BY <1>2
  <2> QED BY <1>1, <2>1, PrefixInduction
<1> DEFINE c == CHOOSE f : f = Body(1..n, f)
<1>4. c = Body(1..n, c)
  BY <1>3
<1>5. Taken(t, log, size) = c[1..n]
  BY DEF Taken, FoldLeft, MapThenFoldSet
<1> HIDE DEF c
<1>6. \A s \in SUBSET (1..n) :
         c[s] = IF s = {} THEN t ELSE Step(c[s \ {Max(s)}], log[Max(s)], size)
  BY <1>4
<1> DEFINE r == [k \in 0..n |-> c[1..k]]
<1>7. r[0] = t
  <2>1. 1..0 = {} /\ 0 \in 0..n
    OBVIOUS
  <2>2. c[{}] = t
    BY <1>6
  <2> QED BY <2>1, <2>2
<1>8. ASSUME NEW k \in 1..n PROVE r[k] = Step(r[k - 1], log[k], size)
  <2>1. 1..k \in SUBSET (1..n) /\ 1..k # {} /\ Max(1..k) = k /\ (1..k) \ {k} = 1..(k - 1)
    BY PrefixOfIndices
  <2>2. PICK s : s = 1..k
    OBVIOUS
  <2>3. c[s] = Step(c[s \ {Max(s)}], log[Max(s)], size)
    BY <1>6, <2>1, <2>2
  <2>4. r[k] = c[1..k] /\ r[k - 1] = c[1..(k - 1)]
    OBVIOUS
  <2> HIDE DEF r
  <2> QED BY <2>1, <2>2, <2>3, <2>4
<1>9. r[n] = Taken(t, log, size)
  <2>1. n \in 0..n
    OBVIOUS
  <2> QED BY <1>5, <2>1
<1> HIDE DEF r
<1>10. Traced(r, t, log, size, n)
  BY <1>7, <1>8, <1>9 DEF Traced
<1> QED BY <1>10

\* Scripts are sequences of operations that complete what they cut.
LEMMA ScriptFacts ==
    ASSUME NEW script \in Scripts
    PROVE  /\ script \in Seq(Operation) /\ Written(script) /\ Len(script) \in Nat
           /\ DOMAIN script = 1..Len(script)
<1>1. script \in Seq(Operation) /\ Written(script)
  BY WitnessAssumption
<1> QED BY <1>1

\* What the script prints next resumes what is open.
Resumed(script, k, half) ==
    \A j \in DOMAIN script : FirstPrints(script, k, j) => Resumes(script[j], half)

\* A turn keeps the invariant.
LEMMA PlayFacts ==
    ASSUME NEW script \in Scripts, WellFormed(script), TurnInvariant(Turn), tui \in TuiType
    PROVE  TurnInvariant(Play(script))
<1> DEFINE size == IF Samples(script) THEN tui.size ELSE 0
           n == Len(script)
<1>1. /\ script \in Seq(Operation) /\ Written(script) /\ n \in Nat /\ DOMAIN script = 1..n
      /\ \A k \in 1..n : script[k] \in Operation
  BY ScriptFacts
<1>2. size \in Nat
  <2>1. Sizes \subseteq Nat
    BY WitnessAssumption
  <2>2. tui.size \in Sizes
    BY DEF TuiType
  <2> QED BY <2>1, <2>2
<1>3. Play(script) = Taken(Turn, script, size)
  BY DEF Play, Taken
<1> HIDE DEF size, n
<1>3a. \E r : Traced(r, Turn, script, size, n)
  BY <1>1, StepFold
<1>3b. PICK r : Traced(r, Turn, script, size, n)
  BY <1>3a
<1>4. /\ r[0] = Turn /\ r[n] = Taken(Turn, script, size)
      /\ \A k \in 1..n : r[k] = Step(r[k - 1], script[k], size)
  BY <1>3b DEF Traced
<1> DEFINE Good == {k \in 0..n : /\ TurnInvariant(r[k])
                                 /\ ~ r[k].thrown => Resumed(script, k, r[k].half)}
<1>5. 0 \in Good
  <2>1. Turn.half = tui.half
    BY DEF Turn
  <2>2. Resumed(script, 0, tui.half)
    BY DEF WellFormed, Resumed
  <2>3. 0 \in 0..n
    BY <1>1
  <2> QED BY <1>4, <2>1, <2>2, <2>3
<1>6. ASSUME NEW k \in 1..n, k - 1 \in Good PROVE k \in Good
  <2> DEFINE op == script[k]
  <2>1. PICK t : t = r[k - 1]
    OBVIOUS
  <2>2. TurnInvariant(t) /\ (~ t.thrown => Resumed(script, k - 1, t.half))
    BY <1>6, <2>1
  <2>3. /\ op \in Operation /\ (op.do # "write" => op.toks = <<>>)
        /\ \A i \in DOMAIN op.toks : IsHalf(op.toks[i]) => i = Len(op.toks)
        /\ Ending(op) # "none" => Where(op.toks, Cursor) = {}
    BY <1>1 DEF Written
  <2>4. k \in DOMAIN script /\ k \in Nat /\ k - 1 < k /\ (k - 1) + 1 = k
    BY <1>1
  <2>5. Prints(op) => FirstPrints(script, k - 1, k)
    BY <2>4 DEF FirstPrints
  <2>6. ~ t.thrown => Legal(op, t.half)
    <3>1. Printable(op.toks)
      BY <2>3 DEF Printable, Ending, Operation
    <3>2. ~ t.thrown /\ Prints(op) => Resumes(op, t.half)
      BY <2>2, <2>4, <2>5 DEF Resumed
    <3>3. FailsCleanly /\ op.fails = "write"
            => op.toks = <<>> \/ \A e \in Escapes : Head(op.toks) # Rest[e]
      BY <2>4 DEF FailsCleanly
    <3> QED BY <2>3, <3>1, <3>2, <3>3 DEF Legal
  <2>7. PICK u : u = Step(t, op, size)
    OBVIOUS
  <2>8. /\ TurnInvariant(u) /\ (t.thrown => u.thrown)
        /\ ~ u.thrown => u.half = IF Prints(op) THEN Ending(op) ELSE t.half
    BY <1>2, <2>2, <2>3, <2>6, <2>7, StepFacts
  <2>9. r[k] = u
    BY <1>4, <2>1, <2>7
  <2>10. ASSUME ~ u.thrown PROVE Resumed(script, k, u.half)
    <3> SUFFICES ASSUME NEW j \in DOMAIN script, FirstPrints(script, k, j)
                 PROVE  Resumes(script[j], u.half)
      BY DEF Resumed
    <3>1. CASE Prints(op)
      <4>1. Resumes(script[j], Ending(op))
        BY <1>1, <2>4, <3>1 DEF Written
      <4> QED BY <2>8, <2>10, <3>1, <4>1
    <3>2. CASE ~ Prints(op)
      <4>1. FirstPrints(script, k - 1, j)
        <5>1. k < j /\ Prints(script[j]) /\ (\A i \in k + 1..j - 1 : ~ Prints(script[i]))
                 /\ j \in Nat
          BY <1>1 DEF FirstPrints
        <5>2. \A i \in (k - 1) + 1..j - 1 : i = k \/ i \in k + 1..j - 1
          BY <2>4, <5>1
        <5>3. k - 1 < j
          BY <2>4, <5>1
        <5> QED BY <3>2, <5>1, <5>2, <5>3 DEF FirstPrints
      <4>2. Resumes(script[j], t.half)
        BY <2>2, <2>8, <2>10, <4>1 DEF Resumed
      <4> QED BY <2>8, <2>10, <3>2, <4>2
    <3> QED BY <3>1, <3>2
  <2>11. k \in 0..n
    BY <1>1
  <2> QED BY <2>8, <2>9, <2>10, <2>11
<1>7. n \in Good
  <2> HIDE DEF Good
  <2>1. \A k \in 1..n : k - 1 \in Good => k \in Good
    BY <1>6
  <2>2. \A k \in 0..n : k \in Good
    BY <1>1, <1>5, <2>1, PrefixInduction
  <2>3. n \in 0..n
    BY <1>1
  <2> QED BY <2>2, <2>3
<1> QED BY <1>3, <1>4, <1>7

----------------------------------------------------------------------------
(* The other steps of the child, on its reporter.                          *)

\* A turn at rest may be drained.
LEMMA RestPending ==
    ASSUME NEW t, TurnInvariant(t)
    PROVE  Pending(t)
BY DEF TurnInvariant, Steady, AtRest, Pending, Decided

\* A turn whose candidate is aborted is at rest.
LEMMA AbortTurnFacts ==
    ASSUME NEW t, TurnInvariant(t)
    PROVE  LET x == [t EXCEPT !.rep.ev = Abort(@)]
           IN  /\ TurnInvariant(x) /\ OnlyEv(t, x) /\ Aborted(t.rep.ev, x.rep.ev)
<1> DEFINE e == Abort(t.rep.ev)
           x == [t EXCEPT !.rep.ev = e]
<1>1. t \in TurnType /\ t.rep.ev \in EvType /\ AtRest(t.rep.ev)
  BY DEF TurnInvariant, Steady, TurnType, RepType
<1>2. [t EXCEPT !.rep.ev = Abort(@)] = x
  BY <1>1 DEF TurnType, RepType
<1>3. Aborted(t.rep.ev, e)
  BY <1>1, AbortFacts
<1> HIDE DEF e
<1>4. x \in TurnType /\ OnlyEv(t, x) /\ x.rep.ev = e
  BY <1>1, <1>3, WithEv DEF Aborted
<1> HIDE DEF x
<1>5. AtRest(x.rep.ev) /\ AtRest(x.rep.stash)
  BY <1>1, <1>3, <1>4 DEF TurnInvariant, Steady, Aborted, AtRest, OnlyEv
<1>6. Proper(x) /\ Answers(x) /\ Kept(x)
  BY <1>3, <1>4 DEF TurnInvariant, Steady, Proper, Answers, Kept, OnlyEv, Aborted
<1>7. Stamps(x)
  BY <1>3, <1>4 DEF TurnInvariant, Steady, Stamps, OnlyEv, Aborted
<1>8. Follows(x)
  BY <1>3, <1>4 DEF TurnInvariant, Follows, Shadowed, OnlyEv, Aborted
<1> QED BY <1>2, <1>3, <1>4, <1>5, <1>6, <1>7, <1>8 DEF TurnInvariant, Steady

\* A renderer's stop stashes the evaluator without an open frame.
LEMMA StoppedFacts ==
    ASSUME TurnInvariant(Turn)
    PROVE  /\ TurnInvariant(Stopped) /\ ~ Stopped.rep.ev.cand.opened
           /\ Stopped.proven = {}
<1>1. CASE ~ Shadowed(Turn)
  <2>1. Stopped = Turn
    BY <1>1 DEF Stopped
  <2>2. ~ Turn.rep.bound
    BY <1>1 DEF TurnInvariant, Steady, Kept, Shadowed
  <2>3. ~ Turn.rep.ev.cand.opened
    BY <2>2 DEF TurnInvariant, Steady, Kept
  <2> QED BY <2>1, <2>3 DEF Turn
<1>2. CASE Shadowed(Turn)
  <2> DEFINE x == [Turn EXCEPT !.rep.ev = Abort(@)]
             cut == x.rep.ev.esc # "none"
             kept == IF cut THEN x.rep.ev ELSE x.rep.stash
             r == [x.rep EXCEPT !.stashed = cut, !.stash = kept]
             s == [x EXCEPT !.rep = r]
             d == Drain(s)
             b == [d.rep EXCEPT !.bound = FALSE]
             u == [d EXCEPT !.rep = b]
  <2>1. TurnInvariant(x) /\ OnlyEv(Turn, x) /\ Aborted(Turn.rep.ev, x.rep.ev)
    BY AbortTurnFacts
  <2>2. x \in TurnType /\ x.rep \in RepType
    BY <2>1 DEF TurnInvariant, Steady, TurnType
  <2>3. [x EXCEPT !.rep.stashed = x.rep.ev.esc # "none",
                  !.rep.stash = IF x.rep.ev.esc # "none" THEN x.rep.ev ELSE @] = s
    <3> HIDE DEF x
    <3> QED BY <2>2 DEF TurnType, RepType
  <2>4. Stopped = u
    <3>1. Stopped = [Drain([x EXCEPT !.rep.stashed = x.rep.ev.esc # "none",
                        !.rep.stash = IF x.rep.ev.esc # "none" THEN x.rep.ev ELSE @])
                        EXCEPT !.rep.bound = FALSE]
      BY <1>2 DEF Stopped
    <3> HIDE DEF x, s
    <3> QED BY <2>3, <3>1
  <2> HIDE DEF x
  <2>5. cut \in BOOLEAN /\ kept \in EvType /\ AtRest(kept) /\ ~ kept.cand.opened
    BY <2>1, <2>2 DEF TurnInvariant, Steady, Kept, RepType, Aborted
  <2> HIDE DEF cut, kept
  <2>6. r \in RepType
    BY <2>2, <2>5 DEF RepType
  <2>7. /\ r.ev = x.rep.ev /\ r.stash = kept /\ r.session = x.rep.session
        /\ r.state = x.rep.state /\ r.bound = x.rep.bound /\ r.rev = x.rep.rev
        /\ r.consumed = x.rep.consumed /\ r.rearmed = x.rep.rearmed
    BY <2>2 DEF RepType
  <2> HIDE DEF r
  <2>8. /\ s \in TurnType /\ s.rep = r /\ s.out = x.out /\ s.half = x.half
        /\ s.proven = x.proven /\ s.thrown = x.thrown
    BY <2>2, <2>6 DEF TurnType
  <2> HIDE DEF s
  <2>9. TurnInvariant(s)
    <3>1. Proper(s) /\ Answers(s) /\ Stamps(s)
      BY <2>1, <2>7, <2>8 DEF TurnInvariant, Steady, Proper, Answers, Stamps
    <3>2. Kept(s)
      BY <2>1, <2>5, <2>7, <2>8 DEF TurnInvariant, Steady, Kept
    <3>3. Follows(s)
      BY <2>1, <2>7, <2>8 DEF TurnInvariant, Follows, Shadowed
    <3>4. AtRest(s.rep.ev) /\ AtRest(s.rep.stash)
      BY <2>1, <2>5, <2>7, <2>8 DEF TurnInvariant, Steady
    <3> QED BY <2>8, <3>1, <3>2, <3>3, <3>4 DEF TurnInvariant, Steady
  <2>10. TurnInvariant(d) /\ d.rep.ev.cand = s.rep.ev.cand /\ d.proven = s.proven
    <3>1. Unproving(s.rep.ev.log)
      BY <2>9 DEF TurnInvariant, Steady, AtRest
    <3> QED BY <2>9, <3>1, RestPending, DrainFacts
  <2>11. ~ d.rep.ev.cand.opened
    BY <2>1, <2>7, <2>8, <2>10 DEF Aborted
  <2> HIDE DEF d
  <2>12. d \in TurnType /\ d.rep \in RepType
    BY <2>10 DEF TurnInvariant, Steady, TurnType
  <2>13. b \in RepType
    BY <2>12 DEF RepType
  <2>14. /\ b.ev = d.rep.ev /\ b.stash = d.rep.stash /\ b.session = d.rep.session
         /\ b.state = d.rep.state /\ ~ b.bound /\ b.rev = d.rep.rev
         /\ b.consumed = d.rep.consumed /\ b.rearmed = d.rep.rearmed
    BY <2>12 DEF RepType
  <2> HIDE DEF b
  <2>15. /\ u \in TurnType /\ u.rep = b /\ u.out = d.out /\ u.half = d.half
         /\ u.proven = d.proven /\ u.thrown = d.thrown
    BY <2>12, <2>13 DEF TurnType
  <2> HIDE DEF u
  <2>16. Proper(u) /\ Answers(u) /\ Stamps(u)
    BY <2>10, <2>14, <2>15 DEF TurnInvariant, Steady, Proper, Answers, Stamps
  <2>17. Kept(u)
    BY <2>10, <2>11, <2>14, <2>15 DEF TurnInvariant, Steady, Kept
  <2>18. Follows(u)
    BY <2>11, <2>14, <2>15 DEF Follows, Shadowed
  <2>19. AtRest(u.rep.ev) /\ AtRest(u.rep.stash)
    BY <2>10, <2>14, <2>15 DEF TurnInvariant, Steady
  <2>20. u.proven = {}
    BY <2>1, <2>8, <2>10, <2>15 DEF OnlyEv, Turn
  <2> QED BY <2>4, <2>11, <2>14, <2>15, <2>16, <2>17, <2>18, <2>19, <2>20
        DEF TurnInvariant, Steady
<1> QED BY <1>1, <1>2

\* The reporter that the other renderer's start finds bound ends its open frame.
Started == IF Shadowed(Turn) THEN Drain([Turn EXCEPT !.rep.ev = Abort(@)]) ELSE Turn

\* A renderer's start keeps the invariant and proves nothing.
LEMMA StartedFacts ==
    ASSUME TurnInvariant(Turn)
    PROVE  TurnInvariant(Started) /\ Started.half = tui.half /\ Started.proven = {}
<1> DEFINE x == [Turn EXCEPT !.rep.ev = Abort(@)]
<1>1. TurnInvariant(x) /\ OnlyEv(Turn, x)
  BY AbortTurnFacts
<1> HIDE DEF x
<1>2. TurnInvariant(Drain(x)) /\ Drain(x).half = x.half /\ Drain(x).proven = x.proven
  <2>1. Unproving(x.rep.ev.log)
    BY <1>1 DEF TurnInvariant, Steady, AtRest
  <2> QED BY <1>1, <2>1, RestPending, DrainFacts
<1>3. Turn.half = tui.half /\ Turn.proven = {}
  BY DEF Turn
<1>4. CASE Shadowed(Turn)
  <2>1. Started = Drain(x)
    BY <1>4 DEF Started, x
  <2> QED BY <1>1, <1>2, <1>3, <2>1 DEF OnlyEv
<1>5. CASE ~ Shadowed(Turn)
  BY <1>3, <1>5 DEF Started
<1> QED BY <1>4, <1>5

\* The intent of a resize reaches the evaluator.
Intended(msg) == [Turn EXCEPT !.rep.rev = msg.rev, !.rep.ev = SetIntent(@, msg)]

\* So does an intent that reaches the evaluator.
LEMMA IntendedFacts ==
    ASSUME TurnInvariant(Turn), NEW msg \in IntentType, rep.state # "announced"
    PROVE  LET u == Drain(Intended(msg))
           IN  TurnInvariant(u) /\ u.half = tui.half /\ u.proven = {}
<1> DEFINE e == SetIntent(rep.ev, msg)
           r == [rep EXCEPT !.rev = msg.rev, !.ev = e]
           s == [Turn EXCEPT !.rep = r]
<1>1. /\ Turn \in TurnType /\ rep \in RepType /\ rep.ev \in EvType /\ AtRest(rep.ev)
      /\ Turn.rep = rep /\ Turn.half = tui.half /\ msg.rev \in Nat
  BY DEF TurnInvariant, Steady, TurnType, RepType, Turn, IntentType
<1>2. Intended(msg) = s
  <2> HIDE DEF e
  <2>1. Intended(msg) = [Turn EXCEPT !.rep.rev = msg.rev, !.rep.ev = e]
    BY <1>1 DEF Intended, TurnType, RepType, e
  <2> QED BY <1>1, <2>1 DEF TurnType, RepType
<1>3. Continued(rep.ev, e) /\ e.intent = msg
  BY <1>1, SetIntentFacts
<1> HIDE DEF e
<1>4. r \in RepType
  BY <1>1, <1>3 DEF RepType, Continued
<1>5. /\ r.ev = e /\ r.stash = rep.stash /\ r.session = rep.session
      /\ r.state = rep.state /\ r.bound = rep.bound /\ r.rev = msg.rev
      /\ r.consumed = rep.consumed /\ r.rearmed = rep.rearmed
  BY <1>1 DEF RepType
<1> HIDE DEF r
<1>6. /\ s \in TurnType /\ s.rep = r /\ s.out = Turn.out /\ s.half = Turn.half
      /\ s.proven = Turn.proven /\ s.thrown = Turn.thrown
  BY <1>1, <1>4 DEF TurnType
<1> HIDE DEF s
<1>7. Proper(s) /\ Answers(s)
  BY <1>1, <1>5, <1>6 DEF TurnInvariant, Steady, Proper, Answers
<1>8. Stamps(s)
  BY <1>3, <1>5, <1>6 DEF Stamps
<1>9. Kept(s)
  BY <1>1, <1>3, <1>5, <1>6 DEF TurnInvariant, Steady, Kept, Continued
<1>10. Follows(s)
  BY <1>1, <1>3, <1>5, <1>6 DEF TurnInvariant, Follows, Shadowed, Continued
<1>11. AtRest(s.rep.ev) /\ AtRest(s.rep.stash)
  BY <1>1, <1>3, <1>5, <1>6 DEF TurnInvariant, Steady, Continued
<1>12. TurnInvariant(s)
  BY <1>6, <1>7, <1>8, <1>9, <1>10, <1>11 DEF TurnInvariant, Steady
<1>13. TurnInvariant(Drain(s)) /\ Drain(s).half = s.half /\ Drain(s).proven = s.proven
  <2>1. Unproving(s.rep.ev.log)
    BY <1>11 DEF AtRest
  <2> QED BY <1>12, <2>1, RestPending, DrainFacts
<1>14. Turn.proven = {}
  BY DEF Turn
<1> QED BY <1>1, <1>2, <1>6, <1>13, <1>14

\* Between two steps of the child its reporter is at rest.
LEMMA Settled ==
    ASSUME NEW t, TurnInvariant(t), rep' = t.rep, tui'.half \in EscapeType,
           t.rep.ev.cand.opened => tui'.half = t.half, tui'.half \in {t.half, "none"},
           past.proven \subseteq past'.proven,
           \A r \in t.proven : [session |-> rep.session, rev |-> r] \in past'.proven
    PROVE  TurnInvariant(Turn)'
<1>1. /\ Turn'.rep = t.rep /\ Turn'.out = <<>> /\ Turn'.half = tui'.half
      /\ Turn'.proven = {} /\ Turn'.thrown = FALSE
  BY DEF Turn
<1>2. Turn' \in TurnType
  <2>1. t.rep \in RepType
    BY DEF TurnInvariant, Steady, TurnType
  <2>2. <<>> \in Seq(ItemType)
    OBVIOUS
  <2>3. {} \in SUBSET Nat
    OBVIOUS
  <2>4. Turn' = [rep |-> t.rep, out |-> <<>>, half |-> tui'.half, proven |-> {}, thrown |-> FALSE]
    BY DEF Turn
  <2> QED BY <2>1, <2>2, <2>3, <2>4 DEF TurnType
<1>3. AtRest(t.rep.ev) /\ AtRest(t.rep.stash)
  BY DEF TurnInvariant, Steady
<1>4. t.rep.session = rep.session
  BY DEF TurnInvariant, Steady, Kept
<1>5. Proper(Turn)'
  BY <1>1 DEF Proper
<1>6. Kept(Turn)'
  BY <1>1 DEF TurnInvariant, Steady, Kept
<1>7. Stamps(Turn)'
  BY <1>1 DEF TurnInvariant, Steady, Stamps
<1>8. Answers(Turn)'
  BY <1>1, <1>4 DEF TurnInvariant, Steady, Answers
<1>9. Follows(Turn)'
  BY <1>1 DEF TurnInvariant, Follows, Shadowed
<1>10. (AtRest(Turn.rep.ev) /\ AtRest(Turn.rep.stash))'
  BY <1>1, <1>3 DEF AtRest, Ordered, Completed, Unproving
<1>11. Steady(Turn)'
  BY <1>2, <1>5, <1>6, <1>7, <1>8, <1>10 DEF Steady, TurnType
<1> QED BY <1>9, <1>11 DEF TurnInvariant

----------------------------------------------------------------------------
(* What a step of the child's reporter leaves of the rest.                 *)

\* The close of a socket greets nobody, and keeps nobody from having greeted.
LEMMA CloseGreets ==
    ASSUME Sockets, rep.session \in Sessions, rep'.session = rep.session,
           up' \in {up, [up EXCEPT ![rep.session] = Append(@, "close")]}
    PROVE  /\ up' \in [Sessions -> Seq({"hello", "close"})]
           /\ \A s \in Sessions : \A i \in DOMAIN up'[s] : up'[s][i] = "hello" => i = 1
           /\ \A s \in Sessions : s > rep.session => up'[s] = up[s]
           /\ \A s : Greeted(s)' <=> Greeted(s)
<1>1. up \in [Sessions -> Seq({"hello", "close"})]
  BY DEF Sockets
<1>2. CASE up' = up
  BY <1>1, <1>2 DEF Sockets, Greeted
<1>3. CASE up' = [up EXCEPT ![rep.session] = Append(@, "close")]
  <2> DEFINE q == Append(up[rep.session], "close")
             n == Len(up[rep.session])
  <2>1. up[rep.session] \in Seq({"hello", "close"})
    BY <1>1
  <2>2. /\ q \in Seq({"hello", "close"}) /\ n \in Nat
        /\ DOMAIN q = 1..n + 1 /\ DOMAIN up[rep.session] = 1..n
        /\ \A i \in 1..n : q[i] = up[rep.session][i]
        /\ q[n + 1] = "close"
    BY <2>1
  <2>3. /\ up'[rep.session] = q /\ DOMAIN up' = Sessions
        /\ \A s \in Sessions : s # rep.session => up'[s] = up[s]
    BY <1>1, <1>3
  <2>4. (\E i \in DOMAIN q : q[i] = "hello") <=> \E i \in 1..n : up[rep.session][i] = "hello"
    <3> HIDE DEF q, n
    <3>1. \A i \in 1..n + 1 : i \in 1..n \/ i = n + 1
      BY <2>2
    <3> QED BY <2>2, <3>1
  <2>5. up' \in [Sessions -> Seq({"hello", "close"})]
    <3> HIDE DEF q
    <3> QED BY <1>1, <1>3, <2>2
  <2> HIDE DEF q
  <2>6. \A s \in Sessions : \A i \in DOMAIN up'[s] : up'[s][i] = "hello" => i = 1
    <3> SUFFICES ASSUME NEW s \in Sessions, NEW i \in DOMAIN up'[s], up'[s][i] = "hello"
                 PROVE  i = 1
      OBVIOUS
    <3>1. CASE s = rep.session
      <4>1. i \in 1..n /\ up[s][i] = "hello"
        BY <2>2, <2>3, <3>1
      <4> QED BY <2>2, <3>1, <4>1 DEF Sockets
    <3>2. CASE s # rep.session
      BY <2>3, <3>2 DEF Sockets
    <3> QED BY <3>1, <3>2
  <2>7. \A s \in Sessions : s > rep.session => up'[s] = up[s]
    BY <2>3 DEF Sessions
  <2>8. ASSUME NEW s PROVE Greeted(s)' <=> Greeted(s)
    <3>1. CASE s = rep.session
      BY <2>2, <2>3, <2>4, <3>1 DEF Greeted
    <3>2. CASE s # rep.session
      <4>1. s \in 1..rep.session => s \in Sessions
        BY DEF Sessions
      <4> QED BY <2>3, <3>2, <4>1 DEF Greeted
    <3> QED BY <3>1, <3>2
  <2> QED BY <2>5, <2>6, <2>7, <2>8
<1> QED BY <1>2, <1>3

\* The stream grows at its end by the markers of a turn.
LEMMA StreamGrows ==
    ASSUME Stream, NEW out \in Seq(ItemType), pty' = pty \o out, \A s : Greeted(s) => Greeted(s)',
           \A i \in DOMAIN out : out[i].kind # "token" =>
              Greeted(out[i].session)' /\ (FailsCleanly => ~ out[i].inside)
    PROVE  Stream' /\ (pty # <<>> => pty' # <<>> /\ Head(pty') = Head(pty))
<1>1. pty \in Seq(ItemType) /\ Len(pty) \in Nat /\ Len(out) \in Nat
  BY DEF Stream
<1>2. pty' \in Seq(ItemType) /\ Len(pty') = Len(pty) + Len(out)
  BY <1>1
<1>3. ASSUME NEW i \in DOMAIN pty', NEW m, m = pty'[i], m.kind # "token"
      PROVE  Greeted(m.session)' /\ (FailsCleanly => ~ m.inside)
  <2>1. CASE i \in 1..Len(pty)
    <3>1. m = pty[i] /\ i \in DOMAIN pty
      BY <1>1, <1>3, <2>1
    <3> QED BY <1>3, <3>1 DEF Stream
  <2>2. CASE i \notin 1..Len(pty)
    <3>1. i \in Len(pty) + 1..Len(pty) + Len(out)
      BY <1>1, <1>2, <2>2
    <3>2. m = out[i - Len(pty)] /\ i - Len(pty) \in DOMAIN out
      BY <1>1, <1>3, <3>1
    <3> QED BY <1>3, <3>2
  <2> QED BY <2>1, <2>2
<1>4. pty # <<>> => pty' # <<>> /\ Head(pty') = Head(pty)
  BY <1>1, <1>2
<1>5. Stream'
  BY <1>2, <1>3 DEF Stream, FailsCleanly
<1> QED BY <1>4, <1>5

\* The runner's half of the invariant holds while it does not step itself.
LEMMA RunnerRests ==
    ASSUME Stream, Runner, Past, host' = host, past'.shown = past.shown,
           past' = [whole |-> past'.whole, proven |-> past'.proven, shown |-> past'.shown],
           \A s : Greeted(s) => Greeted(s)',
           pty # <<>> => pty' # <<>> /\ Head(pty') = Head(pty)
    PROVE  Runner' /\ Past'
BY DEF Runner, Past

\* A step of the reporter, whatever it writes.
LEMMA ReporterStep ==
    ASSUME Child, Sockets, Stream, Runner, Past, NEW t, t.out \in Seq(ItemType), Proper(t),
           t.rep.session = rep.session, Commit(t), host' = host, past'.shown = past.shown,
           past' = [whole |-> past'.whole, proven |-> past'.proven, shown |-> past'.shown]
    PROVE  /\ Stream' /\ Runner' /\ Past' /\ \A s : Greeted(s)' <=> Greeted(s)
           /\ up' \in [Sessions -> Seq({"hello", "close"})]
           /\ \A s \in Sessions : \A i \in DOMAIN up'[s] : up'[s][i] = "hello" => i = 1
           /\ \A s \in Sessions : s > rep.session => up'[s] = up[s]
<1>1. /\ rep' = t.rep /\ pty' = pty \o t.out /\ rep.session \in Sessions
      /\ up' \in {up, [up EXCEPT ![rep.session] = Append(@, "close")]}
  BY DEF Commit, Close, Child
<1>2. /\ \A s : Greeted(s)' <=> Greeted(s)
      /\ up' \in [Sessions -> Seq({"hello", "close"})]
      /\ \A s \in Sessions : \A i \in DOMAIN up'[s] : up'[s][i] = "hello" => i = 1
      /\ \A s \in Sessions : s > rep.session => up'[s] = up[s]
  BY <1>1, CloseGreets
<1>3. rep.state = "enabled" => Greeted(rep.session)
  BY DEF Sockets
<1>4. \A i \in DOMAIN t.out : t.out[i].kind # "token" =>
         Greeted(t.out[i].session)' /\ (FailsCleanly => ~ t.out[i].inside)
  BY <1>2, <1>3 DEF Proper
<1>5. Stream' /\ (pty # <<>> => pty' # <<>> /\ Head(pty') = Head(pty))
  BY <1>1, <1>2, <1>4, StreamGrows
<1>6. Runner' /\ Past'
  BY <1>2, <1>5, RunnerRests
<1> QED BY <1>2, <1>5, <1>6

\* A reporter that is disposed or stays as it is leaves the sockets in order.
LEMMA SocketsStep ==
    ASSUME Child, Sockets, NEW t, rep' = t.rep, t.rep.session = rep.session,
           t.rep.state \in {rep.state, "disposed"}, down' = down,
           \A s : Greeted(s)' <=> Greeted(s),
           up' \in [Sessions -> Seq({"hello", "close"})],
           \A s \in Sessions : \A i \in DOMAIN up'[s] : up'[s][i] = "hello" => i = 1,
           \A s \in Sessions : s > rep.session => up'[s] = up[s]
    PROVE  Sockets'
BY DEF Sockets

----------------------------------------------------------------------------
(* The steps of the child.                                                 *)

\* A committed turn at rest keeps the witness's invariant.
LEMMA TurnStep ==
    ASSUME WitnessInvariant, NEW t, TurnInvariant(t), Commit(t), down' = down, host' = host,
           tui' \in TuiType, t.rep.ev.cand.opened => tui'.half = t.half,
           tui'.half \in {t.half, "none"}, past'.shown = past.shown,
           past' = [whole |-> past'.whole, proven |-> past'.proven, shown |-> past'.shown],
           past.proven \subseteq past'.proven,
           \A r \in t.proven : [session |-> rep.session, rev |-> r] \in past'.proven
    PROVE  WitnessInvariant'
<1>1. Child /\ Sockets /\ Stream /\ Runner /\ Past
  BY DEF WitnessInvariant
<1>2. /\ t.out \in Seq(ItemType) /\ Proper(t) /\ t.rep.session = rep.session
      /\ t.rep.state \in {rep.state, "disposed"} /\ rep' = t.rep
  BY DEF TurnInvariant, Steady, Kept, TurnType, Commit
<1>3. /\ Stream' /\ Runner' /\ Past' /\ \A s : Greeted(s)' <=> Greeted(s)
      /\ up' \in [Sessions -> Seq({"hello", "close"})]
      /\ \A s \in Sessions : \A i \in DOMAIN up'[s] : up'[s][i] = "hello" => i = 1
      /\ \A s \in Sessions : s > rep.session => up'[s] = up[s]
  BY <1>1, <1>2, ReporterStep
<1>4. Sockets'
  BY <1>1, <1>2, <1>3, SocketsStep
<1>5. tui'.half \in EscapeType
  BY DEF TuiType
<1>6. TurnInvariant(Turn)'
  BY <1>2, <1>5, Settled
<1>7. Child'
  BY <1>1, <1>2, <1>6 DEF Child, TuiType
<1> QED BY <1>3, <1>4, <1>7 DEF WitnessInvariant

\* A turn of the child.
LEMMA TakeTurnStep ==
    ASSUME WitnessInvariant, NEW script \in Scripts, TakeTurn(script)
    PROVE  WitnessInvariant'
<1> DEFINE t == Play(script)
<1>1. tui \in TuiType /\ TurnInvariant(Turn) /\ Past
  BY DEF WitnessInvariant, Child
<1>2. TurnInvariant(t)
  BY <1>1, PlayFacts DEF TakeTurn
<1>3. Commit(t) /\ tui' = [tui EXCEPT !.half = t.half] /\ down' = down /\ host' = host
  BY DEF TakeTurn
<1> DEFINE w == IF Undisturbed(script) THEN 1
                ELSE IF past.whole # 0 /\ Harmless(script) THEN past.whole + Len(script) ELSE 0
           q == past.proven \cup {[session |-> rep.session, rev |-> r] : r \in t.proven}
<1>4. past' = [whole |-> w, proven |-> q, shown |-> past.shown]
  <2>1. past' = [[past EXCEPT !.proven = q] EXCEPT !.whole = w]
    <3>1. Proving(t) = [past EXCEPT !.proven = q]
      BY DEF Proving
    <3>2. past' = [Proving(t) EXCEPT !.whole = IF Undisturbed(script) THEN 1
                                               ELSE IF @ # 0 /\ Harmless(script)
                                                    THEN @ + Len(script) ELSE 0]
      BY DEF TakeTurn
    <3>3. Proving(t).whole = past.whole
      BY <1>1, <3>1 DEF Past
    <3> QED BY <3>1, <3>2, <3>3
  <2> HIDE DEF w, q
  <2> QED BY <1>1, <2>1 DEF Past
<1> HIDE DEF t, w
<1>5. t.half \in EscapeType
  BY <1>2 DEF TurnInvariant, Steady, TurnType
<1>6. tui' \in TuiType /\ tui'.half = t.half
  BY <1>1, <1>3, <1>5 DEF TuiType
<1>7. /\ past.proven \subseteq q
      /\ \A r \in t.proven : [session |-> rep.session, rev |-> r] \in q
  OBVIOUS
<1> HIDE DEF q
<1> QED BY <1>2, <1>3, <1>4, <1>6, <1>7, TurnStep

\* A step of the child that completes no frame.
LEMMA QuietStep ==
    ASSUME WitnessInvariant, NEW t, TurnInvariant(t), Commit(t), t.proven = {}, down' = down,
           host' = host, tui' \in TuiType, t.rep.ev.cand.opened => tui'.half = t.half,
           tui'.half \in {t.half, "none"}, past' \in {past, [past EXCEPT !.whole = 0]}
    PROVE  WitnessInvariant'
<1>1. past = [whole |-> past.whole, proven |-> past.proven, shown |-> past.shown]
  BY DEF WitnessInvariant, Past
<1>2. /\ past'.shown = past.shown /\ past'.proven = past.proven
      /\ past' = [whole |-> past'.whole, proven |-> past'.proven, shown |-> past'.shown]
  BY <1>1
<1> QED BY <1>2, TurnStep

\* A stop or a switch of the renderer.
LEMMA StopStep ==
    ASSUME WitnessInvariant, NEW mode \in Modes, Stop \/ SwitchMode(mode)
    PROVE  WitnessInvariant'
<1>1. tui \in TuiType /\ TurnInvariant(Turn)
  BY DEF WitnessInvariant, Child
<1>2. TurnInvariant(Stopped) /\ ~ Stopped.rep.ev.cand.opened /\ Stopped.proven = {}
  BY <1>1, StoppedFacts
<1>3. /\ Commit(Stopped) /\ down' = down /\ host' = host /\ past' = past
      /\ \/ tui' = [tui EXCEPT !.up = FALSE, !.half = "none"]
         \/ tui' = [tui EXCEPT !.mode = mode, !.half = "none"]
  BY DEF Stop, SwitchMode
<1>4. tui' \in TuiType /\ tui'.half = "none"
  BY <1>1, <1>3 DEF TuiType, EscapeType
<1> QED BY <1>2, <1>3, <1>4, QuietStep

\* A start of the renderer.
LEMMA StartStep ==
    ASSUME WitnessInvariant, Start
    PROVE  WitnessInvariant'
<1>1. tui \in TuiType /\ TurnInvariant(Turn)
  BY DEF WitnessInvariant, Child
<1>2. TurnInvariant(Started) /\ Started.half = tui.half /\ Started.proven = {}
  BY <1>1, StartedFacts
<1>3. /\ Commit(Started) /\ down' = down /\ host' = host /\ past' = past
      /\ tui' = [tui EXCEPT !.up = TRUE]
  BY DEF Start, Started
<1>4. tui' \in TuiType /\ tui'.half = tui.half
  BY <1>1, <1>3 DEF TuiType
<1> QED BY <1>2, <1>3, <1>4, QuietStep

\* A lost socket disposes the reporter.
LEMMA LoseSocketStep ==
    ASSUME WitnessInvariant, LoseSocket
    PROVE  WitnessInvariant'
<1> DEFINE t == Dispose(Turn)
<1>1. tui \in TuiType /\ TurnInvariant(Turn) /\ Turn.half = tui.half /\ Turn.proven = {}
  BY DEF WitnessInvariant, Child, Turn
<1>2. TurnInvariant(t) /\ t.half = tui.half /\ t.proven = {}
  BY <1>1, DisposeFacts DEF TurnInvariant
<1>3. /\ Commit(t) /\ down' = down /\ host' = host /\ past' = [past EXCEPT !.whole = 0]
      /\ tui' = tui
  BY DEF LoseSocket
<1> HIDE DEF t
<1> QED BY <1>1, <1>2, <1>3, QuietStep

\* The focus and the size of the terminal mean nothing to the reporter at rest.
LEMMA TerminalStep ==
    ASSUME WitnessInvariant, NEW focus \in Foci, MoveFocus(focus) \/ NoticeSize
    PROVE  WitnessInvariant'
<1>1. Child /\ Sockets /\ Stream /\ Runner /\ Past
  BY DEF WitnessInvariant
<1>2. /\ rep' = rep /\ pty' = pty /\ up' = up /\ down' = down /\ host' = host /\ past' = past
      /\ \/ tui' = [tui EXCEPT !.focus = focus]
         \/ tui' = [tui EXCEPT !.size = host.size]
  BY DEF MoveFocus, NoticeSize
<1>3. tui' \in TuiType /\ tui'.half = tui.half /\ tui.half \in EscapeType
  BY <1>1, <1>2 DEF Child, Runner, TuiType
<1>4. TurnInvariant(Turn)'
  BY <1>1, <1>2, <1>3, Settled DEF Child, Turn
<1>5. Child'
  BY <1>1, <1>2, <1>3, <1>4 DEF Child, TuiType
<1>6. Sockets' /\ Stream' /\ Runner' /\ Past'
  BY <1>1, <1>2 DEF Sockets, Stream, Runner, Past, Greeted, FailsCleanly
<1> QED BY <1>5, <1>6 DEF WitnessInvariant

\* The runner's enable binds the reporter, which knows of no intent yet.
LEMMA EnableStep ==
    ASSUME WitnessInvariant, ChildHears, Head(down[rep.session]).rev = 0
    PROVE  WitnessInvariant'
<1> DEFINE e == NewEvaluator(tui.mode)
           r == [rep EXCEPT !.state = "enabled", !.bound = TRUE, !.ev = e]
           t == [Turn EXCEPT !.rep = r]
           q == down[rep.session]
<1>1. Child /\ Sockets /\ Stream /\ Runner /\ Past
  BY DEF WitnessInvariant
<1>2. /\ tui \in TuiType /\ rep.session \in Sessions /\ Steady(Turn)
      /\ rep \in RepType /\ Turn.rep = rep /\ Turn.out = <<>> /\ Turn.half = tui.half
      /\ Turn.proven = {} /\ Turn.thrown = FALSE /\ Turn \in TurnType
  BY <1>1 DEF Child, TurnInvariant, Steady, TurnType, Turn
<1>3. /\ e \in EvType /\ AtRest(e) /\ ~ e.cand.opened /\ e.log = <<>>
  BY <1>2, NewEvaluatorFacts DEF TuiType
<1>4. Commit(t)
  <2>1. [Turn EXCEPT !.rep.state = "enabled", !.rep.bound = TRUE, !.rep.ev = e] = t
    <3> HIDE DEF e
    <3> QED BY <1>2 DEF TurnType, RepType
  <2> QED BY <2>1 DEF ChildHears
<1> HIDE DEF e
<1>5. r \in RepType
  BY <1>2, <1>3 DEF RepType
<1>6. /\ r.ev = e /\ r.stash = rep.stash /\ r.session = rep.session
      /\ r.state = "enabled" /\ r.bound /\ r.rev = rep.rev
      /\ r.consumed = rep.consumed /\ r.rearmed = rep.rearmed
  BY <1>2 DEF RepType
<1> HIDE DEF r
<1>7. t.rep = r /\ t.out = <<>>
  BY <1>2 DEF TurnType
<1> HIDE DEF t
<1>8. /\ q \in Seq(IntentType) /\ q # <<>> /\ rep.state \in {"announced", "enabled"}
      /\ down' = [down EXCEPT ![rep.session] = Tail(q)]
  BY <1>1, <1>2 DEF ChildHears, Sockets, Child
<1>9. rep.state = "announced"
  <2>1. rep.state # "enabled"
    BY <1>1, <1>8 DEF Sockets
  <2> QED BY <1>8, <2>1
<1>10. rep.rev = 0
  BY <1>2, <1>9 DEF Steady, Kept
<1>11. tui' = tui /\ host' = host /\ past' = past /\ rep' = r
  BY <1>4, <1>7 DEF ChildHears, Commit
<1>12. /\ Stream' /\ Runner' /\ Past' /\ \A s : Greeted(s)' <=> Greeted(s)
       /\ up' \in [Sessions -> Seq({"hello", "close"})]
       /\ \A s \in Sessions : \A i \in DOMAIN up'[s] : up'[s][i] = "hello" => i = 1
       /\ \A s \in Sessions : s > rep.session => up'[s] = up[s]
  <2>1. t.out \in Seq(ItemType) /\ Proper(t) /\ t.rep.session = rep.session
    BY <1>6, <1>7 DEF Proper
  <2>2. past' = [whole |-> past'.whole, proven |-> past'.proven, shown |-> past'.shown]
    BY <1>1, <1>11 DEF Past
  <2> QED BY <1>1, <1>4, <1>11, <2>1, <2>2, ReporterStep
<1>13. Sockets'
  <2>1. /\ down' \in [Sessions -> Seq(IntentType)]
        /\ \A s \in Sessions : s > rep.session => down'[s] = down[s]
    BY <1>1, <1>2, <1>8 DEF Sockets, Sessions
  <2>2. \A i \in DOMAIN down'[rep.session] : down'[rep.session][i].rev # 0
    <3>1. down'[rep.session] = Tail(q)
      BY <1>1, <1>2, <1>8 DEF Sockets
    <3>2. ASSUME NEW i \in DOMAIN Tail(q) PROVE Tail(q)[i].rev # 0
      <4>1. i + 1 \in DOMAIN q /\ Tail(q)[i] = q[i + 1] /\ i + 1 # 1
        BY <1>8
      <4> QED BY <1>1, <1>9, <4>1 DEF Sockets
    <3> QED BY <3>1, <3>2
  <2>3. Greeted(rep.session)
    BY <1>1, <1>8 DEF Sockets
  <2> QED BY <1>1, <1>6, <1>11, <1>12, <2>1, <2>2, <2>3 DEF Sockets
<1>14. TurnInvariant(Turn)'
  <2>1. /\ Turn'.rep = r /\ Turn'.out = <<>> /\ Turn'.half = tui.half
        /\ Turn'.proven = {} /\ Turn'.thrown = FALSE
    BY <1>11 DEF Turn
  <2>2. Turn' = [rep |-> r, out |-> <<>>, half |-> tui.half, proven |-> {}, thrown |-> FALSE]
    BY <1>11 DEF Turn
  <2>3. <<>> \in Seq(ItemType) /\ {} \in SUBSET Nat /\ tui.half \in EscapeType
    BY <1>2 DEF TuiType
  <2>4. Turn' \in TurnType
    BY <1>5, <2>2, <2>3 DEF TurnType
  <2>5. (AtRest(Turn.rep.ev) /\ AtRest(Turn.rep.stash))'
    BY <1>2, <1>3, <1>6, <2>1 DEF Steady, AtRest, Ordered, Completed, Unproving
  <2>6. Proper(Turn)'
    BY <2>1 DEF Proper
  <2>7. Kept(Turn)'
    BY <1>2, <1>3, <1>6, <1>11, <2>1 DEF Steady, Kept
  <2>8. Stamps(Turn)' /\ Answers(Turn)'
    BY <1>2, <1>6, <1>10, <1>11, <2>1 DEF Steady, Stamps, Answers
  <2>9. Follows(Turn)'
    BY <1>3, <1>6, <2>1 DEF Follows, Shadowed
  <2>10. Steady(Turn)'
    BY <2>4, <2>5, <2>6, <2>7, <2>8 DEF Steady, TurnType
  <2> QED BY <2>9, <2>10 DEF TurnInvariant
<1>15. Child'
  BY <1>2, <1>6, <1>11, <1>14 DEF Child, TuiType
<1> QED BY <1>12, <1>13, <1>15 DEF WitnessInvariant

\* A resize's intent is heard by the child.
LEMMA IntentStep ==
    ASSUME WitnessInvariant, ChildHears, Head(down[rep.session]).rev # 0
    PROVE  WitnessInvariant'
<1> DEFINE q == down[rep.session]
           msg == Head(q)
           t == Drain(Intended(msg))
<1>1. Child /\ Sockets /\ Stream /\ Runner /\ Past
  BY DEF WitnessInvariant
<1>2. /\ tui \in TuiType /\ rep.session \in Sessions /\ TurnInvariant(Turn)
      /\ Turn.half = tui.half /\ Turn.rep = rep /\ Turn.proven = {}
  BY <1>1 DEF Child, Turn
<1>3. q \in Seq(IntentType) /\ q # <<>> /\ msg \in IntentType
  BY <1>1, <1>2 DEF ChildHears, Sockets
<1>4. rep.state # "announced"
  BY <1>1, <1>3 DEF Sockets
<1>5. TurnInvariant(t) /\ t.half = tui.half /\ t.proven = {}
  BY <1>2, <1>3, <1>4, IntendedFacts
<1>6. /\ Commit(t) /\ down' = [down EXCEPT ![rep.session] = Tail(q)]
      /\ tui' = tui /\ host' = host /\ past' = past
  BY DEF ChildHears, Intended
<1> HIDE DEF t
<1>7. /\ t.out \in Seq(ItemType) /\ Proper(t) /\ t.rep.session = rep.session
      /\ t.rep.state \in {rep.state, "disposed"} /\ rep' = t.rep
  BY <1>5, <1>6 DEF TurnInvariant, Steady, Kept, TurnType, Commit
<1>8. /\ Stream' /\ Runner' /\ Past' /\ \A s : Greeted(s)' <=> Greeted(s)
      /\ up' \in [Sessions -> Seq({"hello", "close"})]
      /\ \A s \in Sessions : \A i \in DOMAIN up'[s] : up'[s][i] = "hello" => i = 1
      /\ \A s \in Sessions : s > rep.session => up'[s] = up[s]
  <2>1. past' = [whole |-> past'.whole, proven |-> past'.proven, shown |-> past'.shown]
    BY <1>1, <1>6 DEF Past
  <2> QED BY <1>1, <1>6, <1>7, <2>1, ReporterStep
<1>9. Sockets'
  <2>1. /\ down' \in [Sessions -> Seq(IntentType)] /\ down'[rep.session] = Tail(q)
        /\ \A s \in Sessions : s > rep.session => down'[s] = down[s]
    BY <1>1, <1>2, <1>3, <1>6 DEF Sockets, Sessions
  <2>2. rep.state = "enabled" =>
           \A i \in DOMAIN down'[rep.session] : down'[rep.session][i].rev # 0
    <3> SUFFICES ASSUME rep.state = "enabled", NEW i \in DOMAIN Tail(q)
                 PROVE  Tail(q)[i].rev # 0
      BY <2>1
    <3>1. i + 1 \in DOMAIN q /\ Tail(q)[i] = q[i + 1]
      BY <1>3
    <3> QED BY <1>1, <3>1 DEF Sockets
  <2>3. Greeted(rep.session)
    BY <1>1, <1>3 DEF Sockets
  <2> QED BY <1>1, <1>4, <1>7, <1>8, <2>1, <2>2, <2>3 DEF Sockets
<1>10. TurnInvariant(Turn)'
  <2>1. tui'.half = t.half /\ tui'.half \in EscapeType
    BY <1>2, <1>5, <1>6 DEF TuiType
  <2> QED BY <1>5, <1>6, <1>7, <2>1, Settled
<1>11. Child'
  BY <1>1, <1>2, <1>6, <1>7, <1>10 DEF Child, TuiType
<1> QED BY <1>8, <1>9, <1>11 DEF WitnessInvariant

\* A new reporter is announced, unbound and at rest.
LEMMA NewReporterFacts ==
    ASSUME NEW s \in Sessions
    PROVE  LET r == NewReporter(s)
           IN  /\ r \in RepType /\ r.session = s /\ r.state = "announced" /\ ~ r.bound
               /\ AtRest(r.ev) /\ AtRest(r.stash) /\ ~ r.ev.cand.opened /\ ~ r.stash.cand.opened
               /\ r.rev = 0 /\ r.consumed = 0
<1> DEFINE e == NewEvaluator("fullscreen")
<1>1. e \in EvType /\ AtRest(e) /\ ~ e.cand.opened
  BY NewEvaluatorFacts DEF Modes
<1>2. /\ NewReporter(s).ev = e /\ NewReporter(s).stash = e
      /\ NewReporter(s) =
           [session |-> s, state |-> "announced", bound |-> FALSE, frames |-> 0,
            written |-> {}, ev |-> e, stash |-> e, stashed |-> FALSE,
            focus |-> NoFocus, rev |-> 0, consumed |-> 0, rearmed |-> {}]
  BY DEF NewReporter
<1> HIDE DEF e
<1>3. s \in Nat /\ {} \in SUBSET Nat /\ NoFocus \in Foci
  BY DEF Sessions, Foci
<1> QED BY <1>1, <1>2, <1>3 DEF RepType

\* A reporter that has just been created is at rest.
LEMMA NewSettled ==
    ASSUME NEW s \in Sessions, rep' = NewReporter(s), tui'.half \in EscapeType
    PROVE  TurnInvariant(Turn)'
<1>1. /\ rep' \in RepType /\ rep'.session = s /\ rep'.state = "announced" /\ ~ rep'.bound
      /\ AtRest(rep'.ev) /\ AtRest(rep'.stash) /\ ~ rep'.ev.cand.opened
      /\ ~ rep'.stash.cand.opened /\ rep'.rev = 0 /\ rep'.consumed = 0
  BY NewReporterFacts
<1>2. /\ Turn'.rep = rep' /\ Turn'.out = <<>> /\ Turn'.half = tui'.half
      /\ Turn'.proven = {} /\ Turn'.thrown = FALSE
      /\ Turn' = [rep |-> rep', out |-> <<>>, half |-> tui'.half, proven |-> {},
                  thrown |-> FALSE]
  BY DEF Turn
<1>3. Turn' \in TurnType
  <2>1. <<>> \in Seq(ItemType) /\ {} \in SUBSET Nat
    OBVIOUS
  <2> QED BY <1>1, <1>2, <2>1 DEF TurnType
<1>4. (AtRest(Turn.rep.ev) /\ AtRest(Turn.rep.stash))'
  BY <1>1, <1>2 DEF AtRest, Ordered, Completed, Unproving
<1>5. Proper(Turn)'
  BY <1>2 DEF Proper
<1>6. Kept(Turn)' /\ Stamps(Turn)' /\ Answers(Turn)'
  BY <1>1, <1>2 DEF Kept, Stamps, Answers
<1>7. Follows(Turn)'
  BY <1>1, <1>2 DEF Follows, Shadowed
<1>8. Steady(Turn)'
  BY <1>3, <1>4, <1>5, <1>6 DEF Steady, TurnType
<1> QED BY <1>7, <1>8 DEF TurnInvariant

\* A new session disposes the reporter and announces another.
LEMMA StartSessionStep ==
    ASSUME WitnessInvariant, StartSession
    PROVE  WitnessInvariant'
<1>0. PICK t, n : t = Dispose(Turn) /\ n = rep.session + 1
  OBVIOUS
<1> DEFINE ended == IF rep.state = "disposed" THEN up[rep.session]
                    ELSE Append(up[rep.session], "close")
           mid == [up EXCEPT ![rep.session] = ended]
<1>1. Child /\ Sockets /\ Stream /\ Runner /\ Past
  BY DEF WitnessInvariant
<1>2. /\ tui \in TuiType /\ rep.session \in Sessions /\ TurnInvariant(Turn)
      /\ up \in [Sessions -> Seq({"hello", "close"})]
      /\ past = [whole |-> past.whole, proven |-> past.proven, shown |-> past.shown]
  BY <1>1 DEF Child, Sockets, Past
<1>3. TurnInvariant(t)
  BY <1>0, <1>2, DisposeFacts DEF TurnInvariant
<1>4. t.out \in Seq(ItemType) /\ Proper(t)
  BY <1>3 DEF TurnInvariant, Steady, TurnType
<1>5. /\ n \in Sessions /\ rep' = NewReporter(n) /\ pty' = pty \o t.out
      /\ up' = [up EXCEPT ![rep.session] = ended, ![n] = <<"hello">>]
      /\ past' = [past EXCEPT !.whole = 0]
      /\ tui' = tui /\ down' = down /\ host' = host
  BY <1>0 DEF StartSession
<1>6. rep'.session = n /\ rep'.state = "announced" /\ n \in Nat /\ n # rep.session
  <2>1. rep.session \in Nat
    BY <1>2 DEF Sessions
  <2> QED BY <1>0, <1>5, <2>1, NewReporterFacts
<1>7. /\ ended \in Seq({"hello", "close"})
      /\ \A i \in DOMAIN ended : ended[i] = "hello" => i \in DOMAIN up[rep.session]
                                                         /\ up[rep.session][i] = "hello"
  <2>1. up[rep.session] \in Seq({"hello", "close"})
    BY <1>2
  <2>2. CASE rep.state = "disposed"
    BY <2>1, <2>2
  <2>3. CASE rep.state # "disposed"
    <3>1. ended = Append(up[rep.session], "close")
      BY <2>3
    <3> HIDE DEF ended
    <3>2. Len(up[rep.session]) \in Nat /\ DOMAIN up[rep.session] = 1..Len(up[rep.session])
      BY <2>1
    <3>3. /\ ended \in Seq({"hello", "close"})
          /\ DOMAIN ended = 1..Len(up[rep.session]) + 1
          /\ \A i \in 1..Len(up[rep.session]) : ended[i] = up[rep.session][i]
          /\ ended[Len(up[rep.session]) + 1] = "close"
      BY <2>1, <3>1
    <3>4. \A i \in DOMAIN ended : i \in 1..Len(up[rep.session])
                                     \/ i = Len(up[rep.session]) + 1
      BY <3>2, <3>3
    <3> QED BY <3>2, <3>3, <3>4
  <2> QED BY <2>2, <2>3
<1> HIDE DEF ended
<1>8. /\ up' \in [Sessions -> Seq({"hello", "close"})]
      /\ up'[rep.session] = ended /\ up'[n] = <<"hello">>
      /\ \A s \in Sessions : s # rep.session /\ s # n => up'[s] = up[s]
  <2>1. <<"hello">> \in Seq({"hello", "close"})
    OBVIOUS
  <2> QED BY <1>2, <1>5, <1>6, <1>7, <2>1
<1>9. \A s : Greeted(s) => Greeted(s)'
  <2> SUFFICES ASSUME NEW s, Greeted(s) PROVE Greeted(s)'
    OBVIOUS
  <2>1. s \in 1..rep.session /\ s \in Sessions /\ s # n /\ s \in 1..n
    BY <1>0, <1>2, <1>6 DEF Greeted, Sessions
  <2>2. CASE s = rep.session
    BY <1>6, <1>7, <1>8, <2>1, <2>2 DEF Greeted
  <2>3. CASE s # rep.session
    BY <1>6, <1>8, <2>1, <2>3 DEF Greeted
  <2> QED BY <2>2, <2>3
<1>10. rep.state = "enabled" => Greeted(rep.session)
  BY <1>1 DEF Sockets
<1>11. Stream' /\ (pty # <<>> => pty' # <<>> /\ Head(pty') = Head(pty))
  <2>1. \A i \in DOMAIN t.out : t.out[i].kind # "token" =>
           Greeted(t.out[i].session)' /\ (FailsCleanly => ~ t.out[i].inside)
    BY <1>4, <1>9, <1>10 DEF Proper
  <2> QED BY <1>1, <1>4, <1>5, <1>9, <2>1, StreamGrows
<1>12. Runner' /\ Past'
  <2>1. /\ past'.shown = past.shown
        /\ past' = [whole |-> past'.whole, proven |-> past'.proven, shown |-> past'.shown]
    BY <1>2, <1>5
  <2> QED BY <1>1, <1>5, <1>9, <1>11, <2>1, RunnerRests
<1>13. ~ Greeted(n)'
  <2>1. 1 \in DOMAIN up'[n] /\ up'[n][1] = "hello"
    BY <1>8
  <2> QED BY <2>1 DEF Greeted
<1>14. Sockets'
  <2>1. \A s \in Sessions : \A i \in DOMAIN up'[s] : up'[s][i] = "hello" => i = 1
    <3> SUFFICES ASSUME NEW s \in Sessions, NEW i \in DOMAIN up'[s], up'[s][i] = "hello"
                 PROVE  i = 1
      OBVIOUS
    <3>1. CASE s = n
      <4>1. DOMAIN <<"hello">> = {1}
        OBVIOUS
      <4> QED BY <1>8, <3>1, <4>1
    <3>2. CASE s = rep.session
      BY <1>1, <1>2, <1>7, <1>8, <3>2 DEF Sockets
    <3>3. CASE s # n /\ s # rep.session
      BY <1>1, <1>8, <3>3 DEF Sockets
    <3> QED BY <3>1, <3>2, <3>3
  <2>2. \A s \in Sessions : s > n => s > rep.session /\ s # n /\ s # rep.session
    BY <1>0, <1>2 DEF Sessions
  <2>3. n > rep.session
    BY <1>0, <1>2 DEF Sessions
  <2>4. down[n] = <<>>
    BY <1>1, <1>5, <2>3 DEF Sockets
  <2>5. \A s \in Sessions : s > n => up'[s] = <<>> /\ down'[s] = <<>>
    BY <1>1, <1>5, <1>8, <2>2 DEF Sockets
  <2>6. down' \in [Sessions -> Seq(IntentType)] /\ down'[n] = <<>>
    BY <1>1, <1>5, <2>4 DEF Sockets
  <2>7. ~ Greeted(rep.session)'
    BY <1>6, <1>13 DEF Greeted
  <2>8. \A i \in DOMAIN down'[n] : FALSE
    BY <2>6
  <2> QED BY <1>6, <1>8, <2>1, <2>5, <2>6, <2>7, <2>8 DEF Sockets
<1>15. TurnInvariant(Turn)'
  <2>1. tui'.half \in EscapeType
    BY <1>2, <1>5 DEF TuiType
  <2> QED BY <1>5, <2>1, NewSettled
<1>16. Child'
  BY <1>2, <1>5, <1>6, <1>15 DEF Child, TuiType
<1> QED BY <1>11, <1>12, <1>14, <1>16 DEF WitnessInvariant

----------------------------------------------------------------------------
(* The steps of the runner.                                                *)

\* The child is at rest while the runner steps.
LEMMA ChildRests ==
    ASSUME Child, rep' = rep, tui' = tui, past'.proven = past.proven
    PROVE  Child'
<1>1. /\ tui \in TuiType /\ TurnInvariant(Turn) /\ Turn.rep = rep /\ Turn.half = tui.half
      /\ Turn.proven = {} /\ tui.half \in EscapeType
  BY DEF Child, Turn, TuiType
<1>2. TurnInvariant(Turn)'
  BY <1>1, Settled
<1> QED BY <1>1, <1>2 DEF Child, TuiType

\* The runner takes the next item out of the stream.
LEMMA StreamShrinks ==
    ASSUME Stream, pty # <<>>, pty' = Tail(pty), rep' = rep, up' = up
    PROVE  /\ Stream' /\ \A s : Greeted(s)' <=> Greeted(s)
           /\ Head(pty) \in ItemType
           /\ Head(pty).kind # "token" =>
                 Greeted(Head(pty).session) /\ (FailsCleanly => ~ Head(pty).inside)
<1>1. pty \in Seq(ItemType) /\ Head(pty) = pty[1] /\ 1 \in DOMAIN pty
  BY DEF Stream
<1>2. pty' \in Seq(ItemType)
  BY <1>1
<1>3. \A s : Greeted(s)' <=> Greeted(s)
  BY DEF Greeted
<1>4. ASSUME NEW i \in DOMAIN pty', NEW m, m = pty'[i], m.kind # "token"
      PROVE  Greeted(m.session)' /\ (FailsCleanly => ~ m.inside)
  <2>1. m = pty[i + 1] /\ i + 1 \in DOMAIN pty
    BY <1>1, <1>4
  <2> QED BY <1>3, <1>4, <2>1 DEF Stream
<1>5. Stream'
  BY <1>2, <1>4 DEF Stream, FailsCleanly
<1>6. Head(pty) \in ItemType
  BY <1>1
<1> QED BY <1>1, <1>3, <1>5, <1>6 DEF Stream

\* Output that the runner makes of an item: no half of a marker is pending after it.
LEMMA OutputStep ==
    ASSUME Runner, Past, NEW i, NEW g, Output(i, g), ~ host.fr.parser.half,
           \A s : Greeted(s)' <=> Greeted(s),
           past' = [whole |-> past'.whole, proven |-> past'.proven, shown |-> past'.shown],
           \A s \in past'.shown : Greeted(s) /\ s # host.fr.session
    PROVE  Runner' /\ Past'
<1> DEFINE n == host.seq + 1
           tr == IF host.fr.session = 0 THEN host.fr.tracker
                 ELSE FeedProof(host.fr.tracker, n, i.token)
<1>1. host' = [host EXCEPT !.seq = n, !.fr.tracker = tr, !.cut = FALSE]
  BY DEF Output
<1> HIDE DEF tr, n
<1>2. /\ host = [size |-> host.size, seq |-> host.seq, fr |-> host.fr, cut |-> host.cut]
      /\ host.fr = [session |-> host.fr.session, parser |-> host.fr.parser,
                    tracker |-> host.fr.tracker, sizes |-> host.fr.sizes]
  BY DEF Runner
<1> DEFINE fr == [session |-> host.fr.session, parser |-> host.fr.parser,
                  tracker |-> tr, sizes |-> host.fr.sizes]
<1>3. [host.fr EXCEPT !.tracker = tr] = fr
  BY <1>2
<1>4. host' = [size |-> host.size, seq |-> n, fr |-> fr, cut |-> FALSE]
  <2>1. host' = [size |-> host.size, seq |-> n, fr |-> [host.fr EXCEPT !.tracker = tr],
                 cut |-> FALSE]
    BY <1>1, <1>2
  <2> QED BY <1>3, <2>1
<1>5. /\ host'.size = host.size /\ host'.seq = n /\ host'.fr = fr /\ host'.cut = FALSE
      /\ host'.fr.session = host.fr.session /\ host'.fr.parser = host.fr.parser
      /\ host'.fr.sizes = host.fr.sizes /\ host'.fr.tracker = tr
  BY <1>4
<1> HIDE DEF fr
<1>6. Runner'
  <2>1. host' = [size |-> host'.size, seq |-> host'.seq, fr |-> host'.fr, cut |-> host'.cut]
    BY <1>4, <1>5
  <2>2. host'.fr = [session |-> host'.fr.session, parser |-> host'.fr.parser,
                    tracker |-> host'.fr.tracker, sizes |-> host'.fr.sizes]
    BY <1>5 DEF fr
  <2> QED BY <1>5, <2>1, <2>2 DEF Runner
<1>7. Past'
  BY <1>5 DEF Past
<1> QED BY <1>6, <1>7

\* The runner reads what is no marker.
LEMMA ReadTokenStep ==
    ASSUME WitnessInvariant, ReadToken
    PROVE  WitnessInvariant'
<1>1. Child /\ Sockets /\ Stream /\ Runner /\ Past
  BY DEF WitnessInvariant
<1>2. /\ pty # <<>> /\ Head(pty).kind = "token" /\ pty' = Tail(pty)
      /\ rep' = rep /\ tui' = tui /\ up' = up /\ down' = down /\ past' = past
      /\ Output(Head(pty), Draw(grid, Head(pty)))
  BY DEF ReadToken
<1>3. Stream' /\ \A s : Greeted(s)' <=> Greeted(s)
  BY <1>1, <1>2, StreamShrinks
<1>4. ~ host.fr.parser.half
  BY <1>1, <1>2 DEF Runner
<1>5. /\ past' = [whole |-> past'.whole, proven |-> past'.proven, shown |-> past'.shown]
      /\ \A s \in past'.shown : Greeted(s) /\ s # host.fr.session
  BY <1>1, <1>2 DEF Past
<1>6. Runner' /\ Past'
  BY <1>1, <1>2, <1>3, <1>4, <1>5, OutputStep
<1>7. Child'
  BY <1>1, <1>2, ChildRests
<1>8. Sockets'
  BY <1>1, <1>2 DEF Sockets, Greeted
<1> QED BY <1>3, <1>6, <1>7, <1>8 DEF WitnessInvariant

\* The runner's fields but the parser and the tracker of the trusted reporter.
LEMMA AcceptFacts ==
    ASSUME Runner, NEW m, NEW n
    PROVE  LET fr == AcceptMarker(host.fr, m, n)
           IN  /\ fr = [session |-> fr.session, parser |-> fr.parser,
                        tracker |-> fr.tracker, sizes |-> fr.sizes]
               /\ fr.parser = [last |-> fr.parser.last, open |-> fr.parser.open,
                               half |-> fr.parser.half]
               /\ fr.session = host.fr.session /\ fr.sizes = host.fr.sizes
               /\ fr.parser.half = FALSE
<1> DEFINE p == host.fr.parser
           no == FALSE
           rest(last, open, tracker) ==
             [session |-> host.fr.session, parser |-> [last |-> last, open |-> open, half |-> no],
              tracker |-> tracker, sizes |-> host.fr.sizes]
           whole == [host.fr EXCEPT !.parser.half = no]
           seeded == OpenCandidate(Seeded(host.fr.tracker, n), m)
           done == IF m.kind = "F" THEN CompleteProof(host.fr.tracker, m, n)
                   ELSE AbortCandidate(host.fr.tracker, m)
<1>0. PICK fr : fr = AcceptMarker(host.fr, m, n)
  OBVIOUS
<1>1. \/ fr = whole
      \/ fr = [whole EXCEPT !.parser.last = m.frame, !.parser.open = m.frame,
                            !.tracker = OpenCandidate(Seeded(@, n), m)]
      \/ fr = [whole EXCEPT !.parser.open = 0,
                            !.tracker = IF m.kind = "F" THEN CompleteProof(@, m, n)
                                        ELSE AbortCandidate(@, m)]
  BY <1>0 DEF AcceptMarker
<1> HIDE DEF no
<1>2. whole = rest(p.last, p.open, host.fr.tracker)
  <2>1. host.fr.parser = [last |-> p.last, open |-> p.open, half |-> host.fr.parser.half]
    BY DEF Runner
  <2>2. [host.fr.parser EXCEPT !.half = no] = [last |-> p.last, open |-> p.open, half |-> no]
    BY <2>1
  <2>3. host.fr = [session |-> host.fr.session, parser |-> host.fr.parser,
                   tracker |-> host.fr.tracker, sizes |-> host.fr.sizes]
    BY DEF Runner
  <2>4. \A k : [host.fr EXCEPT !.parser = k] =
                 [session |-> host.fr.session, parser |-> k,
                  tracker |-> host.fr.tracker, sizes |-> host.fr.sizes]
    BY <2>3
  <2>5. whole = [host.fr EXCEPT !.parser = [host.fr.parser EXCEPT !.half = no]]
    OBVIOUS
  <2> QED BY <2>2, <2>4, <2>5
<1>3. \/ fr = rest(p.last, p.open, host.fr.tracker)
      \/ fr = rest(m.frame, m.frame, seeded)
      \/ fr = rest(p.last, 0, done)
  <2>1. whole.tracker = host.fr.tracker
    BY <1>2
  <2>2. CASE fr = [whole EXCEPT !.parser.last = m.frame, !.parser.open = m.frame,
                                !.tracker = OpenCandidate(Seeded(@, n), m)]
    <3>1. fr = [whole EXCEPT !.parser.last = m.frame, !.parser.open = m.frame,
                             !.tracker = seeded]
      BY <2>1, <2>2
    <3> HIDE DEF whole, seeded
    <3>2. fr = rest(m.frame, m.frame, seeded)
      BY <1>2, <3>1
    <3> QED BY <3>2
  <2>3. CASE fr = [whole EXCEPT !.parser.open = 0,
                                !.tracker = IF m.kind = "F" THEN CompleteProof(@, m, n)
                                            ELSE AbortCandidate(@, m)]
    <3>1. fr = [whole EXCEPT !.parser.open = 0, !.tracker = done]
      BY <2>1, <2>3
    <3> HIDE DEF whole, done
    <3>2. fr = rest(p.last, 0, done)
      BY <1>2, <3>1
    <3> QED BY <3>2
  <2> QED BY <1>1, <1>2, <2>2, <2>3
<1> HIDE DEF whole, seeded, done, p
<1>4. ASSUME NEW last, NEW open, NEW tracker, fr = rest(last, open, tracker)
      PROVE  /\ fr = [session |-> fr.session, parser |-> fr.parser,
                      tracker |-> fr.tracker, sizes |-> fr.sizes]
             /\ fr.parser = [last |-> fr.parser.last, open |-> fr.parser.open,
                             half |-> fr.parser.half]
             /\ fr.session = host.fr.session /\ fr.sizes = host.fr.sizes
             /\ fr.parser.half = no
  BY <1>4
<1> HIDE DEF rest
<1>5. /\ fr = [session |-> fr.session, parser |-> fr.parser,
               tracker |-> fr.tracker, sizes |-> fr.sizes]
      /\ fr.parser = [last |-> fr.parser.last, open |-> fr.parser.open,
                      half |-> fr.parser.half]
      /\ fr.session = host.fr.session /\ fr.sizes = host.fr.sizes
      /\ fr.parser.half = no
  BY <1>3, <1>4
<1> QED BY <1>0, <1>5 DEF no

\* The runner reads a whole marker, or the rest of one.
LEMMA ReadMarkerStep ==
    ASSUME WitnessInvariant, ReadMarker
    PROVE  WitnessInvariant'
<1> DEFINE m == Head(pty)
<1>1. Child /\ Sockets /\ Stream /\ Runner /\ Past
  BY DEF WitnessInvariant
<1>2. /\ pty # <<>> /\ m.kind # "token" /\ pty' = Tail(pty)
      /\ rep' = rep /\ tui' = tui /\ up' = up /\ down' = down
  BY DEF ReadMarker
<1>3. /\ Stream' /\ \A s : Greeted(s)' <=> Greeted(s)
      /\ Greeted(m.session)
  BY <1>1, <1>2, StreamShrinks
<1>4. past = [whole |-> past.whole, proven |-> past.proven, shown |-> past.shown]
  BY <1>1 DEF Past
<1>5. Sockets'
  BY <1>1, <1>2 DEF Sockets, Greeted
<1>6. CASE host.fr.session = 0 \/ host.cut
  <2>1. /\ Output(Token("bad", 0), IF host.cut THEN Blank ELSE grid)
        /\ past' = [past EXCEPT !.shown = @ \cup {m.session}]
    BY <1>6 DEF ReadMarker
  <2>2. past' = [whole |-> past.whole, proven |-> past.proven,
                 shown |-> past.shown \cup {m.session}]
    BY <1>4, <2>1
  <2>3. /\ past'.proven = past.proven /\ past'.shown = past.shown \cup {m.session}
        /\ past' = [whole |-> past'.whole, proven |-> past'.proven, shown |-> past'.shown]
    BY <2>2
  <2>4. m.session # host.fr.session
    <3>1. CASE host.cut
      BY <1>1, <3>1 DEF Runner
    <3>2. CASE host.fr.session = 0
      BY <1>3, <3>2 DEF Greeted
    <3> QED BY <1>6, <3>1, <3>2
  <2>5. ~ host.fr.parser.half
    BY <1>1, <1>6 DEF Runner
  <2>6. \A s \in past'.shown : Greeted(s) /\ s # host.fr.session
    BY <1>1, <1>3, <2>3, <2>4 DEF Past
  <2>7. Runner' /\ Past'
    BY <1>1, <1>3, <2>1, <2>3, <2>5, <2>6, OutputStep
  <2>8. Child'
    BY <1>1, <1>2, <2>3, ChildRests
  <2> QED BY <1>3, <1>5, <2>7, <2>8 DEF WitnessInvariant
<1>7. CASE ~ (host.fr.session = 0 \/ host.cut)
  <2> DEFINE fr == AcceptMarker(host.fr, m, host.seq)
  <2>1. host' = [host EXCEPT !.fr = fr] /\ past' = past
    BY <1>7 DEF ReadMarker
  <2>2. /\ fr = [session |-> fr.session, parser |-> fr.parser,
                 tracker |-> fr.tracker, sizes |-> fr.sizes]
        /\ fr.parser = [last |-> fr.parser.last, open |-> fr.parser.open,
                        half |-> fr.parser.half]
        /\ fr.session = host.fr.session /\ fr.sizes = host.fr.sizes
        /\ fr.parser.half = FALSE
    BY <1>1, AcceptFacts
  <2> HIDE DEF fr
  <2>3. host' = [size |-> host.size, seq |-> host.seq, fr |-> fr, cut |-> host.cut]
    BY <1>1, <2>1 DEF Runner
  <2>4. host'.size = host.size /\ host'.seq = host.seq /\ host'.fr = fr /\ host'.cut = FALSE
    BY <1>1, <1>7, <2>3 DEF Runner
  <2>5. host' = [size |-> host'.size, seq |-> host'.seq, fr |-> host'.fr, cut |-> host'.cut]
    BY <2>3
  <2>6. Runner'
    BY <1>1, <1>3, <2>2, <2>4, <2>5 DEF Runner
  <2>7. Past'
    BY <1>1, <1>3, <2>1, <2>2, <2>4 DEF Past
  <2>8. Child'
    BY <1>1, <1>2, <2>1, ChildRests
  <2> QED BY <1>3, <1>5, <2>6, <2>7, <2>8 DEF WitnessInvariant
<1> QED BY <1>6, <1>7

\* A chunk ends inside a marker.
LEMMA ReadHalfMarkerStep ==
    ASSUME WitnessInvariant, ReadHalfMarker
    PROVE  WitnessInvariant'
<1>1. Child /\ Sockets /\ Stream /\ Runner /\ Past
  BY DEF WitnessInvariant
<1>2. /\ pty # <<>> /\ Head(pty).kind # "token" /\ host.fr.session # 0 /\ ~ host.cut
      /\ host' = [host EXCEPT !.fr.parser.half = TRUE]
      /\ rep' = rep /\ tui' = tui /\ up' = up /\ down' = down /\ past' = past /\ pty' = pty
  BY DEF ReadHalfMarker
<1> DEFINE yes == TRUE
           p == [last |-> host.fr.parser.last, open |-> host.fr.parser.open, half |-> yes]
           fr == [session |-> host.fr.session, parser |-> p,
                  tracker |-> host.fr.tracker, sizes |-> host.fr.sizes]
<1>3. host' = [size |-> host.size, seq |-> host.seq, fr |-> fr, cut |-> host.cut]
  <2>1. host = [size |-> host.size, seq |-> host.seq, fr |-> host.fr, cut |-> host.cut]
    BY <1>1 DEF Runner
  <2>2. host.fr = [session |-> host.fr.session, parser |-> host.fr.parser,
                   tracker |-> host.fr.tracker, sizes |-> host.fr.sizes]
    BY <1>1 DEF Runner
  <2>3. host.fr.parser = [last |-> host.fr.parser.last, open |-> host.fr.parser.open,
                          half |-> host.fr.parser.half]
    BY <1>1 DEF Runner
  <2>4. host' = [host EXCEPT !.fr = [host.fr EXCEPT !.parser =
                                        [host.fr.parser EXCEPT !.half = yes]]]
    BY <1>2
  <2> HIDE DEF yes
  <2>5. [host.fr.parser EXCEPT !.half = yes] = p
    BY <2>3
  <2> HIDE DEF p
  <2>6. [host.fr EXCEPT !.parser = p] = fr
    BY <2>2
  <2> HIDE DEF fr
  <2> QED BY <2>1, <2>4, <2>5, <2>6
<1>4. /\ host'.fr = fr /\ host'.fr.session = host.fr.session /\ host'.fr.parser = p
      /\ host'.fr.sizes = host.fr.sizes /\ host'.fr.tracker = host.fr.tracker
      /\ host'.size = host.size /\ host'.seq = host.seq /\ host'.cut = host.cut
  BY <1>3
<1>5. \A s : Greeted(s)' <=> Greeted(s)
  BY <1>2 DEF Greeted
<1>6. Runner'
  <2>1. host' = [size |-> host'.size, seq |-> host'.seq, fr |-> host'.fr, cut |-> host'.cut]
    BY <1>3, <1>4
  <2>2. /\ host'.fr = [session |-> host'.fr.session, parser |-> host'.fr.parser,
                       tracker |-> host'.fr.tracker, sizes |-> host'.fr.sizes]
        /\ host'.fr.parser = [last |-> host'.fr.parser.last, open |-> host'.fr.parser.open,
                              half |-> host'.fr.parser.half]
        /\ host'.fr.parser.half = TRUE
    BY <1>4
  <2> HIDE DEF p, fr
  <2> QED BY <1>1, <1>2, <1>4, <1>5, <2>1, <2>2 DEF Runner
<1>7. Past'
  BY <1>1, <1>2, <1>4, <1>5 DEF Past
<1>8. Child'
  BY <1>1, <1>2, ChildRests
<1>9. Sockets' /\ Stream'
  BY <1>1, <1>2 DEF Sockets, Stream, Greeted, FailsCleanly
<1> QED BY <1>6, <1>7, <1>8, <1>9 DEF WitnessInvariant

\* The runner hears of a new reporter or of its end, and trusts accordingly.
LEMMA HostHearsStep ==
    ASSUME WitnessInvariant, NEW session \in Sessions, HostHears(session)
    PROVE  WitnessInvariant'
<1> DEFINE q == up[session]
           hello == Head(q) = "hello"
           ends == hello \/ host.fr.session = session
           fr == IF hello THEN Trusts(session) ELSE IF ends THEN NoReporter ELSE host.fr
           cut == host.cut \/ (ends /\ host.fr.parser.half)
<1>1. Child /\ Sockets /\ Stream /\ Runner /\ Past
  BY DEF WitnessInvariant
<1>2. /\ q # <<>> /\ up' = [up EXCEPT ![session] = Tail(q)]
      /\ host' = [host EXCEPT !.cut = cut, !.fr = fr]
      /\ down' = IF hello THEN [down EXCEPT ![session] = Append(@, NoIntent)] ELSE down
      /\ rep' = rep /\ tui' = tui /\ pty' = pty /\ past' = past
  <2>1. host' = [host EXCEPT !.cut = cut, !.fr = fr]
    <3>1. host = [size |-> host.size, seq |-> host.seq, fr |-> host.fr, cut |-> host.cut]
      BY <1>1 DEF Runner
    <3>2. host' = [host EXCEPT !.cut = @ \/ (ends /\ host.fr.parser.half),
                               !.fr = IF hello THEN Trusts(session)
                                      ELSE IF ends THEN NoReporter ELSE @]
      BY DEF HostHears
    <3> HIDE DEF hello, ends
    <3> QED BY <3>1, <3>2
  <2> QED BY <2>1 DEF HostHears
<1>3. /\ q \in Seq({"hello", "close"}) /\ rep.session \in Sessions
      /\ up \in [Sessions -> Seq({"hello", "close"})] /\ down \in [Sessions -> Seq(IntentType)]
  BY <1>1 DEF Sockets, Child
<1>4. session \in 1..rep.session
  <2>1. ~ (session > rep.session)
    BY <1>1, <1>2 DEF Sockets
  <2> QED BY <1>3, <2>1 DEF Sessions
<1>5. \A i \in DOMAIN Tail(q) : Tail(q)[i] # "hello"
  <2> SUFFICES ASSUME NEW i \in DOMAIN Tail(q) PROVE Tail(q)[i] # "hello"
    OBVIOUS
  <2>1. i + 1 \in DOMAIN q /\ Tail(q)[i] = q[i + 1] /\ i + 1 # 1
    BY <1>2, <1>3
  <2> QED BY <1>1, <2>1 DEF Sockets
<1>6. /\ up' \in [Sessions -> Seq({"hello", "close"})] /\ up'[session] = Tail(q)
      /\ \A s \in Sessions : s # session => up'[s] = up[s]
  <2>1. Tail(q) \in Seq({"hello", "close"})
    BY <1>2, <1>3
  <2> QED BY <1>2, <1>3, <2>1
<1>7. Greeted(session)'
  BY <1>2, <1>4, <1>5, <1>6 DEF Greeted
<1>8. \A s : Greeted(s) => Greeted(s)'
  <2> SUFFICES ASSUME NEW s, Greeted(s), s # session PROVE Greeted(s)'
    BY <1>7
  <2>1. s \in Sessions
    BY <1>3 DEF Greeted, Sessions
  <2> QED BY <1>2, <1>6, <2>1 DEF Greeted
<1>9. hello => ~ Greeted(session)
  <2>1. 1 \in DOMAIN q /\ Head(q) = q[1]
    BY <1>2, <1>3
  <2> QED BY <2>1 DEF Greeted
<1>10. ~ hello => (Greeted(session)' => Greeted(session))
  <2> SUFFICES ASSUME ~ hello, NEW i \in DOMAIN q, q[i] = "hello" PROVE FALSE
    BY <1>4 DEF Greeted
  <2>1. i = 1 /\ Head(q) = q[1]
    BY <1>1, <1>2, <1>3 DEF Sockets
  <2> QED BY <2>1
<1>11. \A s : s # session /\ Greeted(s)' => Greeted(s)
  <2> SUFFICES ASSUME NEW s, Greeted(s)', s # session PROVE Greeted(s)
    OBVIOUS
  <2>1. s \in Sessions
    BY <1>2, <1>3 DEF Greeted, Sessions
  <2> QED BY <1>2, <1>6, <2>1 DEF Greeted
<1>12. Stream'
  BY <1>1, <1>2, <1>8 DEF Stream, FailsCleanly
<1>13. /\ fr = [session |-> fr.session, parser |-> fr.parser,
                tracker |-> fr.tracker, sizes |-> fr.sizes]
       /\ fr.parser = [last |-> fr.parser.last, open |-> fr.parser.open,
                       half |-> fr.parser.half]
       /\ fr.sizes \in Seq(Sizes) /\ fr.parser.half \in BOOLEAN
       /\ \/ hello /\ fr.session = session /\ fr.parser.half = FALSE
          \/ ~ hello /\ ends /\ fr.session = 0 /\ fr.parser.half = FALSE
          \/ ~ ends /\ fr = host.fr
  <2>1. CASE hello
    <3>1. fr = Trusts(session)
      BY <2>1
    <3>2. <<>> \in Seq(Sizes)
      OBVIOUS
    <3> HIDE DEF fr
    <3> QED BY <2>1, <3>1, <3>2 DEF Trusts, NewParser
  <2>2. CASE ~ hello /\ ends
    <3>1. fr = NoReporter
      BY <2>2
    <3>2. <<>> \in Seq(Sizes)
      OBVIOUS
    <3> HIDE DEF fr, ends
    <3> QED BY <2>2, <3>1, <3>2 DEF NoReporter, Trusts, NewParser
  <2>3. CASE ~ ends
    BY <1>1, <2>3 DEF Runner
  <2> QED BY <2>1, <2>2, <2>3
<1>14. cut \in BOOLEAN /\ (cut => host.cut \/ (ends /\ host.fr.parser.half))
  BY <1>1 DEF Runner
<1>15. cut => pty # <<>> /\ Head(pty).kind # "token" /\ Greeted(Head(pty).session)
  <2>1. host.fr.parser.half \/ host.cut => pty # <<>> /\ Head(pty).kind # "token"
    BY <1>1 DEF Runner
  <2>2. pty # <<>> => pty[1] = Head(pty) /\ 1 \in DOMAIN pty
    BY <1>1 DEF Stream
  <2> QED BY <1>1, <1>14, <2>1, <2>2 DEF Stream
<1> HIDE DEF fr, cut
<1>16. /\ host' = [size |-> host.size, seq |-> host.seq, fr |-> fr, cut |-> cut]
       /\ host'.size = host.size /\ host'.seq = host.seq /\ host'.fr = fr /\ host'.cut = cut
  BY <1>1, <1>2 DEF Runner
<1>17. Runner'
  <2>1. /\ host' = [size |-> host'.size, seq |-> host'.seq, fr |-> host'.fr, cut |-> host'.cut]
        /\ host'.fr = [session |-> host'.fr.session, parser |-> host'.fr.parser,
                       tracker |-> host'.fr.tracker, sizes |-> host'.fr.sizes]
        /\ host'.fr.parser = [last |-> host'.fr.parser.last, open |-> host'.fr.parser.open,
                              half |-> host'.fr.parser.half]
        /\ host'.size \in Sizes /\ host'.fr.sizes \in Seq(Sizes) /\ host'.cut \in BOOLEAN
        /\ host'.fr.parser.half \in BOOLEAN
    BY <1>1, <1>13, <1>14, <1>16 DEF Runner
  <2>2. (host.fr.session # 0 => Greeted(host.fr.session))'
    <3> SUFFICES ASSUME NEW s, s = fr.session, s # 0 PROVE Greeted(s)'
      BY <1>16
    <3> QED BY <1>1, <1>7, <1>8, <1>13 DEF Runner
  <2>3. host'.fr.parser.half => host'.fr.session # 0 /\ ~ host'.cut
    BY <1>1, <1>13, <1>14, <1>16 DEF Runner
  <2>4. host'.fr.parser.half \/ host'.cut => pty' # <<>> /\ Head(pty').kind # "token"
    BY <1>1, <1>2, <1>13, <1>15, <1>16 DEF Runner
  <2>5. host'.cut => Head(pty').session # host'.fr.session
    <3> SUFFICES ASSUME cut PROVE Head(pty).session # fr.session
      BY <1>2, <1>16
    <3>1. CASE hello
      BY <1>9, <1>13, <1>15, <3>1
    <3>2. CASE ~ hello /\ ends
      <4>1. Head(pty).session # 0
        BY <1>15 DEF Greeted
      <4> QED BY <1>13, <3>2, <4>1
    <3>3. CASE ~ ends
      BY <1>1, <1>13, <1>14, <3>3 DEF Runner
    <3> QED BY <3>1, <3>2, <3>3
  <2> QED BY <2>1, <2>2, <2>3, <2>4, <2>5 DEF Runner
<1>18. Past'
  <2>1. ASSUME NEW s \in past.shown PROVE Greeted(s)' /\ s # fr.session
    <3>1. Greeted(s) /\ s # host.fr.session
      BY <1>1 DEF Past
    <3>2. s # 0
      BY <3>1 DEF Greeted
    <3> QED BY <1>8, <1>9, <1>13, <3>1, <3>2
  <2> QED BY <1>1, <1>2, <1>16, <2>1 DEF Past
<1>19. Sockets'
  <2>1. down' \in [Sessions -> Seq(IntentType)]
    <3>1. Append(down[session], NoIntent) \in Seq(IntentType)
      <4>1. NoIntent \in IntentType
        BY DEF NoIntent, IntentType, PairType
      <4> QED BY <1>3, <4>1
    <3> QED BY <1>2, <1>3, <3>1
  <2>2. \A s \in Sessions : s # session => down'[s] = down[s]
    BY <1>2, <1>3
  <2>3. \A s \in Sessions : \A i \in DOMAIN up'[s] : up'[s][i] = "hello" => i = 1
    BY <1>1, <1>5, <1>6 DEF Sockets
  <2>4. \A s \in Sessions : s > rep.session => up'[s] = <<>> /\ down'[s] = <<>>
    <3>1. \A s \in Sessions : s > rep.session => s # session
      BY <1>3, <1>4 DEF Sessions
    <3> QED BY <1>1, <1>6, <2>2, <3>1 DEF Sockets
  <2>5. CASE session # rep.session
    <3>1. down'[rep.session] = down[rep.session]
      BY <1>3, <2>2, <2>5
    <3>2. Greeted(rep.session)' <=> Greeted(rep.session)
      BY <1>2, <1>8, <1>11, <2>5 DEF Greeted
    <3>3. (~ Greeted(rep.session) => down[rep.session] = <<>> /\ rep.state # "enabled")'
      BY <1>1, <1>2, <3>1, <3>2 DEF Sockets
    <3>4. (rep.state = "announced" =>
             /\ \A i \in DOMAIN down[rep.session] : down[rep.session][i].rev = 0 <=> i = 1
             /\ Greeted(rep.session) => down[rep.session] # <<>>)'
      BY <1>1, <1>2, <3>1, <3>2 DEF Sockets
    <3>5. (rep.state = "enabled" =>
             \A i \in DOMAIN down[rep.session] : down[rep.session][i].rev # 0)'
      BY <1>1, <1>2, <3>1 DEF Sockets
    <3> QED BY <1>2, <1>6, <2>1, <2>3, <2>4, <3>3, <3>4, <3>5 DEF Sockets
  <2>6. CASE session = rep.session /\ ~ hello
    <3>1. down' = down
      BY <1>2, <2>6
    <3>2. Greeted(rep.session)' <=> Greeted(rep.session)
      BY <1>2, <1>8, <1>10, <2>6 DEF Greeted
    <3> HIDE DEF hello
    <3> QED BY <1>1, <1>2, <1>6, <2>1, <2>3, <2>4, <3>1, <3>2 DEF Sockets
  <2>7. CASE session = rep.session /\ hello
    <3>1. down[rep.session] = <<>> /\ rep.state # "enabled"
      BY <1>1, <1>9, <2>7 DEF Sockets
    <3>2. down'[rep.session] = <<NoIntent>>
      <4>1. down'[rep.session] = Append(down[rep.session], NoIntent)
        BY <1>2, <1>3, <2>7
      <4> QED BY <3>1, <4>1
    <3>3. Greeted(rep.session)'
      BY <1>2, <1>7, <2>7 DEF Greeted
    <3>4. DOMAIN <<NoIntent>> = {1} /\ <<NoIntent>>[1].rev = 0
      BY DEF NoIntent
    <3>5. \A i \in DOMAIN down'[rep.session] : down'[rep.session][i].rev = 0 <=> i = 1
      BY <3>2, <3>4
    <3>6. down'[rep.session] # <<>>
      BY <3>2
    <3> QED BY <1>2, <1>6, <2>1, <2>3, <2>4, <3>1, <3>3, <3>5, <3>6 DEF Sockets
  <2> QED BY <2>5, <2>6, <2>7
<1>20. Child'
  BY <1>1, <1>2, ChildRests
<1> QED BY <1>12, <1>17, <1>18, <1>19, <1>20 DEF WitnessInvariant

\* A client's resize asks the trusted reporter for a proof.
LEMMA ResizeStep ==
    ASSUME WitnessInvariant, NEW size \in Sizes, Resize(size)
    PROVE  WitnessInvariant'
<1> DEFINE told == host.fr.session # 0
           sizes == IF told THEN Append(host.fr.sizes, size) ELSE host.fr.sizes
           pair == <<size, size>>
           intent == [rev |-> Len(sizes), size |-> pair]
           fr == [session |-> host.fr.session, parser |-> host.fr.parser,
                  tracker |-> host.fr.tracker, sizes |-> sizes]
<1>1. Child /\ Sockets /\ Stream /\ Runner /\ Past
  BY DEF WitnessInvariant
<1>2. /\ host = [size |-> host.size, seq |-> host.seq, fr |-> host.fr, cut |-> host.cut]
      /\ host.fr = [session |-> host.fr.session, parser |-> host.fr.parser,
                    tracker |-> host.fr.tracker, sizes |-> host.fr.sizes]
      /\ host.fr.sizes \in Seq(Sizes) /\ rep.session \in Sessions
      /\ down \in [Sessions -> Seq(IntentType)]
      /\ told => Greeted(host.fr.session)
  BY <1>1 DEF Runner, Child, Sockets
<1>3. /\ host' = [host EXCEPT !.size = size, !.fr.sizes = sizes]
      /\ down' = IF told THEN [down EXCEPT ![host.fr.session] = Append(@, intent)] ELSE down
      /\ tui' = tui /\ rep' = rep /\ pty' = pty /\ up' = up /\ past' = past
  BY DEF Resize
<1>4. sizes \in Seq(Sizes) /\ Len(sizes) \in Nat /\ (told => Len(sizes) # 0)
  <2>1. CASE told
    <3>1. sizes = Append(host.fr.sizes, size)
      BY <2>1
    <3> HIDE DEF sizes
    <3> QED BY <1>2, <3>1
  <2>2. CASE ~ told
    BY <1>2, <2>2
  <2> QED BY <2>1, <2>2
<1>5. pair \in PairType
  <2>1. Sizes \subseteq Nat
    BY WitnessAssumption
  <2>2. size \in Nat
    BY <2>1
  <2> QED BY <2>2 DEF PairType
<1> HIDE DEF sizes, pair
<1>6. intent \in IntentType /\ (told => intent.rev # 0)
  BY <1>4, <1>5 DEF IntentType
<1> HIDE DEF intent
<1>7. /\ host' = [size |-> size, seq |-> host.seq, fr |-> fr, cut |-> host.cut]
      /\ host'.fr = fr /\ host'.size = size /\ host'.seq = host.seq /\ host'.cut = host.cut
      /\ host'.fr.session = host.fr.session /\ host'.fr.parser = host.fr.parser
      /\ host'.fr.tracker = host.fr.tracker /\ host'.fr.sizes = sizes
  <2>1. [host.fr EXCEPT !.sizes = sizes] = fr
    BY <1>2
  <2>2. host' = [host EXCEPT !.size = size, !.fr = [host.fr EXCEPT !.sizes = sizes]]
    BY <1>2, <1>3
  <2>3. host' = [host EXCEPT !.size = size, !.fr = fr]
    BY <2>1, <2>2
  <2>4. host' = [size |-> size, seq |-> host.seq, fr |-> fr, cut |-> host.cut]
    <3> HIDE DEF fr
    <3> QED BY <1>2, <2>3
  <2>5. /\ fr.session = host.fr.session /\ fr.parser = host.fr.parser
        /\ fr.tracker = host.fr.tracker /\ fr.sizes = sizes
    OBVIOUS
  <2> HIDE DEF fr
  <2> QED BY <2>4, <2>5
<1>8. \A s : Greeted(s)' <=> Greeted(s)
  BY <1>3 DEF Greeted
<1>9. Runner'
  <2>1. /\ host' = [size |-> host'.size, seq |-> host'.seq, fr |-> host'.fr, cut |-> host'.cut]
        /\ host'.fr = [session |-> host'.fr.session, parser |-> host'.fr.parser,
                       tracker |-> host'.fr.tracker, sizes |-> host'.fr.sizes]
    BY <1>7
  <2> HIDE DEF fr
  <2> QED BY <1>1, <1>3, <1>4, <1>7, <1>8, <2>1 DEF Runner
<1>10. Past'
  BY <1>1, <1>3, <1>7, <1>8 DEF Past
<1>11. Stream'
  BY <1>1, <1>3, <1>8 DEF Stream, FailsCleanly
<1>12. Sockets'
  <2>1. CASE ~ told
    <3>1. down' = down
      BY <1>3, <2>1
    <3> QED BY <1>1, <1>3, <1>8, <3>1 DEF Sockets
  <2>2. CASE told
    <3> DEFINE s == host.fr.session
               q == Append(down[s], intent)
    <3>1. Greeted(s) /\ s \in Sessions /\ s \in 1..rep.session
      BY <1>2, <2>2 DEF Greeted, Sessions
    <3>2. down[s] \in Seq(IntentType)
      BY <1>2, <3>1
    <3>3. /\ q \in Seq(IntentType) /\ q # <<>> /\ Len(down[s]) \in Nat
          /\ DOMAIN q = 1..Len(down[s]) + 1 /\ DOMAIN down[s] = 1..Len(down[s])
          /\ \A i \in 1..Len(down[s]) : q[i] = down[s][i]
          /\ q[Len(down[s]) + 1] = intent
      BY <1>6, <3>2
    <3>4. down' = [down EXCEPT ![s] = q]
      BY <1>3, <2>2
    <3> HIDE DEF q
    <3>5. /\ down' \in [Sessions -> Seq(IntentType)] /\ down'[s] = q
          /\ \A r \in Sessions : r # s => down'[r] = down[r]
      BY <1>2, <3>1, <3>3, <3>4
    <3>6. \A r \in Sessions : r > rep.session => up[r] = <<>> /\ down'[r] = <<>>
      <4>1. \A r \in Sessions : r > rep.session => r # s
        BY <1>2, <3>1 DEF Sessions
      <4> QED BY <1>1, <3>5, <4>1 DEF Sockets
    <3>7. CASE s # rep.session
      <4>1. down'[rep.session] = down[rep.session]
        BY <1>2, <3>5, <3>7
      <4> QED BY <1>1, <1>3, <1>8, <3>5, <3>6, <4>1 DEF Sockets
    <3>8. CASE s = rep.session
      <4>1. \A i \in DOMAIN q : i \in DOMAIN down[s] \/ i = Len(down[s]) + 1
        BY <3>3
      <4>2. rep.state = "announced" =>
               \A i \in DOMAIN q : q[i].rev = 0 <=> i = 1
        <5> SUFFICES ASSUME rep.state = "announced", NEW i \in DOMAIN q
                     PROVE  q[i].rev = 0 <=> i = 1
          OBVIOUS
        <5>1. down[s] # <<>> /\ \A k \in DOMAIN down[s] : down[s][k].rev = 0 <=> k = 1
          BY <1>1, <3>1, <3>8 DEF Sockets
        <5>2. CASE i \in DOMAIN down[s]
          BY <3>3, <5>1, <5>2
        <5>3. CASE i = Len(down[s]) + 1
          <6>1. Len(down[s]) # 0
            BY <3>2, <5>1
          <6>2. i # 1
            BY <3>3, <5>3, <6>1
          <6> QED BY <1>6, <2>2, <3>3, <5>3, <6>2
        <5> QED BY <4>1, <5>2, <5>3
      <4>3. rep.state = "enabled" => \A i \in DOMAIN q : q[i].rev # 0
        <5> SUFFICES ASSUME rep.state = "enabled", NEW i \in DOMAIN q PROVE q[i].rev # 0
          OBVIOUS
        <5>1. \A k \in DOMAIN down[s] : down[s][k].rev # 0
          BY <1>1, <3>8 DEF Sockets
        <5> QED BY <1>6, <2>2, <3>3, <4>1, <5>1
      <4> QED BY <1>1, <1>3, <1>8, <3>1, <3>3, <3>5, <3>6, <3>8, <4>2, <4>3 DEF Sockets
    <3> QED BY <3>7, <3>8
  <2> QED BY <2>1, <2>2
<1>13. Child'
  BY <1>1, <1>3, ChildRests
<1> QED BY <1>9, <1>10, <1>11, <1>12, <1>13 DEF WitnessInvariant

----------------------------------------------------------------------------
(* The invariant.                                                          *)

\* The first reporter is at rest.
LEMMA InitiallyAtRest ==
    ASSUME NEW s \in Sessions, rep = NewReporter(s), tui.half \in EscapeType
    PROVE  TurnInvariant(Turn)
<1>1. /\ rep \in RepType /\ rep.session = s /\ rep.state = "announced" /\ ~ rep.bound
      /\ AtRest(rep.ev) /\ AtRest(rep.stash) /\ ~ rep.ev.cand.opened
      /\ ~ rep.stash.cand.opened /\ rep.rev = 0 /\ rep.consumed = 0
  BY NewReporterFacts
<1>2. /\ Turn.rep = rep /\ Turn.out = <<>> /\ Turn.half = tui.half
      /\ Turn.proven = {} /\ Turn.thrown = FALSE
  BY DEF Turn
<1>3. Turn \in TurnType
  <2>1. <<>> \in Seq(ItemType) /\ {} \in SUBSET Nat
    OBVIOUS
  <2> QED BY <1>1, <2>1 DEF TurnType, Turn
<1>4. Proper(Turn) /\ Kept(Turn) /\ Stamps(Turn) /\ Answers(Turn) /\ Follows(Turn)
  BY <1>1, <1>2 DEF Proper, Kept, Stamps, Answers, Follows, Shadowed
<1> QED BY <1>1, <1>2, <1>3, <1>4 DEF TurnInvariant, Steady

\* The invariant holds initially.
LEMMA WitnessInit ==
    ASSUME Init
    PROVE  WitnessInvariant
<1>1. First(Sizes) \in Sizes
  <2>1. Sizes \in SUBSET Nat /\ Sizes # {}
    BY WitnessAssumption
  <2>2. \E m \in Sizes : \A k \in Sizes : m <= k
    BY <2>1, LeastNatural
  <2> QED BY <2>2 DEF First
<1>2. tui \in TuiType /\ tui.half \in EscapeType
  BY <1>1 DEF Init, TuiType, Foci, EscapeType
<1>3. 1 \in Sessions
  BY DEF Sessions
<1>4. rep = NewReporter(1) /\ rep.session = 1 /\ rep.state = "announced"
  BY <1>3, NewReporterFacts DEF Init
<1>5. Child
  BY <1>2, <1>3, <1>4, InitiallyAtRest DEF Child
<1>6. /\ up \in [Sessions -> Seq({"hello", "close"})] /\ up[1] = <<"hello">>
      /\ \A s \in Sessions : s # 1 => up[s] = <<>>
      /\ down \in [Sessions -> Seq(IntentType)] /\ \A s \in Sessions : down[s] = <<>>
  <2>1. <<"hello">> \in Seq({"hello", "close"}) /\ <<>> \in Seq({"hello", "close"})
    OBVIOUS
  <2>2. <<>> \in Seq(IntentType)
    OBVIOUS
  <2> QED BY <1>3, <2>1, <2>2 DEF Init
<1>7. ~ Greeted(1)
  <2>1. 1 \in DOMAIN up[1] /\ up[1][1] = "hello"
    BY <1>6
  <2> QED BY <2>1 DEF Greeted
<1>8. Sockets
  <2>1. \A s \in Sessions : \A i \in DOMAIN up[s] : up[s][i] = "hello" => i = 1
    <3> SUFFICES ASSUME NEW s \in Sessions, NEW i \in DOMAIN up[s] PROVE i = 1
      OBVIOUS
    <3>1. DOMAIN <<"hello">> = {1}
      OBVIOUS
    <3> QED BY <1>6, <3>1
  <2>2. \A s \in Sessions : s > 1 => up[s] = <<>> /\ down[s] = <<>>
    BY <1>6
  <2>3. \A i \in DOMAIN down[1] : down[1][i].rev = 0 <=> i = 1
    BY <1>3, <1>6
  <2>4. down[1] = <<>>
    BY <1>3, <1>6
  <2> QED BY <1>4, <1>6, <1>7, <2>1, <2>2, <2>3, <2>4 DEF Sockets
<1>9. Stream
  BY DEF Init, Stream
<1>10. Runner
  <2>1. /\ host = [size |-> tui.size, seq |-> 0, fr |-> Trusts(0), cut |-> FALSE]
        /\ tui.size \in Sizes
    BY <1>2 DEF Init, NoReporter, TuiType
  <2>2. <<>> \in Seq(Sizes)
    OBVIOUS
  <2> QED BY <2>1, <2>2 DEF Runner, Trusts, NewParser
<1>11. Past
  BY DEF Init, Past
<1> QED BY <1>5, <1>8, <1>9, <1>10, <1>11 DEF WitnessInvariant

\* Every step of the child and of the runner keeps it.
LEMMA WitnessStep ==
    ASSUME WitnessInvariant, [Next]_vars
    PROVE  WitnessInvariant'
<1>1. ASSUME NEW s \in Scripts, TakeTurn(s) PROVE WitnessInvariant'
  BY <1>1, TakeTurnStep
<1>2. CASE Stop
  <2>1. "regular" \in Modes
    BY DEF Modes
  <2> QED BY <1>2, <2>1, StopStep
<1>3. CASE Start
  BY <1>3, StartStep
<1>4. CASE NoticeSize
  <2>1. NoFocus \in Foci
    BY DEF Foci
  <2> QED BY <1>4, <2>1, TerminalStep
<1>5. CASE ChildHears
  BY <1>5, EnableStep, IntentStep
<1>6. CASE LoseSocket
  BY <1>6, LoseSocketStep
<1>7. CASE StartSession
  BY <1>7, StartSessionStep
<1>8. ASSUME NEW m \in Modes, SwitchMode(m) PROVE WitnessInvariant'
  BY <1>8, StopStep
<1>9. ASSUME NEW f \in Foci, MoveFocus(f) PROVE WitnessInvariant'
  BY <1>9, TerminalStep
<1>10. CASE ReadToken
  BY <1>10, ReadTokenStep
<1>11. CASE ReadMarker
  BY <1>11, ReadMarkerStep
<1>12. CASE ReadHalfMarker
  BY <1>12, ReadHalfMarkerStep
<1>13. ASSUME NEW s \in Sessions, HostHears(s) PROVE WitnessInvariant'
  BY <1>13, HostHearsStep
<1>14. ASSUME NEW z \in Sizes, Resize(z) PROVE WitnessInvariant'
  BY <1>14, ResizeStep
<1>15. CASE UNCHANGED vars
  <2>1. /\ tui' = tui /\ rep' = rep /\ pty' = pty /\ up' = up /\ down' = down
        /\ host' = host /\ past' = past
    BY <1>15 DEF vars
  <2>2. Child'
    BY <2>1, ChildRests DEF WitnessInvariant
  <2> QED BY <2>1, <2>2 DEF WitnessInvariant, Sockets, Stream, Runner, Past, Greeted, FailsCleanly
<1> QED BY <1>1, <1>2, <1>3, <1>4, <1>5, <1>6, <1>7, <1>8, <1>9, <1>10, <1>11, <1>12, <1>13,
           <1>14, <1>15 DEF Next

\* What the child's evaluator knows, what its markers are and whom the runner trusts
\* agree in every behaviour: the inductive invariant of reporter, stream and runner.
THEOREM WitnessInvariantHolds == Spec => []WitnessInvariant
<1>1. Init => WitnessInvariant
  BY WitnessInit
<1>2. WitnessInvariant /\ [Next]_vars => WitnessInvariant'
  BY WitnessStep
<1> QED BY <1>1, <1>2, PTL DEF Spec

\* The bytes of a marker reach the output only once its reporter is not trusted.
THEOREM TrustedHidden == Spec => []TrustedMarkersAreHidden
<1>1. WitnessInvariant => TrustedMarkersAreHidden
  BY DEF WitnessInvariant, Past, TrustedMarkersAreHidden
<1> QED BY <1>1, WitnessInvariantHolds, PTL

\* A resize that the reporter counts as answered was answered by a proof written
\* under its intent, unless a restart of the renderer answered for it.
THEOREM ConsumedProven == Spec => []ConsumedWasProven
<1>1. WitnessInvariant => ConsumedWasProven
  BY DEF WitnessInvariant, Child, TurnInvariant, Steady, Answers, ConsumedWasProven, Turn
<1> QED BY <1>1, WitnessInvariantHolds, PTL

\* No marker is written inside a control sequence that an earlier write left open,
\* if no write that is to complete one throws.
THEOREM MarkersOutside ==
    ASSUME FailsCleanly
    PROVE  Spec => []MarkersRespectEscapes
<1>1. WitnessInvariant => MarkersRespectEscapes
  BY DEF WitnessInvariant, Stream, MarkersRespectEscapes
<1> QED BY <1>1, WitnessInvariantHolds, PTL
=============================================================================
