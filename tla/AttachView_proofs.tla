--------------------------- MODULE AttachView_proofs ---------------------------
(***************************************************************************)
(* Theorems about the attached view, for any sizes, budgets and            *)
(* interleaving: types, that it shows only whole frames of the runner it   *)
(* talks to, that its size reaches that runner, and that a proof opens it  *)
(* only with the frame that is proven.                                     *)
(***************************************************************************)
EXTENDS AttachView, WellFoundedInduction, SequenceTheorems, TLAPS

----------------------------------------------------------------------------
(* The types of what the module's variables hold.                          *)

Kinds == {"none", "whole", "head", "tail", "safe"}
ChunkType == [kind : Kinds, size : Nat, rev : Nat, proof : BOOLEAN]
PictureType == [gen : Nat, n : Nat, c : ChunkType]
CoverageType == [covered : BOOLEAN, n : Nat, size : Nat, rev : Nat, thru : Nat]
IdentType == Nat \X Nat \X Nat \X Nat \X Nat
CopyType == [picture : PictureType, torn : BOOLEAN, ident : IdentType]
AtMostOne(S) == {<<>>} \cup {<<x>> : x \in S}

IntentType == [rev : Nat, size : Nat]
ChildType == [size : Sizes, told : Seq(IntentType), intent : AtMostOne(IntentType),
              open : AtMostOne(ChunkType)]
HostType == [gen : Nat \ {0}, size : Sizes, trust : {"none", "on", "off"}, since : Nat, rev : Nat]
SubType == [pc : {"idle", "capturing", "rendering", "live"}, dto : Nat, proofs : BOOLEAN,
            reset : BOOLEAN]

RequestType == [type : {"subscribe"}, n : Nat] \cup [type : {"resize"}, n : Sizes]
LineType == [type : {"output"}, n : Nat, c : ChunkType, record : BOOLEAN]
IdentityType == [type : {"hello", "status"}, gen : Nat, trust : {"none", "on", "off"}]
BeginType == [type : {"begin"}, gen : Nat, size : Nat, empty : BOOLEAN]
ReadyType == [type : {"ready"}, picture : PictureType, upto : Nat, cov : CoverageType,
              proofs : BOOLEAN, flush : Seq(LineType), empty : BOOLEAN]
MessageType ==
    IdentityType \cup BeginType \cup ReadyType \cup LineType
    \cup [type : {"record"}, n : Nat, c : ChunkType]
    \cup [type : {"state"}, cov : CoverageType] \cup [type : {"end"}]

ViewType ==
    [client : {"probing", "reconciling", "resyncing", "collecting", "live"}, protocol : BOOLEAN,
     gen : Nat, seq : Nat, wire : Nat, conn : Nat, epoch : Nat, size : Sizes, rev : Nat,
     required : BOOLEAN, satisfied : BOOLEAN, trusted : BOOLEAN,
     opened : {"no", "proof", "deadline"}, settle : BOOLEAN, hard : BOOLEAN,
     cov : CoverageType, ident : IdentType, baseline : {"unverified", "empty", "content"},
     hydration : {"idle", "hydrating", "complete"}, sync : BOOLEAN, grid : PictureType,
     torn : BOOLEAN, received : BOOLEAN, committed : AtMostOne(CopyType),
     recovery : AtMostOne(CopyType), behind : BOOLEAN, gate : BOOLEAN, asked : BOOLEAN]
ItemType == [what : {"frame", "output"}, picture : PictureType, ident : IdentType]

Typed ==
    /\ child \in ChildType /\ host \in HostType /\ host.since \in 0..Last
    /\ ring \in Seq(ChunkType) /\ sub \in SubType /\ sub.dto \in 0..Last
    /\ link \in BOOLEAN /\ up \in Seq(RequestType) /\ down \in Seq(MessageType)
    /\ view \in ViewType /\ parser \in Seq(ItemType)
    /\ base \in Nat /\ lost \in BOOLEAN /\ budget \in Budget

----------------------------------------------------------------------------
(* The inductive invariant of what is shown.                               *)

\* A message of a runner.
Of(m, gen) ==
    /\ m.type \in {"hello", "status", "begin"} => m.gen = gen
    /\ m.type = "ready" => m.picture.gen = gen

\* A socket speaks of one runner, and greets before all else.
Speaks ==
    /\ ~ link => down = <<>> /\ up = <<>>
    /\ \A i \in DOMAIN down : Of(down[i], host.gen)
    /\ link /\ view.wire = 0 => down # <<>> /\ Head(down).type = "hello"
    /\ link /\ view.wire # 0 => view.wire = host.gen

\* A copy is of a whole frame of the runner that it names.
Whole(copies) ==
    \A i \in DOMAIN copies :
        ~ Half(copies[i].picture) /\ copies[i].picture.gen = GenOf(copies[i])
WholeCopies(v) == Whole(v.committed) /\ Whole(v.recovery)

\* A view that was greeted knows its runner; what its terminal has not parsed is of
\* that runner, and one that was not greeted has nothing to parse or to show.
Knows ==
    /\ view.wire \in {0, view.gen} /\ view.gen <= host.gen
    /\ view.wire = 0 => view.committed = <<>> /\ parser = <<>>
    /\ \A i \in DOMAIN parser : parser[i].picture.gen = view.gen
    /\ WholeCopies(view)

ShownInvariant == Speaks /\ Knows

----------------------------------------------------------------------------
(* Chunks.                                                                 *)

\* Every set of naturals has a least element.
LEMMA LeastNatural ==
    ASSUME NEW T \in SUBSET Nat, T # {}
    PROVE  \E m \in T : \A k \in T : m <= k
<1>1. \E m \in T : \A k \in T : <<k, m>> \notin OpToRel(<, Nat)
  BY NatLessThanWellFounded, WFMin
<1>2. ASSUME NEW m \in T, NEW k \in T, <<k, m>> \notin OpToRel(<, Nat) PROVE m <= k
  BY <1>2 DEF OpToRel
<1> QED BY <1>1, <1>2

\* A bounded set of naturals has a greatest element.
LEMMA GreatestNatural ==
    ASSUME NEW n \in Nat, NEW T \in SUBSET (0..n), T # {}
    PROVE  \E m \in T : \A k \in T : m >= k
<1> DEFINE U == {n - k : k \in T}
<1>1. U \in SUBSET Nat /\ U # {}
  <2>1. \A k \in T : k \in 0..n
    OBVIOUS
  <2>2. \A k \in T : n - k \in Nat
    BY <2>1
  <2> QED BY <2>2
<1>2. PICK u \in U : \A k \in U : u <= k
  BY <1>1, LeastNatural
<1>3. PICK m \in T : u = n - m
  OBVIOUS
<1>4. ASSUME NEW k \in T PROVE m >= k
  <2>1. n - m <= n - k /\ m \in 0..n /\ k \in 0..n
    BY <1>2, <1>3
  <2> QED BY <2>1
<1> QED BY <1>4

\* The newest chunk up to n that draws is one of the ring, and draws.
LEMMA DrawnFacts ==
    ASSUME NEW n \in Nat
    PROVE  /\ Drawn(n) \in 0..n
           /\ Drawn(n) # 0 => Draws(ring[Drawn(n)])
           /\ \A m \in 1..n : Draws(ring[m]) => m <= Drawn(n)
<1> DEFINE T == {0} \cup {m \in 1..n : Draws(ring[m])}
<1>1. \E m \in T : \A k \in T : m >= k
  <2>1. T \in SUBSET (0..n) /\ T # {}
    OBVIOUS
  <2> QED BY <2>1, GreatestNatural
<1>2. Max(T) \in T /\ \A k \in T : Max(T) >= k
  BY <1>1 DEF Max
<1>3. Drawn(n) = Max(T)
  BY DEF Drawn
<1>4. \A m \in 1..n : Draws(ring[m]) => m \in T
  OBVIOUS
<1>5. \A m \in T : m \in Nat
  OBVIOUS
<1> HIDE DEF T
<1>6. \A m \in 1..n : Draws(ring[m]) => m <= Drawn(n)
  BY <1>2, <1>3, <1>4, <1>5
<1> USE DEF T
<1> QED BY <1>2, <1>3, <1>6
----------------------------------------------------------------------------
(* What the operators on a view return.                                    *)

\* What a view knows of its stream, and the copies that it keeps.
SameStream(v, w) ==
    /\ w.client = v.client /\ w.gen = v.gen /\ w.seq = v.seq /\ w.wire = v.wire
    /\ w.size = v.size
SameCopies(v, w) == w.committed = v.committed /\ w.recovery = v.recovery

\* The values that stand for nothing are typed.
LEMMA ConstantsTyped ==
    /\ Unknown \in CoverageType /\ NoIdent \in IdentType /\ Nothing \in ChunkType
    /\ Blank \in PictureType /\ <<>> \in AtMostOne(CopyType) /\ Whole(<<>>)
BY DEF Unknown, CoverageType, NoIdent, IdentType, Nothing, Chunk, ChunkType, Kinds, Blank,
       PictureType, AtMostOne, Whole

\* A view's identity is typed, and names its runner.
LEMMA IdentTyped ==
    ASSUME NEW v \in ViewType
    PROVE  Ident(v) \in IdentType /\ Ident(v)[3] = v.gen
BY ViewAssumption DEF ViewType, Ident, IdentType

\* Without its proof, a view is the same.
LEMMA InvalidateFacts ==
    ASSUME NEW v \in ViewType
    PROVE  LET w == Invalidate(v)
           IN  w \in ViewType /\ SameStream(v, w) /\ SameCopies(v, w)
BY ConstantsTyped DEF Invalidate, ViewType, SameStream, SameCopies

\* Without its copies, a view is the same.
LEMMA ForgetFacts ==
    ASSUME NEW v \in ViewType
    PROVE  LET w == Forget(v)
           IN  w \in ViewType /\ SameStream(v, w) /\ WholeCopies(w)
BY ConstantsTyped DEF Forget, ViewType, SameStream, WholeCopies

\* Opening a view changes neither its stream nor its copies.
LEMMA FinishFacts ==
    ASSUME NEW v \in ViewType, NEW how \in {"proof", "deadline"}
    PROVE  LET w == Finish(v, how)
           IN  w \in ViewType /\ SameStream(v, w) /\ SameCopies(v, w)
BY ZenonT(40) DEF Finish, ViewType, SameStream, SameCopies

\* Nor does an evaluation.
LEMMA EvaluateFacts ==
    ASSUME NEW v \in ViewType, NEW n
    PROVE  LET w == Evaluate(v, n)
           IN  w \in ViewType /\ SameStream(v, w) /\ SameCopies(v, w)
BY FinishFacts DEF Evaluate, SameStream, SameCopies

\* Nor does the settle timer.
LEMMA DeferSettleFacts ==
    ASSUME NEW v \in ViewType
    PROVE  LET w == DeferSettle(v)
           IN  w \in ViewType /\ SameStream(v, w) /\ SameCopies(v, w)
<1> DEFINE w == [v EXCEPT !.settle = TRUE]
<1>1. w \in ViewType /\ SameStream(v, w) /\ SameCopies(v, w)
  BY DEF ViewType, SameStream, SameCopies
<1>2. SameStream(v, v) /\ SameCopies(v, v)
  BY DEF SameStream, SameCopies
<1>3. DeferSettle(v) = v \/ DeferSettle(v) = w
  BY DEF DeferSettle
<1> HIDE DEF w
<1> QED BY <1>1, <1>2, <1>3

\* Nor does what output leaves of the coverage.
LEMMA NoteOutputFacts ==
    ASSUME NEW v \in ViewType, NEW chunks
    PROVE  LET w == NoteOutput(v, chunks)
           IN  w \in ViewType /\ SameStream(v, w) /\ SameCopies(v, w)
<1>1. CASE NoteOutput(v, chunks) = v
  BY <1>1 DEF SameStream, SameCopies
<1>2. CASE NoteOutput(v, chunks) = Invalidate(v)
  BY <1>2, InvalidateFacts
<1>3. CASE NoteOutput(v, chunks) = [v EXCEPT !.cov.thru = v.seq, !.ident = Ident(v)]
  <2>1. [v.cov EXCEPT !.thru = v.seq] \in CoverageType
    <3>1. v.cov \in CoverageType /\ v.seq \in Nat
      BY DEF ViewType
    <3> QED BY <3>1 DEF CoverageType
  <2>2. [v EXCEPT !.cov.thru = v.seq, !.ident = Ident(v)]
           = [v EXCEPT !.cov = [v.cov EXCEPT !.thru = v.seq], !.ident = Ident(v)]
    OBVIOUS
  <2>3. \A x \in CoverageType : LET w == [v EXCEPT !.cov = x, !.ident = Ident(v)]
                                IN  w \in ViewType /\ SameStream(v, w) /\ SameCopies(v, w)
    BY IdentTyped DEF ViewType, SameStream, SameCopies
  <2> QED BY <1>3, <2>1, <2>2, <2>3
<1> QED BY <1>1, <1>2, <1>3 DEF NoteOutput

\* The copy that survives is the one that was committed, if any.
LEMMA CaptureRecoveryFacts ==
    ASSUME NEW v \in ViewType
    PROVE  LET w == CaptureRecovery(v)
           IN  /\ w \in ViewType /\ SameStream(v, w) /\ w.committed = v.committed
               /\ WholeCopies(v) => WholeCopies(w)
BY DEF CaptureRecovery, ViewType, SameStream, WholeCopies

\* A size that the view takes leaves it without copies.
LEMMA NoteGeometryFacts ==
    ASSUME NEW v \in ViewType
    PROVE  LET w == NoteGeometryIntent(v)
           IN  w \in ViewType /\ SameStream(v, w) /\ WholeCopies(w)
<1> DEFINE f == [Forget(v) EXCEPT !.rev = @ + 1, !.required = TRUE]
<1>1. f \in ViewType /\ SameStream(v, f) /\ WholeCopies(f)
  <2>1. Forget(v) \in ViewType /\ SameStream(v, Forget(v)) /\ WholeCopies(Forget(v))
    BY ForgetFacts
  <2>2. ASSUME NEW g \in ViewType
        PROVE  LET w == [g EXCEPT !.rev = @ + 1, !.required = TRUE]
               IN  w \in ViewType /\ SameStream(g, w) /\ SameCopies(g, w)
    <3>1. g.rev + 1 \in Nat
      BY DEF ViewType
    <3>2. \A n \in Nat : LET w == [g EXCEPT !.rev = n, !.required = TRUE]
                         IN  w \in ViewType /\ SameStream(g, w) /\ SameCopies(g, w)
      BY ZenonT(40) DEF ViewType, SameStream, SameCopies
    <3> QED BY <3>1, <3>2
  <2> QED BY <2>1, <2>2 DEF SameStream, SameCopies, WholeCopies
<1>2. NoteGeometryIntent(v) = Invalidate(f)
  BY DEF NoteGeometryIntent
<1> HIDE DEF f
<1> QED BY <1>1, <1>2, InvalidateFacts DEF SameStream, SameCopies, WholeCopies

\* A whole grid of the view's runner is committed as such.
LEMMA CommitViewFacts ==
    ASSUME NEW v \in ViewType
    PROVE  LET w == CommitView(v)
           IN  /\ w \in ViewType /\ SameStream(v, w)
               /\ WholeCopies(v) /\ ~ Half(v.grid) /\ v.grid.gen = v.gen => WholeCopies(w)
<1> DEFINE copy == [picture |-> v.grid, torn |-> v.torn, ident |-> Ident(v)]
<1>1. CASE ~ Modern(v) \/ v.hydration = "hydrating"
  BY ZenonT(40), <1>1 DEF CommitView, ViewType, SameStream, WholeCopies
<1>2. CASE ~ (~ Modern(v) \/ v.hydration = "hydrating")
  <2>1. copy \in CopyType
    BY IdentTyped DEF CopyType, ViewType
  <2>2. <<copy>> \in AtMostOne(CopyType)
    BY <2>1 DEF AtMostOne
  <2>3. ~ Half(v.grid) /\ v.grid.gen = v.gen => Whole(<<copy>>)
    BY IdentTyped DEF Whole, GenOf
  <2>4. CommitView(v) = [v EXCEPT !.committed = <<copy>>, !.recovery = <<>>, !.gate = FALSE,
                                  !.behind = FALSE]
    BY <1>2 DEF CommitView
  <2> HIDE DEF copy
  <2>5. CommitView(v) \in ViewType
    <3>1. \A x, y \in AtMostOne(CopyType) :
             [v EXCEPT !.committed = x, !.recovery = y, !.gate = FALSE, !.behind = FALSE] \in ViewType
      BY ZenonT(40) DEF ViewType
    <3> QED BY <2>2, <2>4, <3>1, ConstantsTyped
  <2>6. CommitView(v).committed = <<copy>> /\ CommitView(v).recovery = <<>>
    BY <2>4 DEF ViewType
  <2>7. SameStream(v, CommitView(v))
    BY <2>4 DEF ViewType, SameStream
  <2> QED BY <2>3, <2>5, <2>6, <2>7, ConstantsTyped DEF WholeCopies
<1> QED BY <1>1, <1>2

\* A fresh terminal keeps the last copy.
LEMMA ReplaceParserFacts ==
    ASSUME NEW v \in ViewType
    PROVE  LET w == ReplaceParser(v)
           IN  /\ w \in ViewType /\ SameStream(v, w) /\ w.grid = Blank
               /\ WholeCopies(v) => WholeCopies(w)
<1>1. /\ CaptureRecovery(v) \in ViewType /\ SameStream(v, CaptureRecovery(v))
      /\ WholeCopies(v) => WholeCopies(CaptureRecovery(v))
  BY CaptureRecoveryFacts
<1>2. ASSUME NEW g \in ViewType
      PROVE  LET w == [g EXCEPT !.epoch = @ + 1, !.sync = FALSE, !.committed = <<>>,
                                !.hydration = "idle", !.grid = Blank, !.torn = FALSE]
             IN  /\ w \in ViewType /\ SameStream(g, w) /\ w.grid = Blank
                 /\ WholeCopies(g) => WholeCopies(w)
  <2> DEFINE w == [g EXCEPT !.epoch = @ + 1, !.sync = FALSE, !.committed = <<>>,
                            !.hydration = "idle", !.grid = Blank, !.torn = FALSE]
  <2>1. g.epoch + 1 \in Nat
    BY DEF ViewType
  <2>2. ASSUME NEW n \in Nat, NEW x \in AtMostOne(CopyType)
        PROVE  [g EXCEPT !.epoch = n, !.sync = FALSE, !.committed = x] \in ViewType
    BY DEF ViewType
  <2>3. [g EXCEPT !.epoch = g.epoch + 1, !.sync = FALSE, !.committed = <<>>] \in ViewType
    BY <2>1, <2>2, ConstantsTyped
  <2>4. ASSUME NEW h \in ViewType, NEW p \in PictureType
        PROVE  [h EXCEPT !.hydration = "idle", !.grid = p, !.torn = FALSE] \in ViewType
    <3>1. [h EXCEPT !.hydration = "idle"] \in ViewType
      BY DEF ViewType
    <3>2. ASSUME NEW k \in ViewType PROVE [k EXCEPT !.grid = p] \in ViewType
      BY DEF ViewType
    <3>3. ASSUME NEW k \in ViewType PROVE [k EXCEPT !.torn = FALSE] \in ViewType
      BY ZenonT(40) DEF ViewType
    <3> QED BY <3>1, <3>2, <3>3
  <2>5. w = [[g EXCEPT !.epoch = g.epoch + 1, !.sync = FALSE, !.committed = <<>>]
                EXCEPT !.hydration = "idle", !.grid = Blank, !.torn = FALSE]
    OBVIOUS
  <2>6. w \in ViewType
    BY <2>3, <2>4, <2>5, ConstantsTyped
  <2>7. SameStream(g, w) /\ w.grid = Blank /\ w.committed = <<>> /\ w.recovery = g.recovery
    BY DEF ViewType, SameStream
  <2>8. WholeCopies(g) => WholeCopies(w)
    <3> HIDE DEF w
    <3> QED BY <2>7, ConstantsTyped DEF WholeCopies
  <2> QED BY <2>6, <2>7, <2>8
<1> QED BY <1>1, <1>2 DEF ReplaceParser, SameStream

\* What a snapshot proves leaves the stream and the copies as they are, or none.
LEMMA AdoptFacts ==
    ASSUME NEW v \in ViewType, NEW msg \in ReadyType
    PROVE  LET w == Adopt(v, msg)
           IN  w \in ViewType /\ SameStream(v, w) /\ (WholeCopies(v) => WholeCopies(w))
<1> DEFINE ident == IF msg.cov.covered THEN Ident(v) ELSE NoIdent
           asked == ~ msg.cov.covered /\ (v.asked \/ msg.proofs)
           new == [v EXCEPT !.cov = msg.cov, !.ident = ident, !.satisfied = FALSE, !.asked = asked]
           none == [Forget(new) EXCEPT !.gate = TRUE, !.baseline = "empty"]
<1>1. msg.cov \in CoverageType /\ msg.cov.covered \in BOOLEAN /\ msg.proofs \in BOOLEAN
  BY DEF ReadyType, CoverageType
<1>2. ident \in IdentType /\ asked \in BOOLEAN
  BY <1>1, IdentTyped, ConstantsTyped DEF ViewType
<1>3. new \in ViewType /\ SameStream(v, new) /\ SameCopies(v, new)
  <2>1. ASSUME NEW x \in CoverageType, NEW y \in IdentType, NEW z \in BOOLEAN
        PROVE  LET w == [v EXCEPT !.cov = x, !.ident = y, !.satisfied = FALSE, !.asked = z]
               IN  w \in ViewType /\ SameStream(v, w) /\ SameCopies(v, w)
    <3>1. [v EXCEPT !.cov = x, !.ident = y, !.satisfied = FALSE, !.asked = z] \in ViewType
      BY DEF ViewType
    <3> QED BY <3>1 DEF ViewType, SameStream, SameCopies
  <2> HIDE DEF ident, asked
  <2> QED BY <1>1, <1>2, <2>1
<1>4. none \in ViewType /\ SameStream(v, none) /\ WholeCopies(none)
  <2> HIDE DEF new
  <2>1. Forget(new) \in ViewType /\ SameStream(new, Forget(new)) /\ WholeCopies(Forget(new))
    BY <1>3, ForgetFacts
  <2>2. ASSUME NEW g \in ViewType
        PROVE  LET w == [g EXCEPT !.gate = TRUE, !.baseline = "empty"]
               IN  w \in ViewType /\ SameStream(g, w) /\ SameCopies(g, w)
    BY DEF ViewType, SameStream, SameCopies
  <2> QED BY <1>3, <2>1, <2>2 DEF SameStream, SameCopies, WholeCopies
<1>5. LET w == [new EXCEPT !.baseline = "content", !.hydration = "hydrating"]
      IN  w \in ViewType /\ SameStream(new, w) /\ SameCopies(new, w)
  <2> HIDE DEF new
  <2> QED BY <1>3 DEF ViewType, SameStream, SameCopies
<1>6. Invalidate(none) \in ViewType /\ SameStream(none, Invalidate(none))
         /\ SameCopies(none, Invalidate(none))
  BY <1>4, InvalidateFacts
<1>7. Adopt(v, msg) = IF msg.empty THEN Invalidate(none)
                      ELSE [new EXCEPT !.baseline = "content", !.hydration = "hydrating"]
  BY DEF Adopt
<1> HIDE DEF none, new
<1> QED BY <1>3, <1>4, <1>5, <1>6, <1>7 DEF SameStream, SameCopies, WholeCopies

\* Whoever answers is the runner of the view from then on, and only its copies stay.
LEMMA IdentifiedFacts ==
    ASSUME NEW v \in ViewType, NEW msg \in IdentityType, NEW late \in BOOLEAN
    PROVE  LET w == Identified(v, msg, late)
           IN  /\ w \in ViewType /\ w.client = v.client /\ w.seq = v.seq /\ w.size = v.size
               /\ w.gen = msg.gen /\ w.wire = msg.gen
               /\ w.committed \in {v.committed, <<>>} /\ w.recovery \in {v.recovery, <<>>}
<1> DEFINE other == OfAnother(msg.gen, v.recovery)
           known == [v EXCEPT !.wire = msg.gen, !.gen = msg.gen, !.gate = other]
           clean == IF OfAnother(msg.gen, v.committed) \/ OfAnother(msg.gen, v.recovery)
                    THEN Invalidate(Forget(known)) ELSE known
           on == [clean EXCEPT !.trusted = TRUE]
           off == [clean EXCEPT !.trusted = FALSE, !.cov = Unknown, !.ident = NoIdent]
           Good(w) == /\ w \in ViewType /\ w.client = v.client /\ w.seq = v.seq /\ w.size = v.size
                      /\ w.gen = msg.gen /\ w.wire = msg.gen
                      /\ w.committed \in {v.committed, <<>>} /\ w.recovery \in {v.recovery, <<>>}
<1>1. Good(known)
  <2>1. msg.gen \in Nat /\ other \in BOOLEAN
    BY DEF IdentityType, OfAnother
  <2>2. ASSUME NEW n \in Nat, NEW b \in BOOLEAN
        PROVE  LET w == [v EXCEPT !.wire = n, !.gen = n, !.gate = b]
               IN  /\ w \in ViewType /\ w.client = v.client /\ w.seq = v.seq /\ w.size = v.size
                   /\ w.gen = n /\ w.wire = n /\ SameCopies(v, w)
    <3>1. [v EXCEPT !.wire = n, !.gen = n, !.gate = b] \in ViewType
      BY DEF ViewType
    <3> QED BY <3>1 DEF ViewType, SameCopies
  <2> HIDE DEF other
  <2> QED BY ZenonT(40), <2>1, <2>2 DEF SameCopies
<1>2. ASSUME NEW w, Good(w), NEW x \in ViewType, SameStream(w, x), SameCopies(w, x) PROVE Good(x)
  BY <1>2 DEF SameStream, SameCopies
<1>3. Good(clean)
  <2> HIDE DEF known
  <2>1. Forget(known) \in ViewType /\ SameStream(known, Forget(known))
           /\ Forget(known).committed = <<>> /\ Forget(known).recovery = <<>>
    <3>1. known \in ViewType
      BY <1>1
    <3> HIDE DEF Good
    <3>2. Forget(known).committed = <<>> /\ Forget(known).recovery = <<>>
      BY <3>1 DEF Forget, ViewType
    <3> QED BY <3>1, <3>2, ForgetFacts
  <2>2. Good(Forget(known))
    BY <1>1, <2>1 DEF SameStream
  <2> HIDE DEF Good
  <2>3. Good(Invalidate(Forget(known)))
    BY <1>2, <2>1, <2>2, InvalidateFacts
  <2> QED BY <1>1, <2>3
<1>4. Good(on) /\ Good(off)
  <2>1. clean \in ViewType
    BY <1>3
  <2> HIDE DEF clean
  <2>2. LET w == [clean EXCEPT !.trusted = TRUE]
        IN  w \in ViewType /\ SameStream(clean, w) /\ SameCopies(clean, w)
    BY <2>1 DEF ViewType, SameStream, SameCopies
  <2>3. LET w == [clean EXCEPT !.trusted = FALSE, !.cov = Unknown, !.ident = NoIdent]
        IN  w \in ViewType /\ SameStream(clean, w) /\ SameCopies(clean, w)
    BY ZenonT(40), <2>1, ConstantsTyped DEF ViewType, SameStream, SameCopies
  <2> HIDE DEF Good
  <2> QED BY <1>2, <1>3, <2>2, <2>3
<1>5. Good(Evaluate([on EXCEPT !.settle = FALSE], Len(parser)))
  <2>1. on \in ViewType
    BY <1>4
  <2> HIDE DEF on
  <2>2. LET w == [on EXCEPT !.settle = FALSE]
        IN  w \in ViewType /\ SameStream(on, w) /\ SameCopies(on, w)
    BY ZenonT(40), <2>1 DEF ViewType, SameStream, SameCopies
  <2> HIDE DEF Good
  <2> QED BY <1>2, <1>4, <2>2, EvaluateFacts
<1>6. Good(Finish(off, "deadline")) /\ Good([off EXCEPT !.settle = TRUE])
  <2>1. off \in ViewType
    BY <1>4
  <2> HIDE DEF off
  <2>2. LET w == [off EXCEPT !.settle = TRUE]
        IN  w \in ViewType /\ SameStream(off, w) /\ SameCopies(off, w)
    BY <2>1 DEF ViewType, SameStream, SameCopies
  <2> HIDE DEF Good
  <2> QED BY <1>2, <1>4, <2>1, <2>2, FinishFacts
<1>7. Identified(v, msg, late) \in
         {clean, on, off, Evaluate([on EXCEPT !.settle = FALSE], Len(parser)),
          Finish(off, "deadline"), [off EXCEPT !.settle = TRUE]}
  <2> HIDE DEF on, off, clean
  <2> SUFFICES ASSUME TRUE PROVE Identified(v, msg, late) \in
         {clean, on, off, Evaluate([on EXCEPT !.settle = FALSE], Len(parser)),
          Finish(off, "deadline"), [off EXCEPT !.settle = TRUE]}
    OBVIOUS
  <2> QED BY DEF Identified, on, off, clean
<1> HIDE DEF on, off, clean, Good
<1>8. Good(Identified(v, msg, late))
  BY <1>3, <1>4, <1>5, <1>6, <1>7
<1> QED BY <1>8 DEF Good

\* A view that is handed a picture of its runner commits only what is whole.
LEMMA ParsedFacts ==
    ASSUME NEW v \in ViewType, NEW item \in ItemType
    PROVE  LET w == Parsed(v, item)
           IN  /\ w \in ViewType /\ SameStream(v, w)
               /\ WholeCopies(v) /\ item.picture.gen = v.gen => WholeCopies(w)
               /\ item.what = "frame" => w.grid = item.picture /\ w.sync = Half(item.picture)
<1> DEFINE drawn == [v EXCEPT !.grid = item.picture, !.sync = Half(item.picture)]
<1>1. item.picture \in PictureType /\ Half(item.picture) \in BOOLEAN
  BY DEF ItemType, Half
<1>2. /\ drawn \in ViewType /\ SameStream(v, drawn) /\ SameCopies(v, drawn)
      /\ drawn.grid = item.picture /\ drawn.sync = Half(item.picture)
  <2>1. ASSUME NEW p \in PictureType, NEW b \in BOOLEAN
        PROVE  LET w == [v EXCEPT !.grid = p, !.sync = b]
               IN  /\ w \in ViewType /\ SameStream(v, w) /\ SameCopies(v, w)
                   /\ w.grid = p /\ w.sync = b
    <3>1. [v EXCEPT !.grid = p, !.sync = b] \in ViewType
      BY DEF ViewType
    <3> QED BY <3>1 DEF ViewType, SameStream, SameCopies
  <2> QED BY <1>1, <2>1
<1> HIDE DEF drawn
<1>3. /\ CommitView(drawn) \in ViewType /\ SameStream(drawn, CommitView(drawn))
      /\ WholeCopies(drawn) /\ ~ Half(drawn.grid) /\ drawn.grid.gen = drawn.gen
            => WholeCopies(CommitView(drawn))
  BY <1>2, CommitViewFacts
<1>4. CASE item.what = "output" /\ ~ Draws(item.picture.c)
  <2>1. Parsed(v, item) = v
    BY <1>4 DEF Parsed, Draws
  <2> QED BY <2>1, <1>4 DEF SameStream
<1>5. CASE item.what = "output" /\ Draws(item.picture.c) /\ item.picture.c.kind \in {"whole", "tail"}
  <2>1. Parsed(v, item) = CommitView(drawn)
    BY <1>5 DEF Parsed, drawn
  <2>2. ~ Half(item.picture)
    BY <1>5 DEF Half
  <2> QED BY <2>1, <2>2, <1>2, <1>3, <1>5 DEF SameStream, SameCopies, WholeCopies
<1>6. CASE item.what = "frame"
           \/ (Draws(item.picture.c) /\ item.picture.c.kind \notin {"whole", "tail"})
  <2>1. Parsed(v, item) = drawn
    BY <1>6 DEF Parsed, drawn
  <2> QED BY <2>1, <1>2 DEF SameStream, SameCopies, WholeCopies
<1> QED BY <1>4, <1>5, <1>6 DEF ItemType

\* A callback commits the grid of a snapshot if it is whole.
LEMMA CallbackFacts ==
    ASSUME NEW v \in ViewType, NEW item \in ItemType,
           item.what = "frame" => v.grid = item.picture /\ v.sync = Half(item.picture)
    PROVE  LET w == Callback(v, item)
           IN  /\ w \in ViewType /\ SameStream(v, w)
               /\ WholeCopies(v) /\ item.picture.gen = v.gen => WholeCopies(w)
<1> DEFINE h == [v EXCEPT !.hydration = "complete"]
           hydrated == IF item.what # "frame" THEN v ELSE IF v.sync THEN h ELSE CommitView(h)
           heard == [hydrated EXCEPT !.received = TRUE]
           Good(w) == /\ w \in ViewType /\ SameStream(v, w)
                      /\ WholeCopies(v) /\ item.picture.gen = v.gen => WholeCopies(w)
<1>1. h \in ViewType /\ SameStream(v, h) /\ SameCopies(v, h) /\ h.grid = v.grid
  BY DEF ViewType, SameStream, SameCopies
<1>2. /\ CommitView(h) \in ViewType /\ SameStream(h, CommitView(h))
      /\ WholeCopies(h) /\ ~ Half(h.grid) /\ h.grid.gen = h.gen => WholeCopies(CommitView(h))
  <2> HIDE DEF h
  <2> QED BY <1>1, CommitViewFacts
<1>3. Good(hydrated)
  <2> HIDE DEF h
  <2>1. Good(v) /\ Good(h)
    BY <1>1 DEF SameStream, SameCopies, WholeCopies
  <2>2. CASE item.what = "frame" /\ ~ v.sync
    BY <1>1, <1>2, <2>2 DEF SameStream, SameCopies, WholeCopies
  <2> QED BY <2>1, <2>2
<1>4. ASSUME NEW w, Good(w), NEW x \in ViewType, SameStream(w, x), SameCopies(w, x) PROVE Good(x)
  BY <1>4 DEF SameStream, SameCopies, WholeCopies
<1>5. Good(heard)
  <2>1. hydrated \in ViewType
    BY <1>3
  <2> HIDE DEF hydrated
  <2>2. heard \in ViewType /\ SameStream(hydrated, heard) /\ SameCopies(hydrated, heard)
    BY <2>1 DEF ViewType, SameStream, SameCopies
  <2> HIDE DEF Good, heard
  <2> QED BY <1>3, <1>4, <2>2
<1>6. Good(Evaluate(DeferSettle(heard), Len(parser) - 1))
  <2>1. heard \in ViewType
    BY <1>5
  <2> HIDE DEF Good, heard
  <2>2. Good(DeferSettle(heard)) /\ DeferSettle(heard) \in ViewType
    BY <1>4, <1>5, <2>1, DeferSettleFacts
  <2> QED BY <1>4, <2>2, EvaluateFacts
<1>7. Good(v)
  BY DEF SameStream
<1>8. Callback(v, item) = IF item.ident # Ident(v) THEN v
                          ELSE Evaluate(DeferSettle(heard), Len(parser) - 1)
  BY DEF Callback
<1> HIDE DEF heard, Good
<1>9. Good(Callback(v, item))
  BY <1>6, <1>7, <1>8
<1> QED BY <1>9 DEF Good

----------------------------------------------------------------------------
(* Messages.                                                               *)

\* Sending adds messages behind those on the wire.
LEMMA Sending ==
    ASSUME NEW S, NEW s \in Seq(S), NEW t \in Seq(S)
    PROVE  /\ s \o t \in Seq(S)
           /\ s # <<>> => s \o t # <<>> /\ Head(s \o t) = Head(s)
           /\ \A i \in DOMAIN (s \o t) :
                 (\E j \in DOMAIN s : (s \o t)[i] = s[j]) \/ \E j \in DOMAIN t : (s \o t)[i] = t[j]
<1>1. PICK m \in Nat : m = Len(s) /\ DOMAIN s = 1..m
  BY LenProperties
<1>2. PICK n \in Nat : n = Len(t) /\ DOMAIN t = 1..n
  BY LenProperties
<1>3. /\ s \o t \in Seq(S) /\ Len(s \o t) = m + n
      /\ \A i \in 1..(m + n) : (s \o t)[i] = IF i <= m THEN s[i] ELSE t[i - m]
  BY <1>1, <1>2, ConcatProperties
<1>4. DOMAIN (s \o t) = 1..(m + n)
  BY <1>3, LenProperties
<1>5. ASSUME NEW i \in DOMAIN (s \o t)
      PROVE  (\E j \in DOMAIN s : (s \o t)[i] = s[j]) \/ \E j \in DOMAIN t : (s \o t)[i] = t[j]
  <2>1. CASE i <= m
    BY <2>1, <1>1, <1>3, <1>4
  <2>2. CASE ~ (i <= m)
    <3>1. i - m \in 1..n
      BY <2>2, <1>1, <1>2, <1>4
    <3> QED BY <2>2, <3>1, <1>2, <1>3, <1>4
  <2> QED BY <2>1, <2>2
<1>6. ASSUME s # <<>> PROVE s \o t # <<>> /\ Head(s \o t) = Head(s)
  <2>1. m # 0
    BY <1>1, <1>6, EmptySeq
  <2>2. (s \o t)[1] = s[1] /\ Len(s \o t) # 0
    BY <2>1, <1>1, <1>2, <1>3
  <2>3. s \o t # <<>>
    BY <2>2, EmptySeq
  <2> QED BY <2>2, <2>3
<1> QED BY <1>3, <1>5, <1>6

\* The tail of a sequence has its elements but the first.
LEMMA Receiving ==
    ASSUME NEW S, NEW s \in Seq(S), s # <<>>
    PROVE  /\ Head(s) \in S /\ Tail(s) \in Seq(S) /\ 1 \in DOMAIN s /\ Head(s) = s[1]
           /\ \A i \in DOMAIN Tail(s) : i + 1 \in DOMAIN s /\ Tail(s)[i] = s[i + 1]
<1>1. PICK n \in Nat : n = Len(s) /\ DOMAIN s = 1..n
  BY LenProperties
<1>2. n # 0
  BY <1>1, EmptySeq
<1>3. /\ Head(s) \in S /\ Tail(s) \in Seq(S) /\ Len(Tail(s)) = n - 1
      /\ \A i \in 1..(n - 1) : Tail(s)[i] = s[i + 1]
  BY <1>1, HeadTailProperties
<1>4. DOMAIN Tail(s) = 1..(n - 1)
  BY <1>3, LenProperties
<1>5. \A i \in 1..(n - 1) : i + 1 \in 1..n
  BY <1>2
<1> QED BY <1>1, <1>2, <1>3, <1>4, <1>5

\* A sequence of one or two messages.
LEMMA FewTyped ==
    ASSUME NEW S, NEW a \in S, NEW b \in S
    PROVE  /\ <<>> \in Seq(S) /\ <<a>> \in Seq(S) /\ <<a, b>> \in Seq(S)
           /\ DOMAIN <<>> = {} /\ DOMAIN <<a>> = {1} /\ DOMAIN <<a, b>> = {1, 2}
           /\ <<a>>[1] = a /\ <<a, b>>[1] = a /\ <<a, b>>[2] = b
OBVIOUS

\* The pictures and the coverage that the runner sends.
LEMMA RenderTyped ==
    ASSUME Typed, NEW n \in 0..Last
    PROVE  /\ Picture(n) \in PictureType /\ Picture(n).gen = host.gen
           /\ Coverage(n) \in CoverageType
<1>1. PICK last \in Nat : last = Last /\ \A m \in 1..last : ring[m] \in ChunkType
  BY LenProperties, ElementOfSeq DEF Typed, Last
<1>2. PICK m \in 0..n : m = Drawn(n)
  BY <1>1, DrawnFacts
<1>3. host.gen \in Nat /\ host.since \in Nat
  BY DEF Typed, HostType
<1>4. m \in Nat /\ (m # 0 => ring[m] \in ChunkType)
  BY <1>1, <1>2
<1>5. Picture(n) = [gen |-> host.gen, n |-> m, c |-> IF m = 0 THEN Nothing ELSE ring[m]]
  BY <1>2 DEF Picture
<1>6. (IF m = 0 THEN Nothing ELSE ring[m]) \in ChunkType
  BY <1>4, ConstantsTyped
<1>7. Picture(n) \in PictureType /\ Picture(n).gen = host.gen
  BY <1>3, <1>4, <1>5, <1>6 DEF PictureType
<1>8. Coverage(n) = Unknown \/ (m > host.since /\ Coverage(n) = Covers(m, ring[m], n))
  BY <1>2 DEF Coverage
<1>9. ASSUME m > host.since PROVE Covers(m, ring[m], n) \in CoverageType
  <2>1. ring[m] \in ChunkType
    BY <1>3, <1>4, <1>9
  <2>2. n \in Nat
    BY <1>1
  <2> QED BY <2>1, <2>2, <1>4 DEF Covers, CoverageType, ChunkType
<1> QED BY <1>7, <1>8, <1>9, ConstantsTyped

\* The chunks that the runner sends again.
LEMMA LinesTyped ==
    ASSUME Typed, NEW n \in Nat, NEW seen \in Nat
    PROVE  Lines(n, seen) \in Seq(LineType)
<1>1. PICK last \in Nat : last = Last /\ \A m \in 1..last : ring[m] \in ChunkType
  BY LenProperties, ElementOfSeq DEF Typed, Last
<1>2. PICK k \in Nat : 1..(last - n) = 1..k /\ (k = 0 \/ n + k <= last)
  <2>1. CASE n <= last
    BY <2>1
  <2>2. CASE ~ (n <= last)
    <3>1. 1..(last - n) = 1..0
      BY <2>2
    <3> QED BY <3>1
  <2> QED BY <2>1, <2>2
<1>3. ASSUME NEW i \in 1..k
      PROVE  Line(n + i, ring[n + i], ring[n + i].proof /\ n + i > seen) \in LineType
  <2>1. n + i \in 1..last
    BY <1>2
  <2>2. ring[n + i] \in ChunkType /\ n + i \in Nat
    BY <1>1, <2>1
  <2>3. ring[n + i].proof \in BOOLEAN
    BY <2>2 DEF ChunkType
  <2> QED BY <2>2, <2>3 DEF Line, LineType
<1>4. Lines(n, seen) =
         [i \in 1..k |-> Line(n + i, ring[n + i], ring[n + i].proof /\ n + i > seen)]
  BY <1>1, <1>2 DEF Lines
<1>5. Lines(n, seen) \in [1..k -> LineType]
  BY <1>3, <1>4
<1> QED BY <1>5, SeqDef

\* The answers that the runner sends are messages of its boot.
LEMMA AnswersTyped ==
    ASSUME Typed
    PROVE  /\ Begin \in BeginType /\ Begin.gen = host.gen
           /\ \A type \in {"hello", "status"} :
                 Identify(type) \in IdentityType /\ Identify(type).gen = host.gen
           /\ \A dto \in 0..Last, cov \in CoverageType, proofs \in BOOLEAN :
                 /\ Ready(dto, cov, proofs) \in ReadyType
                 /\ Ready(dto, cov, proofs).picture.gen = host.gen
<1>1. Last \in Nat /\ host \in HostType /\ host.size \in Nat
  BY LenProperties, ViewAssumption DEF Typed, Last, HostType
<1>2. Begin \in BeginType /\ Begin.gen = host.gen
  BY <1>1 DEF Begin, BeginType, HostType
<1>3. ASSUME NEW type \in {"hello", "status"}
      PROVE  Identify(type) \in IdentityType /\ Identify(type).gen = host.gen
  BY <1>1 DEF Identify, IdentityType, HostType
<1>4. ASSUME NEW dto \in 0..Last, NEW cov \in CoverageType, NEW proofs \in BOOLEAN
      PROVE  /\ Ready(dto, cov, proofs) \in ReadyType
             /\ Ready(dto, cov, proofs).picture.gen = host.gen
  <2> DEFINE flush == Lines(dto, IF host.trust = "on" THEN host.since ELSE Last)
  <2>1. flush \in Seq(LineType)
    <3>1. dto \in Nat /\ (IF host.trust = "on" THEN host.since ELSE Last) \in Nat
      BY <1>1 DEF HostType
    <3> QED BY <3>1, LinesTyped
  <2>2. Picture(dto) \in PictureType /\ Picture(dto).gen = host.gen
    BY RenderTyped
  <2>3. Ready(dto, cov, proofs) =
           [type |-> "ready", picture |-> Picture(dto), upto |-> Last, cov |-> cov,
            proofs |-> proofs, flush |-> flush, empty |-> dto = 0]
    BY DEF Ready
  <2> HIDE DEF flush
  <2>4. (dto = 0) \in BOOLEAN
    OBVIOUS
  <2> QED BY <1>1, <2>1, <2>2, <2>3, <2>4 DEF ReadyType
<1> QED BY <1>2, <1>3, <1>4

----------------------------------------------------------------------------
(* The runner and the hosted program.                                      *)

\* What the runner tells its socket keeps the invariant.
LEMMA RunnerStep ==
    ASSUME Typed, ShownInvariant, NEW said \in Seq(MessageType),
           \A i \in DOMAIN said : Of(said[i], host.gen),
           Tell(said) \/ UNCHANGED down,
           up' = up \/ (link /\ up # <<>> /\ up' = Tail(up)),
           UNCHANGED <<link, view, parser>>, host'.gen = host.gen
    PROVE  ShownInvariant' /\ down' \in Seq(MessageType) /\ up' \in Seq(RequestType)
<1>1. down \in Seq(MessageType) /\ up \in Seq(RequestType) /\ link \in BOOLEAN
  BY DEF Typed
<1>2. up' \in Seq(RequestType) /\ (~ link => up' = up)
  BY <1>1, HeadTailProperties DEF ShownInvariant, Speaks
<1>3. Knows'
  BY DEF ShownInvariant, Knows, WholeCopies, Whole, Half, GenOf
<1>4. CASE down' = down
  BY <1>1, <1>2, <1>3, <1>4 DEF ShownInvariant, Speaks
<1>5. CASE link /\ down' = down \o said
  <2>1. /\ down' \in Seq(MessageType)
        /\ down # <<>> => down' # <<>> /\ Head(down') = Head(down)
        /\ \A i \in DOMAIN down' :
              (\E j \in DOMAIN down : down'[i] = down[j]) \/ \E j \in DOMAIN said : down'[i] = said[j]
    <3>1. /\ down \o said \in Seq(MessageType)
          /\ down # <<>> => down \o said # <<>> /\ Head(down \o said) = Head(down)
          /\ \A i \in DOMAIN (down \o said) :
                \/ \E j \in DOMAIN down : (down \o said)[i] = down[j]
                \/ \E j \in DOMAIN said : (down \o said)[i] = said[j]
      BY SMTT(30), <1>1, Sending
    <3> QED BY <1>5, <3>1
  <2>2. \A i \in DOMAIN down' : Of(down'[i], host.gen)
    BY <2>1 DEF ShownInvariant, Speaks
  <2>3. Speaks'
    BY <1>5, <2>1, <2>2 DEF ShownInvariant, Speaks
  <2> QED BY <1>2, <1>3, <2>1, <2>3 DEF ShownInvariant
<1> QED BY <1>4, <1>5 DEF Tell

\* What a new frame is.
LEMMA BegunTyped ==
    ASSUME Typed
    PROVE  Begun \in ChunkType
<1>1. child \in ChildType /\ child.size \in Nat
  BY ViewAssumption DEF Typed, ChildType
<1>2. child.intent # <<>> => child.intent[1] \in IntentType
  BY <1>1 DEF ChildType, AtMostOne
<1>3. (IF child.intent # <<>> /\ (child.intent # <<>> => child.intent[1].size = child.size)
       THEN child.intent[1].rev ELSE 0) \in Nat
  BY <1>2 DEF IntentType
<1> QED BY <1>1, <1>3 DEF Begun, Chunk, ChunkType, Kinds

\* A bound that is spent.
LEMMA SpendTyped ==
    ASSUME Typed, NEW what \in {"outputs", "snapshots", "resizes", "drops", "hosts", "reporters", "peers"},
           Spend(what)
    PROVE  budget' \in Budget
<1>1. budget \in Budget /\ budget[what] \in Nat /\ budget[what] > 0
  BY DEF Typed, Budget, Spend
<1>2. budget[what] - 1 \in Nat
  BY <1>1
<1>3. \A n \in Nat : [budget EXCEPT ![what] = n] \in Budget
  BY <1>1 DEF Budget
<1> QED BY <1>2, <1>3 DEF Spend

\* A chunk is put on the ring, and on the socket of a live subscription.
LEMMA DrawStep ==
    ASSUME Typed, ShownInvariant, NEW c \in ChunkType, NEW open \in AtMostOne(ChunkType),
           Draw(c, open), budget' \in Budget, UNCHANGED <<host, link, up, view, parser, base, lost>>
    PROVE  Typed' /\ ShownInvariant'
<1> DEFINE line == Line(Last + 1, c, c.proof)
<1>1. PICK last \in Nat : last = Last
  BY LenProperties DEF Typed, Last
<1>2. line \in LineType /\ line.type = "output"
  BY <1>1 DEF Line, LineType, ChunkType
<1>3. /\ <<line>> \in Seq(MessageType)
      /\ \A i \in DOMAIN <<line>> : Of(<<line>>[i], host.gen)
  <2> HIDE DEF line
  <2> QED BY <1>2 DEF MessageType, Of
<1>4. Tell(<<line>>) \/ UNCHANGED down
  BY DEF Draw, Feed
<1>5. ShownInvariant' /\ down' \in Seq(MessageType) /\ up' \in Seq(RequestType)
  <2> HIDE DEF line
  <2> QED BY <1>3, <1>4, RunnerStep
<1>6. ring' \in Seq(ChunkType) /\ Last' = last + 1
  BY <1>1, AppendProperties DEF Draw, Feed, Typed, Last
<1>7. sub' \in SubType /\ sub'.dto = sub.dto
  BY ZenonT(40) DEF Draw, Feed, Typed, SubType, ChunkType
<1>8. child' \in ChildType
  <2>1. child \in ChildType /\ <<>> \in AtMostOne(IntentType)
    BY DEF Typed, AtMostOne
  <2> QED BY <2>1 DEF Draw, ChildType
<1> QED BY <1>1, <1>5, <1>6, <1>7, <1>8 DEF Typed

\* What the program writes is a chunk.
LEMMA OutputDraws ==
    ASSUME Typed, Output
    PROVE  \E c \in ChunkType, open \in AtMostOne(ChunkType) : Draw(c, open)
<1>1. budget.kinds \in SUBSET {"whole", "head", "safe"}
  BY DEF Typed, Budget
<1>2. /\ child.size \in Nat /\ child.open \in AtMostOne(ChunkType)
      /\ <<>> \in AtMostOne(ChunkType) /\ <<Begun>> \in AtMostOne(ChunkType)
  BY BegunTyped, ViewAssumption DEF Typed, ChildType, AtMostOne
<1>3. CASE child.open # <<>>
  <2>1. child.open[1] \in ChunkType
    BY <1>2, <1>3 DEF AtMostOne
  <2> QED BY <1>1, <1>2, <1>3, <2>1 DEF Output
<1>4. CASE child.open = <<>>
  <2>1. PICK kind \in budget.kinds :
             CASE kind = "whole" -> Draw([Begun EXCEPT !.kind = kind], <<>>)
               [] kind = "head" -> Draw(Chunk(kind, child.size, 0, FALSE), <<Begun>>)
               [] kind = "safe" -> Draw(Chunk(kind, child.size, 0, FALSE), <<>>)
    BY <1>4 DEF Output
  <2>2. CASE kind = "whole"
    <3>1. [Begun EXCEPT !.kind = kind] \in ChunkType /\ Draw([Begun EXCEPT !.kind = kind], <<>>)
      BY <2>1, <2>2, BegunTyped DEF ChunkType, Kinds
    <3> QED BY <1>1, <1>2, <3>1 DEF Output
  <2>3. CASE kind = "head"
    <3>1. Chunk(kind, child.size, 0, FALSE) \in ChunkType
      BY <1>2, <2>3 DEF Chunk, ChunkType, Kinds
    <3>2. Draw(Chunk(kind, child.size, 0, FALSE), <<Begun>>)
      BY <2>1, <2>3
    <3> QED BY <1>1, <1>2, <3>1, <3>2 DEF Output
  <2>4. CASE kind = "safe"
    <3>1. Chunk(kind, child.size, 0, FALSE) \in ChunkType
      BY <1>2, <2>4 DEF Chunk, ChunkType, Kinds
    <3>2. Draw(Chunk(kind, child.size, 0, FALSE), <<>>)
      BY <2>1, <2>4
    <3> QED BY <1>1, <1>2, <3>1, <3>2 DEF Output
  <2> QED BY <1>1, <2>2, <2>3, <2>4
<1> QED BY <1>3, <1>4

\* The program writes.
LEMMA OutputStep ==
    ASSUME Typed, ShownInvariant, Output
    PROVE  Typed' /\ ShownInvariant'
<1>1. budget' \in Budget /\ UNCHANGED <<host, link, up, view, parser, base, lost>>
  BY SpendTyped DEF Output
<1> QED BY <1>1, OutputDraws, DrawStep
\* The program notices its size, and its reporter hears of an intent.
LEMMA ChildSteps ==
    ASSUME Typed, ShownInvariant, NoticeSize \/ HearIntent
    PROVE  Typed' /\ ShownInvariant'
<1>1. child \in ChildType /\ host.size \in Sizes
  BY DEF Typed, HostType
<1>2. ASSUME NoticeSize PROVE child' \in ChildType
  BY <1>1, <1>2 DEF NoticeSize, ChildType
<1>3. ASSUME HearIntent PROVE child' \in ChildType
  <2> DEFINE open == IF child.open = <<>> THEN child.open ELSE <<[child.open[1] EXCEPT !.proof = FALSE]>>
  <2>1. child.told \in Seq(IntentType) /\ child.told # <<>>
    BY <1>1, <1>3 DEF HearIntent, ChildType
  <2>2. Tail(child.told) \in Seq(IntentType) /\ <<Head(child.told)>> \in AtMostOne(IntentType)
    BY <2>1, HeadTailProperties DEF AtMostOne
  <2>3. open \in AtMostOne(ChunkType)
    <3>1. CASE child.open = <<>>
      BY <3>1 DEF AtMostOne
    <3>2. CASE child.open # <<>>
      <4>1. child.open[1] \in ChunkType
        BY <1>1, <3>2 DEF ChildType, AtMostOne
      <4>2. [child.open[1] EXCEPT !.proof = FALSE] \in ChunkType
        BY <4>1 DEF ChunkType
      <4> QED BY <3>2, <4>2 DEF AtMostOne
    <3> QED BY <3>1, <3>2
  <2>4. child' = [child EXCEPT !.told = Tail(child.told), !.intent = <<Head(child.told)>>, !.open = open]
    BY <1>3 DEF HearIntent
  <2> HIDE DEF open
  <2> QED BY <1>1, <2>2, <2>3, <2>4 DEF ChildType
<1>4. child' \in ChildType /\ UNCHANGED <<host, ring, sub, link, up, down, view, parser, base, lost, budget>>
  BY <1>2, <1>3 DEF NoticeSize, HearIntent, wire
<1>5. Typed'
  BY <1>4 DEF Typed, Last
<1>6. ShownInvariant'
  BY <1>4 DEF ShownInvariant, Speaks, Knows, Of, WholeCopies, Whole, Half, GenOf
<1> QED BY <1>5, <1>6

\* The runner takes a size.
LEMMA ApplyResizeStep ==
    ASSUME Typed, ShownInvariant, ApplyResize
    PROVE  Typed' /\ ShownInvariant'
<1> DEFINE size == Head(up).n
           announce == size # host.size /\ host.trust = "on"
           rev == IF announce THEN host.rev + 1 ELSE host.rev
           told == IF announce THEN Append(child.told, [rev |-> host.rev + 1, size |-> size])
                   ELSE child.told
<1>1. up \in Seq(RequestType) /\ up # <<>> /\ link /\ up' = Tail(up) /\ Head(up).type = "resize"
  BY DEF ApplyResize, Reading, Typed
<1>2. size \in Sizes /\ size \in Nat
  <2>1. Head(up) \in RequestType
    BY <1>1, HeadTailProperties
  <2> QED BY <1>1, <2>1, ViewAssumption DEF RequestType
<1>3. host \in HostType /\ child \in ChildType
  BY DEF Typed
<1>4. rev \in Nat /\ host.rev + 1 \in Nat
  BY <1>3 DEF HostType
<1>5. told \in Seq(IntentType)
  <2>1. child.told \in Seq(IntentType)
    BY <1>3 DEF ChildType
  <2>2. [rev |-> host.rev + 1, size |-> size] \in IntentType
    BY <1>2, <1>4 DEF IntentType
  <2> QED BY <2>1, <2>2, AppendProperties
<1>6. host' = [host EXCEPT !.size = size, !.rev = rev] /\ child' = [child EXCEPT !.told = told]
  BY DEF ApplyResize
<1> HIDE DEF size, rev, told
<1>7. host' \in HostType /\ host'.gen = host.gen /\ host'.since = host.since
  BY <1>2, <1>3, <1>4, <1>6 DEF HostType
<1>8. child' \in ChildType
  BY <1>3, <1>5, <1>6 DEF ChildType
<1>9. UNCHANGED <<ring, sub, link, down, view, parser, base, lost, budget>>
  BY DEF ApplyResize
<1>10. ShownInvariant' /\ down' \in Seq(MessageType) /\ up' \in Seq(RequestType)
  <2>1. <<>> \in Seq(MessageType) /\ DOMAIN <<>> = {}
    OBVIOUS
  <2> QED BY <1>1, <1>7, <1>9, <2>1, RunnerStep
<1> QED BY <1>7, <1>8, <1>9, <1>10 DEF Typed, Last

\* The answer to a subscribe with a cursor.
LEMMA ReplayStep ==
    ASSUME Typed, NEW n \in Nat, Replay(n)
    PROVE  /\ sub' \in SubType /\ sub'.dto = 0 /\ base' \in Nat
           /\ \E said \in Seq(MessageType) :
                 Tell(said) /\ \A i \in DOMAIN said : Of(said[i], host.gen) /\ said[i].type # "begin"
<1> DEFINE known == host.trust = "on" /\ host.since <= n
           seen == IF known THEN n ELSE Last
           cov == IF known \/ n = Last THEN Coverage(Last) ELSE Unknown
           state == [type |-> "state", cov |-> cov]
<1>1. PICK last \in Nat : last = Last
  BY LenProperties DEF Typed, Last
<1>2. seen \in Nat
  BY <1>1
<1>3. cov \in CoverageType
  <2>1. Last \in 0..Last
    BY <1>1
  <2> QED BY <2>1, RenderTyped, ConstantsTyped
<1>4. Lines(n, seen) \in Seq(LineType)
  <2> HIDE DEF seen
  <2> QED BY <1>2, LinesTyped
<1>5. Lines(n, seen) \in Seq(MessageType) /\ <<state>> \in Seq(MessageType)
  <2>1. LineType \subseteq MessageType /\ state \in MessageType
    BY <1>3 DEF MessageType
  <2> HIDE DEF seen, state
  <2>2. Lines(n, seen) \in Seq(MessageType)
    BY <1>4, <2>1
  <2> QED BY <2>1, <2>2
<1> DEFINE said == Lines(n, seen) \o <<state>>
<1>6. said \in Seq(MessageType)
         /\ \A i \in DOMAIN said : \/ \E j \in DOMAIN Lines(n, seen) : said[i] = Lines(n, seen)[j]
                                  \/ \E j \in DOMAIN <<state>> : said[i] = <<state>>[j]
  <2> HIDE DEF seen, state
  <2> QED BY <1>5, Sending
<1>7. \A j \in DOMAIN Lines(n, seen) :
         Of(Lines(n, seen)[j], host.gen) /\ Lines(n, seen)[j].type # "begin"
  <2> HIDE DEF seen
  <2>1. \A j \in DOMAIN Lines(n, seen) : Lines(n, seen)[j] \in LineType
    BY <1>4, LenProperties, ElementOfSeq
  <2> QED BY <2>1 DEF LineType, Of
<1>8. \A j \in DOMAIN <<state>> : Of(<<state>>[j], host.gen) /\ <<state>>[j].type # "begin"
  BY DEF Of
<1>9. \A i \in DOMAIN said : Of(said[i], host.gen) /\ said[i].type # "begin"
  <2> HIDE DEF said, state, seen
  <2> QED BY <1>6, <1>7, <1>8
<1>10. Tell(said) /\ base' = seen /\ sub' = [NoSub EXCEPT !.pc = "live"]
  BY DEF Replay
<1>11. sub' \in SubType /\ sub'.dto = 0
  BY <1>10 DEF NoSub, SubType
<1> HIDE DEF said, seen
<1> QED BY <1>2, <1>6, <1>9, <1>10, <1>11

\* A subscribe is answered, or a snapshot is begun.
LEMMA HearSubscribeStep ==
    ASSUME Typed, ShownInvariant, HearSubscribe
    PROVE  Typed' /\ ShownInvariant'
<1>1. /\ up \in Seq(RequestType) /\ up # <<>> /\ link /\ up' = Tail(up)
      /\ Head(up).n \in Nat
  <2>1. up \in Seq(RequestType) /\ up # <<>> /\ link /\ up' = Tail(up)
    BY DEF HearSubscribe, Reading, Typed
  <2>2. Head(up) \in RequestType
    BY <2>1, HeadTailProperties
  <2> QED BY <2>1, <2>2, ViewAssumption DEF RequestType
<1>2. UNCHANGED <<child, host, ring, link, view, parser, lost>>
  BY DEF HearSubscribe
<1>3. /\ sub' \in SubType /\ sub'.dto \in 0..Last /\ base' \in Nat /\ budget' \in Budget
      /\ \E said \in Seq(MessageType) :
            (Tell(said) \/ UNCHANGED down) /\ \A i \in DOMAIN said : Of(said[i], host.gen)
  <2>1. <<>> \in Seq(MessageType) /\ \A i \in DOMAIN <<>> : Of(<<>>[i], host.gen)
    OBVIOUS
  <2>2. PICK last \in Nat : last = Last
    BY LenProperties DEF Typed, Last
  <2>3. CASE sub.pc \in {"capturing", "rendering"}
    <3>1. UNCHANGED <<sub, down, base, budget>>
      BY <2>3 DEF HearSubscribe
    <3> QED BY <2>1, <3>1 DEF Typed
  <2>4. CASE sub.pc \notin {"capturing", "rendering"} /\ Head(up).n # 0
    <3>1. Replay(Head(up).n) /\ UNCHANGED budget
      BY <2>4 DEF HearSubscribe
    <3> QED BY <1>1, <2>2, <3>1, ReplayStep DEF Typed
  <2>5. CASE sub.pc \notin {"capturing", "rendering"} /\ Head(up).n = 0
    <3>1. StartSnapshot
      BY <2>5 DEF HearSubscribe
    <3>2. budget' \in Budget
      BY <3>1, SpendTyped DEF StartSnapshot
    <3>3. CASE Last = 0
      <4> DEFINE ready == Ready(0, Unknown, FALSE)
                 said == <<Begin, ready>>
      <4>1. 0 \in 0..Last
        BY <2>2
      <4>2. Begin \in BeginType /\ Begin.gen = host.gen /\ ready \in ReadyType /\ ready.picture.gen = host.gen
        BY <4>1, AnswersTyped, ConstantsTyped
      <4>3. sub' = [NoSub EXCEPT !.pc = "live"] /\ Tell(said) /\ base' = 0
        BY <3>1, <3>3 DEF StartSnapshot
      <4>4. sub' \in SubType /\ sub'.dto = 0
        BY <4>3 DEF NoSub, SubType
      <4> HIDE DEF ready
      <4>5. Of(Begin, host.gen) /\ Of(ready, host.gen)
        BY <4>2 DEF Of, BeginType, ReadyType
      <4>6. said \in Seq(MessageType) /\ \A i \in DOMAIN said : Of(said[i], host.gen)
        BY <4>2, <4>5 DEF MessageType
      <4> HIDE DEF said
      <4> QED BY <3>2, <4>1, <4>3, <4>4, <4>6
    <3>4. CASE Last # 0
      <4>1. sub' = [NoSub EXCEPT !.pc = "capturing"] /\ UNCHANGED <<down, base>>
        BY <3>1, <3>4 DEF StartSnapshot
      <4>2. sub' \in SubType /\ sub'.dto = 0
        BY <4>1 DEF NoSub, SubType
      <4>3. sub'.dto \in 0..Last /\ base' \in Nat
        BY <2>2, <4>1, <4>2 DEF Typed
      <4> QED BY <2>1, <3>2, <4>1, <4>2, <4>3
    <3> QED BY <3>3, <3>4
  <2> QED BY <2>3, <2>4, <2>5
<1>4. ShownInvariant' /\ down' \in Seq(MessageType) /\ up' \in Seq(RequestType)
  BY <1>1, <1>2, <1>3, RunnerStep
<1> QED BY <1>2, <1>3, <1>4 DEF Typed, Last

\* A snapshot is captured, and finished.
LEMMA SnapshotSteps ==
    ASSUME Typed, ShownInvariant, Capture \/ FinishSnapshot
    PROVE  Typed' /\ ShownInvariant'
<1>1. PICK last \in Nat : last = Last
  BY LenProperties DEF Typed, Last
<1>2. sub \in SubType /\ sub.dto \in 0..Last /\ sub.proofs \in BOOLEAN
  BY DEF Typed, SubType
<1>3. ASSUME Capture
      PROVE  /\ sub' \in SubType /\ sub'.dto \in 0..Last /\ base' \in Nat
             /\ \E said \in Seq(MessageType) :
                   Tell(said) /\ \A i \in DOMAIN said : Of(said[i], host.gen)
  <2>1. Begin \in MessageType /\ Of(Begin, host.gen)
    BY AnswersTyped DEF MessageType, BeginType, Of
  <2>2. <<Begin>> \in Seq(MessageType) /\ \A i \in DOMAIN <<Begin>> : Of(<<Begin>>[i], host.gen)
    BY <2>1
  <2>3. sub' = [sub EXCEPT !.pc = "rendering", !.dto = Last]
    BY <1>3 DEF Capture
  <2>4. sub' \in SubType /\ sub'.dto = last
    BY <1>1, <1>2, <2>3 DEF SubType
  <2>5. sub'.dto \in 0..Last /\ base' \in Nat /\ Tell(<<Begin>>)
    BY <1>1, <1>3, <2>4 DEF Capture, Typed
  <2> QED BY <2>2, <2>4, <2>5
<1>4. ASSUME FinishSnapshot
      PROVE  /\ sub' \in SubType /\ sub'.dto \in 0..Last /\ base' \in Nat
             /\ \E said \in Seq(MessageType) :
                   Tell(said) /\ \A i \in DOMAIN said : Of(said[i], host.gen)
  <2> DEFINE cov == IF sub.reset THEN Unknown ELSE Coverage(Last)
             ready == Ready(sub.dto, cov, sub.proofs)
  <2>1. cov \in CoverageType
    <3>1. Last \in 0..Last
      BY <1>1
    <3> QED BY <3>1, RenderTyped, ConstantsTyped
  <2>2. ready \in ReadyType /\ ready.picture.gen = host.gen
    <3> HIDE DEF cov
    <3> QED BY <1>2, <2>1, AnswersTyped
  <2>3. Tell(<<ready>>) /\ sub' = [NoSub EXCEPT !.pc = "live"] /\ base' = Last
    BY <1>4 DEF FinishSnapshot
  <2>4. sub' \in SubType /\ sub'.dto = 0
    BY <2>3 DEF NoSub, SubType
  <2> HIDE DEF ready
  <2>5. ready \in MessageType /\ Of(ready, host.gen)
    BY <2>2 DEF MessageType, ReadyType, Of
  <2>6. <<ready>> \in Seq(MessageType) /\ \A i \in DOMAIN <<ready>> : Of(<<ready>>[i], host.gen)
    BY <2>5
  <2>7. sub'.dto \in 0..Last /\ base' \in Nat
    BY <1>1, <2>3, <2>4
  <2> QED BY <2>3, <2>4, <2>6, <2>7
<1>5. UNCHANGED <<child, host, ring, link, up, view, parser, lost, budget>>
  BY DEF Capture, FinishSnapshot
<1>6. ShownInvariant' /\ down' \in Seq(MessageType) /\ up' \in Seq(RequestType)
  BY <1>3, <1>4, <1>5, RunnerStep
<1> QED BY <1>3, <1>4, <1>5, <1>6 DEF Typed, Last

\* What a reporter that is gone leaves in the child.
LEMMA ChildForgets ==
    ASSUME NEW c \in ChildType
    PROVE  [c EXCEPT !.told = <<>>, !.intent = <<>>,
                     !.open = IF @ = <<>> THEN @ ELSE <<[@[1] EXCEPT !.proof = FALSE]>>] \in ChildType
<1> DEFINE open == IF c.open = <<>> THEN c.open ELSE <<[c.open[1] EXCEPT !.proof = FALSE]>>
<1>1. c.open \in AtMostOne(ChunkType) /\ <<>> \in AtMostOne(IntentType) /\ <<>> \in Seq(IntentType)
  BY DEF ChildType, AtMostOne
<1>2. open \in AtMostOne(ChunkType)
  <2>1. CASE c.open = <<>>
    BY <1>1, <2>1
  <2>2. CASE c.open # <<>>
    <3>1. c.open[1] \in ChunkType
      BY <1>1, <2>2 DEF AtMostOne
    <3>2. [c.open[1] EXCEPT !.proof = FALSE] \in ChunkType
      BY <3>1 DEF ChunkType
    <3> QED BY <2>2, <3>2 DEF AtMostOne
  <2> QED BY <2>1, <2>2
<1>3. [c EXCEPT !.told = <<>>, !.intent = <<>>, !.open = open] \in ChildType
  <2> HIDE DEF open
  <2> QED BY <1>1, <1>2 DEF ChildType
<1> QED BY <1>3

\* A reporter is enabled, lost, or replaced.
LEMMA ReporterSteps ==
    ASSUME Typed, ShownInvariant, EnableReporter \/ LoseReporter \/ ReplaceReporter
    PROVE  Typed' /\ ShownInvariant'
<1>1. PICK last \in Nat : last = Last
  BY LenProperties DEF Typed, Last
<1>2. host \in HostType /\ child \in ChildType /\ sub \in SubType /\ budget' \in Budget
  BY SpendTyped DEF Typed, EnableReporter, LoseReporter, ReplaceReporter
<1>3. <<>> \in Seq(MessageType) /\ \A i \in DOMAIN <<>> : Of(<<>>[i], host.gen)
  OBVIOUS
<1>4. ASSUME EnableReporter PROVE Typed' /\ ShownInvariant'
  <2>1. host' = [host EXCEPT !.trust = "on", !.since = Last, !.rev = 0]
        /\ UNCHANGED <<child, ring, sub, link, up, down, view, parser, base, lost>>
    BY <1>4 DEF EnableReporter, wire
  <2>2. host' \in HostType /\ host'.gen = host.gen /\ host'.since = last
    BY <1>1, <1>2, <2>1 DEF HostType
  <2>3. ShownInvariant' /\ down' \in Seq(MessageType) /\ up' \in Seq(RequestType)
    BY <1>3, <2>1, <2>2, RunnerStep
  <2> QED BY <1>1, <1>2, <2>1, <2>2, <2>3 DEF Typed, Last
<1>5. ASSUME LoseReporter PROVE Typed' /\ ShownInvariant'
  <2> DEFINE state == [type |-> "state", cov |-> Unknown]
             status == [type |-> "status", gen |-> host.gen, trust |-> "off"]
             first == IF sub.pc = "live" THEN <<state>> ELSE <<>>
             said == first \o <<status>>
  <2>1. /\ host' = [host EXCEPT !.trust = "off"]
        /\ sub' = IF sub.pc \in {"capturing", "rendering"}
                  THEN [sub EXCEPT !.reset = TRUE, !.proofs = FALSE] ELSE sub
        /\ Tell(said) /\ UNCHANGED <<ring, link, up, view, parser, base, lost>>
    BY <1>5 DEF LoseReporter
  <2>2. child' = [child EXCEPT !.told = <<>>, !.intent = <<>>,
                     !.open = IF @ = <<>> THEN @ ELSE <<[@[1] EXCEPT !.proof = FALSE]>>]
    BY <1>5 DEF LoseReporter
  <2>3. child' \in ChildType
    BY <1>2, <2>2, ChildForgets
  <2>4. host' \in HostType /\ host'.gen = host.gen /\ host'.since = host.since
    BY <1>2, <2>1 DEF HostType
  <2>5. sub' \in SubType /\ sub'.dto = sub.dto
    BY <1>2, <2>1 DEF SubType
  <2>6. state \in MessageType /\ Of(state, host.gen) /\ status \in MessageType /\ Of(status, host.gen)
    BY <1>2, ConstantsTyped DEF MessageType, IdentityType, Of, HostType
  <2> HIDE DEF state, status
  <2>7. first \in Seq(MessageType) /\ <<status>> \in Seq(MessageType)
        /\ (\A i \in DOMAIN first : Of(first[i], host.gen))
        /\ (\A i \in DOMAIN <<status>> : Of(<<status>>[i], host.gen))
    BY <2>6
  <2>8. said \in Seq(MessageType) /\ \A i \in DOMAIN said : Of(said[i], host.gen)
    <3> HIDE DEF first
    <3>1. \A i \in DOMAIN (first \o <<status>>) :
             \/ \E j \in DOMAIN first : (first \o <<status>>)[i] = first[j]
             \/ \E j \in DOMAIN <<status>> : (first \o <<status>>)[i] = <<status>>[j]
      BY <2>7, Sending
    <3>2. said \in Seq(MessageType)
      BY <2>7, Sending
    <3> QED BY <2>7, <3>1, <3>2
  <2> HIDE DEF said
  <2>9. ShownInvariant' /\ down' \in Seq(MessageType) /\ up' \in Seq(RequestType)
    BY <2>1, <2>4, <2>8, RunnerStep
  <2> QED BY <1>2, <2>1, <2>3, <2>4, <2>5, <2>9 DEF Typed, Last
<1>6. ASSUME ReplaceReporter PROVE Typed' /\ ShownInvariant'
  <2> DEFINE state == [type |-> "state", cov |-> Unknown]
             said == IF sub.pc = "live" THEN <<state>> ELSE <<>>
  <2>1. /\ host' = [host EXCEPT !.since = Last, !.rev = 0]
        /\ sub' = IF sub.pc \in {"capturing", "rendering"}
                  THEN [sub EXCEPT !.reset = TRUE, !.proofs = FALSE] ELSE sub
        /\ Tell(said) /\ UNCHANGED <<ring, link, up, view, parser, base, lost>>
    BY <1>6 DEF ReplaceReporter
  <2>2. child' = [child EXCEPT !.told = <<>>, !.intent = <<>>,
                     !.open = IF @ = <<>> THEN @ ELSE <<[@[1] EXCEPT !.proof = FALSE]>>]
    BY <1>6 DEF ReplaceReporter
  <2>3. child' \in ChildType
    BY <1>2, <2>2, ChildForgets
  <2>4. host' \in HostType /\ host'.gen = host.gen /\ host'.since = last
    BY <1>1, <1>2, <2>1 DEF HostType
  <2>5. sub' \in SubType /\ sub'.dto = sub.dto
    BY <1>2, <2>1 DEF SubType
  <2>6. state \in MessageType /\ Of(state, host.gen)
    BY <1>2, ConstantsTyped DEF MessageType, IdentityType, Of, HostType
  <2> HIDE DEF state
  <2>7. said \in Seq(MessageType) /\ \A i \in DOMAIN said : Of(said[i], host.gen)
    BY <2>6
  <2> HIDE DEF said
  <2>8. ShownInvariant' /\ down' \in Seq(MessageType) /\ up' \in Seq(RequestType)
    BY <2>1, <2>4, <2>7, RunnerStep
  <2> QED BY <1>1, <1>2, <2>1, <2>3, <2>4, <2>5, <2>8 DEF Typed, Last
<1> QED BY <1>4, <1>5, <1>6

\* Another socket connects.
LEMMA PeerStep ==
    ASSUME Typed, ShownInvariant, PeerConnects
    PROVE  Typed' /\ ShownInvariant'
<1>1. budget' \in Budget /\ Tell(<<Identify("status")>>)
      /\ UNCHANGED <<child, host, ring, sub, link, up, view, parser, base, lost>>
  BY SpendTyped DEF PeerConnects
<1>2. Identify("status") \in MessageType /\ Of(Identify("status"), host.gen)
  BY AnswersTyped DEF MessageType, Of, IdentityType
<1>3. <<Identify("status")>> \in Seq(MessageType)
      /\ \A i \in DOMAIN <<Identify("status")>> : Of(<<Identify("status")>>[i], host.gen)
  BY <1>2
<1>4. ShownInvariant' /\ down' \in Seq(MessageType) /\ up' \in Seq(RequestType)
  BY <1>1, <1>3, RunnerStep
<1> QED BY <1>1, <1>4 DEF Typed, Last

----------------------------------------------------------------------------
(* The view's socket.                                                      *)

\* A new socket greets; what was shown is kept for its answer.
LEMMA ConnectStep ==
    ASSUME Typed, ShownInvariant, Connect
    PROVE  Typed' /\ ShownInvariant'
<1> DEFINE probing == view.client = "probing"
           c == CaptureRecovery(view)
           v == [c EXCEPT !.conn = @ + 1, !.committed = <<>>, !.wire = 0,
                          !.gate = TRUE, !.hard = Attaching(view)]
           w == [v EXCEPT !.client = IF probing THEN @ ELSE "reconciling"]
<1>1. c \in ViewType /\ SameStream(view, c) /\ WholeCopies(c)
  BY CaptureRecoveryFacts DEF Typed, ShownInvariant, Knows
<1>2. /\ v \in ViewType /\ v.gen = view.gen /\ v.wire = 0 /\ v.committed = <<>>
      /\ v.recovery = c.recovery /\ v.client = view.client
  <2> HIDE DEF c
  <2>1. c.conn + 1 \in Nat /\ Attaching(view) \in BOOLEAN
    BY <1>1 DEF ViewType, Attaching
  <2>2. ASSUME NEW n \in Nat, NEW x \in AtMostOne(CopyType), NEW b \in BOOLEAN
        PROVE  [c EXCEPT !.conn = n, !.committed = x, !.wire = 0, !.gate = TRUE, !.hard = b] \in ViewType
    <3>1. [c EXCEPT !.conn = n, !.committed = x] \in ViewType
      BY <1>1 DEF ViewType
    <3>2. ASSUME NEW d \in ViewType PROVE [d EXCEPT !.wire = 0, !.gate = TRUE] \in ViewType
      BY DEF ViewType
    <3>3. ASSUME NEW d \in ViewType PROVE [d EXCEPT !.hard = b] \in ViewType
      BY DEF ViewType
    <3> QED BY <3>1, <3>2, <3>3
  <2>3. v \in ViewType
    BY <2>1, <2>2, ConstantsTyped
  <2> QED BY <1>1, <2>3 DEF ViewType, SameStream
<1>3. w \in ViewType /\ w.gen = view.gen /\ w.wire = 0 /\ w.committed = <<>> /\ w.recovery = c.recovery
  <2> HIDE DEF v, c
  <2> QED BY <1>2 DEF ViewType
<1>4. view' = DeferSettle(w) /\ link' = TRUE /\ down' = <<Identify("hello")>>
      /\ up' = IF probing THEN <<Subscribe(0)>> ELSE <<>>
  BY DEF Connect
<1>5. UNCHANGED <<child, host, ring, sub, parser, base, lost, budget>> /\ parser = <<>>
  BY DEF Connect
<1> HIDE DEF w, v
<1>6. /\ view' \in ViewType /\ view'.gen = view.gen /\ view'.wire = 0
      /\ view'.committed = <<>> /\ view'.recovery = c.recovery
  BY <1>3, <1>4, DeferSettleFacts DEF SameStream, SameCopies
<1>7. Identify("hello") \in MessageType /\ Of(Identify("hello"), host.gen)
      /\ Identify("hello").type = "hello"
  BY AnswersTyped DEF MessageType, Of, IdentityType, Identify
<1>8. down' \in Seq(MessageType) /\ down' # <<>> /\ Head(down') = Identify("hello")
      /\ \A i \in DOMAIN down' : Of(down'[i], host.gen)
  BY <1>4, <1>7
<1>9. up' \in Seq(RequestType)
  <2>1. Subscribe(0) \in RequestType
    BY DEF Subscribe, RequestType
  <2> QED BY <1>4, <2>1
<1>10. Speaks'
  BY <1>4, <1>5, <1>6, <1>7, <1>8 DEF Speaks
<1>11. Knows'
  BY <1>1, <1>5, <1>6, ConstantsTyped DEF ShownInvariant, Knows, WholeCopies, Whole, Half, GenOf
<1> QED BY <1>4, <1>5, <1>6, <1>8, <1>9, <1>10, <1>11 DEF Typed, Last, ShownInvariant

\* A socket is lost, with what is on it, and a host maybe replaced.
LEMMA DisconnectSteps ==
    ASSUME Typed, ShownInvariant, DropLink \/ ReplaceHost
    PROVE  Typed' /\ ShownInvariant'
<1>1. /\ link' = FALSE /\ up' = <<>> /\ down' = <<>> /\ sub' = NoSub
      /\ view' = CaptureRecovery(view) /\ lost' \in BOOLEAN /\ UNCHANGED parser
  BY DEF DropLink, ReplaceHost, Disconnect
<1>2. /\ view' \in ViewType /\ SameStream(view, view') /\ view'.committed = view.committed
      /\ WholeCopies(view')
  BY <1>1, CaptureRecoveryFacts DEF Typed, ShownInvariant, Knows
<1>3. PICK last \in Nat : last = Last
  BY LenProperties DEF Typed, Last
<1>4. sub' \in SubType /\ sub'.dto = 0 /\ down' \in Seq(MessageType) /\ up' \in Seq(RequestType)
  BY <1>1 DEF NoSub, SubType
<1>5. budget' \in Budget
  BY SpendTyped DEF DropLink, ReplaceHost
<1>6. /\ child' \in ChildType /\ host' \in HostType /\ host'.gen >= host.gen
      /\ ring' \in Seq(ChunkType) /\ host'.since \in 0..Last' /\ base' \in Nat
  <2>1. CASE DropLink
    BY <1>3, <2>1 DEF DropLink, Typed, Last, HostType
  <2>2. CASE ReplaceHost
    <3>1. PICK size \in Sizes, trust \in {"none", "on"} :
             /\ host' = [gen |-> host.gen + 1, size |-> size, trust |-> trust, since |-> 0, rev |-> 0]
             /\ child' = [size |-> size, told |-> <<>>, intent |-> <<>>, open |-> <<>>]
      BY <2>2 DEF ReplaceHost
    <3>2. host.gen \in Nat \ {0} /\ ring' = <<>> /\ base' = 0
      BY <2>2 DEF ReplaceHost, Typed, HostType
    <3>3. host' \in HostType /\ host'.gen >= host.gen /\ host'.since = 0
      BY <3>1, <3>2 DEF HostType
    <3>4. child' \in ChildType
      BY <3>1 DEF ChildType, AtMostOne
    <3> QED BY <3>2, <3>3, <3>4 DEF Last
  <2> QED BY <2>1, <2>2
<1>7. sub'.dto \in 0..Last'
  <2>1. Last' \in Nat
    BY <1>6, LenProperties DEF Last
  <2> QED BY <1>4, <2>1
<1>8. Typed'
  BY <1>1, <1>2, <1>4, <1>5, <1>6, <1>7 DEF Typed
<1>9. Speaks'
  BY <1>1 DEF Speaks
<1>10. Knows'
  <2>1. view'.gen <= host'.gen
    <3>1. view.gen \in Nat /\ host.gen \in Nat
      BY DEF Typed, ViewType, HostType
    <3>2. host'.gen \in Nat
      BY <1>6 DEF HostType
    <3>3. view.gen <= host.gen /\ view'.gen = view.gen
      BY <1>2 DEF ShownInvariant, Knows, SameStream
    <3> QED BY <1>6, <3>1, <3>2, <3>3
  <2> QED BY <1>1, <1>2, <2>1 DEF ShownInvariant, Knows, SameStream, WholeCopies, Whole, Half, GenOf
<1> QED BY <1>8, <1>9, <1>10 DEF ShownInvariant

----------------------------------------------------------------------------
(* What the view hears.                                                    *)

\* A message is taken off the wire.
LEMMA HearingFacts ==
    ASSUME Typed, ShownInvariant, link, down # <<>>
    PROVE  /\ Head(down) \in MessageType /\ Of(Head(down), host.gen) /\ Tail(down) \in Seq(MessageType)
           /\ \A i \in DOMAIN Tail(down) : Of(Tail(down)[i], host.gen)
           /\ Head(down).type # "hello" => view.wire = host.gen /\ view.gen = host.gen
           /\ view.wire \in {0, host.gen} /\ host.gen # 0
           /\ view.wire = host.gen => view.gen = host.gen
<1>1. /\ Head(down) \in MessageType /\ Tail(down) \in Seq(MessageType)
      /\ 1 \in DOMAIN down /\ Head(down) = down[1]
      /\ \A i \in DOMAIN Tail(down) : i + 1 \in DOMAIN down /\ Tail(down)[i] = down[i + 1]
  BY Receiving DEF Typed
<1>2. Of(Head(down), host.gen) /\ \A i \in DOMAIN Tail(down) : Of(Tail(down)[i], host.gen)
  BY <1>1 DEF ShownInvariant, Speaks
<1>3. host.gen # 0
  BY DEF Typed, HostType
<1> QED BY <1>1, <1>2, <1>3 DEF ShownInvariant, Speaks, Knows

\* What the view hears keeps the invariant.
LEMMA HeardStep ==
    ASSUME Typed, ShownInvariant, link, down # <<>>,
           view.wire = host.gen \/ (parser = <<>> /\ view.committed = <<>>),
           UNCHANGED <<child, host, ring, sub, link>>,
           down' \in Seq(MessageType), \A i \in DOMAIN down' : Of(down'[i], host.gen),
           view' \in ViewType, view'.gen = host.gen, view'.wire = host.gen, WholeCopies(view'),
           parser' \in Seq(ItemType),
           \A i \in DOMAIN parser' : parser'[i].picture.gen = host.gen,
           up' \in Seq(RequestType), base' \in Nat, lost' \in BOOLEAN, UNCHANGED budget
    PROVE  Typed' /\ ShownInvariant'
<1>1. Typed'
  BY DEF Typed, Last
<1>2. host.gen \in Nat \ {0}
  BY DEF Typed, HostType
<1>3. Speaks'
  BY <1>2 DEF Speaks
<1>4. Knows'
  BY <1>2 DEF Knows, WholeCopies, Whole, Half, GenOf
<1> QED BY <1>1, <1>3, <1>4 DEF ShownInvariant

\* The writes that wait for the terminal, while a runner is known.
LEMMA ParserKept ==
    ASSUME Typed, ShownInvariant, link, down # <<>>
    PROVE  /\ parser \in Seq(ItemType)
           /\ \A i \in DOMAIN parser : parser[i].picture.gen = host.gen
           /\ view.wire = host.gen \/ (parser = <<>> /\ view.committed = <<>>)
<1>1. parser \in Seq(ItemType)
  BY DEF Typed
<1>2. CASE view.wire = host.gen
  BY <1>1, <1>2, HearingFacts DEF ShownInvariant, Knows
<1>3. CASE view.wire # host.gen
  <2>1. parser = <<>> /\ view.committed = <<>>
    BY <1>3, HearingFacts DEF ShownInvariant, Knows
  <2>2. DOMAIN parser = {}
    BY <2>1
  <2> QED BY <1>1, <2>1, <2>2
<1> QED BY <1>2, <1>3

\* Requests are added behind others.
LEMMA AskTyped ==
    ASSUME up \in Seq(RequestType), NEW said \in Seq(RequestType), Ask(said)
    PROVE  up' \in Seq(RequestType)
BY ConcatProperties DEF Ask

\* The requests of the view.
LEMMA RequestsTyped ==
    /\ \A n \in Nat : <<Subscribe(n)>> \in Seq(RequestType)
    /\ \A size \in Sizes : <<Resize(size)>> \in Seq(RequestType)
    /\ <<>> \in Seq(RequestType)
<1>1. ASSUME NEW n \in Nat PROVE <<Subscribe(n)>> \in Seq(RequestType)
  <2>1. Subscribe(n) \in RequestType
    BY DEF Subscribe, RequestType
  <2> QED BY <2>1
<1>2. ASSUME NEW size \in Sizes PROVE <<Resize(size)>> \in Seq(RequestType)
  <2>1. Resize(size) \in RequestType
    BY DEF Resize, RequestType
  <2> QED BY <2>1
<1> QED BY <1>1, <1>2

\* Copies that are still there are as they were.
LEMMA FewerCopies ==
    ASSUME NEW v, NEW w, WholeCopies(v),
           w.committed \in {v.committed, <<>>}, w.recovery \in {v.recovery, <<>>}
    PROVE  WholeCopies(w)
BY ConstantsTyped DEF WholeCopies

\* Another runner starts the view's stream over.
LEMMA EpochResetFacts ==
    ASSUME NEW v \in ViewType
    PROVE  LET w == EpochReset(v)
           IN  /\ w \in ViewType /\ w.client = v.client /\ w.seq = 0 /\ w.size = v.size
               /\ w.gen = v.gen /\ w.wire = v.wire /\ WholeCopies(w)
<1> DEFINE z == [v EXCEPT !.seq = 0]
           f == Forget(z)
<1>1. /\ z \in ViewType /\ z.client = v.client /\ z.seq = 0 /\ z.size = v.size
      /\ z.gen = v.gen /\ z.wire = v.wire
  BY DEF ViewType
<1>2. EpochReset(v) = Invalidate(f)
  BY DEF EpochReset
<1> HIDE DEF z
<1>3. f \in ViewType /\ SameStream(z, f) /\ WholeCopies(f)
  BY <1>1, ForgetFacts
<1> HIDE DEF f
<1> QED BY <1>1, <1>2, <1>3, InvalidateFacts DEF SameStream, SameCopies, WholeCopies

\* The view hears who answers.
LEMMA IdentitySteps ==
    ASSUME Typed, ShownInvariant, HearStatus \/ HearHello
    PROVE  Typed' /\ ShownInvariant'
<1>1. /\ link /\ down # <<>> /\ down' = Tail(down) /\ Head(down).type \in {"hello", "status"}
      /\ UNCHANGED <<child, host, ring, sub, link, parser, lost, budget>>
  BY DEF HearStatus, HearHello, Hearing
<1>2. /\ Head(down) \in IdentityType /\ Head(down).gen = host.gen
      /\ down' \in Seq(MessageType) /\ \A i \in DOMAIN down' : Of(down'[i], host.gen)
  BY <1>1, HearingFacts DEF MessageType, Of, BeginType, ReadyType, LineType
<1>3. /\ parser' \in Seq(ItemType)
      /\ \A i \in DOMAIN parser' : parser'[i].picture.gen = host.gen
      /\ view.wire = host.gen \/ (parser = <<>> /\ view.committed = <<>>)
  BY <1>1, ParserKept
<1>4. view \in ViewType /\ WholeCopies(view) /\ base \in Nat /\ lost \in BOOLEAN /\ Last \in Nat
      /\ up \in Seq(RequestType)
  BY LenProperties DEF Typed, ShownInvariant, Knows, Last
<1>5. ASSUME NEW late \in BOOLEAN
      PROVE  LET w == Identified(view, Head(down), late)
             IN  w \in ViewType /\ w.gen = host.gen /\ w.wire = host.gen /\ WholeCopies(w)
  <2>1. LET w == Identified(view, Head(down), late)
        IN  /\ w \in ViewType /\ w.gen = host.gen /\ w.wire = host.gen
            /\ w.committed \in {view.committed, <<>>} /\ w.recovery \in {view.recovery, <<>>}
    BY <1>2, <1>4, IdentifiedFacts
  <2> QED BY <1>4, <2>1, FewerCopies
<1>6. CASE HearStatus
  <2>1. PICK late \in BOOLEAN : view' = Identified(view, Head(down), late)
    BY <1>6 DEF HearStatus
  <2>2. UNCHANGED up /\ base' \in Nat
    BY <1>4, <1>6 DEF HearStatus
  <2> QED BY <1>1, <1>2, <1>3, <1>4, <1>5, <2>1, <2>2, HeardStep
<1>7. CASE HearHello
  <2>1. PICK late \in BOOLEAN :
          LET msg == Head(down)
              v == Identified(view, msg, late)
              next == IF msg.gen # view.gen THEN EpochReset(v) ELSE v
          IN  IF view.client # "reconciling" THEN view' = v /\ UNCHANGED up
              ELSE /\ view' = [next EXCEPT !.client = "resyncing"]
                   /\ Ask(<<Subscribe(next.seq)>>)
    BY <1>7 DEF HearHello
  <2> DEFINE v == Identified(view, Head(down), late)
             reset == EpochReset(v)
             next == IF Head(down).gen # view.gen THEN reset ELSE v
  <2>2. v \in ViewType /\ v.gen = host.gen /\ v.wire = host.gen /\ WholeCopies(v)
    BY <1>5
  <2>4. reset \in ViewType /\ reset.gen = host.gen /\ reset.wire = host.gen /\ WholeCopies(reset)
    <3> HIDE DEF v
    <3> QED BY <2>2, EpochResetFacts
  <2> HIDE DEF v, reset
  <2>5. next \in ViewType /\ next.gen = host.gen /\ next.wire = host.gen /\ WholeCopies(next)
    BY <2>2, <2>4
  <2>6. next.seq \in Nat
    BY <2>5 DEF ViewType
  <2>7. LET w == [next EXCEPT !.client = "resyncing"]
        IN  w \in ViewType /\ w.gen = host.gen /\ w.wire = host.gen /\ WholeCopies(w)
    <3> HIDE DEF next
    <3>1. LET w == [next EXCEPT !.client = "resyncing"]
          IN  w \in ViewType /\ w.gen = next.gen /\ w.wire = next.wire /\ SameCopies(next, w)
      BY <2>5 DEF ViewType, SameCopies
    <3> QED BY <2>5, <3>1 DEF SameCopies, WholeCopies
  <2>8. \/ view' = v /\ UNCHANGED up
        \/ view' = [next EXCEPT !.client = "resyncing"] /\ Ask(<<Subscribe(next.seq)>>)
    BY <2>1 DEF v, reset
  <2> HIDE DEF next
  <2>9. view' \in ViewType /\ view'.gen = host.gen /\ view'.wire = host.gen /\ WholeCopies(view')
    BY <2>2, <2>7, <2>8
  <2>10. up' \in Seq(RequestType)
    BY <1>4, <2>6, <2>8, AskTyped, RequestsTyped
  <2>11. UNCHANGED base
    BY <1>7 DEF HearHello
  <2> QED BY <1>1, <1>2, <1>3, <1>4, <2>9, <2>10, <2>11, HeardStep
<1> QED BY <1>6, <1>7

\* The view hears that a snapshot begins.
LEMMA HearBeginStep ==
    ASSUME Typed, ShownInvariant, HearBegin
    PROVE  Typed' /\ ShownInvariant' /\ view'.size = view.size /\ view'.client = "collecting"
<1> DEFINE msg == Head(down)
           settle == IF view.protocol \/ ~ view.trusted THEN view.settle ELSE FALSE
           opts == [view EXCEPT !.client = "collecting", !.protocol = TRUE, !.gen = msg.gen,
                                !.settle = settle]
           gone == [Forget(opts) EXCEPT !.gate = TRUE]
           fresh == IF msg.empty THEN Invalidate(gone)
                    ELSE IF OfAnother(msg.gen, view.committed) \/ OfAnother(msg.gen, view.recovery)
                    THEN Invalidate(Forget(opts)) ELSE opts
           Good(w) == w \in ViewType /\ w.gen = host.gen /\ w.wire = host.gen /\ WholeCopies(w)
                      /\ w.size = view.size /\ w.client = "collecting"
<1>1. /\ link /\ down # <<>> /\ down' = Tail(down) /\ msg.type = "begin"
      /\ lost' = FALSE /\ UNCHANGED <<child, host, ring, sub, link, parser, base, budget>>
  BY DEF HearBegin, Hearing
<1>2. /\ msg.gen = host.gen /\ view.wire = host.gen /\ host.gen \in Nat
      /\ down' \in Seq(MessageType) /\ \A i \in DOMAIN down' : Of(down'[i], host.gen)
  BY <1>1, HearingFacts DEF Of, Typed, HostType
<1>3. view \in ViewType /\ WholeCopies(view) /\ base \in Nat /\ up \in Seq(RequestType)
  BY DEF Typed, ShownInvariant, Knows
<1>4. Good(opts)
  <2>1. settle \in BOOLEAN
    BY <1>3 DEF ViewType
  <2>2. ASSUME NEW n \in Nat, NEW b \in BOOLEAN
        PROVE  LET w == [view EXCEPT !.client = "collecting", !.protocol = TRUE, !.gen = n, !.settle = b]
               IN  w \in ViewType /\ w.gen = n /\ w.wire = view.wire /\ SameCopies(view, w)
                   /\ w.size = view.size /\ w.client = "collecting"
    <3>1. [view EXCEPT !.client = "collecting", !.protocol = TRUE] \in ViewType
      BY <1>3 DEF ViewType
    <3>2. ASSUME NEW v \in ViewType PROVE [v EXCEPT !.gen = n, !.settle = b] \in ViewType
      BY DEF ViewType
    <3>3. [view EXCEPT !.client = "collecting", !.protocol = TRUE, !.gen = n, !.settle = b] \in ViewType
      BY <3>1, <3>2
    <3> QED BY <1>3, <3>3 DEF ViewType, SameCopies
  <2> HIDE DEF settle, msg
  <2> QED BY <1>2, <1>3, <2>1, <2>2 DEF SameCopies, WholeCopies
<1>5. Good(Forget(opts)) /\ Good(gone)
  <2>1. opts \in ViewType
    BY <1>4
  <2> HIDE DEF opts
  <2>2. Good(Forget(opts))
    BY <1>4, <2>1, ForgetFacts DEF SameStream
  <2>3. gone \in ViewType /\ SameStream(Forget(opts), gone) /\ SameCopies(Forget(opts), gone)
    BY <2>2 DEF ViewType, SameStream, SameCopies
  <2> QED BY <2>2, <2>3 DEF SameStream, SameCopies, WholeCopies
<1>6. ASSUME NEW w, Good(w) PROVE Good(Invalidate(w)) /\ Good(NoteGeometryIntent(w))
  <2>1. Good(Invalidate(w))
    BY <1>6, InvalidateFacts DEF SameStream, SameCopies, WholeCopies
  <2>2. Good(NoteGeometryIntent(w))
    BY <1>6, NoteGeometryFacts DEF SameStream
  <2> QED BY <2>1, <2>2
<1>7. Good(fresh)
  <2> HIDE DEF opts, gone, Good
  <2> QED BY <1>4, <1>5, <1>6
<1>8. \/ view' = fresh /\ UNCHANGED up
      \/ view' = NoteGeometryIntent(fresh) /\ Ask(<<Resize(view.size)>>)
  BY DEF HearBegin
<1> HIDE DEF fresh
<1>9. Good(view')
  <2> HIDE DEF Good
  <2> QED BY <1>6, <1>7, <1>8
<1>10. up' \in Seq(RequestType)
  <2>1. view.size \in Sizes
    BY <1>3 DEF ViewType
  <2> QED BY <1>3, <1>8, <2>1, AskTyped, RequestsTyped
<1>11. /\ parser' \in Seq(ItemType)
       /\ \A i \in DOMAIN parser' : parser'[i].picture.gen = host.gen
  BY <1>1, ParserKept
<1> QED BY <1>1, <1>2, <1>3, <1>9, <1>10, <1>11, HeardStep

\* The view hears a frame: its terminal is new.
LEMMA HearReadyStep ==
    ASSUME Typed, ShownInvariant, HearReady
    PROVE  Typed' /\ ShownInvariant' /\ view'.size = view.size /\ view'.client = "live"
<1> DEFINE msg == Head(down)
           old == ReplaceParser(view)
           v == Adopt(old, msg)
           asks == v.asked /\ ~ view.asked
           flush == IF asks THEN <<>> ELSE msg.flush
           noted == NoteOutput(v, {flush[i].c : i \in DOMAIN flush})
           frame == IF msg.empty THEN <<>> ELSE <<Item("frame", v, msg.picture)>>
           items == [i \in DOMAIN flush |-> OutputItem(v, flush[i].n, flush[i].c)]
<1>1. /\ link /\ down # <<>> /\ down' = Tail(down) /\ msg.type = "ready"
      /\ UNCHANGED <<child, host, ring, sub, link, base, lost, budget>>
      /\ view' = [noted EXCEPT !.client = "live", !.seq = msg.upto,
                               !.torn = asks /\ msg.flush # <<>>]
      /\ parser' = frame \o items
      /\ Ask(IF asks THEN <<Subscribe(0)>> ELSE <<>>)
  BY DEF HearReady, Hearing
<1>2. /\ Head(down) \in MessageType /\ Of(Head(down), host.gen)
      /\ view.wire = host.gen /\ view.gen = host.gen
      /\ down' \in Seq(MessageType) /\ \A i \in DOMAIN down' : Of(down'[i], host.gen)
  BY <1>1, HearingFacts
<1>3. msg \in ReadyType /\ msg.picture.gen = host.gen
  BY <1>1, <1>2 DEF MessageType, Of, IdentityType, BeginType, LineType
<1>4. /\ msg.flush \in Seq(LineType) /\ msg.upto \in Nat /\ msg.picture \in PictureType
      /\ host.gen \in Nat
  BY <1>3 DEF ReadyType, Typed, HostType
<1>5. view \in ViewType /\ WholeCopies(view) /\ base \in Nat /\ lost \in BOOLEAN
      /\ up \in Seq(RequestType)
  BY DEF Typed, ShownInvariant, Knows
<1>6. old \in ViewType /\ SameStream(view, old) /\ WholeCopies(old)
  BY <1>5, ReplaceParserFacts
<1> HIDE DEF old, msg
<1>7. v \in ViewType /\ SameStream(old, v) /\ WholeCopies(v)
  BY <1>3, <1>6, AdoptFacts
<1>8. v.gen = host.gen /\ v.wire = host.gen
  BY <1>2, <1>6, <1>7 DEF SameStream
<1> HIDE DEF v
<1>9. noted \in ViewType /\ SameStream(v, noted) /\ SameCopies(v, noted)
  BY <1>7, NoteOutputFacts
<1>10. (asks /\ msg.flush # <<>>) \in BOOLEAN
  BY <1>5, <1>7 DEF ViewType
<1>11. /\ view' \in ViewType /\ view'.gen = host.gen /\ view'.wire = host.gen
       /\ WholeCopies(view') /\ view'.size = view.size /\ view'.client = "live"
  <2> HIDE DEF noted, asks
  <2>1. ASSUME NEW n \in Nat, NEW b \in BOOLEAN
        PROVE  LET w == [noted EXCEPT !.client = "live", !.seq = n, !.torn = b]
               IN  /\ w \in ViewType /\ w.gen = noted.gen /\ w.wire = noted.wire
                   /\ SameCopies(noted, w) /\ w.size = noted.size /\ w.client = "live"
    <3>1. [noted EXCEPT !.client = "live", !.seq = n] \in ViewType
      BY <1>9 DEF ViewType
    <3>2. ASSUME NEW z \in ViewType PROVE [z EXCEPT !.torn = b] \in ViewType
      BY DEF ViewType
    <3>3. [noted EXCEPT !.client = "live", !.seq = n, !.torn = b] \in ViewType
      BY <3>1, <3>2
    <3> QED BY <1>9, <3>3 DEF ViewType, SameCopies
  <2> QED BY ZenonT(40), <1>1, <1>4, <1>6, <1>7, <1>8, <1>9, <1>10, <2>1
             DEF SameStream, SameCopies, WholeCopies
<1>12. flush \in Seq(LineType)
  BY <1>4
<1>13. frame \in Seq(ItemType) /\ \A i \in DOMAIN frame : frame[i].picture.gen = host.gen
  <2>1. Item("frame", v, msg.picture) \in ItemType
    BY <1>4, <1>7, IdentTyped DEF Item, ItemType
  <2>2. Item("frame", v, msg.picture).picture.gen = host.gen
    BY <1>3 DEF Item
  <2> QED BY <2>1, <2>2
<1>14. items \in Seq(ItemType) /\ \A i \in DOMAIN items : items[i].picture.gen = host.gen
  <2> HIDE DEF flush
  <2>1. PICK k \in Nat : DOMAIN flush = 1..k
    BY <1>12, LenProperties
  <2>2. \A i \in 1..k : flush[i] \in LineType
    BY <1>12, <2>1, LenProperties, ElementOfSeq
  <2>3. ASSUME NEW i \in 1..k
        PROVE  /\ OutputItem(v, flush[i].n, flush[i].c) \in ItemType
               /\ OutputItem(v, flush[i].n, flush[i].c).picture.gen = host.gen
    <3>1. flush[i].n \in Nat /\ flush[i].c \in ChunkType
      BY <2>2 DEF LineType
    <3> QED BY <1>4, <1>7, <1>8, <3>1, IdentTyped DEF OutputItem, Item, ItemType, PictureType
  <2>4. items \in [1..k -> ItemType] /\ \A i \in 1..k : items[i].picture.gen = host.gen
    BY <2>1, <2>3
  <2>5. DOMAIN items = 1..k
    BY <2>1
  <2> HIDE DEF items
  <2> QED BY <2>4, <2>5, SeqDef
<1>15. parser' \in Seq(ItemType) /\ \A i \in DOMAIN parser' : parser'[i].picture.gen = host.gen
  <2> HIDE DEF frame, items
  <2>1. \A i \in DOMAIN (frame \o items) :
           \/ \E j \in DOMAIN frame : (frame \o items)[i] = frame[j]
           \/ \E j \in DOMAIN items : (frame \o items)[i] = items[j]
    BY <1>13, <1>14, Sending
  <2>2. frame \o items \in Seq(ItemType)
    BY <1>13, <1>14, Sending
  <2> QED BY <1>1, <1>13, <1>14, <2>1, <2>2
<1>16. up' \in Seq(RequestType)
  BY <1>1, <1>5, AskTyped, RequestsTyped
<1> QED BY <1>1, <1>2, <1>5, <1>11, <1>15, <1>16, HeardStep

\* The view asks again.
LEMMA AskAgainStep ==
    ASSUME Typed, ShownInvariant, link, down # <<>>, Head(down).type # "hello",
           down' \in Seq(MessageType), \A i \in DOMAIN down' : Of(down'[i], host.gen),
           NEW v \in ViewType, SameCopies(view, v), v.gen = host.gen, v.wire = view.wire,
           AskAgain(v)
    PROVE  Typed' /\ ShownInvariant'
<1>1. /\ view' = [v EXCEPT !.client = "resyncing"] /\ Ask(<<Subscribe(0)>>)
      /\ UNCHANGED <<child, host, ring, sub, link, parser, base, lost, budget>>
  BY DEF AskAgain
<1>2. view.wire = host.gen /\ WholeCopies(view) /\ base \in Nat /\ lost \in BOOLEAN
      /\ up \in Seq(RequestType)
  BY HearingFacts DEF ShownInvariant, Knows, Typed
<1>3. view' \in ViewType /\ view'.gen = v.gen /\ view'.wire = v.wire /\ SameCopies(v, view')
  BY <1>1 DEF ViewType, SameCopies
<1>4. WholeCopies(view')
  BY <1>2, <1>3 DEF SameCopies, WholeCopies
<1>5. up' \in Seq(RequestType)
  BY <1>1, <1>2, AskTyped, RequestsTyped
<1>6. /\ parser' \in Seq(ItemType)
      /\ \A i \in DOMAIN parser' : parser'[i].picture.gen = host.gen
  BY <1>1, ParserKept
<1> QED BY <1>1, <1>2, <1>3, <1>4, <1>5, <1>6, HeardStep

\* It rejects a snapshot that it has asked for and forgotten.
LEMMA RejectSteps ==
    ASSUME Typed, ShownInvariant, RejectBegin \/ RejectFrame \/ RejectEnd
    PROVE  Typed' /\ ShownInvariant'
<1>1. link /\ down # <<>>
  BY DEF RejectBegin, RejectFrame, RejectEnd, Hearing
<1>2. /\ Head(down) \in MessageType /\ Of(Head(down), host.gen) /\ Tail(down) \in Seq(MessageType)
      /\ \A i \in DOMAIN Tail(down) : Of(Tail(down)[i], host.gen)
      /\ Head(down).type # "hello" => view.wire = host.gen /\ view.gen = host.gen
  BY <1>1, HearingFacts
<1>3. view \in ViewType /\ SameCopies(view, view) /\ host.gen \in Nat
  BY DEF Typed, SameCopies, HostType
<1>4. CASE RejectBegin
  <2> DEFINE v == [view EXCEPT !.gen = Head(down).gen]
  <2>1. Head(down).type = "begin" /\ down' = Tail(down) /\ Head(down).gen = host.gen /\ AskAgain(v)
    BY <1>2, <1>4 DEF RejectBegin, Hearing, Of
  <2>2. v \in ViewType /\ SameCopies(view, v) /\ v.gen = host.gen /\ v.wire = view.wire
    BY <1>3, <2>1 DEF ViewType, SameCopies
  <2> HIDE DEF v
  <2> QED BY <1>1, <1>2, <2>1, <2>2, AskAgainStep
<1>5. CASE RejectFrame
  <2> DEFINE end == [type |-> "end"]
             flush == Head(down).flush
  <2>1. Head(down).type = "ready" /\ down' = flush \o <<end>> \o Tail(down) /\ AskAgain(view)
    BY <1>5 DEF RejectFrame
  <2>2. Head(down) \in ReadyType
    BY <1>2, <2>1 DEF MessageType, IdentityType, BeginType, LineType
  <2>3. flush \in Seq(LineType)
    BY <2>2 DEF ReadyType
  <2> HIDE DEF flush
  <2>4. flush \in Seq(MessageType) /\ \A i \in DOMAIN flush : Of(flush[i], host.gen)
    <3>1. \A i \in DOMAIN flush : flush[i] \in LineType
      BY <2>3, LenProperties, ElementOfSeq
    <3>2. flush \in Seq(MessageType)
      BY <2>3, LenProperties, SeqDef, <3>1 DEF MessageType
    <3> QED BY <3>1, <3>2 DEF LineType, Of
  <2>5. <<end>> \in Seq(MessageType) /\ \A i \in DOMAIN <<end>> : Of(<<end>>[i], host.gen)
    <3>1. end \in MessageType /\ Of(end, host.gen)
      BY DEF MessageType, Of
    <3> HIDE DEF end
    <3> QED BY <3>1
  <2> DEFINE most == flush \o <<end>>
  <2>6. most \in Seq(MessageType) /\ \A i \in DOMAIN most : Of(most[i], host.gen)
    <3> HIDE DEF end
    <3>1. /\ flush \o <<end>> \in Seq(MessageType)
          /\ \A i \in DOMAIN (flush \o <<end>>) :
                \/ \E j \in DOMAIN flush : (flush \o <<end>>)[i] = flush[j]
                \/ \E j \in DOMAIN <<end>> : (flush \o <<end>>)[i] = <<end>>[j]
      BY <2>4, <2>5, Sending
    <3> QED BY <2>4, <2>5, <3>1
  <2>7. down' = most \o Tail(down)
    BY <2>1
  <2> HIDE DEF most
  <2>8. /\ most \o Tail(down) \in Seq(MessageType)
        /\ \A i \in DOMAIN (most \o Tail(down)) :
              \/ \E j \in DOMAIN most : (most \o Tail(down))[i] = most[j]
              \/ \E j \in DOMAIN Tail(down) : (most \o Tail(down))[i] = Tail(down)[j]
    <3> DEFINE rest == Tail(down)
    <3>1. rest \in Seq(MessageType) /\ most \in Seq(MessageType)
      BY <1>2, <2>6
    <3> HIDE DEF rest
    <3>2. /\ most \o rest \in Seq(MessageType)
          /\ \A i \in DOMAIN (most \o rest) :
                \/ \E j \in DOMAIN most : (most \o rest)[i] = most[j]
                \/ \E j \in DOMAIN rest : (most \o rest)[i] = rest[j]
      BY <3>1, Sending
    <3> QED BY <3>2 DEF rest
  <2>9. down' \in Seq(MessageType) /\ \A i \in DOMAIN down' : Of(down'[i], host.gen)
    BY <1>2, <2>6, <2>7, <2>8
  <2> QED BY <1>1, <1>2, <1>3, <2>1, <2>9, AskAgainStep
<1>6. CASE RejectEnd
  <2>1. Head(down).type = "end" /\ down' = Tail(down) /\ AskAgain(view)
    BY <1>6 DEF RejectEnd, Hearing
  <2> QED BY <1>1, <1>2, <1>3, <2>1, AskAgainStep
<1> QED BY <1>4, <1>5, <1>6


\* The view hears a chunk.
LEMMA HearOutputStep ==
    ASSUME Typed, ShownInvariant, HearOutput
    PROVE  /\ Typed' /\ ShownInvariant'
           /\ view'.size = view.size /\ view'.client \in {view.client, "live"}
<1> DEFINE msg == Head(down)
           record == [type |-> "record", n |-> msg.n, c |-> msg.c]
           heard == [view EXCEPT !.client = "live", !.seq = msg.n]
           item == OutputItem(view, msg.n, msg.c)
<1>1. /\ link /\ down # <<>> /\ msg.type = "output"
      /\ down' = IF msg.record THEN <<record>> \o Tail(down) ELSE Tail(down)
      /\ \/ view' = NoteOutput(heard, {msg.c}) /\ parser' = Append(parser, item)
         \/ UNCHANGED <<view, parser>>
      /\ UNCHANGED <<child, host, ring, sub, link, up, base, lost, budget>>
  BY DEF HearOutput
<1>2. /\ Head(down) \in MessageType /\ Tail(down) \in Seq(MessageType)
      /\ \A i \in DOMAIN Tail(down) : Of(Tail(down)[i], host.gen)
      /\ view.wire = host.gen /\ view.gen = host.gen
  BY <1>1, HearingFacts
<1>3. msg.n \in Nat /\ msg.c \in ChunkType
  BY <1>1, <1>2 DEF MessageType, LineType, IdentityType, BeginType, ReadyType
<1>4. down' \in Seq(MessageType) /\ \A i \in DOMAIN down' : Of(down'[i], host.gen)
  <2> DEFINE rest == Tail(down)
             first == <<record>>
  <2>1. record \in MessageType /\ Of(record, host.gen)
    BY <1>3 DEF MessageType, Of
  <2> HIDE DEF record
  <2>2. first \in Seq(MessageType) /\ \A i \in DOMAIN first : Of(first[i], host.gen)
    BY <2>1
  <2>3. rest \in Seq(MessageType) /\ \A i \in DOMAIN rest : Of(rest[i], host.gen)
    BY <1>2
  <2>4. down' = first \o rest \/ down' = rest
    BY <1>1
  <2> HIDE DEF first, rest
  <2>5. /\ first \o rest \in Seq(MessageType)
        /\ \A i \in DOMAIN (first \o rest) :
              \/ \E j \in DOMAIN first : (first \o rest)[i] = first[j]
              \/ \E j \in DOMAIN rest : (first \o rest)[i] = rest[j]
    BY <2>2, <2>3, Sending
  <2> QED BY <2>2, <2>3, <2>4, <2>5
<1>5. view \in ViewType /\ WholeCopies(view) /\ up \in Seq(RequestType) /\ base \in Nat
      /\ lost \in BOOLEAN /\ host.gen \in Nat
  BY DEF Typed, ShownInvariant, Knows, HostType
<1>6. /\ view' \in ViewType /\ view'.gen = host.gen /\ view'.wire = host.gen /\ WholeCopies(view')
      /\ view'.size = view.size /\ view'.client \in {view.client, "live"}
  <2>1. /\ heard \in ViewType /\ heard.gen = host.gen /\ heard.wire = host.gen
        /\ SameCopies(view, heard) /\ heard.size = view.size /\ heard.client = "live"
    <3>1. ASSUME NEW n \in Nat
          PROVE  LET w == [view EXCEPT !.client = "live", !.seq = n]
                 IN  /\ w \in ViewType /\ w.gen = view.gen /\ w.wire = view.wire
                     /\ SameCopies(view, w) /\ w.size = view.size /\ w.client = "live"
      BY <1>5 DEF ViewType, SameCopies
    <3> QED BY <1>2, <1>3, <3>1
  <2> HIDE DEF heard
  <2> DEFINE w == NoteOutput(heard, {msg.c})
  <2>2. /\ w \in ViewType /\ w.gen = host.gen /\ w.wire = host.gen /\ SameCopies(heard, w)
        /\ w.size = heard.size /\ w.client = heard.client
    BY <2>1, NoteOutputFacts DEF SameStream
  <2>3. view' = w \/ view' = view
    BY <1>1
  <2> HIDE DEF w
  <2> QED BY <1>2, <1>5, <2>1, <2>2, <2>3 DEF SameCopies, WholeCopies
<1>7. /\ parser \in Seq(ItemType)
      /\ \A i \in DOMAIN parser : parser[i].picture.gen = host.gen
  BY <1>1, ParserKept
<1>8. item \in ItemType /\ item.picture.gen = host.gen
  BY <1>2, <1>3, <1>5, IdentTyped DEF OutputItem, Item, ItemType, PictureType
<1>9. parser' \in Seq(ItemType) /\ \A i \in DOMAIN parser' : parser'[i].picture.gen = host.gen
  <2> HIDE DEF item
  <2>1. PICK k \in Nat : k = Len(parser) /\ DOMAIN parser = 1..k
    BY <1>7, LenProperties
  <2>2. /\ Append(parser, item) \in Seq(ItemType)
        /\ Len(Append(parser, item)) = k + 1
        /\ \A i \in 1..k : Append(parser, item)[i] = parser[i]
        /\ Append(parser, item)[k + 1] = item
    BY <1>7, <1>8, <2>1, AppendProperties
  <2>3. DOMAIN Append(parser, item) = 1..(k + 1)
    BY <2>2, LenProperties
  <2>4. \A i \in 1..(k + 1) : i \in 1..k \/ i = k + 1
    BY <2>1
  <2> QED BY <1>1, <1>7, <1>8, <2>1, <2>2, <2>3, <2>4
<1> QED BY <1>1, <1>2, <1>4, <1>5, <1>6, <1>9, HeardStep

\* The view hears a proof, or that there is none.
LEMMA ProofSteps ==
    ASSUME Typed, ShownInvariant, HearRecord \/ HearState
    PROVE  /\ Typed' /\ ShownInvariant'
           /\ view'.size = view.size /\ view'.client \in {view.client, "live"}
<1> DEFINE msg == Head(down)
<1>1. /\ link /\ down # <<>> /\ down' = Tail(down) /\ msg.type \in {"record", "state"}
      /\ UNCHANGED <<child, host, ring, sub, link, up, parser, base, lost, budget>>
  BY DEF HearRecord, HearState, Hearing
<1>2. /\ msg \in MessageType
      /\ view.wire = host.gen /\ view.gen = host.gen
      /\ down' \in Seq(MessageType) /\ \A i \in DOMAIN down' : Of(down'[i], host.gen)
  BY <1>1, HearingFacts
<1>3. view \in ViewType /\ WholeCopies(view) /\ up \in Seq(RequestType) /\ base \in Nat
      /\ lost \in BOOLEAN /\ Ident(view) \in IdentType
  BY IdentTyped DEF Typed, ShownInvariant, Knows
<1>4. ASSUME NEW c \in CoverageType, NEW i \in IdentType, NEW b \in BOOLEAN
      PROVE  LET w == [view EXCEPT !.cov = c, !.ident = i, !.satisfied = b]
             IN  w \in ViewType /\ w.gen = host.gen /\ w.wire = host.gen /\ SameCopies(view, w)
                 /\ w.size = view.size /\ w.client = view.client
  <2>1. [view EXCEPT !.cov = c, !.ident = i] \in ViewType
    BY <1>3, <1>4 DEF ViewType
  <2>2. ASSUME NEW z \in ViewType PROVE [z EXCEPT !.satisfied = b] \in ViewType
    BY <1>4 DEF ViewType
  <2>3. [view EXCEPT !.cov = c, !.ident = i, !.satisfied = b] \in ViewType
    BY <2>1, <2>2
  <2> QED BY <1>2, <1>3, <2>3 DEF ViewType, SameCopies
<1>5. ASSUME NEW c \in CoverageType, NEW i \in IdentType
      PROVE  LET w == [view EXCEPT !.client = "live", !.cov = c, !.ident = i]
             IN  w \in ViewType /\ w.gen = host.gen /\ w.wire = host.gen /\ SameCopies(view, w)
                 /\ w.size = view.size /\ w.client = "live"
  <2>1. [view EXCEPT !.client = "live"] \in ViewType
    BY <1>3 DEF ViewType
  <2>2. ASSUME NEW z \in ViewType PROVE [z EXCEPT !.cov = c, !.ident = i] \in ViewType
    BY <1>5 DEF ViewType
  <2>3. [view EXCEPT !.client = "live", !.cov = c, !.ident = i] \in ViewType
    BY <2>1, <2>2
  <2> QED BY <1>2, <1>3, <2>3 DEF ViewType, SameCopies
<1>6. \E v \in ViewType : /\ v.gen = host.gen /\ v.wire = host.gen /\ SameCopies(view, v)
                          /\ v.size = view.size /\ v.client \in {view.client, "live"}
                          /\ view' \in {Evaluate(v, Len(parser)), view}
  <2>1. CASE HearRecord
    <3> DEFINE cov == Covers(msg.n, msg.c, msg.n)
               good == view.required => msg.c.rev = view.rev
               v == [view EXCEPT !.cov = cov, !.ident = Ident(view), !.satisfied = good]
    <3>1. msg.type = "record"
      BY <2>1 DEF HearRecord, Hearing
    <3>2. msg.n \in Nat /\ msg.c \in ChunkType
      BY <1>2, <3>1 DEF MessageType, LineType, IdentityType, BeginType, ReadyType
    <3>3. cov \in CoverageType
      BY <3>2 DEF Covers, CoverageType, ChunkType
    <3>4. good \in BOOLEAN
      BY <1>3 DEF ViewType
    <3>5. view' \in {Evaluate(v, Len(parser)), view}
      BY <2>1 DEF HearRecord
    <3> HIDE DEF cov, good
    <3>6. v \in ViewType /\ v.gen = host.gen /\ v.wire = host.gen /\ SameCopies(view, v)
          /\ v.size = view.size /\ v.client \in {view.client, "live"}
      BY <1>3, <1>4, <3>3, <3>4
    <3> HIDE DEF v
    <3> QED BY <3>5, <3>6
  <2>2. CASE HearState
    <3> DEFINE cov == msg.cov
               ident == IF cov.covered THEN Ident(view) ELSE NoIdent
               v == [view EXCEPT !.client = "live", !.cov = cov, !.ident = ident]
    <3>1. msg.type = "state"
      BY <2>2 DEF HearState, Hearing
    <3>2. cov \in CoverageType
      BY <1>2, <3>1 DEF MessageType, LineType, IdentityType, BeginType, ReadyType
    <3>3. ident \in IdentType
      BY <1>3, ConstantsTyped
    <3>4. view' \in {Evaluate(v, Len(parser)), view}
      BY <2>2 DEF HearState
    <3> HIDE DEF cov, ident
    <3>5. v \in ViewType /\ v.gen = host.gen /\ v.wire = host.gen /\ SameCopies(view, v)
          /\ v.size = view.size /\ v.client \in {view.client, "live"}
      BY <1>5, <3>2, <3>3
    <3> HIDE DEF v
    <3> QED BY <3>4, <3>5
  <2> QED BY <2>1, <2>2
<1>7. PICK v \in ViewType : /\ v.gen = host.gen /\ v.wire = host.gen /\ SameCopies(view, v)
                            /\ v.size = view.size /\ v.client \in {view.client, "live"}
                            /\ view' \in {Evaluate(v, Len(parser)), view}
  BY <1>6
<1>8. LET w == Evaluate(v, Len(parser)) IN w \in ViewType /\ SameStream(v, w) /\ SameCopies(v, w)
  BY EvaluateFacts
<1>9. /\ view' \in ViewType /\ view'.gen = host.gen /\ view'.wire = host.gen /\ WholeCopies(view')
      /\ view'.size = view.size /\ view'.client \in {view.client, "live"}
  BY <1>2, <1>3, <1>7, <1>8 DEF SameStream, SameCopies, WholeCopies
<1>10. /\ parser' \in Seq(ItemType)
       /\ \A i \in DOMAIN parser' : parser'[i].picture.gen = host.gen
  BY <1>1, ParserKept
<1> QED BY <1>1, <1>2, <1>3, <1>9, <1>10, HeardStep

----------------------------------------------------------------------------
(* The view's terminal, window and timers.                                 *)

\* A view that changes by itself keeps the invariant.
LEMMA OwnStep ==
    ASSUME Typed, ShownInvariant, UNCHANGED <<child, host, ring, sub, link, down>>,
           view' \in ViewType, view'.gen = view.gen, view'.wire = view.wire, WholeCopies(view'),
           view.committed = <<>> => view'.committed = <<>>,
           parser' \in Seq(ItemType), parser = <<>> => parser' = <<>>,
           \A i \in DOMAIN parser' : parser'[i].picture.gen = view.gen,
           up' \in Seq(RequestType), link \/ up' = up, base' \in Nat, lost' \in BOOLEAN,
           budget' \in Budget
    PROVE  Typed' /\ ShownInvariant'
<1>1. Typed'
  BY DEF Typed, Last
<1>2. Speaks'
  BY DEF ShownInvariant, Speaks
<1>3. Knows'
  BY DEF ShownInvariant, Knows, WholeCopies, Whole, Half, GenOf
<1> QED BY <1>1, <1>2, <1>3 DEF ShownInvariant

\* The terminal parses a write.
LEMMA ParseStep ==
    ASSUME Typed, ShownInvariant, Parse
    PROVE  Typed' /\ ShownInvariant' /\ SameStream(view, view')
<1> DEFINE item == Head(parser)
           drawn == Parsed(view, item)
<1>1. /\ parser # <<>> /\ parser' = Tail(parser) /\ view' = Callback(drawn, item)
      /\ UNCHANGED <<child, host, ring, sub, link, up, down, base, lost, budget>>
  BY DEF Parse, wire
<1>2. parser \in Seq(ItemType) /\ view \in ViewType /\ WholeCopies(view)
      /\ (\A i \in DOMAIN parser : parser[i].picture.gen = view.gen)
  BY DEF Typed, ShownInvariant, Knows
<1>3. /\ item \in ItemType /\ item.picture.gen = view.gen /\ parser' \in Seq(ItemType)
      /\ \A i \in DOMAIN parser' : parser'[i].picture.gen = view.gen
  BY <1>1, <1>2, Receiving
<1> HIDE DEF item
<1>4. /\ drawn \in ViewType /\ SameStream(view, drawn) /\ WholeCopies(drawn)
      /\ item.what = "frame" => drawn.grid = item.picture /\ drawn.sync = Half(item.picture)
  BY <1>2, <1>3, ParsedFacts
<1> HIDE DEF drawn
<1>5. view' \in ViewType /\ SameStream(drawn, view') /\ WholeCopies(view')
  BY <1>1, <1>3, <1>4, CallbackFacts DEF SameStream
<1>6. view'.gen = view.gen /\ view'.wire = view.wire
  BY <1>4, <1>5 DEF SameStream
<1>7. view.wire # 0
  BY <1>1 DEF ShownInvariant, Knows
<1>8. /\ view.wire \in {0, view.gen} /\ view.gen <= host.gen
  BY DEF ShownInvariant, Knows
<1>9. up \in Seq(RequestType) /\ base \in Nat /\ lost \in BOOLEAN /\ budget \in Budget
  BY DEF Typed
<1>10. Typed'
  BY <1>1, <1>3, <1>5 DEF Typed, Last
<1>11. Speaks'
  BY <1>1, <1>6 DEF ShownInvariant, Speaks
<1>12. Knows'
  BY <1>1, <1>3, <1>5, <1>6, <1>7, <1>8 DEF Knows, WholeCopies, Whole, Half, GenOf
<1>13. SameStream(view, view')
  BY <1>4, <1>5 DEF SameStream
<1> QED BY <1>10, <1>11, <1>12, <1>13 DEF ShownInvariant

\* A size that the view takes leaves it with nothing to show.
LEMMA NoteGeometryBare ==
    ASSUME NEW v \in ViewType
    PROVE  NoteGeometryIntent(v).committed = <<>>
<1> DEFINE g == [Forget(v) EXCEPT !.rev = @ + 1, !.required = TRUE]
<1>1. g \in ViewType /\ g.committed = <<>>
  <2>1. ASSUME NEW f \in ViewType, f.committed = <<>>
        PROVE  LET w == [f EXCEPT !.rev = @ + 1, !.required = TRUE]
               IN  w \in ViewType /\ w.committed = <<>>
    <3>1. f.rev + 1 \in Nat
      BY DEF ViewType
    <3> QED BY <2>1, <3>1 DEF ViewType
  <2>2. Forget(v) \in ViewType /\ Forget(v).committed = <<>>
    BY ForgetFacts DEF Forget, ViewType
  <2> QED BY <2>1, <2>2
<1>2. NoteGeometryIntent(v) = Invalidate(g)
  BY DEF NoteGeometryIntent
<1> HIDE DEF g
<1> QED BY <1>1, <1>2, InvalidateFacts DEF SameCopies

\* The window changes its size.
LEMMA ResizeStep ==
    ASSUME Typed, ShownInvariant, NEW size \in Sizes, ResizeIfNeeded(size)
    PROVE  Typed' /\ ShownInvariant'
<1> DEFINE v == [view EXCEPT !.size = size]
<1>1. /\ view' = NoteGeometryIntent(v) /\ up' = IF link THEN Append(up, Resize(size)) ELSE up
      /\ lost' = ~ link /\ base' = Last
      /\ UNCHANGED <<child, host, ring, sub, link, down, parser>>
  BY DEF ResizeIfNeeded
<1>2. budget' \in Budget
  BY SpendTyped DEF ResizeIfNeeded
<1>3. view \in ViewType /\ up \in Seq(RequestType) /\ parser \in Seq(ItemType) /\ link \in BOOLEAN
      /\ (\A i \in DOMAIN parser : parser[i].picture.gen = view.gen)
  BY DEF Typed, ShownInvariant, Knows
<1>4. v \in ViewType /\ v.gen = view.gen /\ v.wire = view.wire
  BY <1>3 DEF ViewType
<1> HIDE DEF v
<1>5. view' \in ViewType /\ view'.gen = view.gen /\ view'.wire = view.wire
      /\ WholeCopies(view') /\ view'.committed = <<>>
  <2>1. NoteGeometryIntent(v).committed = <<>>
    BY <1>4, NoteGeometryBare
  <2> QED BY <1>1, <1>4, <2>1, NoteGeometryFacts DEF SameStream
<1>6. up' \in Seq(RequestType)
  <2>1. Resize(size) \in RequestType
    BY DEF Resize, RequestType
  <2> QED BY <1>1, <1>3, <2>1, AppendProperties
<1>7. base' \in Nat /\ lost' \in BOOLEAN
  BY <1>1, <1>3, LenProperties DEF Typed, Last
<1>8. parser = <<>> => parser' = <<>>
  BY <1>1
<1> QED BY <1>1, <1>2, <1>3, <1>5, <1>6, <1>7, <1>8, OwnStep

\* A timer fires.
LEMMA TimerSteps ==
    ASSUME Typed, ShownInvariant, SettleTimeout \/ HardTimeout
    PROVE  Typed' /\ ShownInvariant' /\ SameStream(view, view')
<1>1. UNCHANGED <<child, host, ring, sub, link, up, down, parser, base, lost, budget>>
  BY DEF SettleTimeout, HardTimeout, wire
<1>2. view \in ViewType /\ WholeCopies(view) /\ parser \in Seq(ItemType)
      /\ (\A i \in DOMAIN parser : parser[i].picture.gen = view.gen)
  BY DEF Typed, ShownInvariant, Knows
<1>3. LET w == Finish(view, "deadline") IN w \in ViewType /\ SameStream(view, w) /\ SameCopies(view, w)
  BY <1>2, FinishFacts
<1>4. LET w == [view EXCEPT !.settle = FALSE]
      IN  w \in ViewType /\ SameStream(view, w) /\ SameCopies(view, w)
  BY <1>2 DEF ViewType, SameStream, SameCopies
<1>5. LET w == [view EXCEPT !.hard = FALSE]
      IN  w \in ViewType /\ SameStream(view, w) /\ SameCopies(view, w)
  BY <1>2 DEF ViewType, SameStream, SameCopies
<1>6. \/ view' = Finish(view, "deadline") \/ view' = [view EXCEPT !.settle = FALSE]
      \/ view' = [view EXCEPT !.hard = FALSE]
  BY DEF SettleTimeout, HardTimeout
<1>7. view' \in ViewType /\ SameStream(view, view') /\ SameCopies(view, view')
  BY <1>3, <1>4, <1>5, <1>6
<1>8. /\ view'.gen = view.gen /\ view'.wire = view.wire /\ WholeCopies(view')
      /\ view'.committed = view.committed
  BY <1>2, <1>7 DEF SameStream, SameCopies, WholeCopies
<1>9. up' \in Seq(RequestType) /\ base' \in Nat /\ lost' \in BOOLEAN /\ budget' \in Budget
      /\ up' = up
  BY <1>1 DEF Typed
<1> QED BY <1>1, <1>2, <1>7, <1>8, <1>9, OwnStep

----------------------------------------------------------------------------
(* The theorems.                                                           *)

\* The view starts without a socket.
LEMMA InitShown ==
    ASSUME Init
    PROVE  Typed /\ ShownInvariant
<1>1. PICK size \in Sizes : child = [size |-> size, told |-> <<>>, intent |-> <<>>, open |-> <<>>]
  BY DEF Init
<1>2. child \in ChildType /\ child.size \in Sizes
  BY <1>1 DEF ChildType, AtMostOne
<1>3. PICK trust \in {"none", "on"} :
         host = [gen |-> 1, size |-> child.size, trust |-> trust, since |-> 0, rev |-> 0]
  BY DEF Init
<1>4. host \in HostType /\ host.gen = 1 /\ host.since = 0
  BY <1>2, <1>3 DEF HostType
<1>5. ring \in Seq(ChunkType) /\ Last = 0
  BY DEF Init, Last
<1>6. sub \in SubType /\ sub.dto = 0
  BY DEF Init, NoSub, SubType
<1>7. PICK width \in Sizes : view = NewView(width)
  BY DEF Init
<1>8. view \in ViewType
  <2>1. NewView(width) =
           [client |-> "probing", protocol |-> FALSE, gen |-> 0, seq |-> 0, wire |-> 0, conn |-> 0,
            epoch |-> 0, size |-> width, rev |-> 0, required |-> FALSE, satisfied |-> FALSE,
            trusted |-> FALSE, opened |-> "no", settle |-> FALSE, hard |-> FALSE,
            cov |-> Unknown, ident |-> NoIdent, baseline |-> "unverified", hydration |-> "idle",
            sync |-> FALSE, grid |-> Blank, torn |-> FALSE, received |-> FALSE,
            committed |-> <<>>, recovery |-> <<>>, behind |-> FALSE, gate |-> FALSE,
            asked |-> FALSE]
    BY DEF NewView
  <2> QED BY <1>7, <2>1, ConstantsTyped DEF ViewType
<1>9. view.gen = 0 /\ view.wire = 0 /\ view.committed = <<>> /\ view.recovery = <<>>
  BY <1>7 DEF NewView
<1>10. /\ link = FALSE /\ up = <<>> /\ down = <<>> /\ parser = <<>> /\ base = 0
       /\ lost = FALSE /\ budget \in Budgets
  BY DEF Init
<1>11. Typed
  <2>1. up \in Seq(RequestType) /\ down \in Seq(MessageType) /\ parser \in Seq(ItemType)
    BY <1>10
  <2>2. budget \in Budget
    BY <1>10, ViewAssumption
  <2>3. host.since \in 0..Last /\ sub.dto \in 0..Last
    BY <1>4, <1>5, <1>6
  <2> QED BY <1>2, <1>4, <1>5, <1>6, <1>8, <1>10, <2>1, <2>2, <2>3 DEF Typed
<1>12. Speaks
  BY <1>10 DEF Speaks
<1>13. Knows
  BY <1>4, <1>9, <1>10 DEF Knows, WholeCopies, Whole
<1> QED BY <1>11, <1>12, <1>13 DEF ShownInvariant

\* Every step keeps it.
LEMMA ShownStep ==
    ASSUME Typed, ShownInvariant, [Next]_vars
    PROVE  Typed' /\ ShownInvariant'
<1>1. CASE UNCHANGED vars
  <2>1. Typed'
    BY <1>1 DEF vars, Typed, Last
  <2>2. ShownInvariant'
    BY <1>1 DEF vars, ShownInvariant, Speaks, Knows, Of, WholeCopies, Whole, Half, GenOf
  <2> QED BY <2>1, <2>2
<1>2. CASE Output \/ NoticeSize \/ HearIntent
  BY <1>2, OutputStep, ChildSteps
<1>3. CASE ApplyResize \/ HearSubscribe \/ Capture \/ FinishSnapshot
  BY <1>3, ApplyResizeStep, HearSubscribeStep, SnapshotSteps
<1>4. CASE EnableReporter \/ LoseReporter \/ ReplaceReporter \/ PeerConnects
  BY <1>4, ReporterSteps, PeerStep
<1>5. CASE Connect \/ DropLink \/ ReplaceHost
  BY <1>5, ConnectStep, DisconnectSteps
<1>6. CASE HearStatus \/ HearHello \/ HearBegin \/ HearReady
  BY <1>6, IdentitySteps, HearBeginStep, HearReadyStep
<1>7. CASE RejectBegin \/ RejectFrame \/ RejectEnd \/ HearOutput \/ HearRecord \/ HearState
  BY <1>7, RejectSteps, HearOutputStep, ProofSteps
<1>8. CASE Parse \/ SettleTimeout \/ HardTimeout
  BY <1>8, ParseStep, TimerSteps
<1>9. CASE \E size \in Sizes : ResizeIfNeeded(size)
  BY <1>9, ResizeStep
<1> QED BY <1>1, <1>2, <1>3, <1>4, <1>5, <1>6, <1>7, <1>8, <1>9 DEF Next

\* What is shown is whole, and of the runner that answered last.
LEMMA ShownIsOfTheRunner ==
    ASSUME Typed, ShownInvariant
    PROVE  ShownIsWhole
<1> SUFFICES ASSUME Modern(view), NEW i \in DOMAIN Shown(view)
             PROVE  ~ Half(Shown(view)[i].picture) /\ Shown(view)[i].picture.gen = view.wire
  BY DEF ShownIsWhole
<1>1. view \in ViewType /\ WholeCopies(view) /\ view.wire \in {0, view.gen}
  BY DEF Typed, ShownInvariant, Knows
<1>2. view.wire = 0 => view.committed = <<>>
  BY DEF ShownInvariant, Knows
<1>3. view.committed \in AtMostOne(CopyType) /\ view.recovery \in AtMostOne(CopyType)
  BY <1>1 DEF ViewType
<1>4. CASE /\ view.committed # <<>> /\ view.committed[1].ident = Ident(view)
           /\ Shown(view) = view.committed
  <2>1. i \in DOMAIN view.committed /\ DOMAIN view.committed = {1}
    BY <1>3, <1>4 DEF AtMostOne
  <2>2. GenOf(view.committed[1]) = view.gen
    BY <1>1, <1>4, IdentTyped DEF GenOf
  <2> QED BY <1>1, <1>2, <1>4, <2>1, <2>2 DEF WholeCopies, Whole
<1>5. CASE RecoveryValid(view) /\ Shown(view) = view.recovery
  <2>1. i \in DOMAIN view.recovery /\ DOMAIN view.recovery = {1}
    BY <1>3, <1>5 DEF AtMostOne, RecoveryValid
  <2> QED BY <1>1, <1>5, <2>1 DEF WholeCopies, Whole, RecoveryValid
<1>6. Shown(view) # <<>>
  OBVIOUS
<1> QED BY <1>4, <1>5, <1>6 DEF Shown

\* Types: what each part of the attached view, its wire and its runner may hold.
THEOREM TypesHold == Spec => []Typed
<1>1. Init => Typed /\ ShownInvariant
  BY InitShown
<1>2. Typed /\ ShownInvariant /\ [Next]_vars => (Typed /\ ShownInvariant)'
  BY ShownStep
<1> QED BY <1>1, <1>2, PTL DEF Spec

\* A view only shows whole frames of the runner that answered last, whatever is
\* resized, lost, replaced or reordered on the way (commitCommittedView,
\* recoveryViewValid).
THEOREM FramesAreWhole == Spec => []ShownIsWhole
<1>1. Init => Typed /\ ShownInvariant
  BY InitShown
<1>2. Typed /\ ShownInvariant /\ [Next]_vars => (Typed /\ ShownInvariant)'
  BY ShownStep
<1>3. Typed /\ ShownInvariant => ShownIsWhole
  BY ShownIsOfTheRunner
<1> QED BY <1>1, <1>2, <1>3, PTL DEF Spec

----------------------------------------------------------------------------
(* The inductive invariant of the size.                                    *)

\* A resize is on its way to the runner, and the newest has the size of the view.
Coming == \E i \in DOMAIN up : up[i].type = "resize"
Newest ==
    \A i \in DOMAIN up : up[i].type = "resize" =>
        up[i].n = view.size \/ \E j \in DOMAIN up : j > i /\ up[j].type = "resize"

\* A snapshot that the view has yet to hear of tells the runner's size.
Told ==
    ~ Coming /\ host.size # view.size =>
        \A i \in DOMAIN down : down[i].type = "begin" => down[i].size = host.size

\* A socket starts without a subscription, and keeps none while the view reconciles.
Greets(m) == m.type \in {"hello", "status"}
Unsubscribed ==
    /\ ~ link => sub.pc = "idle"
    /\ link /\ view.client = "reconciling" =>
          /\ view.wire = 0 /\ sub.pc = "idle" /\ \A i \in DOMAIN down : Greets(down[i])
          /\ \A i \in DOMAIN up : up[i].type = "resize"

\* The first that the view hears after greetings is that a snapshot begins.
BeginsFirst ==
    /\ \A i \in DOMAIN down : Greets(down[i]) \/ \E j \in 1..i : down[j].type = "begin"
    /\ (\A i \in DOMAIN down : Greets(down[i])) => sub.pc \in {"idle", "capturing"}
    /\ \A i \in DOMAIN up : up[i].type = "subscribe" => up[i].n = 0

\* A view whose size the runner does not have will hear of the runner's size first.
StartsOver == view.gen # host.gen \/ view.seq = 0
Awaits ==
    \/ view.client = "probing" /\ (link => BeginsFirst)
    \/ (view.client = "reconciling" \/ ~ link) /\ StartsOver
    \/ link /\ view.client = "resyncing" /\ view.seq = 0 /\ BeginsFirst
Apart == ~ lost /\ ~ Coming /\ host.size # view.size

SizeInvariant == Newest /\ Told /\ Unsubscribed /\ (Apart => Awaits)

----------------------------------------------------------------------------
(* The steps that the size can take.                                       *)

\* The tail of a sequence has all its elements but the first.
LEMMA TailCovers ==
    ASSUME NEW S, NEW s \in Seq(S), s # <<>>
    PROVE  \A i \in DOMAIN s : i = 1 \/ (i - 1 \in DOMAIN Tail(s) /\ Tail(s)[i - 1] = s[i])
<1>1. PICK n \in Nat : n = Len(s) /\ DOMAIN s = 1..n
  BY LenProperties
<1>2. n # 0
  BY <1>1, EmptySeq
<1>3. /\ Tail(s) \in Seq(S) /\ Len(Tail(s)) = n - 1
      /\ \A i \in 1..(n - 1) : Tail(s)[i] = s[i + 1]
  BY <1>1, HeadTailProperties
<1>4. DOMAIN Tail(s) = 1..(n - 1)
  BY <1>3, LenProperties
<1>5. ASSUME NEW i \in 1..n, i # 1 PROVE i - 1 \in 1..(n - 1) /\ Tail(s)[i - 1] = s[i]
  <2>1. i - 1 \in 1..(n - 1) /\ (i - 1) + 1 = i
    BY <1>5
  <2> QED BY <2>1, <1>3
<1> QED BY <1>1, <1>4, <1>5

\* Sending keeps what is on the wire in its place.
LEMMA SentBehind ==
    ASSUME NEW S, NEW s \in Seq(S), NEW t \in Seq(S)
    PROVE  \E m \in Nat :
              /\ DOMAIN s = 1..m
              /\ \A i \in DOMAIN s : i \in DOMAIN (s \o t) /\ (s \o t)[i] = s[i]
              /\ \A i \in DOMAIN t : m + i \in DOMAIN (s \o t) /\ (s \o t)[m + i] = t[i]
              /\ \A i \in DOMAIN (s \o t) :
                    \/ i \in DOMAIN s
                    \/ i - m \in DOMAIN t /\ m + (i - m) = i
<1>1. PICK m \in Nat : m = Len(s) /\ DOMAIN s = 1..m
  BY LenProperties
<1>2. PICK n \in Nat : n = Len(t) /\ DOMAIN t = 1..n
  BY LenProperties
<1>3. /\ s \o t \in Seq(S) /\ Len(s \o t) = m + n
      /\ \A i \in 1..(m + n) : (s \o t)[i] = IF i <= m THEN s[i] ELSE t[i - m]
  BY <1>1, <1>2, ConcatProperties
<1>4. DOMAIN (s \o t) = 1..(m + n)
  BY <1>3, LenProperties
<1>5. ASSUME NEW i \in 1..m PROVE i \in 1..(m + n) /\ (s \o t)[i] = s[i]
  <2>1. i \in 1..(m + n) /\ i <= m
    OBVIOUS
  <2> QED BY <2>1, <1>3
<1>6. ASSUME NEW i \in 1..n PROVE m + i \in 1..(m + n) /\ (s \o t)[m + i] = t[i]
  <2>1. m + i \in 1..(m + n) /\ ~ (m + i <= m) /\ (m + i) - m = i
    OBVIOUS
  <2> QED BY <2>1, <1>3
<1>7. ASSUME NEW i \in 1..(m + n), i \notin 1..m PROVE i - m \in 1..n /\ m + (i - m) = i
  BY <1>7
<1> QED BY <1>1, <1>2, <1>4, <1>5, <1>6, <1>7

\* Only greetings and a snapshot's begin are heard while the sizes are apart.
LEMMA HeardWhileApart ==
    ASSUME Typed, ShownInvariant, SizeInvariant, link, down # <<>>, ~ Greets(Head(down))
    PROVE  /\ view.client # "reconciling"
           /\ Apart => Head(down).type = "begin" /\ view.client \in {"probing", "resyncing"}
<1>1. 1 \in DOMAIN down /\ Head(down) = down[1]
  BY Receiving DEF Typed
<1>2. view.client # "reconciling"
  BY <1>1 DEF SizeInvariant, Unsubscribed
<1>3. ASSUME BeginsFirst PROVE Head(down).type = "begin"
  <2>1. PICK j \in 1..1 : down[j].type = "begin"
    BY <1>1, <1>3 DEF BeginsFirst
  <2>2. j = 1
    OBVIOUS
  <2> QED BY <1>1, <2>1, <2>2
<1> QED BY <1>2, <1>3 DEF SizeInvariant, Awaits

\* What the runner says keeps the invariant.
LEMMA SaidStep ==
    ASSUME Typed, ShownInvariant, SizeInvariant, NEW said \in Seq(MessageType),
           Tell(said) \/ (said = <<>> /\ UNCHANGED down),
           UNCHANGED <<link, view, lost>>, host'.gen = host.gen, host'.size = host.size,
           \/ up' = up /\ (sub.pc = "idle" => sub'.pc = "idle" /\ \A i \in DOMAIN said : Greets(said[i]))
           \/ link /\ up # <<>> /\ up' = Tail(up) /\ Head(up).type = "subscribe",
           \A i \in DOMAIN said : said[i].type = "begin" => said[i].size = host.size,
           \/ sub.pc \notin {"idle", "capturing"}
           \/ sub'.pc \in {"idle", "capturing"} /\ \A i \in DOMAIN said : Greets(said[i])
           \/ /\ \A i \in DOMAIN said : Greets(said[i]) \/ \E j \in 1..i : said[j].type = "begin"
              /\ \E j \in DOMAIN said : said[j].type = "begin"
           \/ up # <<>> /\ Head(up).type = "subscribe" /\ Head(up).n # 0
    PROVE  SizeInvariant'
<1>1. /\ down \in Seq(MessageType) /\ up \in Seq(RequestType) /\ link \in BOOLEAN
  BY DEF Typed
<1>2. \/ up' = up
      \/ /\ link /\ up # <<>> /\ up' = Tail(up) /\ Head(up).type = "subscribe"
         /\ 1 \in DOMAIN up /\ Head(up) = up[1]
         /\ \A i \in DOMAIN up' : i + 1 \in DOMAIN up /\ up'[i] = up[i + 1]
         /\ \A i \in DOMAIN up : i = 1 \/ (i - 1 \in DOMAIN up' /\ up'[i - 1] = up[i])
  <2>1. CASE up' = up
    BY <2>1
  <2>2. CASE up' # up
    <3>1. link /\ up # <<>> /\ up' = Tail(up) /\ Head(up).type = "subscribe"
      BY <2>2
    <3>2. /\ 1 \in DOMAIN up /\ Head(up) = up[1]
          /\ \A i \in DOMAIN Tail(up) : i + 1 \in DOMAIN up /\ Tail(up)[i] = up[i + 1]
      BY <1>1, <3>1, Receiving
    <3>3. \A i \in DOMAIN up : i = 1 \/ (i - 1 \in DOMAIN Tail(up) /\ Tail(up)[i - 1] = up[i])
      BY <1>1, <3>1, TailCovers
    <3> QED BY <3>1, <3>2, <3>3
  <2> QED BY <2>1, <2>2
<1>3. PICK m \in Nat :
         /\ DOMAIN down = 1..m
         /\ \A i \in DOMAIN down : i \in DOMAIN (down \o said) /\ (down \o said)[i] = down[i]
         /\ \A i \in DOMAIN said : m + i \in DOMAIN (down \o said) /\ (down \o said)[m + i] = said[i]
         /\ \A i \in DOMAIN (down \o said) :
               i \in DOMAIN down \/ (i - m \in DOMAIN said /\ m + (i - m) = i)
  BY <1>1, SentBehind
<1>4. PICK k \in Nat : DOMAIN up = 1..k
  BY <1>1, LenProperties
<1>5. PICK l \in Nat : DOMAIN said = 1..l
  BY LenProperties
<1>6. down' = down \/ (link /\ down' = down \o said)
  BY DEF Tell
<1>7. \A i \in DOMAIN down' :
         (\E j \in DOMAIN down : down'[i] = down[j]) \/ \E j \in DOMAIN said : down'[i] = said[j]
  <2>1. CASE down' = down
    BY <2>1
  <2>2. CASE down' = down \o said
    <3> SUFFICES ASSUME NEW i \in DOMAIN (down \o said)
                 PROVE  \/ \E j \in DOMAIN down : (down \o said)[i] = down[j]
                        \/ \E j \in DOMAIN said : (down \o said)[i] = said[j]
      BY <2>2
    <3>1. CASE i \in DOMAIN down
      BY <1>3, <3>1
    <3>2. CASE i - m \in DOMAIN said /\ m + (i - m) = i
      BY <1>3, <3>2
    <3> QED BY <1>3, <3>1, <3>2
  <2> QED BY <1>6, <2>1, <2>2
<1>8. Coming' <=> Coming
  <2>1. Coming' => Coming
    BY <1>2 DEF Coming
  <2>2. ASSUME Coming PROVE Coming'
    <3>1. PICK i \in DOMAIN up : up[i].type = "resize"
      BY <2>2 DEF Coming
    <3>2. CASE up' = up
      BY <3>1, <3>2 DEF Coming
    <3>3. CASE up' # up
      <4>1. i # 1
        BY <1>2, <3>1, <3>3
      <4>2. i - 1 \in DOMAIN up' /\ up'[i - 1] = up[i]
        BY <1>2, <3>3, <4>1
      <4> QED BY <3>1, <4>2 DEF Coming
    <3> QED BY <3>2, <3>3
  <2> QED BY <2>1, <2>2
<1>9. Newest'
  <2>1. CASE up' = up
    BY <2>1 DEF SizeInvariant, Newest
  <2>2. CASE up' # up
    <3> SUFFICES ASSUME NEW i \in DOMAIN up', up'[i].type = "resize",
                        up'[i].n # view.size
                 PROVE  \E j \in DOMAIN up' : j > i /\ up'[j].type = "resize"
      BY DEF Newest
    <3>1. i + 1 \in DOMAIN up /\ up'[i] = up[i + 1]
      BY <1>2, <2>2
    <3>2. PICK j \in DOMAIN up : j > i + 1 /\ up[j].type = "resize"
      BY <3>1 DEF SizeInvariant, Newest
    <3>3. i \in Nat
      <4>1. up' \in Seq(RequestType)
        BY <1>1, <1>2, <2>2, Receiving
      <4> QED BY <4>1, LenProperties
    <3>4. j # 1 /\ j - 1 > i
      BY <1>4, <3>2, <3>3
    <3>5. j - 1 \in DOMAIN up' /\ up'[j - 1] = up[j]
      BY <1>2, <2>2, <3>4
    <3> QED BY <3>2, <3>4, <3>5
  <2> QED BY <2>1, <2>2
<1>10. Told'
  BY <1>7, <1>8 DEF SizeInvariant, Told
<1>11. Unsubscribed'
  <2>1. CASE up' = up
    <3>1. ~ link' => sub'.pc = "idle"
      BY <1>1, <1>2, <2>1, <1>4 DEF SizeInvariant, Unsubscribed, ShownInvariant, Speaks
    <3> QED BY <1>7, <2>1, <3>1 DEF SizeInvariant, Unsubscribed
  <2>2. CASE up' # up
    BY <1>2, <2>2 DEF SizeInvariant, Unsubscribed
  <2> QED BY <2>1, <2>2
<1>12. BeginsFirst /\ link => BeginsFirst'
  <2> SUFFICES ASSUME BeginsFirst, link PROVE BeginsFirst'
    OBVIOUS
  <2>1. ~ (up # <<>> /\ Head(up).type = "subscribe" /\ Head(up).n # 0)
    <3>1. ASSUME up # <<>> PROVE 1 \in DOMAIN up /\ Head(up) = up[1]
      BY <1>1, <3>1, Receiving
    <3> QED BY <3>1 DEF BeginsFirst
  <2>2. \A i \in DOMAIN up' : up'[i].type = "subscribe" => up'[i].n = 0
    BY <1>2 DEF BeginsFirst
  <2>3. CASE \E i \in DOMAIN down : ~ Greets(down[i])
    <3>1. PICK j \in DOMAIN down : down[j].type = "begin"
      <4>1. PICK i \in DOMAIN down : ~ Greets(down[i])
        BY <2>3
      <4>2. PICK j \in 1..i : down[j].type = "begin"
        BY <4>1 DEF BeginsFirst
      <4>3. j \in DOMAIN down
        BY <1>3, <4>1
      <4> QED BY <4>2, <4>3
    <3>2. j \in DOMAIN down' /\ down'[j].type = "begin"
      BY <1>3, <1>6, <3>1
    <3>3. ASSUME NEW i \in DOMAIN down' PROVE Greets(down'[i]) \/ \E h \in 1..i : down'[h].type = "begin"
      <4>1. CASE i \in DOMAIN down
        <5>1. Greets(down[i]) \/ \E h \in 1..i : down[h].type = "begin"
          BY <4>1 DEF BeginsFirst
        <5>2. down'[i] = down[i] /\ \A h \in 1..i : down'[h] = down[h]
          <6>1. \A h \in 1..i : h \in DOMAIN down
            BY <1>3, <4>1
          <6> QED BY <1>3, <1>6, <4>1, <6>1
        <5> QED BY <5>1, <5>2
      <4>2. CASE i \notin DOMAIN down
        <5>1. i - m \in DOMAIN said /\ m + (i - m) = i
          BY <1>3, <1>6, <3>3, <4>2
        <5>2. j \in 1..i
          BY <1>3, <1>5, <3>1, <5>1
        <5> QED BY <3>2, <5>2
      <4> QED BY <4>1, <4>2
    <3> QED BY <2>2, <3>2, <3>3 DEF BeginsFirst, Greets
  <2>4. CASE \A i \in DOMAIN down : Greets(down[i])
    <3>1. sub.pc \in {"idle", "capturing"}
      BY <2>4 DEF BeginsFirst
    <3>2. CASE sub'.pc \in {"idle", "capturing"} /\ \A i \in DOMAIN said : Greets(said[i])
      <4>1. \A i \in DOMAIN down' : Greets(down'[i])
        BY <1>7, <2>4, <3>2 DEF Greets
      <4> QED BY <2>2, <3>2, <4>1 DEF BeginsFirst, Greets
    <3>3. CASE /\ \A i \in DOMAIN said : Greets(said[i]) \/ \E j \in 1..i : said[j].type = "begin"
               /\ \E j \in DOMAIN said : said[j].type = "begin"
      <4>1. down' = down \o said
        <5>1. said # <<>>
          BY <3>3
        <5> QED BY <5>1 DEF Tell
      <4>2. ASSUME NEW i \in DOMAIN down' PROVE Greets(down'[i]) \/ \E h \in 1..i : down'[h].type = "begin"
        <5>1. CASE i \in DOMAIN down
          BY <1>3, <2>4, <4>1, <5>1 DEF Greets
        <5>2. CASE i \notin DOMAIN down
          <6>1. i - m \in DOMAIN said /\ m + (i - m) = i
            BY <1>3, <4>1, <4>2, <5>2
          <6>2. down'[i] = said[i - m]
            BY <1>3, <4>1, <6>1
          <6>3. CASE Greets(said[i - m])
            BY <6>2, <6>3
          <6>4. CASE \E j \in 1..(i - m) : said[j].type = "begin"
            <7>1. PICK j \in 1..(i - m) : said[j].type = "begin"
              BY <6>4
            <7>2. j \in DOMAIN said /\ m + j \in 1..i
              BY <1>5, <6>1
            <7>3. down'[m + j] = said[j]
              BY <1>3, <4>1, <7>2
            <7> QED BY <7>1, <7>2, <7>3
          <6> QED BY <3>3, <6>1, <6>3, <6>4
        <5> QED BY <5>1, <5>2
      <4>3. \E i \in DOMAIN down' : ~ Greets(down'[i])
        <5>1. PICK j \in DOMAIN said : said[j].type = "begin"
          BY <3>3
        <5>2. m + j \in DOMAIN down' /\ down'[m + j] = said[j]
          BY <1>3, <4>1, <5>1
        <5> QED BY <5>1, <5>2 DEF Greets
      <4> QED BY <2>2, <4>2, <4>3 DEF BeginsFirst, Greets
    <3> QED BY <2>1, <3>1, <3>2, <3>3
  <2> QED BY <2>3, <2>4
<1>13. Apart' => Awaits'
  <2>1. Apart' => Apart
    BY <1>8 DEF Apart
  <2> QED BY <1>12, <2>1 DEF SizeInvariant, Awaits, StartsOver
<1> QED BY <1>9, <1>10, <1>11, <1>13 DEF SizeInvariant

\* So does what it does in silence.
LEMMA SilentStep ==
    ASSUME Typed, ShownInvariant, SizeInvariant, UNCHANGED <<link, up, down, view, lost>>,
           host'.gen = host.gen, host'.size = host.size, sub'.pc = sub.pc
    PROVE  SizeInvariant'
<1>1. <<>> \in Seq(MessageType) /\ DOMAIN <<>> = {}
  OBVIOUS
<1>2. sub.pc \notin {"idle", "capturing"} \/ sub'.pc \in {"idle", "capturing"}
  OBVIOUS
<1> QED BY <1>1, <1>2, SaidStep

\* The program writes.
LEMMA OutputSize ==
    ASSUME Typed, ShownInvariant, SizeInvariant, Output
    PROVE  SizeInvariant'
<1>1. PICK c \in ChunkType, open \in AtMostOne(ChunkType) : Draw(c, open)
  BY OutputDraws
<1>2. UNCHANGED <<host, link, up, view, lost>>
  BY DEF Output
<1> DEFINE line == Line(Last + 1, c, c.proof)
<1>3. PICK last \in Nat : last = Last
  BY LenProperties DEF Typed, Last
<1>4. line \in LineType /\ line.type = "output"
  BY <1>3 DEF Line, LineType, ChunkType
<1>5. CASE sub.pc = "live"
  <2>1. Tell(<<line>>) /\ UNCHANGED sub
    BY <1>1, <1>5 DEF Draw, Feed
  <2> HIDE DEF line
  <2>2. /\ <<line>> \in Seq(MessageType)
        /\ \A i \in DOMAIN <<line>> : <<line>>[i].type # "begin"
    BY <1>4 DEF MessageType
  <2> DEFINE said == <<line>>
  <2> HIDE DEF said
  <2>3. /\ said \in Seq(MessageType) /\ Tell(said)
        /\ \A i \in DOMAIN said : said[i].type # "begin"
    BY <2>1, <2>2 DEF said
  <2> QED BY <1>2, <1>5, <2>1, <2>3, SaidStep
<1>6. CASE sub.pc # "live"
  <2>1. UNCHANGED down /\ sub' = [sub EXCEPT !.proofs = @ \/ (sub.pc # "idle" /\ c.proof)]
    BY <1>1, <1>6 DEF Draw, Feed
  <2>2. sub'.pc = sub.pc
    BY <2>1 DEF Typed, SubType
  <2> QED BY <1>2, <2>1, <2>2, SilentStep
<1> QED BY <1>5, <1>6

\* The runner and the program do what the view is not told of.
LEMMA QuietSteps ==
    ASSUME Typed, ShownInvariant, SizeInvariant, NoticeSize \/ HearIntent \/ EnableReporter
    PROVE  SizeInvariant'
<1>1. /\ UNCHANGED <<sub, link, up, down, view, lost>>
  BY DEF NoticeSize, HearIntent, EnableReporter, wire
<1>2. host'.gen = host.gen /\ host'.size = host.size
  BY DEF NoticeSize, HearIntent, EnableReporter, Typed, HostType
<1> QED BY <1>1, <1>2, SilentStep

\* A reporter is lost.
LEMMA LoseReporterSize ==
    ASSUME Typed, ShownInvariant, SizeInvariant, LoseReporter
    PROVE  SizeInvariant'
<1> DEFINE state == [type |-> "state", cov |-> Unknown]
           status == [type |-> "status", gen |-> host.gen, trust |-> "off"]
           first == IF sub.pc = "live" THEN <<state>> ELSE <<>>
           said == first \o <<status>>
<1>1. /\ host' = [host EXCEPT !.trust = "off"]
      /\ sub' = IF sub.pc \in {"capturing", "rendering"}
                THEN [sub EXCEPT !.reset = TRUE, !.proofs = FALSE] ELSE sub
      /\ Tell(said) /\ UNCHANGED <<link, up, view, lost>>
  BY DEF LoseReporter
<1>2. host'.gen = host.gen /\ host'.size = host.size /\ sub'.pc = sub.pc
  BY <1>1 DEF Typed, HostType, SubType
<1>3. state \in MessageType /\ status \in MessageType
  BY ConstantsTyped DEF Typed, HostType, MessageType, IdentityType
<1>4. state.type = "state" /\ Greets(status)
  BY DEF Greets
<1> HIDE DEF state, status
<1>5. /\ first \in Seq(MessageType) /\ <<status>> \in Seq(MessageType)
      /\ \A i \in DOMAIN first : first[i].type = "state" /\ sub.pc = "live"
      /\ \A i \in DOMAIN <<status>> : Greets(<<status>>[i])
  <2>1. \A i \in DOMAIN <<status>> : Greets(<<status>>[i])
    BY <1>4
  <2>2. CASE sub.pc = "live"
    <3>1. first = <<state>> /\ <<status>> \in Seq(MessageType)
      BY <1>3, <2>2
    <3> HIDE DEF first
    <3>2. first \in Seq(MessageType) /\ DOMAIN first = {1} /\ first[1] = state
      BY <1>3, <3>1
    <3> QED BY <1>4, <2>1, <2>2, <3>1, <3>2
  <2>3. CASE sub.pc # "live"
    BY <1>3, <2>1, <2>3
  <2> QED BY <2>2, <2>3
<1> DEFINE last == <<status>>
<1>6. /\ said \in Seq(MessageType)
      /\ \A i \in DOMAIN said : Greets(said[i]) \/ (said[i].type = "state" /\ sub.pc = "live")
  <2> HIDE DEF first, last
  <2>1. first \in Seq(MessageType) /\ last \in Seq(MessageType)
    BY <1>5 DEF last
  <2>2. /\ first \o last \in Seq(MessageType)
        /\ \A i \in DOMAIN (first \o last) :
              (\E j \in DOMAIN first : (first \o last)[i] = first[j])
              \/ \E j \in DOMAIN last : (first \o last)[i] = last[j]
    BY <2>1, Sending
  <2>3. \A i \in DOMAIN last : Greets(last[i])
    BY <1>5 DEF last
  <2>4. said = first \o last
    BY DEF last
  <2> HIDE DEF said
  <2> QED BY <1>5, <2>2, <2>3, <2>4
<1> HIDE DEF said
<1>7. \A i \in DOMAIN said : said[i].type # "begin"
  BY <1>6 DEF Greets
<1>8. sub.pc = "live" \/ \A i \in DOMAIN said : Greets(said[i])
  BY <1>6
<1>9. CASE sub.pc = "live"
  BY <1>1, <1>2, <1>6, <1>7, <1>9, SaidStep
<1>10. CASE sub.pc # "live"
  <2>1. sub.pc \notin {"idle", "capturing"} \/ sub'.pc \in {"idle", "capturing"}
    BY <1>2
  <2> QED BY <1>1, <1>2, <1>6, <1>7, <1>8, <1>10, <2>1, SaidStep
<1> QED BY <1>9, <1>10

\* A reporter is replaced.
LEMMA ReplaceReporterSize ==
    ASSUME Typed, ShownInvariant, SizeInvariant, ReplaceReporter
    PROVE  SizeInvariant'
<1> DEFINE state == [type |-> "state", cov |-> Unknown]
           said == IF sub.pc = "live" THEN <<state>> ELSE <<>>
<1>1. /\ host' = [host EXCEPT !.since = Last, !.rev = 0]
      /\ sub' = IF sub.pc \in {"capturing", "rendering"}
                THEN [sub EXCEPT !.reset = TRUE, !.proofs = FALSE] ELSE sub
      /\ Tell(said) /\ UNCHANGED <<link, up, view, lost>>
  BY DEF ReplaceReporter
<1>2. host'.gen = host.gen /\ host'.size = host.size /\ sub'.pc = sub.pc
  BY <1>1 DEF Typed, HostType, SubType
<1>3. state \in MessageType /\ state.type = "state"
  BY ConstantsTyped DEF Typed, HostType, MessageType, IdentityType
<1> HIDE DEF state
<1>4. said \in Seq(MessageType)
      /\ \A i \in DOMAIN said : said[i].type = "state" /\ sub.pc = "live"
  BY <1>3
<1>5. sub.pc = "live" \/ \A i \in DOMAIN said : Greets(said[i])
  BY <1>4
<1> HIDE DEF said
<1>6. \A i \in DOMAIN said : said[i].type # "begin"
  BY <1>4
<1>7. CASE sub.pc = "live"
  BY <1>1, <1>2, <1>4, <1>6, <1>7, SaidStep
<1>8. CASE sub.pc # "live"
  <2>1. sub.pc \notin {"idle", "capturing"} \/ sub'.pc \in {"idle", "capturing"}
    BY <1>2
  <2> QED BY <1>1, <1>2, <1>4, <1>5, <1>6, <1>8, <2>1, SaidStep
<1> QED BY <1>7, <1>8

\* Another socket connects.
LEMMA PeerSize ==
    ASSUME Typed, ShownInvariant, SizeInvariant, PeerConnects
    PROVE  SizeInvariant'
<1> DEFINE status == Identify("status")
           said == <<status>>
<1>1. Tell(said) /\ UNCHANGED <<host, sub, link, up, view, lost>>
  BY DEF PeerConnects
<1>2. status \in MessageType /\ Greets(status) /\ status.type # "begin"
  BY AnswersTyped DEF MessageType, Greets, Identify
<1> HIDE DEF status
<1>3. said \in Seq(MessageType) /\ \A i \in DOMAIN said : Greets(said[i]) /\ said[i].type # "begin"
  BY <1>2
<1> HIDE DEF said
<1> QED BY <1>1, <1>3, SaidStep

\* A subscribe is answered, or a snapshot is begun.
LEMMA HearSubscribeSize ==
    ASSUME Typed, ShownInvariant, SizeInvariant, HearSubscribe
    PROVE  SizeInvariant'
<1>1. /\ link /\ up # <<>> /\ up' = Tail(up) /\ Head(up).type = "subscribe"
      /\ UNCHANGED <<host, link, view, lost>>
  BY DEF HearSubscribe, Reading
<1>2. CASE sub.pc \in {"capturing", "rendering"}
  <2>1. UNCHANGED <<sub, down>>
    BY <1>2 DEF HearSubscribe
  <2>2. <<>> \in Seq(MessageType) /\ DOMAIN <<>> = {}
    OBVIOUS
  <2>3. sub.pc \notin {"idle", "capturing"} \/ sub'.pc \in {"idle", "capturing"}
    BY <2>1
  <2> QED BY <1>1, <2>1, <2>2, <2>3, SaidStep
<1>3. CASE sub.pc \notin {"capturing", "rendering"} /\ Head(up).n # 0
  <2>1. Replay(Head(up).n)
    BY <1>3 DEF HearSubscribe
  <2>2. Head(up).n \in Nat
    <3>1. Head(up) \in RequestType
      BY <1>1, HeadTailProperties DEF Typed
    <3> QED BY <3>1, ViewAssumption DEF RequestType
  <2>3. PICK said \in Seq(MessageType) :
           Tell(said) /\ \A i \in DOMAIN said : said[i].type # "begin"
    BY <2>1, <2>2, ReplayStep
  <2> QED BY <1>1, <1>3, <2>3, SaidStep
<1>4. CASE sub.pc \notin {"capturing", "rendering"} /\ Head(up).n = 0
  <2>1. StartSnapshot
    BY <1>4 DEF HearSubscribe
  <2>2. CASE Last # 0
    <3>1. sub'.pc = "capturing" /\ UNCHANGED down
      BY <2>1, <2>2 DEF StartSnapshot, NoSub
    <3>2. <<>> \in Seq(MessageType) /\ DOMAIN <<>> = {}
      OBVIOUS
    <3> QED BY <1>1, <3>1, <3>2, SaidStep
  <2>3. CASE Last = 0
    <3> DEFINE ready == Ready(0, Unknown, FALSE)
               said == <<Begin, ready>>
    <3>1. Tell(said) /\ Begin \in BeginType /\ ready \in ReadyType
      <4>1. 0 \in 0..Last
        BY <2>3
      <4> QED BY <2>1, <2>3, <4>1, AnswersTyped, ConstantsTyped DEF StartSnapshot
    <3>2. Begin \in MessageType /\ ready \in MessageType /\ ready.type # "begin"
      BY <3>1 DEF MessageType, ReadyType
    <3>3. Begin.type = "begin" /\ Begin.size = host.size
      BY DEF Begin
    <3> HIDE DEF ready
    <3>4. /\ said \in Seq(MessageType) /\ DOMAIN said = 1..2 /\ said[1] = Begin /\ said[2] = ready
      BY <3>2
    <3> HIDE DEF said
    <3>5. /\ \A i \in DOMAIN said : said[i].type = "begin" => said[i].size = host.size
          /\ \A i \in DOMAIN said : \E j \in 1..i : said[j].type = "begin"
          /\ \E j \in DOMAIN said : said[j].type = "begin"
      BY <3>2, <3>3, <3>4
    <3> QED BY <1>1, <3>1, <3>4, <3>5, SaidStep
  <2> QED BY <2>2, <2>3
<1> QED BY <1>2, <1>3, <1>4

\* A snapshot is captured.
LEMMA CaptureSize ==
    ASSUME Typed, ShownInvariant, SizeInvariant, Capture
    PROVE  SizeInvariant'
<1> DEFINE said == <<Begin>>
<1>1. Tell(said) /\ sub.pc = "capturing" /\ UNCHANGED <<host, link, up, view, lost>>
  BY DEF Capture
<1>2. Begin \in MessageType /\ Begin.type = "begin" /\ Begin.size = host.size
  BY AnswersTyped DEF MessageType, Begin
<1>3. said \in Seq(MessageType) /\ DOMAIN said = 1..1 /\ said[1] = Begin
  BY <1>2
<1> HIDE DEF said
<1>4. /\ \A i \in DOMAIN said : said[i].type = "begin" => said[i].size = host.size
      /\ \A i \in DOMAIN said : \E j \in 1..i : said[j].type = "begin"
      /\ \E j \in DOMAIN said : said[j].type = "begin"
  BY <1>2, <1>3
<1> QED BY <1>1, <1>3, <1>4, SaidStep

\* A snapshot is finished.
LEMMA FinishSnapshotSize ==
    ASSUME Typed, ShownInvariant, SizeInvariant, FinishSnapshot
    PROVE  SizeInvariant'
<1> DEFINE cov == IF sub.reset THEN Unknown ELSE Coverage(Last)
           ready == Ready(sub.dto, cov, sub.proofs)
           said == <<ready>>
<1>1. Tell(said) /\ sub.pc = "rendering" /\ UNCHANGED <<host, link, up, view, lost>>
  BY DEF FinishSnapshot
<1>2. cov \in CoverageType
  <2>1. Last \in 0..Last
    BY LenProperties DEF Typed, Last
  <2> QED BY <2>1, RenderTyped, ConstantsTyped
<1>3. ready \in ReadyType
  <2> HIDE DEF cov
  <2> QED BY <1>2, AnswersTyped DEF Typed, SubType
<1> HIDE DEF ready
<1>4. ready \in MessageType /\ ready.type # "begin"
  BY <1>3 DEF MessageType, ReadyType
<1>5. said \in Seq(MessageType) /\ \A i \in DOMAIN said : said[i].type # "begin"
  BY <1>4
<1> HIDE DEF said
<1> QED BY <1>1, <1>5, SaidStep

\* A resize reaches the runner.
LEMMA ApplyResizeSize ==
    ASSUME Typed, ShownInvariant, SizeInvariant, ApplyResize
    PROVE  SizeInvariant'
<1>1. /\ link /\ up # <<>> /\ up' = Tail(up) /\ Head(up).type = "resize"
      /\ UNCHANGED <<sub, link, down, view, lost>>
      /\ host' = [host EXCEPT !.size = Head(up).n,
                              !.rev = IF Head(up).n # host.size /\ host.trust = "on" THEN @ + 1 ELSE @]
  BY DEF ApplyResize, Reading
<1>2. host'.size = Head(up).n
  BY <1>1 DEF Typed, HostType
<1>3. /\ 1 \in DOMAIN up /\ Head(up) = up[1] /\ up' \in Seq(RequestType)
      /\ \A i \in DOMAIN up' : i + 1 \in DOMAIN up /\ up'[i] = up[i + 1]
      /\ \A i \in DOMAIN up : i = 1 \/ (i - 1 \in DOMAIN up' /\ up'[i - 1] = up[i])
  BY <1>1, Receiving, TailCovers DEF Typed
<1>4. PICK k \in Nat : DOMAIN up = 1..k
  BY LenProperties DEF Typed
<1>5. Newest'
  <2> SUFFICES ASSUME NEW i \in DOMAIN up', up'[i].type = "resize", up'[i].n # view.size
               PROVE  \E j \in DOMAIN up' : j > i /\ up'[j].type = "resize"
    BY <1>1 DEF Newest
  <2>1. i + 1 \in DOMAIN up /\ up'[i] = up[i + 1]
    BY <1>3
  <2>2. PICK j \in DOMAIN up : j > i + 1 /\ up[j].type = "resize"
    BY <2>1 DEF SizeInvariant, Newest
  <2>3. i \in Nat
    BY <1>3, LenProperties
  <2>4. j # 1 /\ j - 1 > i
    BY <1>4, <2>2, <2>3
  <2>5. j - 1 \in DOMAIN up' /\ up'[j - 1] = up[j]
    BY <1>3, <2>4
  <2> QED BY <2>2, <2>4, <2>5
<1>6. ~ Coming' => host'.size = view.size
  <2> SUFFICES ASSUME ~ Coming', host'.size # view.size PROVE FALSE
    OBVIOUS
  <2>1. PICK j \in DOMAIN up : j > 1 /\ up[j].type = "resize"
    BY <1>1, <1>2, <1>3 DEF SizeInvariant, Newest
  <2>2. j # 1
    BY <1>4, <2>1
  <2>3. j - 1 \in DOMAIN up' /\ up'[j - 1] = up[j]
    BY <1>3, <2>2
  <2> QED BY <2>1, <2>3 DEF Coming
<1>7. Told' /\ ~ Apart'
  BY <1>1, <1>6 DEF Told, Apart
<1>8. Unsubscribed'
  BY <1>1, <1>3 DEF SizeInvariant, Unsubscribed
<1> QED BY <1>5, <1>7, <1>8 DEF SizeInvariant

\* A new socket greets a view that has nothing on the wire.
LEMMA ConnectSize ==
    ASSUME Typed, ShownInvariant, SizeInvariant, Connect
    PROVE  SizeInvariant'
<1> DEFINE probing == view.client = "probing"
           c == CaptureRecovery(view)
           v == [c EXCEPT !.conn = @ + 1, !.committed = <<>>, !.wire = 0,
                          !.gate = TRUE, !.hard = Attaching(view)]
           w == [v EXCEPT !.client = IF probing THEN @ ELSE "reconciling"]
<1>1. c \in ViewType /\ SameStream(view, c)
  BY CaptureRecoveryFacts DEF Typed
<1>2. /\ v.gen = view.gen /\ v.wire = 0 /\ v.client = view.client /\ v.seq = view.seq
      /\ v.size = view.size /\ DOMAIN v = DOMAIN c
  <2> HIDE DEF c
  <2> QED BY <1>1 DEF ViewType, SameStream
<1>3. /\ w.gen = view.gen /\ w.wire = 0 /\ w.seq = view.seq /\ w.size = view.size
      /\ w.client = IF probing THEN "probing" ELSE "reconciling"
      /\ {"gen", "wire", "seq", "size", "client"} \subseteq DOMAIN w
  <2>1. {"gen", "wire", "seq", "size", "client"} \subseteq DOMAIN c
    BY <1>1 DEF ViewType
  <2> HIDE DEF v, c
  <2> QED BY <1>2, <2>1
<1>4. view' \in {w, [w EXCEPT !.settle = TRUE]} /\ link' = TRUE /\ down' = <<Identify("hello")>>
      /\ up' = IF probing THEN <<Subscribe(0)>> ELSE <<>>
  BY DEF Connect, DeferSettle
<1>5. UNCHANGED <<host, sub, lost>> /\ ~ link
  BY DEF Connect
<1> HIDE DEF w, v
<1>6. /\ view'.gen = view.gen /\ view'.wire = 0 /\ view'.seq = view.seq /\ view'.size = view.size
      /\ view'.client = IF probing THEN "probing" ELSE "reconciling"
  BY <1>3, <1>4
<1>7. up = <<>> /\ sub.pc = "idle"
  BY <1>5 DEF ShownInvariant, Speaks, SizeInvariant, Unsubscribed
<1>8. Greets(Identify("hello")) /\ Identify("hello").type # "begin"
  BY DEF Greets, Identify
<1>9. /\ \A i \in DOMAIN down' : Greets(down'[i]) /\ down'[i].type # "begin"
      /\ \A i \in DOMAIN up' : up'[i] = Subscribe(0) /\ probing
  BY <1>4, <1>8
<1>10. \A i \in DOMAIN up' : up'[i].type = "subscribe" /\ up'[i].n = 0 /\ probing
  BY <1>9 DEF Subscribe
<1>11. ~ Coming /\ ~ Coming'
  BY <1>7, <1>10 DEF Coming
<1>12. Newest' /\ Told' /\ Unsubscribed'
  BY <1>4, <1>5, <1>6, <1>7, <1>9, <1>10 DEF Newest, Told, Unsubscribed, Greets
<1>13. BeginsFirst'
  BY <1>5, <1>7, <1>9, <1>10 DEF BeginsFirst, Greets
<1>14. ASSUME Apart' PROVE Awaits'
  <2>1. Awaits
    BY <1>5, <1>6, <1>11, <1>14 DEF SizeInvariant, Apart
  <2>2. CASE probing
    BY <1>6, <1>13, <2>2 DEF Awaits
  <2>3. CASE ~ probing
    BY <1>5, <1>6, <2>1, <2>3 DEF Awaits, StartsOver
  <2> QED BY <2>2, <2>3
<1> QED BY <1>12, <1>14 DEF SizeInvariant

\* A socket is lost, and a host maybe replaced: the view will start over.
LEMMA DisconnectSize ==
    ASSUME Typed, ShownInvariant, SizeInvariant, DropLink \/ ReplaceHost
    PROVE  SizeInvariant'
<1>1. /\ link' = FALSE /\ up' = <<>> /\ down' = <<>> /\ sub' = NoSub
      /\ view' = CaptureRecovery(view) /\ link
      /\ lost' = (lost \/ \E i \in DOMAIN up : up[i].type = "resize")
  BY DEF DropLink, ReplaceHost, Disconnect
<1>2. SameStream(view, view')
  BY <1>1, CaptureRecoveryFacts DEF Typed
<1>3. sub'.pc = "idle"
  BY <1>1 DEF NoSub
<1>4. Newest' /\ Told' /\ Unsubscribed'
  BY <1>1, <1>3 DEF Newest, Told, Unsubscribed
<1>5. ASSUME Apart' PROVE Awaits'
  <2>1. CASE DropLink
    <3>1. UNCHANGED host
      BY <2>1 DEF DropLink
    <3>2. Apart
      BY <1>1, <1>2, <1>5, <3>1 DEF Apart, Coming, SameStream
    <3> QED BY <1>1, <1>2, <3>1, <3>2 DEF SizeInvariant, Awaits, StartsOver, SameStream
  <2>2. CASE ReplaceHost
    <3>1. host.gen \in Nat /\ view.gen \in Nat /\ view.gen <= host.gen
      BY DEF Typed, HostType, ViewType, ShownInvariant, Knows
    <3>2. host'.gen = host.gen + 1
      BY <2>2 DEF ReplaceHost
    <3>3. view'.gen # host'.gen
      BY <1>2, <3>1, <3>2 DEF SameStream
    <3> QED BY <1>1, <3>3 DEF Awaits, StartsOver
  <2> QED BY <2>1, <2>2
<1> QED BY <1>4, <1>5 DEF SizeInvariant

\* What is not on the wire does not matter to the size.
LEMMA OwnSize ==
    ASSUME SizeInvariant, UNCHANGED <<host, sub, link, up, down, lost>>, SameStream(view, view')
    PROVE  SizeInvariant'
BY DEF SizeInvariant, Newest, Told, Unsubscribed, Awaits, StartsOver, BeginsFirst, Greets, Apart,
       Coming, SameStream

\* The view hears what the runner says while it is not apart from it.
LEMMA HeardSize ==
    ASSUME SizeInvariant, ~ Apart, link, UNCHANGED <<host, sub, link, lost>>,
           view'.size = view.size, view'.client # "reconciling",
           up \in Seq(RequestType), NEW said \in Seq(RequestType), Ask(said) \/ UNCHANGED up,
           \A i \in DOMAIN said : said[i].type = "subscribe",
           \A i \in DOMAIN down' : down'[i].type = "begin" => \E j \in DOMAIN down : down'[i] = down[j]
    PROVE  SizeInvariant'
<1>1. PICK m \in Nat :
         /\ DOMAIN up = 1..m
         /\ \A i \in DOMAIN up : i \in DOMAIN (up \o said) /\ (up \o said)[i] = up[i]
         /\ \A i \in DOMAIN said : m + i \in DOMAIN (up \o said) /\ (up \o said)[m + i] = said[i]
         /\ \A i \in DOMAIN (up \o said) :
               i \in DOMAIN up \/ (i - m \in DOMAIN said /\ m + (i - m) = i)
  BY SentBehind
<1>2. /\ \A i \in DOMAIN up : i \in DOMAIN up' /\ up'[i] = up[i]
      /\ \A i \in DOMAIN up' : i \in DOMAIN up \/ up'[i].type = "subscribe"
  <2>1. CASE UNCHANGED up
    BY <2>1
  <2>2. CASE up' = up \o said
    <3>1. ASSUME NEW i \in DOMAIN (up \o said), i \notin DOMAIN up
          PROVE  (up \o said)[i].type = "subscribe"
      <4>1. i - m \in DOMAIN said /\ m + (i - m) = i
        BY <1>1, <3>1
      <4> QED BY <1>1, <4>1
    <3>2. \A i \in DOMAIN up : i \in DOMAIN (up \o said) /\ (up \o said)[i] = up[i]
      BY <1>1
    <3> QED BY <2>2, <3>1, <3>2
  <2> QED BY <2>1, <2>2 DEF Ask
<1>3. Coming' <=> Coming
  BY <1>2 DEF Coming
<1>4. Newest'
  BY <1>2 DEF SizeInvariant, Newest
<1>5. Told' /\ ~ Apart' /\ Unsubscribed'
  BY <1>3 DEF SizeInvariant, Told, Apart, Unsubscribed
<1> QED BY <1>4, <1>5 DEF SizeInvariant

\* The view asks again for what it rejects.
LEMMA RejectSize ==
    ASSUME Typed, ShownInvariant, SizeInvariant, RejectBegin \/ RejectFrame \/ RejectEnd
    PROVE  SizeInvariant'
<1>1. /\ link /\ down # <<>> /\ up \in Seq(RequestType) /\ down \in Seq(MessageType)
      /\ UNCHANGED <<host, sub, link, lost>> /\ Ask(<<Subscribe(0)>>)
  BY DEF RejectBegin, RejectFrame, RejectEnd, AskAgain, Hearing, Typed
<1>2. /\ \A i \in DOMAIN Tail(down) : i + 1 \in DOMAIN down /\ Tail(down)[i] = down[i + 1]
      /\ Tail(down) \in Seq(MessageType) /\ Head(down) \in MessageType
  BY <1>1, Receiving
<1>3. ~ Apart
  <2>1. ~ Greets(Head(down))
    BY DEF RejectBegin, RejectFrame, RejectEnd, Hearing, Greets
  <2>2. \/ Head(down).type # "begin" \/ view.client = "live"
    BY DEF RejectBegin, RejectFrame, RejectEnd, Hearing
  <2> QED BY <1>1, <2>1, <2>2, HeardWhileApart
<1>4. view'.size = view.size /\ view'.client = "resyncing"
  BY DEF RejectBegin, RejectFrame, RejectEnd, AskAgain, Typed, ViewType
<1>5. \A i \in DOMAIN down' : down'[i].type = "begin" => \E j \in DOMAIN down : down'[i] = down[j]
  <2>1. CASE down' = Tail(down)
    BY <1>2, <2>1
  <2>2. CASE RejectFrame
    <3> DEFINE end == [type |-> "end"]
               flush == Head(down).flush
               most == flush \o <<end>>
               rest == Tail(down)
    <3>1. Head(down).type = "ready" /\ down' = most \o rest
      BY <2>2 DEF RejectFrame
    <3>2. Head(down) \in ReadyType
      BY <1>2, <3>1 DEF MessageType, IdentityType, BeginType, LineType
    <3>3. flush \in Seq(LineType)
      BY <3>2 DEF ReadyType
    <3> HIDE DEF flush
    <3>4. flush \in Seq(MessageType) /\ \A i \in DOMAIN flush : flush[i].type # "begin"
      <4>1. \A i \in DOMAIN flush : flush[i] \in LineType
        BY <3>3, LenProperties, ElementOfSeq
      <4>2. flush \in Seq(MessageType)
        BY <3>3, LenProperties, SeqDef, <4>1 DEF MessageType
      <4> QED BY <4>1, <4>2 DEF LineType
    <3> DEFINE last == <<end>>
    <3>5. last \in Seq(MessageType) /\ \A i \in DOMAIN last : last[i].type # "begin"
      <4>1. end \in MessageType /\ end.type # "begin"
        BY DEF MessageType
      <4> HIDE DEF end
      <4> QED BY <4>1
    <3> HIDE DEF end, last
    <3>6. /\ most \in Seq(MessageType)
          /\ \A i \in DOMAIN most : \/ \E j \in DOMAIN flush : most[i] = flush[j]
                                    \/ \E j \in DOMAIN last : most[i] = last[j]
      BY <3>4, <3>5, Sending DEF last
    <3>7. \A i \in DOMAIN most : most[i].type # "begin"
      <4> HIDE DEF most
      <4> QED BY <3>4, <3>5, <3>6
    <3>8. rest \in Seq(MessageType)
      BY <1>2
    <3> HIDE DEF most, rest
    <3>9. \A i \in DOMAIN (most \o rest) : \/ \E j \in DOMAIN most : (most \o rest)[i] = most[j]
                                           \/ \E j \in DOMAIN rest : (most \o rest)[i] = rest[j]
      BY <3>6, <3>8, Sending
    <3>10. \A i \in DOMAIN rest : \E j \in DOMAIN down : rest[i] = down[j]
      BY <1>2 DEF rest
    <3>11. \A i \in DOMAIN down' : \/ \E j \in DOMAIN most : down'[i] = most[j]
                                   \/ \E j \in DOMAIN rest : down'[i] = rest[j]
      BY <3>1, <3>9
    <3> QED BY <3>7, <3>10, <3>11
  <2> QED BY <2>1, <2>2 DEF RejectBegin, RejectEnd, Hearing
<1>6. <<Subscribe(0)>> \in Seq(RequestType) /\ \A i \in DOMAIN <<Subscribe(0)>> : <<Subscribe(0)>>[i].type = "subscribe"
  <2>1. Subscribe(0) \in RequestType /\ Subscribe(0).type = "subscribe"
    BY DEF Subscribe, RequestType
  <2> QED BY <2>1
<1> QED BY <1>1, <1>3, <1>4, <1>5, <1>6, HeardSize

\* The view hears a frame, a chunk, a proof, or that there is none.
LEMMA StreamSize ==
    ASSUME Typed, ShownInvariant, SizeInvariant, HearReady \/ HearOutput \/ HearRecord \/ HearState
    PROVE  SizeInvariant'
<1>1. /\ link /\ down # <<>> /\ up \in Seq(RequestType) /\ down \in Seq(MessageType)
      /\ UNCHANGED <<host, sub, link, lost>>
      /\ Head(down).type \in {"ready", "output", "record", "state"}
  BY DEF HearReady, HearOutput, HearRecord, HearState, Hearing, Typed
<1>2. /\ \A i \in DOMAIN Tail(down) : i + 1 \in DOMAIN down /\ Tail(down)[i] = down[i + 1]
      /\ Tail(down) \in Seq(MessageType) /\ Head(down) \in MessageType
  BY <1>1, Receiving
<1>3. view.client # "reconciling" /\ ~ Apart
  <2>1. ~ Greets(Head(down))
    BY <1>1 DEF Greets
  <2> QED BY <1>1, <2>1, HeardWhileApart
<1>4. view'.size = view.size /\ view'.client # "reconciling"
  <2>1. view'.size = view.size /\ view'.client \in {view.client, "live"}
    BY HearReadyStep, HearOutputStep, ProofSteps
  <2> QED BY <1>3, <2>1
<1>5. \A i \in DOMAIN down' : down'[i].type = "begin" => \E j \in DOMAIN down : down'[i] = down[j]
  <2>1. CASE down' = Tail(down)
    BY <1>2, <2>1
  <2>2. CASE HearOutput /\ Head(down).record
    <3> DEFINE record == [type |-> "record", n |-> Head(down).n, c |-> Head(down).c]
               first == <<record>>
               rest == Tail(down)
    <3>1. down' = first \o rest /\ Head(down).type = "output"
      BY <2>2 DEF HearOutput
    <3>2. record \in MessageType /\ record.type # "begin"
      BY <1>2, <3>1 DEF MessageType, LineType, IdentityType, BeginType, ReadyType
    <3> HIDE DEF record
    <3>3. first \in Seq(MessageType) /\ \A i \in DOMAIN first : first[i].type # "begin"
      BY <3>2
    <3>4. rest \in Seq(MessageType) /\ \A i \in DOMAIN rest : \E j \in DOMAIN down : rest[i] = down[j]
      BY <1>2
    <3> HIDE DEF first, rest
    <3>5. \A i \in DOMAIN (first \o rest) : \/ \E j \in DOMAIN first : (first \o rest)[i] = first[j]
                                            \/ \E j \in DOMAIN rest : (first \o rest)[i] = rest[j]
      BY <3>3, <3>4, Sending
    <3>6. \A i \in DOMAIN down' : \/ \E j \in DOMAIN first : down'[i] = first[j]
                                  \/ \E j \in DOMAIN rest : down'[i] = rest[j]
      BY <3>1, <3>5
    <3> QED BY <3>3, <3>4, <3>6
  <2>3. down' = Tail(down) \/ (HearOutput /\ Head(down).record)
    BY DEF HearReady, HearOutput, HearRecord, HearState, Hearing
  <2> QED BY <2>1, <2>2, <2>3
<1>6. \E said \in Seq(RequestType) : /\ Ask(said) \/ UNCHANGED up
                                     /\ \A i \in DOMAIN said : said[i].type = "subscribe"
  <2> DEFINE one == <<Subscribe(0)>>
  <2>1. one \in Seq(RequestType) /\ \A i \in DOMAIN one : one[i].type = "subscribe"
    <3>1. Subscribe(0) \in RequestType /\ Subscribe(0).type = "subscribe"
      BY DEF Subscribe, RequestType
    <3> QED BY <3>1
  <2>2. <<>> \in Seq(RequestType) /\ \A i \in DOMAIN <<>> : <<>>[i].type = "subscribe"
    OBVIOUS
  <2>3. CASE HearReady
    <3>1. Ask(one) \/ Ask(<<>>)
      BY <2>3 DEF HearReady
    <3> QED BY <2>1, <2>2, <3>1
  <2>4. CASE HearOutput \/ HearRecord \/ HearState
    <3>1. UNCHANGED up
      BY <2>4 DEF HearOutput, HearRecord, HearState
    <3> QED BY <2>2, <3>1
  <2> QED BY <2>3, <2>4
<1>7. PICK said \in Seq(RequestType) : /\ Ask(said) \/ UNCHANGED up
                                       /\ \A i \in DOMAIN said : said[i].type = "subscribe"
  BY <1>6
<1> QED BY <1>1, <1>3, <1>4, <1>5, <1>7, HeardSize

\* A resize that the view asks for is the newest.
LEMMA ResizeAsked ==
    ASSUME SizeInvariant, link, up \in Seq(RequestType), view'.size \in Sizes,
           up' = up \o <<Resize(view'.size)>>, UNCHANGED <<sub, link>>,
           view'.client = "reconciling" => UNCHANGED <<view.client, view.wire, down>>
    PROVE  SizeInvariant'
<1> DEFINE resize == Resize(view'.size)
           last == <<resize>>
<1>1. resize \in RequestType /\ resize.type = "resize" /\ resize.n = view'.size
  BY DEF Resize, RequestType
<1> HIDE DEF resize
<1>2. last \in Seq(RequestType) /\ DOMAIN last = {1} /\ last[1] = resize
  BY <1>1
<1>3. up' = up \o last
  BY DEF resize
<1> HIDE DEF last
<1>4. PICK m \in Nat :
         /\ DOMAIN up = 1..m
         /\ \A i \in DOMAIN up : i \in DOMAIN (up \o last) /\ (up \o last)[i] = up[i]
         /\ \A i \in DOMAIN last : m + i \in DOMAIN (up \o last) /\ (up \o last)[m + i] = last[i]
         /\ \A i \in DOMAIN (up \o last) :
               i \in DOMAIN up \/ (i - m \in DOMAIN last /\ m + (i - m) = i)
  BY <1>2, SentBehind
<1>5. m + 1 \in DOMAIN up' /\ up'[m + 1] = resize
  BY <1>2, <1>3, <1>4
<1>6. \A i \in DOMAIN up' : i \in DOMAIN up \/ i = m + 1
  BY <1>2, <1>3, <1>4
<1>7. Coming'
  BY <1>1, <1>5 DEF Coming
<1>8. Newest'
  <2> SUFFICES ASSUME NEW i \in DOMAIN up', up'[i].n # view'.size
               PROVE  \E j \in DOMAIN up' : j > i /\ up'[j].type = "resize"
    BY DEF Newest
  <2>1. i # m + 1
    BY <1>1, <1>5
  <2>2. i \in 1..m
    BY <1>4, <1>6, <2>1
  <2>3. m + 1 > i
    BY <2>2
  <2> QED BY <1>1, <1>5, <2>3
<1>9. \A i \in DOMAIN up' : up'[i].type = "resize" \/ (i \in DOMAIN up /\ up'[i] = up[i])
  BY <1>1, <1>3, <1>4, <1>5, <1>6
<1>10. Unsubscribed'
  BY <1>9 DEF SizeInvariant, Unsubscribed
<1> QED BY <1>7, <1>8, <1>10 DEF SizeInvariant, Told, Apart

\* The view hears that a snapshot begins.
LEMMA HearBeginSize ==
    ASSUME Typed, ShownInvariant, SizeInvariant, HearBegin
    PROVE  SizeInvariant'
<1>1. /\ link /\ down # <<>> /\ up \in Seq(RequestType) /\ Head(down).type = "begin"
      /\ down' = Tail(down) /\ UNCHANGED <<host, sub, link>>
      /\ \/ Head(down).size = view.size /\ UNCHANGED up
         \/ Head(down).size # view.size /\ Ask(<<Resize(view.size)>>)
  BY DEF HearBegin, Hearing, Typed
<1>2. /\ \A i \in DOMAIN Tail(down) : i + 1 \in DOMAIN down /\ Tail(down)[i] = down[i + 1]
      /\ 1 \in DOMAIN down /\ Head(down) = down[1]
  BY <1>1, Receiving DEF Typed
<1>3. view'.size = view.size /\ view'.client = "collecting" /\ view.size \in Sizes
  BY HearBeginStep DEF Typed, ViewType
<1>4. CASE Head(down).size # view.size /\ Ask(<<Resize(view.size)>>)
  <2>1. up' = up \o <<Resize(view'.size)>>
    BY <1>3, <1>4 DEF Ask
  <2> QED BY <1>1, <1>3, <2>1, ResizeAsked
<1>5. CASE Head(down).size = view.size /\ UNCHANGED up
  <2>1. ~ Apart'
    BY <1>1, <1>2, <1>3, <1>5 DEF SizeInvariant, Told, Apart, Coming
  <2>2. Newest' /\ Told' /\ Unsubscribed'
    BY <1>1, <1>2, <1>3, <1>5 DEF SizeInvariant, Newest, Told, Unsubscribed, Coming
  <2> QED BY <2>1, <2>2 DEF SizeInvariant
<1> QED BY <1>1, <1>4, <1>5

\* The window changes its size.
LEMMA ResizeIfNeededSize ==
    ASSUME Typed, ShownInvariant, SizeInvariant, NEW size \in Sizes, ResizeIfNeeded(size)
    PROVE  SizeInvariant'
<1> DEFINE v == [view EXCEPT !.size = size]
<1>1. /\ view' = NoteGeometryIntent(v) /\ up' = IF link THEN Append(up, Resize(size)) ELSE up
      /\ lost' = ~ link /\ UNCHANGED <<host, sub, link, down>>
      /\ up \in Seq(RequestType) /\ link \in BOOLEAN
  BY DEF ResizeIfNeeded, Typed
<1>2. v \in ViewType /\ v.client = view.client /\ v.wire = view.wire /\ v.size = size
  BY DEF Typed, ViewType
<1> HIDE DEF v
<1>3. view'.size = size /\ view'.client = view.client /\ view'.wire = view.wire
  BY <1>1, <1>2, NoteGeometryFacts DEF SameStream
<1>4. CASE link
  <2>1. Append(up, Resize(size)) = up \o <<Resize(size)>>
    <3>1. Resize(size) \in RequestType
      BY DEF Resize, RequestType
    <3> QED BY <1>1, <3>1, AppendIsConcat
  <2>2. up' = up \o <<Resize(view'.size)>>
    BY <1>1, <1>3, <1>4, <2>1
  <2> QED BY <1>1, <1>3, <1>4, <2>2, ResizeAsked
<1>5. CASE ~ link
  <2>1. up' = <<>> /\ down' = <<>> /\ lost'
    BY <1>1, <1>5 DEF ShownInvariant, Speaks
  <2>2. Newest' /\ Told' /\ ~ Apart'
    BY <2>1 DEF Newest, Told, Apart
  <2>3. Unsubscribed'
    BY <1>1, <1>5 DEF SizeInvariant, Unsubscribed
  <2> QED BY <2>2, <2>3 DEF SizeInvariant
<1> QED BY <1>4, <1>5

\* The view hears who answers.
LEMMA GreetSize ==
    ASSUME Typed, ShownInvariant, SizeInvariant, HearStatus \/ HearHello
    PROVE  SizeInvariant'
<1>1. /\ link /\ down # <<>> /\ up \in Seq(RequestType) /\ down' = Tail(down)
      /\ UNCHANGED <<host, sub, link, lost>> /\ Head(down).type \in {"hello", "status"}
  BY DEF HearStatus, HearHello, Hearing, Typed
<1>2. /\ \A i \in DOMAIN Tail(down) : i + 1 \in DOMAIN down /\ Tail(down)[i] = down[i + 1]
      /\ \A i \in DOMAIN down : i = 1 \/ (i - 1 \in DOMAIN Tail(down) /\ Tail(down)[i - 1] = down[i])
      /\ 1 \in DOMAIN down /\ Head(down) = down[1] /\ Tail(down) \in Seq(MessageType)
  BY <1>1, Receiving, TailCovers DEF Typed
<1>3. /\ Head(down) \in IdentityType /\ Head(down).gen = host.gen
  BY <1>1, HearingFacts DEF MessageType, Of, BeginType, ReadyType, LineType
<1>4. view \in ViewType /\ host.gen # 0
  BY DEF Typed, HostType
<1>5. ASSUME NEW late \in BOOLEAN
      PROVE  LET w == Identified(view, Head(down), late)
             IN  /\ w \in ViewType /\ w.client = view.client /\ w.seq = view.seq
                 /\ w.size = view.size /\ w.gen = host.gen /\ w.wire = host.gen
  BY <1>3, <1>4, <1>5, IdentifiedFacts
<1>6. ASSUME BeginsFirst
      PROVE  \A i \in DOMAIN down' : Greets(down'[i]) \/ \E j \in 1..i : down'[j].type = "begin"
  <2> SUFFICES ASSUME NEW i \in DOMAIN Tail(down), ~ Greets(Tail(down)[i])
               PROVE  \E j \in 1..i : Tail(down)[j].type = "begin"
    BY <1>1
  <2>1. i + 1 \in DOMAIN down /\ down[i + 1] = Tail(down)[i]
    BY <1>2
  <2>2. PICK j \in 1..(i + 1) : down[j].type = "begin"
    BY <1>6, <2>1 DEF BeginsFirst
  <2>3. j # 1
    BY <1>1, <1>2, <2>2
  <2>4. i \in Nat /\ \A k \in DOMAIN Tail(down) : k \in Nat
    BY <1>2, LenProperties
  <2>5. PICK k \in Nat : DOMAIN down = 1..k
    BY LenProperties DEF Typed
  <2>6. j \in DOMAIN down
    BY <2>1, <2>4, <2>5
  <2>7. j - 1 \in DOMAIN Tail(down) /\ Tail(down)[j - 1] = down[j]
    BY <1>2, <2>3, <2>6
  <2>8. j - 1 \in 1..i
    BY <2>3, <2>4
  <2> QED BY <2>2, <2>7, <2>8
<1>7. (\A i \in DOMAIN down' : Greets(down'[i])) => \A i \in DOMAIN down : Greets(down[i])
  <2> SUFFICES ASSUME \A i \in DOMAIN Tail(down) : Greets(Tail(down)[i]), NEW i \in DOMAIN down
               PROVE  Greets(down[i])
    BY <1>1
  <2>1. CASE i = 1
    BY <1>1, <1>2, <2>1 DEF Greets
  <2>2. CASE i # 1
    BY <1>2, <2>2
  <2> QED BY <2>1, <2>2
<1>8. Told' <=> (~ Coming' /\ host.size # view'.size =>
                    \A i \in DOMAIN Tail(down) : Tail(down)[i].type = "begin" => Tail(down)[i].size = host.size)
  BY <1>1 DEF Told
<1>9. CASE HearStatus \/ view.client # "reconciling"
  <2>1. UNCHANGED up /\ \E late \in BOOLEAN : view' = Identified(view, Head(down), late)
    BY <1>9 DEF HearStatus, HearHello
  <2>2. view'.client = view.client /\ view'.seq = view.seq /\ view'.size = view.size
        /\ view'.gen = host.gen /\ view'.wire = host.gen
    BY <1>5, <2>1
  <2>3. view.client # "reconciling"
    <3>1. CASE HearStatus
      BY <1>1, <3>1 DEF HearStatus, Hearing, ShownInvariant, Speaks, SizeInvariant, Unsubscribed
    <3> QED BY <1>9, <3>1
  <2>4. Newest' /\ Told' /\ Unsubscribed'
    <3>1. Newest' /\ Unsubscribed'
      BY <1>1, <2>1, <2>2, <2>3 DEF SizeInvariant, Newest, Unsubscribed
    <3>2. Coming' <=> Coming
      BY <2>1 DEF Coming
    <3>3. Told'
      BY <1>2, <1>8, <2>2, <3>2 DEF SizeInvariant, Told
    <3> QED BY <3>1, <3>3
  <2>5. BeginsFirst => BeginsFirst'
    BY <1>1, <1>6, <1>7, <2>1 DEF BeginsFirst, Greets
  <2>6. Apart' => Apart
    BY <1>1, <2>1, <2>2 DEF Apart, Coming
  <2>7. Apart' => Awaits'
    BY <1>1, <2>2, <2>3, <2>5, <2>6 DEF SizeInvariant, Awaits, StartsOver
  <2> QED BY <2>4, <2>7 DEF SizeInvariant
<1>10. CASE HearHello /\ view.client = "reconciling"
  <2>1. PICK late \in BOOLEAN :
          LET v == Identified(view, Head(down), late)
              next == IF Head(down).gen # view.gen THEN EpochReset(v) ELSE v
          IN  /\ view' = [next EXCEPT !.client = "resyncing"]
              /\ Ask(<<Subscribe(next.seq)>>)
    BY <1>10 DEF HearHello
  <2> DEFINE v == Identified(view, Head(down), late)
             next == IF Head(down).gen # view.gen THEN EpochReset(v) ELSE v
  <2>2. /\ v \in ViewType /\ v.seq = view.seq /\ v.size = view.size
        /\ v.gen = host.gen /\ v.wire = host.gen
    BY <1>5
  <2>3. /\ view' = [next EXCEPT !.client = "resyncing"]
        /\ up' = up \o <<Subscribe(next.seq)>>
    BY <2>1 DEF Ask
  <2> HIDE DEF v
  <2>4. /\ next \in ViewType /\ next.size = view.size /\ next.wire = host.gen
        /\ StartsOver => next.seq = 0
    BY <1>3, <2>2, EpochResetFacts DEF StartsOver
  <2> HIDE DEF next
  <2>5. /\ view'.size = view.size /\ view'.wire = host.gen /\ view'.client = "resyncing"
        /\ view'.seq = next.seq /\ next.seq \in Nat
    BY <2>3, <2>4 DEF ViewType
  <2>6. /\ sub.pc = "idle" /\ \A i \in DOMAIN up : up[i].type = "resize"
    BY <1>1, <1>10 DEF SizeInvariant, Unsubscribed
  <2> DEFINE ask == Subscribe(next.seq)
             last == <<ask>>
  <2>7. ask \in RequestType /\ ask.type = "subscribe" /\ ask.n = next.seq
    BY <2>5 DEF Subscribe, RequestType
  <2> HIDE DEF ask
  <2>8. last \in Seq(RequestType) /\ DOMAIN last = {1} /\ last[1] = ask
    BY <2>7
  <2>9. up' = up \o last
    BY <2>3 DEF ask
  <2> HIDE DEF last
  <2>10. PICK m \in Nat :
           /\ DOMAIN up = 1..m
           /\ \A i \in DOMAIN up : i \in DOMAIN (up \o last) /\ (up \o last)[i] = up[i]
           /\ \A i \in DOMAIN last : m + i \in DOMAIN (up \o last) /\ (up \o last)[m + i] = last[i]
           /\ \A i \in DOMAIN (up \o last) :
                 i \in DOMAIN up \/ (i - m \in DOMAIN last /\ m + (i - m) = i)
    BY <1>1, <2>8, SentBehind
  <2>11. /\ \A i \in DOMAIN up : i \in DOMAIN up' /\ up'[i] = up[i]
         /\ \A i \in DOMAIN up' : i \in DOMAIN up \/ up'[i] = ask
    BY <2>8, <2>9, <2>10
  <2>12. Coming' <=> Coming
    BY <2>7, <2>11 DEF Coming
  <2>13. Newest' /\ Unsubscribed'
    BY <1>1, <1>4, <2>5, <2>7, <2>11 DEF SizeInvariant, Newest, Unsubscribed
  <2>14. Told'
    BY <1>2, <1>8, <2>5, <2>12 DEF SizeInvariant, Told
  <2>15. ASSUME Apart' PROVE Awaits'
    <3>1. Apart
      BY <1>1, <2>5, <2>12, <2>15 DEF Apart
    <3>2. StartsOver
      BY <1>1, <1>10, <3>1 DEF SizeInvariant, Awaits
    <3>3. \A i \in DOMAIN down : Greets(down[i])
      BY <1>1, <1>10 DEF SizeInvariant, Unsubscribed
    <3>4. \A i \in DOMAIN down' : Greets(down'[i])
      BY <1>1, <1>2, <3>3
    <3>5. \A i \in DOMAIN up' : up'[i].type = "subscribe" => up'[i].n = 0
      BY <2>4, <2>6, <2>7, <2>11, <3>2
    <3>6. BeginsFirst'
      BY <1>1, <2>6, <3>4, <3>5 DEF BeginsFirst, Greets
    <3> QED BY <1>1, <2>4, <2>5, <3>2, <3>6 DEF Awaits
  <2> QED BY <2>13, <2>14, <2>15 DEF SizeInvariant
<1> QED BY <1>9, <1>10

----------------------------------------------------------------------------
(* The theorem about the size.                                             *)

\* Every step keeps the invariant.
LEMMA SizeStep ==
    ASSUME Typed, ShownInvariant, SizeInvariant, [Next]_vars
    PROVE  SizeInvariant'
<1>1. CASE UNCHANGED vars \/ Parse \/ SettleTimeout \/ HardTimeout
  <2>1. UNCHANGED <<host, sub, link, up, down, lost>>
    BY <1>1 DEF vars, Parse, SettleTimeout, HardTimeout, wire
  <2>2. SameStream(view, view')
    <3>1. CASE UNCHANGED vars
      BY <3>1 DEF vars, SameStream
    <3>2. CASE Parse
      BY <3>2, ParseStep
    <3>3. CASE SettleTimeout \/ HardTimeout
      BY <3>3, TimerSteps
    <3> QED BY <1>1, <3>1, <3>2, <3>3
  <2> QED BY <2>1, <2>2, OwnSize
<1>2. CASE Output \/ NoticeSize \/ HearIntent \/ EnableReporter
  BY <1>2, OutputSize, QuietSteps
<1>3. CASE ApplyResize \/ HearSubscribe \/ Capture \/ FinishSnapshot
  BY <1>3, ApplyResizeSize, HearSubscribeSize, CaptureSize, FinishSnapshotSize
<1>4. CASE LoseReporter \/ ReplaceReporter \/ PeerConnects
  BY <1>4, LoseReporterSize, ReplaceReporterSize, PeerSize
<1>5. CASE Connect \/ DropLink \/ ReplaceHost
  BY <1>5, ConnectSize, DisconnectSize
<1>6. CASE HearStatus \/ HearHello \/ HearBegin
  BY <1>6, GreetSize, HearBeginSize
<1>7. CASE RejectBegin \/ RejectFrame \/ RejectEnd
  BY <1>7, RejectSize
<1>8. CASE HearReady \/ HearOutput \/ HearRecord \/ HearState
  BY <1>8, StreamSize
<1>9. CASE \E size \in Sizes : ResizeIfNeeded(size)
  BY <1>9, ResizeIfNeededSize
<1> QED BY <1>1, <1>2, <1>3, <1>4, <1>5, <1>6, <1>7, <1>8, <1>9 DEF Next

\* The runner ends up at the size of the view: once all is heard and parsed the two
\* agree, whatever was resized, lost or replaced on the way, unless a resize was lost
\* with its socket (handleAttachEvent, resizeIfNeeded).
THEOREM SizeArrives == Spec => []SizeReachesHost
<1>1. Init => Typed /\ ShownInvariant /\ SizeInvariant
  <2>1. Init => ~ link /\ up = <<>> /\ down = <<>> /\ sub.pc = "idle" /\ view.client = "probing"
    BY DEF Init, NoSub, NewView
  <2>2. ~ link /\ up = <<>> /\ down = <<>> /\ sub.pc = "idle" /\ view.client = "probing"
        => SizeInvariant
    BY DEF SizeInvariant, Newest, Told, Unsubscribed, Awaits
  <2> QED BY <2>1, <2>2, InitShown
<1>2. Typed /\ ShownInvariant /\ SizeInvariant /\ [Next]_vars
      => (Typed /\ ShownInvariant /\ SizeInvariant)'
  BY ShownStep, SizeStep
<1>3. SizeInvariant => SizeReachesHost
  BY DEF SizeInvariant, SizeReachesHost, Quiet, Apart, Coming, Awaits
<1> QED BY <1>1, <1>2, <1>3, PTL DEF Spec
----------------------------------------------------------------------------
(* The inductive invariant of what a proof opens the view with.            *)

\* A chunk is of the frame that a coverage names.
Fits(c, cov) == c.proof /\ c.size = cov.size /\ c.rev = cov.rev

Drawing(item) == item.what = "frame" \/ Draws(item.picture.c)
Settled(items, n) == \A j \in DOMAIN items : j > n => ~ Drawing(items[j])

\* What the terminal shows once it has parsed all items, if a copy of that is kept.
Painted(v, items, cov) ==
    /\ \A i \in DOMAIN items :
          Drawing(items[i]) /\ Settled(items, i) => Fits(items[i].picture.c, cov)
    /\ v.committed # <<>> /\ Settled(items, 0) => Fits(v.grid.c, cov)

\* A copy that is kept has the view's identity, no gate hides it, and it is of the
\* grid, unless an update is open or one ended unseen; a frame comes first.
Copied(v, items) ==
    /\ v.committed # <<>> =>
          /\ ~ v.gate /\ v.committed[1].ident = Ident(v) /\ v.hydration # "hydrating"
          /\ ~ v.behind /\ ~ v.sync => v.committed[1].picture = v.grid
    /\ \A i \in DOMAIN items :
          IF items[i].what = "frame" THEN i = 1 /\ v.hydration = "hydrating"
                                     ELSE items[i].picture.c.kind # "none"

\* A coverage is of what the terminal will show.
Shows(v, items) == Copied(v, items) /\ (v.cov.covered => Painted(v, items, v.cov))

\* Only a chunk that draws is proven.
Real(c) == c.kind # "none" /\ (c.proof => Draws(c))
Proofs ==
    /\ \A i \in DOMAIN ring : Real(ring[i])
    /\ child.open # <<>> => Real(child.open[1])

\* The last chunk that a message stands for, and whether it is all after n.
Carries(m) == m.type \in {"output", "record", "ready"}
Reaches(m) == IF m.type = "ready" THEN m.upto ELSE m.n
Follows(m, n) ==
    IF m.type = "ready" THEN n <= m.upto /\ \A i \in DOMAIN m.flush : n < m.flush[i].n
    ELSE n < m.n
Ordered(msgs) ==
    \A i, j \in DOMAIN msgs :
        i < j /\ Carries(msgs[i]) /\ Carries(msgs[j]) => Follows(msgs[j], Reaches(msgs[i]))

\* A record is of a chunk that draws, and a snapshot's coverage is of its picture if
\* nothing that came since draws.
LineOk(m) == m.c.kind # "none" /\ (m.record => m.c.proof /\ Draws(m.c))
ReadyOk(m) ==
    /\ \A i \in DOMAIN m.flush : LineOk(m.flush[i]) /\ m.flush[i].n <= m.upto
    /\ \A i, j \in DOMAIN m.flush : i < j => m.flush[i].n < m.flush[j].n
    /\ m.cov.covered /\ (\A i \in DOMAIN m.flush : ~ Draws(m.flush[i].c)) => Fits(m.picture.c, m.cov)

\* Messages are ahead of the view, and a record is of what was just delivered.
Sound(m, i, v, items) ==
    /\ m.type \in {"output", "ready"} => Follows(m, v.seq)
    /\ m.type = "output" => LineOk(m)
    /\ m.type = "ready" => ReadyOk(m)
    /\ m.type = "record" => i = 1 /\ (m.n <= v.seq => Painted(v, items, Covers(m.n, m.c, m.n)))
Within(msgs, n) == \A i \in DOMAIN msgs : Carries(msgs[i]) => Reaches(msgs[i]) <= n
Stream(msgs, v, items) ==
    Ordered(msgs) /\ \A i \in DOMAIN msgs : Sound(msgs[i], i, v, items)

\* The coverage that ends a replay is of the last line before it that draws.
Paints(m) == m.type = "output" /\ Draws(m.c)
Replaying(msgs, n, cov, v, items) ==
    /\ cov.thru <= v.seq + n
    /\ \A i \in 1..n :
          /\ msgs[i].type \in {"output", "record", "status"}
          /\ msgs[i].type = "output" <=> v.seq + (n - i) < cov.thru
          /\ msgs[i].type = "output" => msgs[i].n + (n - i) = cov.thru
          /\ Paints(msgs[i]) /\ (\A j \in (i + 1)..n : ~ Paints(msgs[j])) => Fits(msgs[i].c, cov)
    /\ (\A j \in 1..n : ~ Paints(msgs[j])) => Painted(v, items, cov)
Replays(msgs, v, items) ==
    \A k \in DOMAIN msgs :
        msgs[k].type = "state" /\ msgs[k].cov.covered => Replaying(msgs, k - 1, msgs[k].cov, v, items)

\* What comes over the socket, and what it brings about.
Brings(msgs, v, items) == Shows(v, items) /\ Stream(msgs, v, items) /\ Replays(msgs, v, items)

\* A subscription that was not answered has sent nothing, one that is rendered has
\* sent nothing beyond its capture.
Serving ==
    /\ Within(down, Last)
    /\ sub.pc = "rendering" => view.seq <= sub.dto /\ Within(down, sub.dto)
    /\ sub.pc = "idle" => \A i \in DOMAIN down : down[i].type \in {"hello", "status"}
    /\ ~ link => sub.pc = "idle"

Asks(m) == m.type = "subscribe"
\* Where the view is: a cursor is of the runner that it names.
Cursor ==
    /\ view.gen = host.gen => view.seq <= Last
    /\ view.client = "probing" => view.seq = 0
    /\ link /\ view.wire = 0 => view.client \in {"probing", "reconciling"}
    /\ link /\ view.client = "reconciling" =>
          view.wire = 0 /\ sub.pc = "idle" /\ \A i \in DOMAIN up : ~ Asks(up[i])
    /\ \A i \in DOMAIN down : down[i].type = "hello" => i = 1 /\ view.wire = 0

\* A view that resumes has nothing on its screen that this socket brought.
Resumes ==
    \A i \in DOMAIN up : Asks(up[i]) /\ up[i].n # 0 =>
        /\ up[i].n = view.seq /\ sub.pc = "idle" /\ view.committed = <<>> /\ parser = <<>>
        /\ view.wire # 0
        /\ \A j \in DOMAIN up : Asks(up[j]) => i = j

OpeningInvariant == Brings(down, view, parser) /\ Proofs /\ Serving /\ Cursor /\ Resumes

----------------------------------------------------------------------------
(* Steps of the view that leave alone what it shows.                       *)

\* The copy is as it was, or is dropped; the coverage is of the same frame, or none.
Keeps(v, w) ==
    /\ w.hydration = v.hydration
    /\ w.committed # <<>> =>
          /\ w.committed = v.committed /\ Ident(w) = Ident(v) /\ (w.gate => v.gate)
          /\ w.grid = v.grid /\ w.sync = v.sync /\ w.behind = v.behind
    /\ w.cov.covered => v.cov.covered /\ w.cov.size = v.cov.size /\ w.cov.rev = v.cov.rev

\* The view is opened by a deadline, or not at all.
Waits(v, w) == w.opened \in {v.opened, "deadline"}

\* What a proof opens the view with.
Proven(v) == Modern(v) /\ v.committed # <<>> /\ Publish(v)

\* A view keeps what it shows by doing nothing, or by two steps that do.
LEMMA KeepsSelf ==
    ASSUME NEW v PROVE Keeps(v, v) /\ Waits(v, v)
BY DEF Keeps, Waits

\* Two steps that each keep it keep it together.
LEMMA KeepsBoth ==
    ASSUME NEW u, NEW v, NEW w
    PROVE  /\ Keeps(u, v) /\ Keeps(v, w) => Keeps(u, w)
           /\ Waits(u, v) /\ Waits(v, w) => Waits(u, w)
BY DEF Keeps, Waits

\* What is painted stays painted.
LEMMA KeepsPainted ==
    ASSUME NEW v, NEW w, NEW items, NEW cov, Keeps(v, w), Painted(v, items, cov)
    PROVE  Painted(w, items, cov)
BY DEF Keeps, Painted

\* Of a coverage, its size and its revision count.
LEMMA SamePainted ==
    ASSUME NEW v, NEW items, NEW cov, NEW other, Painted(v, items, cov),
           other.size = cov.size, other.rev = cov.rev
    PROVE  Painted(v, items, other)
BY DEF Painted, Fits

\* The copy and the coverage stay in step with what is painted.
LEMMA KeepsShows ==
    ASSUME NEW v, NEW w, NEW items, Keeps(v, w), Shows(v, items)
    PROVE  Shows(w, items)
<1>1. Copied(w, items)
  BY DEF Keeps, Shows, Copied
<1>2. ASSUME w.cov.covered PROVE Painted(w, items, w.cov)
  <2>1. Painted(w, items, v.cov)
    BY <1>2, KeepsPainted DEF Keeps, Shows
  <2> QED BY <1>2, <2>1, SamePainted DEF Keeps
<1> QED BY <1>1, <1>2 DEF Shows

\* So does what comes over the socket.
LEMMA KeepsBrings ==
    ASSUME NEW v, NEW w, NEW items, NEW msgs, Keeps(v, w), w.seq = v.seq, Brings(msgs, v, items)
    PROVE  Brings(msgs, w, items)
<1>1. \A cov : Painted(v, items, cov) => Painted(w, items, cov)
  BY KeepsPainted
<1>2. Shows(w, items)
  BY KeepsShows DEF Brings
<1>3. Stream(msgs, w, items)
  BY <1>1 DEF Brings, Stream, Sound
<1>4. Replays(msgs, w, items)
  <2> SUFFICES ASSUME NEW k \in DOMAIN msgs, msgs[k].type = "state", msgs[k].cov.covered
               PROVE  Replaying(msgs, k - 1, msgs[k].cov, w, items)
    BY DEF Replays
  <2>1. Replaying(msgs, k - 1, msgs[k].cov, v, items)
    BY DEF Brings, Replays
  <2> QED BY <1>1, <2>1 DEF Replaying
<1> QED BY <1>2, <1>3, <1>4 DEF Brings

\* Without its proof or its copies, a view shows no more.
LEMMA DropsKeep ==
    ASSUME NEW v \in ViewType
    PROVE  /\ Keeps(v, Invalidate(v)) /\ Waits(v, Invalidate(v))
           /\ Keeps(v, Forget(v)) /\ Waits(v, Forget(v)) /\ Forget(v).committed = <<>>
<1>1. Keeps(v, Invalidate(v)) /\ Waits(v, Invalidate(v))
  <2> DEFINE w == Invalidate(v)
  <2>1. /\ w.hydration = v.hydration /\ w.committed = v.committed /\ w.gate = v.gate
        /\ w.grid = v.grid /\ w.sync = v.sync /\ w.behind = v.behind /\ w.cov = Unknown
        /\ w.opened = v.opened
    BY DEF Invalidate, ViewType
  <2>2. Ident(w) = Ident(v)
    BY DEF Invalidate, ViewType, Ident
  <2>3. w = Invalidate(v)
    OBVIOUS
  <2> HIDE DEF w
  <2>4. Keeps(v, w) /\ Waits(v, w)
    BY <2>1, <2>2 DEF Keeps, Waits, Unknown
  <2> QED BY <2>3, <2>4
<1>2. Keeps(v, Forget(v)) /\ Waits(v, Forget(v)) /\ Forget(v).committed = <<>>
  <2> DEFINE w == Forget(v)
  <2>1. w.hydration = v.hydration /\ w.committed = <<>> /\ w.cov = v.cov /\ w.opened = v.opened
    BY DEF Forget, ViewType
  <2>2. w = Forget(v)
    OBVIOUS
  <2> HIDE DEF w
  <2>3. Keeps(v, w) /\ Waits(v, w)
    BY <2>1 DEF Keeps, Waits
  <2> QED BY <2>1, <2>2, <2>3
<1> QED BY <1>1, <1>2

\* Nor does one that is opened.
LEMMA FinishKeeps ==
    ASSUME NEW v \in ViewType, NEW how
    PROVE  LET w == Finish(v, how)
           IN  Keeps(v, w) /\ w.opened = how /\ (Proven(v) => Proven(w))
<1> DEFINE w == Finish(v, how)
<1>1. /\ w.hydration = v.hydration /\ w.committed = v.committed /\ w.gate = v.gate
      /\ w.grid = v.grid /\ w.sync = v.sync /\ w.behind = v.behind /\ w.cov = v.cov
      /\ w.opened = how
  BY DEF Finish, ViewType
<1>2. Ident(w) = Ident(v)
  BY DEF Finish, ViewType, Ident
<1>3. /\ w.protocol = v.protocol /\ w.trusted = v.trusted /\ w.baseline = v.baseline
      /\ w.seq = v.seq /\ w.received = v.received /\ w.size = v.size /\ w.required = v.required
      /\ w.rev = v.rev /\ w.satisfied = v.satisfied /\ w.ident = v.ident
  BY DEF Finish, ViewType
<1> HIDE DEF w
<1>4. Keeps(v, w)
  BY <1>1, <1>2 DEF Keeps
<1>5. Proven(v) => Proven(w)
  BY <1>1, <1>2, <1>3 DEF Proven, Modern, Publish
<1> QED BY <1>1, <1>4, <1>5 DEF w

\* An evaluation opens the view by a proof, or leaves it.
LEMMA EvaluateKeeps ==
    ASSUME NEW v \in ViewType, NEW n
    PROVE  LET w == Evaluate(v, n)
           IN  Keeps(v, w) /\ (Waits(v, w) \/ (n = 0 /\ Proven(w)))
<1>1. CASE Attaching(v) /\ Modern(v) /\ n = 0 /\ v.committed # <<>> /\ Publish(v)
  BY <1>1, FinishKeeps DEF Evaluate, Proven
<1>2. CASE ~ (Attaching(v) /\ Modern(v) /\ n = 0 /\ v.committed # <<>> /\ Publish(v))
  BY <1>2, KeepsSelf DEF Evaluate
<1> QED BY <1>1, <1>2

\* Timers and the copy that survives leave what the view shows.
LEMMA OtherKeeps ==
    ASSUME NEW v \in ViewType
    PROVE  /\ Keeps(v, DeferSettle(v)) /\ Waits(v, DeferSettle(v))
           /\ Keeps(v, CaptureRecovery(v)) /\ Waits(v, CaptureRecovery(v))
<1>1. ASSUME NEW b PROVE LET w == [v EXCEPT !.settle = b] IN Keeps(v, w) /\ Waits(v, w)
  BY DEF Keeps, Waits, Ident, ViewType
<1>2. ASSUME NEW b PROVE LET w == [v EXCEPT !.recovery = b] IN Keeps(v, w) /\ Waits(v, w)
  BY DEF Keeps, Waits, Ident, ViewType
<1> QED BY <1>1, <1>2, KeepsSelf DEF DeferSettle, CaptureRecovery

\* What output leaves of a coverage is of the same frame.
LEMMA NoteOutputKeeps ==
    ASSUME NEW v \in ViewType, NEW chunks
    PROVE  LET w == NoteOutput(v, chunks)
           IN  /\ Keeps(v, w) /\ Waits(v, w)
               /\ (\E c \in chunks : Draws(c)) => ~ w.cov.covered
<1>1. CASE ~ v.cov.covered \/ chunks = {}
  <2>1. NoteOutput(v, chunks) = v
    BY <1>1 DEF NoteOutput
  <2> QED BY <1>1, <2>1, KeepsSelf
<1>2. CASE v.cov.covered /\ \E c \in chunks : Draws(c)
  <2>1. NoteOutput(v, chunks) = Invalidate(v)
    BY <1>2 DEF NoteOutput
  <2>2. Invalidate(v).cov = Unknown
    BY DEF Invalidate, ViewType
  <2> QED BY <2>1, <2>2, DropsKeep DEF Unknown
<1>3. CASE v.cov.covered /\ chunks # {} /\ ~ \E c \in chunks : Draws(c)
  <2> DEFINE w == [v EXCEPT !.cov.thru = v.seq, !.ident = Ident(v)]
  <2>1. NoteOutput(v, chunks) = w
    BY <1>3 DEF NoteOutput
  <2>2. /\ w.hydration = v.hydration /\ w.committed = v.committed /\ w.gate = v.gate
        /\ w.grid = v.grid /\ w.sync = v.sync /\ w.behind = v.behind /\ w.opened = v.opened
    BY DEF ViewType
  <2>3. Ident(w) = Ident(v)
    BY DEF ViewType, Ident
  <2>4. w.cov = [v.cov EXCEPT !.thru = v.seq]
    BY DEF ViewType
  <2>5. v.cov \in CoverageType
    BY DEF ViewType
  <2>6. w.cov.size = v.cov.size /\ w.cov.rev = v.cov.rev
    BY <2>4, <2>5 DEF CoverageType
  <2> HIDE DEF w
  <2> QED BY <1>3, <2>1, <2>2, <2>3, <2>6 DEF Keeps, Waits
<1> QED BY <1>1, <1>2, <1>3

\* A size that the view takes leaves it without copies and without proof.
LEMMA NoteGeometryKeeps ==
    ASSUME NEW v \in ViewType
    PROVE  LET w == NoteGeometryIntent(v)
           IN  Keeps(v, w) /\ Waits(v, w) /\ w.committed = <<>>
<1> DEFINE f == [Forget(v) EXCEPT !.rev = @ + 1, !.required = TRUE]
<1>1. /\ Forget(v) \in ViewType /\ Forget(v).committed = <<>> /\ Forget(v).opened = v.opened
      /\ Forget(v).hydration = v.hydration
  BY ZenonT(40), ForgetFacts, DropsKeep DEF Forget, ViewType
<1>2. /\ f \in ViewType /\ f.committed = <<>> /\ f.opened = v.opened /\ f.hydration = v.hydration
  <2>1. Forget(v).rev + 1 \in Nat
    BY <1>1 DEF ViewType
  <2>2. ASSUME NEW g \in ViewType, NEW n \in Nat
        PROVE  LET w == [g EXCEPT !.rev = n, !.required = TRUE]
               IN  /\ w \in ViewType /\ w.committed = g.committed /\ w.opened = g.opened
                   /\ w.hydration = g.hydration
    BY DEF ViewType
  <2> QED BY <1>1, <2>1, <2>2
<1>3. NoteGeometryIntent(v) = Invalidate(f)
  BY DEF NoteGeometryIntent
<1> HIDE DEF f
<1>4. /\ Invalidate(f).cov = Unknown /\ Invalidate(f).committed = <<>>
      /\ Invalidate(f).opened = f.opened /\ Invalidate(f).hydration = f.hydration
  BY <1>2 DEF Invalidate, ViewType
<1> QED BY <1>2, <1>3, <1>4 DEF Keeps, Waits, Unknown

\* Whoever answers is the runner of the copy that stays.
LEMMA IdentifiedKeeps ==
    ASSUME NEW v \in ViewType, NEW msg \in IdentityType, NEW late \in BOOLEAN,
           v.committed # <<>> => msg.gen = v.gen
    PROVE  LET w == Identified(v, msg, late)
           IN  Keeps(v, w) /\ (Waits(v, w) \/ (Len(parser) = 0 /\ Proven(w)))
<1> DEFINE other == OfAnother(msg.gen, v.recovery)
           known == [v EXCEPT !.wire = msg.gen, !.gen = msg.gen, !.gate = other]
           clean == IF OfAnother(msg.gen, v.committed) \/ OfAnother(msg.gen, v.recovery)
                    THEN Invalidate(Forget(known)) ELSE known
           on == [clean EXCEPT !.trusted = TRUE]
           off == [clean EXCEPT !.trusted = FALSE, !.cov = Unknown, !.ident = NoIdent]
           Stays(w) == w \in ViewType /\ Keeps(v, w) /\ Waits(v, w)
<1>1. msg.gen \in Nat /\ other \in BOOLEAN
  BY DEF IdentityType, OfAnother
<1>2. /\ known \in ViewType /\ known.hydration = v.hydration /\ known.committed = v.committed
      /\ known.grid = v.grid /\ known.sync = v.sync /\ known.behind = v.behind
      /\ known.cov = v.cov /\ known.opened = v.opened /\ known.gate = other
      /\ msg.gen = v.gen => Ident(known) = Ident(v)
  <2> HIDE DEF other
  <2>1. known \in ViewType
    BY <1>1 DEF ViewType
  <2> QED BY <2>1, <1>1 DEF ViewType, Ident
<1>3. Stays(clean)
  <2> HIDE DEF known
  <2>1. CASE ~ (OfAnother(msg.gen, v.committed) \/ OfAnother(msg.gen, v.recovery))
    <3>1. clean = known /\ ~ other
      BY <2>1
    <3>2. Keeps(v, known) /\ Waits(v, known)
      BY <1>2, <3>1 DEF Keeps, Waits
    <3> QED BY <1>2, <3>1, <3>2
  <2>2. CASE OfAnother(msg.gen, v.committed) \/ OfAnother(msg.gen, v.recovery)
    <3>1. clean = Invalidate(Forget(known))
      BY <2>2
    <3>2. /\ Forget(known) \in ViewType /\ Forget(known).committed = <<>>
          /\ Forget(known).hydration = v.hydration /\ Forget(known).opened = v.opened
      BY ZenonT(40), <1>2, ForgetFacts DEF Forget, ViewType
    <3>3. ASSUME NEW g \in ViewType
          PROVE  /\ Invalidate(g) \in ViewType /\ Invalidate(g).committed = g.committed
                 /\ Invalidate(g).hydration = g.hydration /\ Invalidate(g).opened = g.opened
                 /\ Invalidate(g).cov = Unknown
      BY ZenonT(40), InvalidateFacts DEF Invalidate, ViewType
    <3>4. /\ clean \in ViewType /\ clean.committed = <<>> /\ clean.hydration = v.hydration
          /\ clean.opened = v.opened /\ clean.cov = Unknown
      BY <3>1, <3>2, <3>3
    <3> HIDE DEF clean
    <3> QED BY <3>4 DEF Keeps, Waits, Unknown
  <2> QED BY <2>1, <2>2
<1>4. ASSUME NEW w, Stays(w), NEW x \in ViewType, Keeps(w, x), Waits(w, x) PROVE Stays(x)
  BY <1>4, KeepsBoth
<1>5. Stays(on) /\ Stays(off)
  <2>1. clean \in ViewType
    BY <1>3
  <2> HIDE DEF clean
  <2>2. LET w == [clean EXCEPT !.trusted = TRUE]
        IN  w \in ViewType /\ Keeps(clean, w) /\ Waits(clean, w)
    BY <2>1 DEF ViewType, Keeps, Waits, Ident
  <2>3. LET w == [clean EXCEPT !.trusted = FALSE, !.cov = Unknown, !.ident = NoIdent]
        IN  w \in ViewType /\ Keeps(clean, w) /\ Waits(clean, w)
    <3>1. [clean EXCEPT !.trusted = FALSE, !.cov = Unknown, !.ident = NoIdent] \in ViewType
      BY <2>1, ConstantsTyped DEF ViewType
    <3> QED BY <2>1, <3>1 DEF ViewType, Keeps, Waits, Ident, Unknown
  <2> HIDE DEF Stays
  <2> QED BY <1>3, <1>4, <2>2, <2>3
<1>6. Stays([on EXCEPT !.settle = FALSE]) /\ Stays([off EXCEPT !.settle = TRUE])
  <2>1. on \in ViewType /\ off \in ViewType
    BY <1>5
  <2> HIDE DEF on, off
  <2>2. ASSUME NEW g \in ViewType, NEW b \in BOOLEAN
        PROVE  LET w == [g EXCEPT !.settle = b] IN w \in ViewType /\ Keeps(g, w) /\ Waits(g, w)
    BY SMTT(30) DEF ViewType, Keeps, Waits, Ident
  <2> HIDE DEF Stays
  <2> QED BY <1>4, <1>5, <2>1, <2>2
<1>7. LET w == Evaluate([on EXCEPT !.settle = FALSE], Len(parser))
      IN  Keeps(v, w) /\ (Waits(v, w) \/ (Len(parser) = 0 /\ Proven(w)))
  <2> DEFINE g == [on EXCEPT !.settle = FALSE]
  <2>1. g \in ViewType /\ Keeps(v, g) /\ Waits(v, g)
    BY <1>6
  <2> HIDE DEF g
  <2> QED BY <2>1, EvaluateKeeps, KeepsBoth DEF g
<1>8. Keeps(v, Finish(off, "deadline")) /\ Waits(v, Finish(off, "deadline"))
  <2>1. off \in ViewType /\ Keeps(v, off)
    BY <1>5
  <2> HIDE DEF off
  <2> QED BY <2>1, FinishKeeps, KeepsBoth DEF Waits
<1>9. Identified(v, msg, late) \in
         {clean, on, off, Evaluate([on EXCEPT !.settle = FALSE], Len(parser)),
          Finish(off, "deadline"), [off EXCEPT !.settle = TRUE]}
  <2> HIDE DEF on, off, clean
  <2> SUFFICES ASSUME TRUE PROVE Identified(v, msg, late) \in
         {clean, on, off, Evaluate([on EXCEPT !.settle = FALSE], Len(parser)),
          Finish(off, "deadline"), [off EXCEPT !.settle = TRUE]}
    OBVIOUS
  <2> QED BY DEF Identified, on, off, clean
<1> HIDE DEF on, off, clean
<1> QED BY <1>3, <1>5, <1>6, <1>7, <1>8, <1>9

----------------------------------------------------------------------------
(* Messages that are heard, and messages that are sent.                    *)

\* A message is taken: what is behind it comes after it, and no record is.
LEMMA TailStream ==
    ASSUME NEW msgs \in Seq(MessageType), msgs # <<>>, NEW v \in ViewType, NEW items,
           Stream(msgs, v, items)
    PROVE  /\ Stream(Tail(msgs), v, items) /\ Sound(Head(msgs), 1, v, items)
           /\ \A i \in DOMAIN Tail(msgs) :
                 /\ Tail(msgs)[i].type # "record"
                 /\ Carries(Head(msgs)) /\ Carries(Tail(msgs)[i])
                       => Follows(Tail(msgs)[i], Reaches(Head(msgs)))
<1>1. PICK n \in Nat : DOMAIN Tail(msgs) = 1..n
  BY Receiving, LenProperties
<1>2. /\ 1 \in DOMAIN msgs /\ Head(msgs) = msgs[1]
      /\ \A i \in 1..n : i + 1 \in DOMAIN msgs /\ Tail(msgs)[i] = msgs[i + 1]
  BY <1>1, Receiving
<1>3. /\ \A i \in DOMAIN msgs : Sound(msgs[i], i, v, items)
      /\ \A i, j \in DOMAIN msgs :
            i < j /\ Carries(msgs[i]) /\ Carries(msgs[j]) => Follows(msgs[j], Reaches(msgs[i]))
  BY DEF Stream, Ordered
<1>4. ASSUME NEW i \in 1..n PROVE Sound(Tail(msgs)[i], i, v, items) /\ Tail(msgs)[i].type # "record"
  <2>1. Sound(msgs[i + 1], i + 1, v, items) /\ i + 1 # 1
    BY <1>2, <1>3
  <2> QED BY <1>2, <2>1 DEF Sound
<1>5. ASSUME NEW i \in 1..n, NEW j \in 1..n, i < j, Carries(Tail(msgs)[i]), Carries(Tail(msgs)[j])
      PROVE  Follows(Tail(msgs)[j], Reaches(Tail(msgs)[i]))
  <2>1. i + 1 < j + 1
    BY <1>5
  <2> QED BY <1>2, <1>3, <1>5, <2>1
<1>6. ASSUME NEW i \in 1..n, Carries(Head(msgs)), Carries(Tail(msgs)[i])
      PROVE  Follows(Tail(msgs)[i], Reaches(Head(msgs)))
  <2>1. 1 < i + 1
    OBVIOUS
  <2> QED BY <1>2, <1>3, <1>6, <2>1
<1>7. Stream(Tail(msgs), v, items)
  BY <1>1, <1>4, <1>5 DEF Stream, Ordered
<1> QED BY <1>1, <1>2, <1>3, <1>4, <1>6, <1>7

\* A coverage that ends a replay is nearer, unless it was not of one.
LEMMA TailReplays ==
    ASSUME NEW msgs \in Seq(MessageType), msgs # <<>>, Head(msgs).type # "output",
           NEW v \in ViewType, NEW items, Replays(msgs, v, items)
    PROVE  /\ Replays(Tail(msgs), v, items)
           /\ Head(msgs).type \in {"record", "status"}
                 \/ \A k \in DOMAIN Tail(msgs) :
                       ~ (Tail(msgs)[k].type = "state" /\ Tail(msgs)[k].cov.covered)
<1>1. PICK n \in Nat : DOMAIN Tail(msgs) = 1..n
  BY Receiving, LenProperties
<1>2. /\ 1 \in DOMAIN msgs /\ Head(msgs) = msgs[1]
      /\ \A i \in 1..n : i + 1 \in DOMAIN msgs /\ Tail(msgs)[i] = msgs[i + 1]
  BY <1>1, Receiving
<1>3. v.seq \in Nat
  BY DEF ViewType
<1>4. ASSUME NEW k \in 1..n, Tail(msgs)[k].type = "state", Tail(msgs)[k].cov.covered
      PROVE  /\ Head(msgs).type \in {"record", "status"}
             /\ Replaying(Tail(msgs), k - 1, Tail(msgs)[k].cov, v, items)
  <2> DEFINE cov == Tail(msgs)[k].cov
  <2>1. Replaying(msgs, k + 1 - 1, cov, v, items) /\ msgs[k + 1].cov = cov
    BY <1>2, <1>4 DEF Replays
  <2>2. cov.thru \in Nat
    <3>1. Tail(msgs)[k] \in MessageType
      BY <1>1, Receiving, LenProperties, ElementOfSeq
    <3> QED BY <1>4, <3>1 DEF MessageType, IdentityType, BeginType, ReadyType, LineType, CoverageType
  <2> HIDE DEF cov
  <2>3. /\ cov.thru <= v.seq + k
        /\ \A i \in 1..k :
              /\ msgs[i].type \in {"output", "record", "status"}
              /\ msgs[i].type = "output" <=> v.seq + (k - i) < cov.thru
              /\ msgs[i].type = "output" => msgs[i].n + (k - i) = cov.thru
              /\ Paints(msgs[i]) /\ (\A j \in (i + 1)..k : ~ Paints(msgs[j])) => Fits(msgs[i].c, cov)
        /\ (\A j \in 1..k : ~ Paints(msgs[j])) => Painted(v, items, cov)
    <3>1. k + 1 - 1 = k
      OBVIOUS
    <3>2. Replaying(msgs, k, cov, v, items)
      BY <2>1, <3>1
    <3> QED BY <3>2 DEF Replaying
  <2>4. msgs[1].type \in {"record", "status"} /\ cov.thru <= v.seq + (k - 1)
    <3>1. 1 \in 1..k
      OBVIOUS
    <3>2. msgs[1].type \in {"output", "record", "status"} /\ ~ (v.seq + (k - 1) < cov.thru)
      BY <1>2, <2>3, <3>1
    <3> QED BY <1>2, <1>3, <2>2, <3>2
  <2>5. ASSUME NEW i \in 1..(k - 1)
        PROVE  /\ Tail(msgs)[i].type \in {"output", "record", "status"}
               /\ Tail(msgs)[i].type = "output" <=> v.seq + (k - 1 - i) < cov.thru
               /\ Tail(msgs)[i].type = "output" => Tail(msgs)[i].n + (k - 1 - i) = cov.thru
               /\ Paints(Tail(msgs)[i]) /\ (\A j \in (i + 1)..(k - 1) : ~ Paints(Tail(msgs)[j]))
                     => Fits(Tail(msgs)[i].c, cov)
    <3>1. i + 1 \in 1..k /\ k - (i + 1) = k - 1 - i /\ i \in 1..n /\ Tail(msgs)[i] = msgs[i + 1]
      BY <1>2
    <3>2. ASSUME \A j \in (i + 1)..(k - 1) : ~ Paints(Tail(msgs)[j])
          PROVE  \A j \in (i + 1 + 1)..k : ~ Paints(msgs[j])
      <4> SUFFICES ASSUME NEW j \in (i + 1 + 1)..k PROVE ~ Paints(msgs[j])
        OBVIOUS
      <4>1. j - 1 \in (i + 1)..(k - 1) /\ j - 1 \in 1..n /\ j - 1 + 1 = j
        OBVIOUS
      <4> QED BY <1>2, <3>2, <4>1
    <3>3. /\ msgs[i + 1].type \in {"output", "record", "status"}
          /\ msgs[i + 1].type = "output" <=> v.seq + (k - (i + 1)) < cov.thru
          /\ msgs[i + 1].type = "output" => msgs[i + 1].n + (k - (i + 1)) = cov.thru
          /\ Paints(msgs[i + 1]) /\ (\A j \in (i + 1 + 1)..k : ~ Paints(msgs[j]))
                => Fits(msgs[i + 1].c, cov)
      BY <2>3, <3>1
    <3> QED BY <3>1, <3>2, <3>3
  <2>6. ASSUME \A j \in 1..(k - 1) : ~ Paints(Tail(msgs)[j]) PROVE Painted(v, items, cov)
    <3>1. ASSUME NEW j \in 1..k PROVE ~ Paints(msgs[j])
      <4>1. CASE j = 1
        BY <2>4, <4>1 DEF Paints
      <4>2. CASE j # 1
        <5>1. j - 1 \in 1..(k - 1) /\ j - 1 \in 1..n /\ j - 1 + 1 = j
          BY <4>2
        <5> QED BY <1>2, <2>6, <5>1
      <4> QED BY <4>1, <4>2
    <3> QED BY <2>3, <3>1
  <2>7. Replaying(Tail(msgs), k - 1, cov, v, items)
    BY <2>4, <2>5, <2>6 DEF Replaying
  <2> QED BY <1>2, <2>4, <2>7 DEF cov
<1> QED BY <1>1, <1>4 DEF Replays

\* What is left to come is as it was, when a message is heard that is no output.
LEMMA TailBrings ==
    ASSUME NEW msgs \in Seq(MessageType), msgs # <<>>, Head(msgs).type # "output",
           NEW v \in ViewType, NEW items, Brings(msgs, v, items)
    PROVE  Brings(Tail(msgs), v, items)
BY TailStream, TailReplays DEF Brings

\* Messages that are sent are behind those on the wire.
LEMMA Joined ==
    ASSUME NEW S, NEW s \in Seq(S), NEW t \in Seq(S)
    PROVE  /\ Len(s) \in Nat /\ Len(t) \in Nat /\ s \o t \in Seq(S)
           /\ DOMAIN s = 1..Len(s) /\ DOMAIN t = 1..Len(t)
           /\ DOMAIN (s \o t) = 1..(Len(s) + Len(t))
           /\ \A i \in 1..Len(s) : (s \o t)[i] = s[i]
           /\ \A i \in 1..Len(t) : (s \o t)[Len(s) + i] = t[i]
<1>1. PICK m \in Nat : m = Len(s) /\ DOMAIN s = 1..m
  BY LenProperties
<1>2. PICK n \in Nat : n = Len(t) /\ DOMAIN t = 1..n
  BY LenProperties
<1>3. /\ s \o t \in Seq(S) /\ Len(s \o t) = m + n
      /\ \A i \in 1..(m + n) : (s \o t)[i] = IF i <= m THEN s[i] ELSE t[i - m]
  BY <1>1, <1>2, ConcatProperties
<1>4. DOMAIN (s \o t) = 1..(m + n)
  BY <1>3, LenProperties
<1>5. ASSUME NEW i \in 1..m PROVE (s \o t)[i] = s[i]
  <2>1. i \in 1..(m + n) /\ i <= m
    OBVIOUS
  <2> QED BY <1>3, <2>1
<1>6. ASSUME NEW i \in 1..n PROVE (s \o t)[m + i] = t[i]
  <2>1. m + i \in 1..(m + n) /\ ~ (m + i <= m) /\ m + i - m = i
    OBVIOUS
  <2> QED BY <1>3, <2>1
<1> QED BY <1>1, <1>2, <1>3, <1>4, <1>5, <1>6

\* The numbers of the chunks that messages stand for.
LEMMA NumbersTyped ==
    ASSUME NEW m \in MessageType, Carries(m)
    PROVE  /\ Reaches(m) \in Nat
           /\ m.type \in {"output", "record"} => m.n \in Nat /\ m.c \in ChunkType
           /\ m.type = "ready" =>
                 /\ m \in ReadyType /\ m.upto \in Nat /\ m.flush \in Seq(LineType)
                 /\ \A i \in DOMAIN m.flush : m.flush[i] \in LineType /\ m.flush[i].n \in Nat
<1>1. CASE m.type = "ready"
  <2>1. m \in ReadyType
    BY <1>1 DEF MessageType, IdentityType, BeginType, LineType
  <2>2. m.upto \in Nat /\ m.flush \in Seq(LineType)
    BY <2>1 DEF ReadyType
  <2>3. \A i \in DOMAIN m.flush : m.flush[i] \in LineType
    BY <2>2, LenProperties, ElementOfSeq
  <2> QED BY <1>1, <2>1, <2>2, <2>3 DEF Reaches, LineType
<1>2. CASE m.type \in {"output", "record"}
  <2>1. m.n \in Nat /\ m.c \in ChunkType
    BY <1>2 DEF MessageType, IdentityType, BeginType, LineType, ReadyType
  <2> QED BY <1>2, <2>1 DEF Reaches
<1> QED BY <1>1, <1>2 DEF Carries

\* What is after a chunk is after those before it.
LEMMA FollowsEarlier ==
    ASSUME NEW m \in MessageType, Carries(m), NEW n \in Nat, NEW r \in Nat, r <= n, Follows(m, n)
    PROVE  Follows(m, r)
<1>1. CASE m.type = "ready"
  <2>1. m.upto \in Nat /\ \A i \in DOMAIN m.flush : m.flush[i].n \in Nat
    BY <1>1, NumbersTyped
  <2> QED BY <1>1, <2>1 DEF Follows
<1>2. CASE m.type # "ready"
  BY <1>2, NumbersTyped DEF Follows, Carries
<1> QED BY <1>1, <1>2

\* What is sent after all that is on the wire.
LEMMA SaidStream ==
    ASSUME NEW msgs \in Seq(MessageType), NEW more \in Seq(MessageType), NEW n \in Nat, NEW v, NEW items,
           Stream(msgs, v, items), Within(msgs, n), Ordered(more),
           \A i \in DOMAIN more :
              /\ more[i].type # "record" /\ Sound(more[i], i, v, items)
              /\ Carries(more[i]) => Follows(more[i], n)
    PROVE  Stream(msgs \o more, v, items)
<1> DEFINE all == msgs \o more
<1>1. PICK k, l \in Nat :
         /\ DOMAIN msgs = 1..k /\ DOMAIN more = 1..l /\ DOMAIN all = 1..(k + l)
         /\ \A i \in 1..k : all[i] = msgs[i]
         /\ \A i \in 1..l : all[k + i] = more[i]
  BY Joined
<1>2. ASSUME NEW i \in 1..(k + l)
      PROVE  (i \in 1..k /\ all[i] = msgs[i]) \/ (i > k /\ i - k \in 1..l /\ all[i] = more[i - k])
  <2>1. CASE i <= k
    BY <1>1, <2>1
  <2>2. CASE ~ (i <= k)
    <3>1. i - k \in 1..l /\ k + (i - k) = i
      BY <2>2
    <3> QED BY <1>1, <2>2, <3>1
  <2> QED BY <2>1, <2>2
<1>3. \A i \in 1..k : msgs[i] \in MessageType
  BY <1>1, LenProperties, ElementOfSeq
<1>4. \A i \in 1..l : more[i] \in MessageType
  BY <1>1, LenProperties, ElementOfSeq
<1> HIDE DEF all
<1>5. ASSUME NEW i \in 1..(k + l), NEW j \in 1..(k + l), i < j, Carries(all[i]), Carries(all[j])
      PROVE  Follows(all[j], Reaches(all[i]))
  <2>1. CASE j <= k
    <3>1. i \in 1..k /\ j \in 1..k
      BY <1>5, <2>1
    <3> QED BY <1>1, <1>5, <3>1 DEF Stream, Ordered
  <2>2. CASE i > k
    <3>1. i - k \in 1..l /\ j - k \in 1..l /\ i - k < j - k /\ all[i] = more[i - k] /\ all[j] = more[j - k]
      BY <1>2, <1>5, <2>2
    <3> QED BY <1>1, <1>5, <3>1 DEF Ordered
  <2>3. CASE i <= k /\ j > k
    <3>1. i \in 1..k /\ all[i] = msgs[i] /\ j - k \in 1..l /\ all[j] = more[j - k]
      BY <1>2, <2>3
    <3>2. Reaches(msgs[i]) \in Nat /\ Reaches(msgs[i]) <= n
      BY <1>1, <1>3, <1>5, <3>1, NumbersTyped DEF Within
    <3>3. Follows(more[j - k], n)
      BY <1>1, <1>5, <3>1
    <3> QED BY <1>4, <1>5, <3>1, <3>2, <3>3, FollowsEarlier
  <2> QED BY <2>1, <2>2, <2>3
<1>6. ASSUME NEW i \in 1..(k + l) PROVE Sound(all[i], i, v, items)
  <2>1. CASE i \in 1..k /\ all[i] = msgs[i]
    BY <1>1, <2>1 DEF Stream
  <2>2. CASE i - k \in 1..l /\ all[i] = more[i - k]
    <3>1. more[i - k].type # "record" /\ Sound(more[i - k], i - k, v, items)
      BY <1>1, <2>2
    <3> QED BY <2>2, <3>1 DEF Sound
  <2> QED BY <1>2, <2>1, <2>2
<1>7. Stream(all, v, items)
  BY <1>1, <1>5, <1>6 DEF Stream, Ordered
<1> QED BY <1>7 DEF all

\* What ends a replay depends on the messages before it.
LEMMA SameReplaying ==
    ASSUME NEW msgs, NEW other, NEW n \in Nat, NEW cov, NEW v, NEW items,
           Replaying(msgs, n, cov, v, items), \A i \in 1..n : other[i] = msgs[i]
    PROVE  Replaying(other, n, cov, v, items)
<1>1. \A i \in 1..n : \A j \in (i + 1)..n : other[j] = msgs[j]
  OBVIOUS
<1>2. (\A j \in 1..n : ~ Paints(other[j])) => Painted(v, items, cov)
  BY DEF Replaying
<1>3. ASSUME NEW i \in 1..n
      PROVE  /\ other[i].type \in {"output", "record", "status"}
             /\ other[i].type = "output" <=> v.seq + (n - i) < cov.thru
             /\ other[i].type = "output" => other[i].n + (n - i) = cov.thru
             /\ Paints(other[i]) /\ (\A j \in (i + 1)..n : ~ Paints(other[j])) => Fits(other[i].c, cov)
  BY <1>1 DEF Replaying
<1> QED BY <1>2, <1>3 DEF Replaying

\* What is sent behind a replay leaves it as it is.
LEMMA SaidReplays ==
    ASSUME NEW msgs \in Seq(MessageType), NEW more \in Seq(MessageType), NEW v, NEW items,
           Replays(msgs, v, items),
           \A k \in DOMAIN more : more[k].type = "state" /\ more[k].cov.covered
              => Replaying(msgs \o more, Len(msgs) + k - 1, more[k].cov, v, items)
    PROVE  Replays(msgs \o more, v, items)
<1> DEFINE all == msgs \o more
<1>1. PICK m, n \in Nat :
         /\ DOMAIN msgs = 1..m /\ DOMAIN more = 1..n /\ DOMAIN all = 1..(m + n)
         /\ Len(msgs) = m
         /\ \A i \in 1..m : all[i] = msgs[i]
         /\ \A i \in 1..n : all[m + i] = more[i]
  <2>1. /\ Len(msgs) \in Nat /\ Len(more) \in Nat
        /\ DOMAIN msgs = 1..Len(msgs) /\ DOMAIN more = 1..Len(more)
        /\ DOMAIN all = 1..(Len(msgs) + Len(more))
        /\ \A i \in 1..Len(msgs) : all[i] = msgs[i]
        /\ \A i \in 1..Len(more) : all[Len(msgs) + i] = more[i]
    BY Joined
  <2> HIDE DEF all
  <2> QED BY <2>1
<1>2. ASSUME NEW k \in 1..(m + n), all[k].type = "state", all[k].cov.covered
      PROVE  Replaying(all, k - 1, all[k].cov, v, items)
  <2>1. CASE k <= m
    <3>1. Replaying(msgs, k - 1, all[k].cov, v, items) /\ k - 1 \in Nat
      BY <1>1, <1>2, <2>1 DEF Replays
    <3>2. \A i \in 1..(k - 1) : all[i] = msgs[i]
      BY <1>1, <2>1
    <3> HIDE DEF all
    <3> QED BY <3>1, <3>2, SameReplaying
  <2>2. CASE ~ (k <= m)
    <3>1. k - m \in 1..n /\ m + (k - m) = k
      BY <2>2
    <3>2. all[k] = more[k - m] /\ m + (k - m) - 1 = k - 1
      BY <1>1, <3>1
    <3>3. Replaying(all, m + (k - m) - 1, more[k - m].cov, v, items)
      BY <1>1, <1>2, <3>1, <3>2
    <3> HIDE DEF all
    <3> QED BY <3>2, <3>3
  <2> QED BY <2>1, <2>2
<1> HIDE DEF all
<1>3. Replays(all, v, items)
  BY <1>1, <1>2 DEF Replays
<1> QED BY <1>3 DEF all

\* Messages of one kind or another that say nothing of the stream.
Mute(m) == ~ Carries(m) /\ (m.type = "state" => ~ m.cov.covered)

\* They leave what comes over the socket as it is.
LEMMA MuteBrings ==
    ASSUME NEW msgs \in Seq(MessageType), NEW more \in Seq(MessageType), NEW v, NEW items,
           Brings(msgs, v, items), \A i \in DOMAIN more : Mute(more[i]),
           NEW n \in Nat, Within(msgs, n)
    PROVE  Brings(msgs \o more, v, items) /\ Within(msgs \o more, n)
<1>1. Ordered(more)
  BY DEF Ordered, Mute
<1>2. \A i \in DOMAIN more :
         /\ more[i].type # "record" /\ Sound(more[i], i, v, items)
         /\ Carries(more[i]) => Follows(more[i], n)
  BY DEF Mute, Carries, Sound
<1>3. Stream(msgs \o more, v, items)
  BY <1>1, <1>2, SaidStream DEF Brings
<1>4. Replays(msgs \o more, v, items)
  BY SaidReplays DEF Brings, Mute
<1>5. Within(msgs \o more, n)
  <2>1. \A i \in DOMAIN (msgs \o more) :
           \/ \E j \in DOMAIN msgs : (msgs \o more)[i] = msgs[j]
           \/ \E j \in DOMAIN more : (msgs \o more)[i] = more[j]
    BY Sending
  <2> QED BY <2>1 DEF Within, Mute
<1> QED BY <1>3, <1>4, <1>5 DEF Brings

----------------------------------------------------------------------------
(* The runner, and what opens the view.                                    *)

\* The variables, typed and bound to what is shown.
Known == Typed /\ ShownInvariant

\* A step of the runner keeps what is not its own.
LEMMA RunnerOpening ==
    ASSUME Known, Typed', OpeningInvariant, UNCHANGED <<link, view, parser>>, host'.gen = host.gen,
           Last <= Last', Brings(down', view, parser), Proofs', Serving',
           \A i \in DOMAIN down' : down'[i].type = "hello" => i \in DOMAIN down /\ down[i].type = "hello",
           up' = up \/ (link /\ up # <<>> /\ up' = Tail(up)),
           sub.pc = "idle" => sub'.pc = "idle" \/ (link /\ up # <<>> /\ up' = Tail(up) /\ Asks(Head(up)))
    PROVE  OpeningInvariant'
<1>1. /\ up \in Seq(RequestType) /\ view.seq \in Nat /\ Last \in Nat /\ Last' \in Nat
  BY LenProperties DEF Known, Typed, ViewType, Last
<1>2. Cursor /\ Resumes
  BY DEF OpeningInvariant
<1>3. CASE up' = up
  <2>1. sub.pc = "idle" => sub'.pc = "idle" \/ (up # <<>> /\ 1 \in DOMAIN up /\ up = Tail(up) /\ Asks(Head(up)))
    BY <1>1, <1>3, Receiving
  <2>2. ~ (up # <<>> /\ up = Tail(up))
    BY <1>1, HeadTailProperties
  <2>3. Cursor'
    BY <1>1, <1>2, <1>3, <2>1, <2>2 DEF Cursor
  <2>4. Resumes'
    BY <1>2, <1>3, <2>1, <2>2 DEF Resumes
  <2> QED BY <2>3, <2>4 DEF OpeningInvariant
<1>4. CASE up' # up /\ link /\ up # <<>> /\ up' = Tail(up)
  <2>1. /\ 1 \in DOMAIN up /\ Head(up) = up[1]
        /\ \A i \in DOMAIN up' : i + 1 \in DOMAIN up /\ up'[i] = up[i + 1]
    BY <1>1, <1>4, Receiving
  <2>2. PICK n \in Nat : DOMAIN up' = 1..n
    BY <1>1, <1>4, Receiving, LenProperties
  <2>3. Cursor'
    <3>1. view.client = "reconciling" => ~ Asks(Head(up)) /\ \A i \in DOMAIN up' : ~ Asks(up'[i])
      BY <1>2, <1>4, <2>1 DEF Cursor
    <3>2. view.gen = host.gen => view.seq <= Last'
      BY <1>1, <1>2 DEF Cursor
    <3> QED BY <1>2, <3>1, <3>2 DEF Cursor
  <2>4. Resumes'
    <3> SUFFICES ASSUME NEW i \in 1..n, Asks(up'[i]), up'[i].n # 0
                 PROVE  /\ up'[i].n = view.seq /\ sub'.pc = "idle" /\ view.committed = <<>> /\ parser = <<>>
                        /\ view.wire # 0
                        /\ \A j \in 1..n : Asks(up'[j]) => i = j
      BY <2>2 DEF Resumes
    <3>1. i + 1 \in DOMAIN up /\ up'[i] = up[i + 1] /\ i + 1 # 1
      BY <2>1, <2>2
    <3>2. /\ up[i + 1].n = view.seq /\ sub.pc = "idle" /\ view.committed = <<>> /\ parser = <<>>
          /\ view.wire # 0
          /\ \A j \in DOMAIN up : Asks(up[j]) => i + 1 = j
      BY <1>2, <3>1 DEF Resumes
    <3>3. ~ Asks(Head(up))
      BY <2>1, <3>1, <3>2
    <3>4. ASSUME NEW j \in 1..n, Asks(up'[j]) PROVE i = j
      <4>1. j + 1 \in DOMAIN up /\ Asks(up[j + 1])
        BY <2>1, <2>2, <3>4
      <4>2. i + 1 = j + 1
        BY <3>2, <4>1
      <4> QED BY <4>2
    <3> QED BY <3>1, <3>2, <3>3, <3>4
  <2> QED BY <2>3, <2>4 DEF OpeningInvariant
<1> QED BY <1>3, <1>4

\* A view that is served, or asks, is not beyond the ring.
LEMMA SeqBelow ==
    ASSUME Known, OpeningInvariant, link, sub.pc # "idle" \/ \E i \in DOMAIN up : Asks(up[i])
    PROVE  view.seq <= Last
<1>1. Last \in Nat /\ view \in ViewType /\ view.seq \in Nat
  BY LenProperties DEF Known, Typed, ViewType, Last
<1>2. CASE view.wire = 0
  <2>1. view.client = "probing"
    BY <1>2 DEF OpeningInvariant, Cursor
  <2> QED BY <1>1, <2>1 DEF OpeningInvariant, Cursor
<1>3. CASE view.wire # 0
  <2>1. view.gen = host.gen
    BY <1>3 DEF Known, ShownInvariant, Speaks, Knows
  <2> QED BY <2>1 DEF OpeningInvariant, Cursor
<1> QED BY <1>2, <1>3

\* A proof that is given up is as good as none.
LEMMA GivenUp ==
    ASSUME NEW c \in ChunkType, Real(c)
    PROVE  Real([c EXCEPT !.proof = FALSE])
BY DEF Real, ChunkType

\* The program and the sizes: nothing is sent.
LEMMA SilentOpening ==
    ASSUME Known, Typed', OpeningInvariant, UNCHANGED <<link, view, parser, down, ring, sub>>,
           host'.gen = host.gen, Proofs', up' = up \/ (link /\ up # <<>> /\ up' = Tail(up))
    PROVE  OpeningInvariant'
<1>1. Last' = Last /\ Last \in Nat
  BY LenProperties DEF Known, Typed, Last
<1>2. Serving'
  BY <1>1 DEF OpeningInvariant, Serving
<1> QED BY <1>1, <1>2, RunnerOpening DEF OpeningInvariant

\* The program notices its size or an intent, the runner a size or a reporter.
LEMMA SilentSteps ==
    ASSUME Known, Typed', OpeningInvariant, NoticeSize \/ HearIntent \/ ApplyResize \/ EnableReporter
    PROVE  OpeningInvariant'
<1>1. UNCHANGED <<link, view, parser, down, ring, sub>>
  BY DEF NoticeSize, HearIntent, ApplyResize, EnableReporter, wire
<1>2. host'.gen = host.gen
  BY DEF NoticeSize, HearIntent, ApplyResize, EnableReporter, Known, Typed, HostType
<1>3. up' = up \/ (link /\ up # <<>> /\ up' = Tail(up))
  BY DEF NoticeSize, HearIntent, ApplyResize, EnableReporter, wire, Reading
<1>4. child \in ChildType
  BY DEF Known, Typed
<1>5. child'.open = child.open \/ (child.open # <<>> /\ child'.open = <<[child.open[1] EXCEPT !.proof = FALSE]>>)
  <2>1. ASSUME HearIntent
        PROVE  child'.open = IF child.open = <<>> THEN child.open
                             ELSE <<[child.open[1] EXCEPT !.proof = FALSE]>>
    BY <1>4, <2>1 DEF HearIntent, ChildType
  <2>2. ASSUME NoticeSize \/ ApplyResize \/ EnableReporter PROVE child'.open = child.open
    BY <1>4, <2>2 DEF NoticeSize, ApplyResize, EnableReporter, ChildType
  <2> QED BY <2>1, <2>2
<1>6. Proofs'
  <2>1. child.open # <<>> => child.open[1] \in ChunkType /\ Real(child.open[1])
    BY <1>4 DEF OpeningInvariant, Proofs, ChildType, AtMostOne
  <2>2. child'.open # <<>> => Real(child'.open[1])
    BY <1>5, <2>1, GivenUp
  <2> QED BY <1>1, <2>2 DEF OpeningInvariant, Proofs
<1> QED BY <1>1, <1>2, <1>3, <1>6, SilentOpening

\* What the program writes is real.
LEMMA OutputReal ==
    ASSUME Known, OpeningInvariant, Output
    PROVE  \E c \in ChunkType, open \in AtMostOne(ChunkType) :
              Draw(c, open) /\ Real(c) /\ (open # <<>> => Real(open[1]))
<1>1. budget.kinds \in SUBSET {"whole", "head", "safe"}
  BY DEF Known, Typed, Budget
<1>2. /\ child.size \in Nat /\ child.open \in AtMostOne(ChunkType)
      /\ Begun \in ChunkType /\ <<>> \in AtMostOne(ChunkType) /\ <<Begun>> \in AtMostOne(ChunkType)
  BY BegunTyped, ViewAssumption DEF Known, Typed, ChildType, AtMostOne
<1>3. Begun.kind = "tail" /\ Real(Begun)
  BY DEF Begun, Chunk, Real, Draws
<1>4. CASE child.open # <<>>
  <2>1. child.open[1] \in ChunkType /\ Real(child.open[1])
    BY <1>2, <1>4 DEF AtMostOne, OpeningInvariant, Proofs
  <2>2. Draw(child.open[1], <<>>)
    BY <1>4 DEF Output
  <2> QED BY <1>2, <2>1, <2>2
<1>5. CASE child.open = <<>>
  <2>1. PICK kind \in budget.kinds :
             CASE kind = "whole" -> Draw([Begun EXCEPT !.kind = kind], <<>>)
               [] kind = "head" -> Draw(Chunk(kind, child.size, 0, FALSE), <<Begun>>)
               [] kind = "safe" -> Draw(Chunk(kind, child.size, 0, FALSE), <<>>)
    BY <1>5 DEF Output
  <2>2. CASE kind = "whole"
    <3>1. [Begun EXCEPT !.kind = kind] \in ChunkType /\ Real([Begun EXCEPT !.kind = kind])
      BY <1>2, <2>2 DEF ChunkType, Kinds, Real, Draws
    <3>2. Draw([Begun EXCEPT !.kind = kind], <<>>)
      BY <2>1, <2>2
    <3> QED BY <1>2, <3>1, <3>2
  <2>3. CASE kind = "head"
    <3>1. Chunk(kind, child.size, 0, FALSE) \in ChunkType /\ Real(Chunk(kind, child.size, 0, FALSE))
      BY <1>2, <2>3 DEF Chunk, ChunkType, Kinds, Real
    <3>2. Draw(Chunk(kind, child.size, 0, FALSE), <<Begun>>)
      BY <2>1, <2>3
    <3> QED BY <1>2, <1>3, <3>1, <3>2
  <2>4. CASE kind = "safe"
    <3>1. Chunk(kind, child.size, 0, FALSE) \in ChunkType /\ Real(Chunk(kind, child.size, 0, FALSE))
      BY <1>2, <2>4 DEF Chunk, ChunkType, Kinds, Real
    <3>2. Draw(Chunk(kind, child.size, 0, FALSE), <<>>)
      BY <2>1, <2>4
    <3> QED BY <1>2, <3>1, <3>2
  <2> QED BY <1>1, <2>2, <2>3, <2>4
<1> QED BY <1>4, <1>5

\* A chunk is put on the ring, and sent after all others.
LEMMA OutputOpening ==
    ASSUME Known, Typed', OpeningInvariant, Output
    PROVE  OpeningInvariant'
<1>1. PICK c \in ChunkType, open \in AtMostOne(ChunkType) :
         Draw(c, open) /\ Real(c) /\ (open # <<>> => Real(open[1]))
  BY OutputReal
<1>2. UNCHANGED <<host, link, up, view, parser>>
  BY DEF Output
<1>3. PICK last \in Nat : last = Last
  BY LenProperties DEF Known, Typed, Last
<1>4. /\ ring' = Append(ring, c) /\ ring \in Seq(ChunkType) /\ child'.open = open
      /\ Last' = last + 1 /\ view.seq \in Nat /\ down \in Seq(MessageType) /\ sub.dto \in Nat
  <2>1. ring' = Append(ring, c) /\ ring \in Seq(ChunkType)
    BY <1>1 DEF Draw, Feed, Known, Typed
  <2>2. Last' = last + 1
    BY <1>3, <2>1, AppendProperties DEF Last
  <2> QED BY <1>1, <2>1, <2>2 DEF Draw, Known, Typed, ChildType, ViewType, SubType
<1>5. Proofs'
  <2>1. \A i \in DOMAIN ring' : (i \in DOMAIN ring /\ ring'[i] = ring[i]) \/ ring'[i] = c
    BY <1>4, AppendProperties, LenProperties
  <2> QED BY <1>1, <1>4, <2>1 DEF OpeningInvariant, Proofs
<1>6. CASE sub.pc = "live"
  <2> DEFINE line == Line(last + 1, c, c.proof)
             more == <<line>>
  <2>1. link /\ down' = down \o more /\ sub' = sub
    BY <1>1, <1>3, <1>6 DEF Draw, Feed, Tell, OpeningInvariant, Serving
  <2>2. /\ line \in MessageType /\ line.type = "output" /\ line.n = last + 1 /\ LineOk(line)
    BY <1>1 DEF Line, LineType, MessageType, ChunkType, LineOk, Real
  <2>3. view.seq <= last
    BY <1>3, <1>6, <2>1, SeqBelow
  <2> HIDE DEF line
  <2>4. more \in Seq(MessageType) /\ DOMAIN more = {1} /\ more[1] = line
    BY <2>2
  <2>5. Ordered(more)
    BY <2>4 DEF Ordered
  <2>6. Sound(line, 1, view, parser) /\ Follows(line, last)
    BY <1>4, <2>2, <2>3 DEF Sound, Follows
  <2> HIDE DEF more
  <2>7. Stream(down', view, parser)
    BY <1>3, <1>4, <2>1, <2>2, <2>4, <2>5, <2>6, SaidStream DEF OpeningInvariant, Brings, Serving
  <2>8. Replays(down', view, parser)
    BY <1>4, <2>1, <2>2, <2>4, SaidReplays DEF OpeningInvariant, Brings
  <2>9. \A i \in DOMAIN down' : (i \in DOMAIN down /\ down'[i] = down[i]) \/ down'[i] = line
    <3>1. ASSUME NEW i \in 1..(Len(down) + 1) PROVE i \in 1..Len(down) \/ i = Len(down) + 1
      BY <1>4, LenProperties
    <3>2. Len(more) = 1
      BY <2>4 DEF more
    <3> QED BY <1>4, <2>1, <2>4, <3>1, <3>2, Joined
  <2>10. Serving'
    <3>1. \A i \in DOMAIN down : Carries(down[i]) => Reaches(down[i]) \in Nat /\ Reaches(down[i]) <= last
      BY <1>3, <1>4, NumbersTyped, LenProperties, ElementOfSeq DEF OpeningInvariant, Serving, Within
    <3>2. ASSUME NEW i \in DOMAIN down', Carries(down'[i]) PROVE Reaches(down'[i]) <= last + 1
      <4>1. CASE i \in DOMAIN down /\ down'[i] = down[i]
        BY <3>1, <3>2, <4>1
      <4>2. CASE down'[i] = line
        BY <2>2, <4>2 DEF Reaches
      <4> QED BY <2>9, <4>1, <4>2
    <3>3. Within(down', last + 1)
      <4>1. \A i \in DOMAIN down' : Carries(down'[i]) => Reaches(down'[i]) <= last + 1
        BY <3>2
      <4> QED BY <4>1 DEF Within
    <3> QED BY <1>2, <1>4, <1>6, <2>1, <3>3 DEF Serving
  <2>11. \A i \in DOMAIN down' : down'[i].type = "hello" => i \in DOMAIN down /\ down[i].type = "hello"
    BY <2>2, <2>9
  <2> QED BY <1>2, <1>3, <1>4, <1>5, <2>1, <2>7, <2>8, <2>10, <2>11, RunnerOpening
             DEF OpeningInvariant, Brings
<1>7. CASE sub.pc # "live"
  <2>1. down' = down /\ sub'.pc = sub.pc /\ sub'.dto = sub.dto
    BY <1>1, <1>7 DEF Draw, Feed, Known, Typed, SubType
  <2>2. Serving'
    <3>1. \A i \in DOMAIN down : Carries(down[i]) => Reaches(down[i]) \in Nat /\ Reaches(down[i]) <= last
      BY <1>3, <1>4, NumbersTyped, LenProperties, ElementOfSeq DEF OpeningInvariant, Serving, Within
    <3>2. Within(down, last + 1)
      BY <3>1 DEF Within
    <3> QED BY <1>2, <1>4, <2>1, <3>2 DEF OpeningInvariant, Serving, Within
  <2> QED BY <1>2, <1>3, <1>4, <1>5, <2>1, <2>2, RunnerOpening DEF OpeningInvariant
<1> QED BY <1>6, <1>7

\* The chunks that are sent again are those of the ring, in their order.
LEMMA LinesFacts ==
    ASSUME Known, OpeningInvariant, NEW n \in Nat, n <= Last, NEW seen \in Nat
    PROVE  LET lines == Lines(n, seen) IN
           /\ lines \in Seq(LineType) /\ DOMAIN lines = 1..(Last - n) /\ Len(lines) = Last - n
           /\ \A i \in 1..(Last - n) :
                 /\ lines[i].type = "output" /\ lines[i].n = n + i /\ lines[i].c = ring[n + i]
                 /\ LineOk(lines[i]) /\ n + i \in 1..Last
<1>1. PICK last \in Nat : last = Last /\ DOMAIN ring = 1..last
  BY LenProperties DEF Known, Typed, Last
<1> DEFINE lines == Lines(n, seen)
<1>2. lines = [i \in 1..(last - n) |-> Line(n + i, ring[n + i], ring[n + i].proof /\ n + i > seen)]
  BY <1>1 DEF Lines
<1>3. lines \in Seq(LineType)
  BY LinesTyped DEF Known
<1>4. DOMAIN lines = 1..(last - n) /\ Len(lines) = last - n
  <2>1. DOMAIN lines = 1..(last - n) /\ last - n \in Nat
    BY <1>1, <1>2
  <2> HIDE DEF lines
  <2> QED BY <1>3, <2>1, LenProperties
<1>5. ASSUME NEW i \in 1..(last - n)
      PROVE  /\ lines[i].type = "output" /\ lines[i].n = n + i /\ lines[i].c = ring[n + i]
             /\ LineOk(lines[i]) /\ n + i \in 1..last
  <2>1. n + i \in 1..last
    BY <1>1
  <2>2. Real(ring[n + i])
    BY <1>1, <2>1 DEF OpeningInvariant, Proofs
  <2>3. lines[i] = Line(n + i, ring[n + i], ring[n + i].proof /\ n + i > seen)
    BY <1>2
  <2> HIDE DEF lines
  <2>4. /\ lines[i].type = "output" /\ lines[i].n = n + i /\ lines[i].c = ring[n + i]
        /\ lines[i].record = (ring[n + i].proof /\ n + i > seen)
    BY <2>3 DEF Line
  <2>5. LineOk(lines[i])
    BY <2>2, <2>4 DEF LineOk, Real
  <2> QED BY <2>1, <2>4, <2>5
<1> HIDE DEF lines
<1>6. /\ lines \in Seq(LineType) /\ DOMAIN lines = 1..(Last - n) /\ Len(lines) = Last - n
      /\ \A i \in 1..(Last - n) :
            /\ lines[i].type = "output" /\ lines[i].n = n + i /\ lines[i].c = ring[n + i]
            /\ LineOk(lines[i]) /\ n + i \in 1..Last
  BY <1>1, <1>3, <1>4, <1>5
<1> QED BY <1>6 DEF lines

\* A coverage is of the newest chunk that draws.
LEMMA CoverageOfDrawn ==
    ASSUME Known, NEW n \in 0..Last, Coverage(n).covered
    PROVE  /\ Drawn(n) \in 1..n /\ Draws(ring[Drawn(n)])
           /\ \A m \in 1..n : Draws(ring[m]) => m <= Drawn(n)
           /\ Fits(ring[Drawn(n)], Coverage(n)) /\ Coverage(n).thru = n
<1>1. n \in Nat /\ host.since \in Nat
  BY LenProperties DEF Known, Typed, Last, HostType
<1>2. PICK m \in 0..n : m = Drawn(n)
  BY <1>1, DrawnFacts
<1>3. Coverage(n) = Covers(m, ring[m], n) /\ m > host.since /\ ring[m].proof
  BY <1>2 DEF Coverage, Unknown
<1>4. m \in 1..n
  BY <1>1, <1>3
<1>5. Fits(ring[m], Coverage(n)) /\ Coverage(n).thru = n
  BY <1>3 DEF Covers, Fits
<1> QED BY <1>1, <1>2, <1>4, <1>5, DrawnFacts

\* Messages without hello leave the first one where it is.
LEMMA NoHello ==
    ASSUME NEW msgs \in Seq(MessageType), NEW more \in Seq(MessageType),
           \A i \in DOMAIN more : more[i].type # "hello"
    PROVE  \A i \in DOMAIN (msgs \o more) :
              (msgs \o more)[i].type = "hello" => i \in DOMAIN msgs /\ msgs[i].type = "hello"
<1> DEFINE all == msgs \o more
<1>1. PICK m, n \in Nat :
         /\ DOMAIN msgs = 1..m /\ DOMAIN more = 1..n /\ DOMAIN all = 1..(m + n)
         /\ \A i \in 1..m : all[i] = msgs[i]
         /\ \A i \in 1..n : all[m + i] = more[i]
  BY Joined
<1> HIDE DEF all
<1>2. ASSUME NEW i \in 1..(m + n), all[i].type = "hello" PROVE i \in 1..m
  <2> SUFFICES ASSUME ~ (i \in 1..m) PROVE FALSE
    OBVIOUS
  <2>1. i - m \in 1..n /\ m + (i - m) = i
    OBVIOUS
  <2> QED BY <1>1, <1>2, <2>1
<1>3. \A i \in DOMAIN all : all[i].type = "hello" => i \in DOMAIN msgs /\ msgs[i].type = "hello"
  BY <1>1, <1>2
<1> QED BY <1>3 DEF all

\* A snapshot that is captured, and what says nothing of the stream.
LEMMA MuteOpening ==
    ASSUME Known, Typed', OpeningInvariant, NEW more \in Seq(MessageType), Tell(more),
           \A i \in DOMAIN more : Mute(more[i]) /\ more[i].type # "hello",
           sub.pc = "idle" => \A i \in DOMAIN more : more[i].type = "status",
           UNCHANGED <<link, up, view, parser, ring>>, host'.gen = host.gen, Proofs',
           sub.pc = "idle" <=> sub'.pc = "idle",
           sub'.pc = "rendering" =>
              \/ sub.pc = "rendering" /\ sub'.dto = sub.dto
              \/ sub.pc # "idle" /\ sub'.dto = Last
    PROVE  OpeningInvariant'
<1>1. Last' = Last /\ Last \in Nat /\ down \in Seq(MessageType) /\ sub.dto \in Nat
  BY LenProperties DEF Known, Typed, Last, SubType
<1>2. CASE ~ link
  <2>1. down' = down /\ sub.pc = "idle"
    BY <1>2 DEF Tell, OpeningInvariant, Serving
  <2>2. Serving'
    BY <1>1, <2>1 DEF OpeningInvariant, Serving
  <2> QED BY <1>1, <2>1, <2>2, RunnerOpening DEF OpeningInvariant
<1>3. CASE link
  <2>1. down' = down \o more
    BY <1>3 DEF Tell
  <2>2. Brings(down', view, parser) /\ Within(down', Last)
    BY <1>1, <2>1, MuteBrings DEF OpeningInvariant, Serving
  <2>3. ASSUME sub.pc = "rendering" PROVE Within(down', sub.dto)
    BY <1>1, <2>1, <2>3, MuteBrings DEF OpeningInvariant, Serving
  <2>4. sub'.pc = "idle" => \A i \in DOMAIN down' : down'[i].type \in {"hello", "status"}
    <3> SUFFICES ASSUME sub'.pc = "idle", NEW i \in DOMAIN down' PROVE down'[i].type \in {"hello", "status"}
      OBVIOUS
    <3>1. (\E j \in DOMAIN down : down'[i] = down[j]) \/ \E j \in DOMAIN more : down'[i] = more[j]
      <4>1. \A k \in DOMAIN (down \o more) :
               \/ \E j \in DOMAIN down : (down \o more)[k] = down[j]
               \/ \E j \in DOMAIN more : (down \o more)[k] = more[j]
        BY <1>1, Sending
      <4> QED BY <2>1, <4>1
    <3> QED BY <3>1 DEF OpeningInvariant, Serving
  <2>5. sub.pc # "idle" => view.seq <= Last
    BY <1>3, SeqBelow
  <2>6. Serving'
    BY <1>1, <1>3, <2>2, <2>3, <2>4, <2>5 DEF OpeningInvariant, Serving
  <2>7. \A i \in DOMAIN down' : down'[i].type = "hello" => i \in DOMAIN down /\ down[i].type = "hello"
    BY <1>1, <2>1, NoHello
  <2> QED BY <1>1, <2>2, <2>6, <2>7, RunnerOpening
<1> QED BY <1>2, <1>3

\* A capture sends its begin, and is of the ring as it is.
LEMMA CaptureOpening ==
    ASSUME Known, Typed', OpeningInvariant, Capture
    PROVE  OpeningInvariant'
<1> DEFINE more == <<Begin>>
<1>1. /\ sub.pc = "capturing" /\ sub' = [sub EXCEPT !.pc = "rendering", !.dto = Last] /\ Tell(more)
      /\ UNCHANGED <<child, host, ring, link, up, view, parser>>
  BY DEF Capture
<1>2. sub'.pc = "rendering" /\ sub'.dto = Last
  BY <1>1 DEF Known, Typed, SubType
<1>3. Begin \in MessageType /\ Begin.type = "begin"
  BY AnswersTyped DEF Known, MessageType, Begin
<1>4. more \in Seq(MessageType) /\ \A i \in DOMAIN more : Mute(more[i]) /\ more[i].type # "hello"
  BY <1>3 DEF Mute, Carries
<1>5. Proofs'
  BY <1>1 DEF OpeningInvariant, Proofs
<1> HIDE DEF more
<1> QED BY <1>1, <1>2, <1>4, <1>5, MuteOpening

\* What a lost or replaced reporter and a new peer make the runner say is mute.
LEMMA TellingOpening ==
    ASSUME Known, Typed', OpeningInvariant, LoseReporter \/ ReplaceReporter \/ PeerConnects
    PROVE  OpeningInvariant'
<1>1. CASE LoseReporter
  <2> DEFINE state == [type |-> "state", cov |-> Unknown]
             status == [type |-> "status", gen |-> host.gen, trust |-> "off"]
             first == IF sub.pc = "live" THEN <<state>> ELSE <<>>
             more == first \o <<status>>
  <2>1. /\ Tell(more) /\ UNCHANGED <<ring, link, up, view, parser>>
        /\ sub' = IF sub.pc \in {"capturing", "rendering"}
                  THEN [sub EXCEPT !.reset = TRUE, !.proofs = FALSE] ELSE sub
        /\ child' = [child EXCEPT !.told = <<>>, !.intent = <<>>,
                              !.open = IF @ = <<>> THEN @ ELSE <<[@[1] EXCEPT !.proof = FALSE]>>]
        /\ host' = [host EXCEPT !.trust = "off"]
    BY <1>1 DEF LoseReporter
  <2>2. state \in MessageType /\ status \in MessageType
    BY ConstantsTyped DEF MessageType, IdentityType, Known, Typed, HostType
  <2>3. Mute(state) /\ Mute(status) /\ state.type = "state" /\ status.type = "status"
    BY DEF Mute, Carries, Unknown
  <2> HIDE DEF state, status
  <2>4. first \in Seq(MessageType) /\ <<status>> \in Seq(MessageType)
    BY <2>2
  <2>5. \A i \in DOMAIN first : sub.pc = "live" /\ first[i] = state
    OBVIOUS
  <2>6. \A i \in DOMAIN <<status>> : <<status>>[i] = status
    OBVIOUS
  <2> HIDE DEF first
  <2>7. more \in Seq(MessageType) /\ \A i \in DOMAIN more : (sub.pc = "live" /\ more[i] = state) \/ more[i] = status
    <3>1. /\ first \o <<status>> \in Seq(MessageType)
          /\ \A i \in DOMAIN (first \o <<status>>) :
               \/ \E j \in DOMAIN first : (first \o <<status>>)[i] = first[j]
               \/ \E j \in DOMAIN <<status>> : (first \o <<status>>)[i] = <<status>>[j]
      BY <2>4, Sending
    <3> QED BY <2>5, <2>6, <3>1
  <2> HIDE DEF more
  <2>8. host'.gen = host.gen /\ sub'.pc = sub.pc /\ sub'.dto = sub.dto
    BY <2>1 DEF Known, Typed, HostType, SubType
  <2>9. Proofs'
    <3>1. child.open # <<>> => child.open[1] \in ChunkType /\ Real(child.open[1])
      BY DEF OpeningInvariant, Proofs, Known, Typed, ChildType, AtMostOne
    <3>2. child'.open = IF child.open = <<>> THEN child.open ELSE <<[child.open[1] EXCEPT !.proof = FALSE]>>
      BY <2>1 DEF Known, Typed, ChildType
    <3>3. child'.open # <<>> => Real(child'.open[1])
      BY <3>1, <3>2, GivenUp
    <3> QED BY <2>1, <3>3 DEF OpeningInvariant, Proofs
  <2> QED BY <2>1, <2>3, <2>7, <2>8, <2>9, MuteOpening
<1>2. CASE PeerConnects
  <2> DEFINE more == <<Identify("status")>>
  <2>1. Tell(more) /\ UNCHANGED <<child, host, ring, sub, link, up, view, parser>>
    BY <1>2 DEF PeerConnects
  <2>2. Identify("status") \in MessageType /\ Identify("status").type = "status"
    BY AnswersTyped DEF Known, MessageType, Identify
  <2>3. more \in Seq(MessageType) /\ \A i \in DOMAIN more : Mute(more[i]) /\ more[i].type = "status"
    BY <2>2 DEF Mute, Carries
  <2>4. Proofs'
    BY <2>1 DEF OpeningInvariant, Proofs
  <2> HIDE DEF more
  <2> QED BY <2>1, <2>3, <2>4, MuteOpening
<1>3. CASE ReplaceReporter
  <2> DEFINE state == [type |-> "state", cov |-> Unknown]
             more == IF sub.pc = "live" THEN <<state>> ELSE <<>>
  <2>1. /\ Tell(more) /\ UNCHANGED <<ring, link, up, view, parser>>
        /\ sub' = IF sub.pc \in {"capturing", "rendering"}
                  THEN [sub EXCEPT !.reset = TRUE, !.proofs = FALSE] ELSE sub
        /\ child' = [child EXCEPT !.told = <<>>, !.intent = <<>>,
                              !.open = IF @ = <<>> THEN @ ELSE <<[@[1] EXCEPT !.proof = FALSE]>>]
        /\ host' = [host EXCEPT !.since = Last, !.rev = 0]
    BY <1>3 DEF ReplaceReporter
  <2>2. state \in MessageType
    BY ConstantsTyped DEF MessageType, IdentityType, Known, Typed, HostType
  <2>3. Mute(state) /\ state.type = "state"
    BY DEF Mute, Carries, Unknown
  <2> HIDE DEF state
  <2>4. more \in Seq(MessageType) /\ \A i \in DOMAIN more : sub.pc = "live" /\ more[i] = state
    BY <2>2
  <2> HIDE DEF more
  <2>5. host'.gen = host.gen /\ sub'.pc = sub.pc /\ sub'.dto = sub.dto
    BY <2>1 DEF Known, Typed, HostType, SubType
  <2>6. Proofs'
    <3>1. child.open # <<>> => child.open[1] \in ChunkType /\ Real(child.open[1])
      BY DEF OpeningInvariant, Proofs, Known, Typed, ChildType, AtMostOne
    <3>2. child'.open = IF child.open = <<>> THEN child.open ELSE <<[child.open[1] EXCEPT !.proof = FALSE]>>
      BY <2>1 DEF Known, Typed, ChildType
    <3>3. child'.open # <<>> => Real(child'.open[1])
      BY <3>1, <3>2, GivenUp
    <3> QED BY <2>1, <3>3 DEF OpeningInvariant, Proofs
  <2> QED BY <2>1, <2>3, <2>4, <2>5, <2>6, MuteOpening
<1> QED BY <1>1, <1>2, <1>3

\* A snapshot's coverage is of its picture, unless what came since draws.
LEMMA ReadyFacts ==
    ASSUME Known, OpeningInvariant, NEW dto \in 0..Last, NEW cov \in {Unknown, Coverage(Last)},
           NEW proofs
    PROVE  LET m == Ready(dto, cov, proofs)
           IN  /\ m.type = "ready" /\ m.upto = Last /\ ReadyOk(m)
               /\ \A r \in 0..dto : Follows(m, r)
<1> DEFINE m == Ready(dto, cov, proofs)
           seen == IF host.trust = "on" THEN host.since ELSE Last
           flush == Lines(dto, seen)
<1>1. PICK last \in Nat : last = Last
  BY LenProperties DEF Known, Typed, Last
<1>2. seen \in Nat /\ dto \in Nat /\ dto <= last
  BY <1>1 DEF Known, Typed, HostType
<1> HIDE DEF seen
<1>3. /\ DOMAIN flush = 1..(last - dto)
      /\ \A i \in 1..(last - dto) :
            /\ flush[i].type = "output" /\ flush[i].n = dto + i /\ flush[i].c = ring[dto + i]
            /\ LineOk(flush[i])
  BY ZenonT(40), <1>1, <1>2, LinesFacts
<1>4. /\ m.type = "ready" /\ m.upto = last /\ m.flush = flush /\ m.cov = cov
      /\ m.picture = Picture(dto)
  BY <1>1 DEF Ready, seen
<1> HIDE DEF m, flush
<1>5. \A i \in DOMAIN m.flush : LineOk(m.flush[i]) /\ m.flush[i].n <= m.upto
  BY <1>2, <1>3, <1>4
<1>6. \A i, j \in DOMAIN m.flush : i < j => m.flush[i].n < m.flush[j].n
  BY <1>2, <1>3, <1>4
<1>7. \A r \in 0..dto : Follows(m, r)
  BY <1>2, <1>3, <1>4 DEF Follows
<1>8. ASSUME cov.covered, \A i \in DOMAIN flush : ~ Draws(flush[i].c)
      PROVE  Fits(Picture(dto).c, cov)
  <2>1. cov = Coverage(Last) /\ Last \in 0..Last
    BY <1>1, <1>8 DEF Unknown
  <2>2. PICK k \in 0..last : k = Drawn(last)
    BY <1>1, DrawnFacts
  <2>3. k \in 1..last /\ Draws(ring[k]) /\ Fits(ring[k], cov)
           /\ \A j \in 1..last : Draws(ring[j]) => j <= k
    BY <1>1, <1>8, <2>1, <2>2, CoverageOfDrawn
  <2>4. k <= dto
    <3> SUFFICES ASSUME ~ (k <= dto) PROVE FALSE
      OBVIOUS
    <3>1. k - dto \in 1..(last - dto) /\ dto + (k - dto) = k
      BY <1>2
    <3> QED BY <1>3, <1>8, <2>3, <3>1
  <2>5. PICK l \in 0..dto : l = Drawn(dto) /\ (l # 0 => Draws(ring[l])) /\ \A j \in 1..dto : Draws(ring[j]) => j <= l
    BY <1>2, DrawnFacts
  <2>6. k <= l /\ l <= k
    <3>1. k \in 1..dto
      BY <1>2, <2>3, <2>4
    <3>2. k <= l
      BY <2>3, <2>5, <3>1
    <3>3. l \in 1..last
      BY <1>2, <3>1, <3>2
    <3> QED BY <2>3, <2>5, <3>2, <3>3
  <2>7. l = k /\ l # 0
    BY <1>2, <2>3, <2>6
  <2> QED BY <2>3, <2>5, <2>7 DEF Picture
<1>9. ReadyOk(m)
  BY <1>4, <1>5, <1>6, <1>8 DEF ReadyOk
<1> QED BY <1>1, <1>4, <1>7, <1>9 DEF m

\* A snapshot is of the chunks up to its capture, its flush of those after it.
LEMMA FinishOpening ==
    ASSUME Known, Typed', OpeningInvariant, FinishSnapshot
    PROVE  OpeningInvariant'
<1> DEFINE cov == IF sub.reset THEN Unknown ELSE Coverage(Last)
           ready == Ready(sub.dto, cov, sub.proofs)
           more == <<ready>>
<1>1. /\ sub.pc = "rendering" /\ Tell(more) /\ sub' = [NoSub EXCEPT !.pc = "live"]
      /\ UNCHANGED <<child, host, ring, link, up, view, parser>>
  BY DEF FinishSnapshot
<1>2. PICK last \in Nat : last = Last
  BY LenProperties DEF Known, Typed, Last
<1>3. /\ link /\ down' = down \o more /\ sub'.pc = "live" /\ Last' = Last
      /\ down \in Seq(MessageType) /\ view.seq \in 0..sub.dto /\ Within(down, sub.dto)
      /\ sub.dto \in Nat /\ sub.dto \in 0..Last /\ sub.proofs \in BOOLEAN
  <2>1. link
    BY <1>1 DEF OpeningInvariant, Serving
  <2>2. sub'.pc = "live"
    BY <1>1 DEF NoSub
  <2>3. down' = down \o more /\ Last' = Last
    BY <1>1, <2>1 DEF Tell, Last
  <2>4. /\ down \in Seq(MessageType) /\ view.seq \in Nat /\ sub.dto \in Nat /\ sub.dto \in 0..Last
        /\ sub.proofs \in BOOLEAN
    BY DEF Known, Typed, SubType, ViewType
  <2>5. view.seq <= sub.dto /\ Within(down, sub.dto)
    BY <1>1 DEF OpeningInvariant, Serving
  <2> QED BY <2>1, <2>2, <2>3, <2>4, <2>5
<1>4. ready \in ReadyType
  <2>1. cov \in CoverageType /\ Last \in 0..Last
    BY <1>2, RenderTyped, ConstantsTyped DEF Known
  <2> HIDE DEF cov
  <2> QED BY <1>3, <2>1, AnswersTyped DEF Known
<1>5. /\ ready.type = "ready" /\ ready.upto = last /\ ReadyOk(ready)
      /\ Follows(ready, view.seq) /\ Follows(ready, sub.dto)
  <2>1. cov \in {Unknown, Coverage(Last)}
    OBVIOUS
  <2> HIDE DEF cov
  <2> QED BY <1>2, <1>3, <2>1, ReadyFacts
<1> HIDE DEF ready
<1>6. /\ more \in Seq(MessageType) /\ DOMAIN more = {1} /\ more[1] = ready
      /\ \A i \in DOMAIN more : more[i] = ready
  <2>1. ready \in MessageType
    BY <1>4 DEF MessageType
  <2> QED BY <2>1
<1>7. Sound(ready, 1, view, parser) /\ Reaches(ready) = last
  BY <1>5 DEF Sound, Reaches
<1> HIDE DEF more
<1>8. Stream(down', view, parser)
  <2>1. Ordered(more)
    BY <1>6 DEF Ordered
  <2>2. ASSUME NEW i \in DOMAIN more
        PROVE  /\ more[i].type # "record" /\ Sound(more[i], i, view, parser)
               /\ Carries(more[i]) => Follows(more[i], sub.dto)
    <3>1. i = 1 /\ more[i] = ready
      BY <1>6
    <3> QED BY <1>5, <1>7, <3>1
  <2>3. Stream(down, view, parser)
    BY DEF OpeningInvariant, Brings
  <2> QED BY <1>3, <1>6, <2>1, <2>2, <2>3, SaidStream
<1>9. Replays(down', view, parser)
  <2>1. \A k \in DOMAIN more : more[k].type # "state"
    BY <1>5, <1>6
  <2> QED BY <1>3, <1>6, <2>1, SaidReplays DEF OpeningInvariant, Brings
<1>10. Serving'
  <2>1. Within(down', last)
    <3> SUFFICES ASSUME NEW i \in DOMAIN down', Carries(down'[i]) PROVE Reaches(down'[i]) <= last
      BY DEF Within
    <3>1. (\E j \in DOMAIN down : down'[i] = down[j]) \/ \E j \in DOMAIN more : down'[i] = more[j]
      <4>1. \A k \in DOMAIN (down \o more) :
               \/ \E j \in DOMAIN down : (down \o more)[k] = down[j]
               \/ \E j \in DOMAIN more : (down \o more)[k] = more[j]
        <5>1. down \in Seq(MessageType) /\ more \in Seq(MessageType)
          BY <1>3, <1>6
        <5> QED BY <5>1, Sending
      <4> QED BY <1>3, <4>1
    <3> QED BY <1>2, <1>6, <1>7, <3>1 DEF OpeningInvariant, Serving, Within
  <2> QED BY <1>1, <1>2, <1>3, <2>1 DEF Serving
<1>11. \A i \in DOMAIN down' : down'[i].type = "hello" => i \in DOMAIN down /\ down[i].type = "hello"
  <2>1. \A i \in DOMAIN more : more[i].type # "hello"
    BY <1>5, <1>6
  <2> QED BY <1>3, <1>6, <2>1, NoHello
<1>12. Proofs'
  BY <1>1 DEF OpeningInvariant, Proofs
<1>13. Brings(down', view, parser)
  BY <1>8, <1>9 DEF OpeningInvariant, Brings
<1> QED BY <1>1, <1>2, <1>3, <1>10, <1>11, <1>12, <1>13, RunnerOpening

\* A replay brings the lines after the view's cursor, and the coverage of the last.
LEMMA ReplayOpening ==
    ASSUME Known, Typed', OpeningInvariant, NEW n \in Nat, n # 0, link, up # <<>>,
           Head(up) = Subscribe(n), up' = Tail(up), Replay(n),
           UNCHANGED <<child, host, ring, link, view, parser>>
    PROVE  OpeningInvariant'
<1> DEFINE known == host.trust = "on" /\ host.since <= n
           seen == IF known THEN n ELSE Last
           cov == IF known \/ n = Last THEN Coverage(Last) ELSE Unknown
           state == [type |-> "state", cov |-> cov]
           lines == Lines(n, seen)
           more == lines \o <<state>>
           all == down \o more
<1>1. PICK last \in Nat : last = Last /\ Last' = last
  BY LenProperties DEF Known, Typed, Last
<1>2. /\ n = view.seq /\ sub.pc = "idle" /\ view.committed = <<>> /\ parser = <<>>
      /\ view.wire # 0 /\ 1 \in DOMAIN up /\ Asks(Head(up))
  <2>1. 1 \in DOMAIN up /\ Head(up) = up[1]
    BY Receiving DEF Known, Typed
  <2>2. Asks(up[1]) /\ up[1].n = n
    BY <2>1 DEF Subscribe, Asks
  <2> QED BY <2>1, <2>2 DEF OpeningInvariant, Resumes
<1>3. down \in Seq(MessageType) /\ \A i \in DOMAIN down : down[i].type = "status"
  BY <1>2 DEF Known, Typed, OpeningInvariant, Serving, Cursor
<1>4. n <= last
  BY <1>1, <1>2, SeqBelow
<1>5. seen \in Nat
  BY <1>1
<1>6. cov \in CoverageType /\ (cov.covered => cov = Coverage(last))
  <2>1. Coverage(Last) \in CoverageType
    BY <1>1, RenderTyped DEF Known
  <2> QED BY <1>1, <2>1, ConstantsTyped DEF Unknown
<1>7. sub'.pc = "live" /\ down' = all
  BY DEF Replay, Tell, NoSub
<1> HIDE DEF seen, cov
<1>8. PICK l \in Nat : l = last - n
  BY <1>1, <1>4
<1>9. /\ lines \in Seq(LineType) /\ DOMAIN lines = 1..l /\ Len(lines) = l
      /\ \A i \in 1..l :
            /\ lines[i].type = "output" /\ lines[i].n = n + i /\ lines[i].c = ring[n + i]
            /\ LineOk(lines[i]) /\ n + i \in 1..last
  <2>1. n <= Last /\ Last - n = l
    BY <1>1, <1>4, <1>8
  <2>2. /\ lines \in Seq(LineType) /\ DOMAIN lines = 1..(Last - n) /\ Len(lines) = Last - n
        /\ \A i \in 1..(Last - n) :
              /\ lines[i].type = "output" /\ lines[i].n = n + i /\ lines[i].c = ring[n + i]
              /\ LineOk(lines[i]) /\ n + i \in 1..Last
    BY <1>5, <2>1, LinesFacts
  <2> HIDE DEF lines
  <2> QED BY <1>1, <2>1, <2>2
<1>10. state.type = "state" /\ state.cov = cov /\ state \in MessageType
  BY <1>6 DEF MessageType
<1> HIDE DEF lines, state
<1>11. /\ more \in Seq(MessageType) /\ DOMAIN more = 1..(l + 1)
       /\ \A i \in 1..l : more[i] = lines[i]
       /\ more[l + 1] = state
  <2>1. lines \in Seq(MessageType)
    BY <1>9 DEF MessageType
  <2>2. <<state>> \in Seq(MessageType) /\ Len(<<state>>) = 1 /\ <<state>>[1] = state
    BY <1>10
  <2>3. 1 \in 1..Len(<<state>>)
    BY <2>2
  <2>4. /\ more \in Seq(MessageType) /\ DOMAIN more = 1..(Len(lines) + Len(<<state>>))
        /\ \A i \in 1..Len(lines) : more[i] = lines[i]
        /\ \A i \in 1..Len(<<state>>) : more[Len(lines) + i] = <<state>>[i]
    BY <2>1, <2>2, Joined
  <2>5. more[Len(lines) + 1] = <<state>>[1]
    BY <2>3, <2>4
  <2> HIDE DEF more
  <2> QED BY <1>9, <2>2, <2>4, <2>5
<1> HIDE DEF more
<1>12. PICK d \in Nat : /\ d = Len(down) /\ DOMAIN down = 1..d /\ DOMAIN all = 1..(d + (l + 1))
                        /\ \A i \in 1..d : all[i] = down[i]
                        /\ \A i \in 1..(l + 1) : all[d + i] = more[i]
  <2>1. Len(more) = l + 1
    <3>1. l + 1 \in Nat /\ more \in Seq(MessageType) /\ DOMAIN more = 1..(l + 1)
      BY <1>11
    <3>2. Len(more) \in Nat /\ DOMAIN more = 1..Len(more)
      BY <3>1, LenProperties
    <3> QED BY <3>1, <3>2
  <2>2. /\ Len(down) \in Nat /\ DOMAIN down = 1..Len(down)
        /\ DOMAIN all = 1..(Len(down) + Len(more))
        /\ \A i \in 1..Len(down) : all[i] = down[i]
        /\ \A i \in 1..Len(more) : all[Len(down) + i] = more[i]
    BY <1>3, <1>11, Joined
  <2> HIDE DEF all
  <2> QED BY <2>1, <2>2
<1> HIDE DEF all
<1>13. \A i \in 1..l : all[d + i].type = "output" /\ all[d + i].n = n + i /\ all[d + i].c = ring[n + i]
  <2> TAKE i \in 1..l
  <2>1. i \in 1..(l + 1)
    OBVIOUS
  <2> QED BY ZenonT(40), <1>9, <1>11, <1>12, <2>1
<1>14. \A i \in 1..(d + l) : (i \in 1..d /\ all[i].type = "status") \/ (i - d \in 1..l /\ d + (i - d) = i)
  BY <1>3, <1>12
<1>15. \A i \in 1..(l + 1) : more[i].type = "output" \/ more[i] = state
  <2> TAKE i \in 1..(l + 1)
  <2>1. i \in 1..l \/ i = l + 1
    OBVIOUS
  <2> QED BY <1>9, <1>11, <2>1
<1>16. Stream(down, view, parser) /\ Within(down, n)
  BY <1>3 DEF OpeningInvariant, Brings, Within, Carries
<1>17. Ordered(more)
  <2>1. ASSUME NEW i \in 1..(l + 1), NEW j \in 1..(l + 1), i < j, Carries(more[i]), Carries(more[j])
        PROVE  Follows(more[j], Reaches(more[i]))
    <3>1. i \in 1..l /\ j \in 1..l
      BY <1>10, <1>11, <2>1 DEF Carries
    <3> QED BY <1>9, <1>11, <2>1, <3>1 DEF Follows, Reaches
  <2> QED BY <1>11, <2>1 DEF Ordered
<1>18. \A i \in DOMAIN more :
          /\ more[i].type # "record" /\ Sound(more[i], i, view, parser)
          /\ Carries(more[i]) => Follows(more[i], n)
  <2> SUFFICES ASSUME NEW i \in 1..(l + 1)
               PROVE  /\ more[i].type # "record" /\ Sound(more[i], i, view, parser)
                      /\ Carries(more[i]) => Follows(more[i], n)
    BY <1>11
  <2>1. CASE i \in 1..l
    <3>1. more[i].type = "output" /\ more[i].n = n + i /\ LineOk(more[i])
      BY <1>9, <1>11, <2>1
    <3>2. Follows(more[i], n)
      BY <3>1 DEF Follows
    <3> QED BY <1>2, <3>1, <3>2 DEF Sound
  <2>2. CASE more[i] = state
    BY <1>10, <2>2 DEF Sound, Carries
  <2> QED BY <1>11, <2>1, <2>2
<1>19. Stream(all, view, parser)
  BY <1>3, <1>11, <1>16, <1>17, <1>18, SaidStream DEF all
<1>20. ASSUME cov.covered PROVE Replaying(all, d + l, cov, view, parser)
  <2>1. PICK k \in 0..last : k = Drawn(last)
    BY <1>1, DrawnFacts
  <2>2. /\ cov.thru = last /\ Fits(ring[k], cov)
        /\ \A j \in 1..last : Draws(ring[j]) => j <= k
        /\ k \in 1..last /\ Draws(ring[k])
    <3>1. last \in 0..Last
      BY <1>1
    <3> QED BY <1>1, <1>6, <1>20, <2>1, <3>1, CoverageOfDrawn
  <2>3. view.seq \in Nat /\ cov.thru <= view.seq + (d + l)
    BY <1>2, <1>8, <2>2
  <2>4. Painted(view, parser, cov)
    BY <1>2 DEF Painted
  <2>5. ASSUME NEW i \in 1..(d + l)
        PROVE  /\ all[i].type \in {"output", "record", "status"}
               /\ all[i].type = "output" <=> view.seq + (d + l - i) < cov.thru
               /\ all[i].type = "output" => all[i].n + (d + l - i) = cov.thru
               /\ Paints(all[i]) /\ (\A j \in (i + 1)..(d + l) : ~ Paints(all[j])) => Fits(all[i].c, cov)
    <3>1. CASE i \in 1..d /\ all[i].type = "status"
      <4>1. ~ (n + (d + l - i) < last)
        BY <1>4, <1>8, <3>1
      <4>2. ~ (view.seq + (d + l - i) < cov.thru)
        BY <1>2, <2>2, <4>1
      <4> QED BY <3>1, <4>2 DEF Paints
    <3>2. CASE i - d \in 1..l /\ d + (i - d) = i
      <4>1. all[i].type = "output" /\ all[i].n = n + (i - d) /\ all[i].c = ring[n + (i - d)]
        BY <1>13, <3>2
      <4>2. view.seq + (d + l - i) < cov.thru /\ all[i].n + (d + l - i) = cov.thru
        <5>1. n + (d + l - i) < last /\ n + (i - d) + (d + l - i) = last
          BY <1>4, <1>8, <3>2
        <5> QED BY <1>2, <2>2, <4>1, <5>1
      <4>3. ASSUME Paints(all[i]), \A j \in (i + 1)..(d + l) : ~ Paints(all[j])
            PROVE  Fits(all[i].c, cov)
        <5>1. n + (i - d) \in 1..last /\ Draws(ring[n + (i - d)])
          BY <1>4, <1>8, <3>2, <4>1, <4>3 DEF Paints
        <5>2. n + (i - d) <= k
          BY <2>2, <5>1
        <5>3. ~ (n + (i - d) < k)
          <6> SUFFICES ASSUME n + (i - d) < k PROVE FALSE
            OBVIOUS
          <6>1. k - n \in 1..l /\ d + (k - n) \in (i + 1)..(d + l) /\ n + (k - n) = k
            BY <1>8, <2>2, <3>2
          <6>2. Paints(all[d + (k - n)])
            BY <1>13, <2>2, <6>1 DEF Paints
          <6> QED BY <4>3, <6>1, <6>2
        <5>4. n + (i - d) = k
          BY <2>2, <5>1, <5>2, <5>3
        <5> QED BY <2>2, <4>1, <5>4
      <4> QED BY <4>1, <4>2, <4>3
    <3> QED BY <1>14, <3>1, <3>2
  <2> QED BY <2>3, <2>4, <2>5 DEF Replaying
<1>21. Replays(all, view, parser)
  <2>1. ASSUME NEW k \in DOMAIN more, more[k].type = "state", more[k].cov.covered
        PROVE  Replaying(down \o more, Len(down) + k - 1, more[k].cov, view, parser)
    <3>1. k = l + 1 /\ more[k] = state
      BY <1>9, <1>11, <2>1
    <3>2. Len(down) + k - 1 = d + l
      BY <1>12, <3>1
    <3> QED BY <1>10, <1>20, <2>1, <3>1, <3>2 DEF all
  <2> QED BY <1>3, <1>11, <2>1, SaidReplays DEF all, OpeningInvariant, Brings
<1>22. Serving'
  <2>1. Within(all, last)
    <3> SUFFICES ASSUME NEW i \in DOMAIN all, Carries(all[i]) PROVE Reaches(all[i]) <= last
      BY DEF Within
    <3>1. i \in 1..(d + l) \/ i = d + (l + 1)
      <4>1. i \in 1..(d + (l + 1))
        BY <1>12
      <4> QED BY <4>1
    <3>2. l + 1 \in 1..(l + 1)
      OBVIOUS
    <3>3. i # d + (l + 1)
      BY <1>10, <1>11, <1>12, <3>2 DEF Carries
    <3>4. i - d \in 1..l /\ d + (i - d) = i
      BY <1>14, <3>1, <3>3 DEF Carries
    <3>5. all[i].type = "output" /\ all[i].n = n + (i - d)
      BY <1>13, <3>4
    <3>6. n + (i - d) <= last
      BY <1>8, <3>4
    <3> QED BY <3>5, <3>6 DEF Reaches
  <2> QED BY <1>1, <1>7, <2>1 DEF Serving
<1>23. \A i \in DOMAIN all : all[i].type = "hello" => i \in DOMAIN down /\ down[i].type = "hello"
  <2>1. \A i \in DOMAIN more : more[i].type # "hello"
    BY <1>10, <1>11, <1>15
  <2> QED BY <1>3, <1>11, <2>1, NoHello DEF all
<1>24. Proofs'
  BY DEF OpeningInvariant, Proofs
<1>25. Brings(down', view, parser)
  BY <1>7, <1>19, <1>21 DEF OpeningInvariant, Brings
<1> QED BY <1>1, <1>2, <1>7, <1>22, <1>23, <1>24, <1>25, RunnerOpening

\* A subscription is answered by a snapshot or by a replay.
LEMMA SubscribeOpening ==
    ASSUME Known, Typed', OpeningInvariant, HearSubscribe
    PROVE  OpeningInvariant'
<1>1. /\ up \in Seq(RequestType) /\ up # <<>> /\ link /\ up' = Tail(up) /\ Head(up).type = "subscribe"
      /\ UNCHANGED <<child, host, ring, link, view, parser>>
  BY DEF HearSubscribe, Reading, Known, Typed
<1>2. Head(up) = Subscribe(Head(up).n) /\ Head(up).n \in Nat /\ Asks(Head(up)) /\ 1 \in DOMAIN up /\ Head(up) = up[1]
  <2>1. Head(up) \in RequestType /\ 1 \in DOMAIN up /\ Head(up) = up[1]
    BY <1>1, Receiving
  <2> QED BY <1>1, <2>1 DEF RequestType, Subscribe, Asks
<1>3. PICK last \in Nat : last = Last /\ Last' = last
  BY <1>1, LenProperties DEF Known, Typed, Last
<1>4. Proofs'
  BY <1>1 DEF OpeningInvariant, Proofs
<1>5. CASE sub.pc \in {"capturing", "rendering"}
  <2>1. UNCHANGED <<sub, down>>
    BY <1>5 DEF HearSubscribe
  <2> QED BY <1>1, <1>4, <2>1, SilentOpening
<1>6. CASE sub.pc \notin {"capturing", "rendering"} /\ Head(up).n # 0
  <2>1. Replay(Head(up).n)
    BY <1>6 DEF HearSubscribe
  <2> QED BY <1>1, <1>2, <1>6, <2>1, ReplayOpening
<1>7. CASE sub.pc \notin {"capturing", "rendering"} /\ Head(up).n = 0 /\ Last # 0
  <2>1. sub' = [NoSub EXCEPT !.pc = "capturing"] /\ down' = down
    BY <1>7 DEF HearSubscribe, StartSnapshot
  <2>2. sub'.pc = "capturing"
    BY <2>1 DEF NoSub
  <2>3. Serving'
    BY <1>1, <1>3, <2>1, <2>2 DEF OpeningInvariant, Serving
  <2> QED BY <1>1, <1>2, <1>3, <1>4, <2>1, <2>3, RunnerOpening DEF OpeningInvariant
<1>8. CASE sub.pc \notin {"capturing", "rendering"} /\ Head(up).n = 0 /\ Last = 0
  <2> DEFINE ready == Ready(0, Unknown, FALSE)
             more == <<Begin, ready>>
  <2>1. sub' = [NoSub EXCEPT !.pc = "live"] /\ down' = down \o more
    BY <1>1, <1>8 DEF HearSubscribe, StartSnapshot, Tell
  <2>2. sub'.pc = "live"
    BY <2>1 DEF NoSub
  <2>3. view.seq = 0
    <3>1. view.seq <= Last /\ view.seq \in Nat
      BY <1>1, <1>2, SeqBelow DEF Known, Typed, ViewType
    <3> QED BY <1>8, <3>1
  <2>4. /\ ready.type = "ready" /\ ready.upto = 0 /\ ReadyOk(ready) /\ Follows(ready, 0)
        /\ Begin.type = "begin" /\ Begin \in MessageType /\ ready \in MessageType
    <3>1. 0 \in 0..Last /\ 0 \in 0..0
      BY <1>8
    <3>2. ready \in ReadyType /\ Begin \in BeginType
      BY <3>1, AnswersTyped, ConstantsTyped DEF Known
    <3>3. ready.type = "ready" /\ ready.upto = 0 /\ ReadyOk(ready) /\ Follows(ready, 0)
      BY ZenonT(40), <1>8, <3>1, ReadyFacts
    <3> QED BY <3>2, <3>3 DEF MessageType, Begin
  <2> HIDE DEF ready
  <2>5. /\ more \in Seq(MessageType) /\ DOMAIN more = {1, 2} /\ more[1] = Begin /\ more[2] = ready
    BY <2>4
  <2> HIDE DEF more
  <2>6. Ordered(more)
    BY <2>4, <2>5 DEF Ordered, Carries
  <2>7. \A i \in DOMAIN more :
           /\ more[i].type # "record" /\ Sound(more[i], i, view, parser)
           /\ Carries(more[i]) => Follows(more[i], 0)
    BY <2>3, <2>4, <2>5 DEF Sound, Carries
  <2>8. Within(down, 0) /\ Stream(down, view, parser) /\ down \in Seq(MessageType)
    BY <1>8 DEF Known, Typed, OpeningInvariant, Serving, Brings
  <2>9. Stream(down', view, parser)
    BY <2>1, <2>5, <2>6, <2>7, <2>8, SaidStream
  <2>10. Replays(down', view, parser)
    <3>1. \A k \in DOMAIN more : more[k].type # "state"
      BY <2>4, <2>5
    <3> QED BY <2>1, <2>5, <2>8, <3>1, SaidReplays DEF OpeningInvariant, Brings
  <2>11. \A i \in DOMAIN down' : (\E j \in DOMAIN down : down'[i] = down[j]) \/ \E j \in DOMAIN more : down'[i] = more[j]
    <3>1. \A k \in DOMAIN (down \o more) :
             \/ \E j \in DOMAIN down : (down \o more)[k] = down[j]
             \/ \E j \in DOMAIN more : (down \o more)[k] = more[j]
      BY <2>5, <2>8, Sending
    <3> QED BY <2>1, <3>1
  <2>12. Serving'
    <3>1. Within(down', 0)
      <4> SUFFICES ASSUME NEW i \in DOMAIN down', Carries(down'[i]) PROVE Reaches(down'[i]) <= 0
        BY DEF Within
      <4>1. CASE \E j \in DOMAIN down : down'[i] = down[j]
        BY <2>8, <4>1 DEF Within
      <4>2. CASE \E j \in DOMAIN more : down'[i] = more[j]
        <5>1. down'[i] = ready
          BY <2>4, <2>5, <4>2 DEF Carries
        <5> QED BY <2>4, <5>1 DEF Reaches
      <4> QED BY <2>11, <4>1, <4>2
    <3> QED BY <1>1, <1>3, <1>8, <2>2, <3>1 DEF Serving
  <2>13. \A i \in DOMAIN down' : down'[i].type = "hello" => i \in DOMAIN down /\ down[i].type = "hello"
    <3>1. \A i \in DOMAIN more : more[i].type # "hello"
      BY <2>4, <2>5
    <3> QED BY <2>1, <2>5, <2>8, <3>1, NoHello
  <2>14. Brings(down', view, parser)
    BY <2>9, <2>10 DEF OpeningInvariant, Brings
  <2> QED BY <1>1, <1>2, <1>3, <1>4, <2>12, <2>13, <2>14, RunnerOpening
<1> QED BY <1>5, <1>6, <1>7, <1>8

----------------------------------------------------------------------------
(* The view's socket, and what opens the view.                             *)

\* The view is opened by a deadline, by a proof when all is parsed, or not at all.
Opens == Waits(view, view') \/ (parser' = <<>> /\ Proven(view'))

\* A step of the view keeps where it is, and what it asked for.
LEMMA ViewOpening ==
    ASSUME Known, Typed', OpeningInvariant, UNCHANGED <<child, host, ring, sub, link>>,
           Brings(down', view', parser'), Serving',
           \A i \in DOMAIN down' : down'[i].type = "hello" => i \in DOMAIN down /\ down[i].type = "hello",
           view'.gen = view.gen, view'.wire = view.wire,
           \/ view'.client = view.client /\ view'.seq = view.seq
           \/ view.wire # 0 /\ view'.client \notin {"probing", "reconciling"} /\ view'.seq <= Last,
           NEW more \in Seq(RequestType), up' = up \o more,
           \/ sub.pc # "idle" /\ \A i \in DOMAIN more : Asks(more[i]) => more[i].n = 0
           \/ /\ \A i \in DOMAIN more : ~ Asks(more[i])
              /\ view'.seq = view.seq
              /\ parser = <<>> /\ view.committed = <<>> => parser' = <<>> /\ view'.committed = <<>>
    PROVE  OpeningInvariant'
<1>1. Last' = Last /\ up \in Seq(RequestType) /\ Cursor /\ Resumes
  BY DEF Known, Typed, Last, OpeningInvariant
<1>2. PICK m, n \in Nat :
         /\ DOMAIN up = 1..m /\ DOMAIN more = 1..n /\ DOMAIN up' = 1..(m + n)
         /\ \A i \in 1..m : up'[i] = up[i]
         /\ \A i \in 1..n : up'[m + i] = more[i]
  <2>1. /\ Len(up) \in Nat /\ Len(more) \in Nat
        /\ DOMAIN up = 1..Len(up) /\ DOMAIN more = 1..Len(more)
        /\ DOMAIN (up \o more) = 1..(Len(up) + Len(more))
        /\ \A i \in 1..Len(up) : (up \o more)[i] = up[i]
        /\ \A i \in 1..Len(more) : (up \o more)[Len(up) + i] = more[i]
    BY <1>1, Joined
  <2> QED BY <2>1
<1>3. ASSUME NEW i \in 1..(m + n)
      PROVE  (i \in 1..m /\ up'[i] = up[i]) \/ (i - m \in 1..n /\ up'[i] = more[i - m])
  <2>1. CASE i <= m
    BY <1>2, <2>1
  <2>2. CASE ~ (i <= m)
    <3>1. i - m \in 1..n /\ m + (i - m) = i
      BY <2>2
    <3> QED BY <1>2, <3>1
  <2> QED BY <2>1, <2>2
<1>4. Cursor'
  <2>1. view'.gen = host'.gen => view'.seq <= Last'
    BY <1>1 DEF Cursor
  <2>2. view'.client = "probing" => view'.seq = 0
    BY <1>1 DEF Cursor
  <2>3. link' /\ view'.wire = 0 => view'.client \in {"probing", "reconciling"}
    BY <1>1 DEF Cursor
  <2>4. link' /\ view'.client = "reconciling" =>
           view'.wire = 0 /\ sub'.pc = "idle" /\ \A i \in DOMAIN up' : ~ Asks(up'[i])
    <3> SUFFICES ASSUME link, view'.client = "reconciling"
                 PROVE  view'.wire = 0 /\ sub'.pc = "idle" /\ \A i \in DOMAIN up' : ~ Asks(up'[i])
      OBVIOUS
    <3>1. /\ view.client = "reconciling" /\ view.wire = 0 /\ sub.pc = "idle"
          /\ \A i \in DOMAIN up : ~ Asks(up[i])
      BY <1>1 DEF Cursor
    <3>2. \A i \in DOMAIN more : ~ Asks(more[i])
      BY <3>1
    <3> QED BY <1>2, <1>3, <3>1, <3>2
  <2>5. \A i \in DOMAIN down' : down'[i].type = "hello" => i = 1 /\ view'.wire = 0
    BY <1>1 DEF Cursor
  <2> QED BY <2>1, <2>2, <2>3, <2>4, <2>5 DEF Cursor
<1>5. Resumes'
  <2> SUFFICES ASSUME NEW i \in 1..(m + n), Asks(up'[i]), up'[i].n # 0
               PROVE  /\ up'[i].n = view'.seq /\ sub'.pc = "idle" /\ view'.committed = <<>>
                      /\ parser' = <<>> /\ view'.wire # 0
                      /\ \A j \in 1..(m + n) : Asks(up'[j]) => i = j
    BY <1>2 DEF Resumes
  <2>1. i \in 1..m /\ up'[i] = up[i]
    <3> SUFFICES ASSUME i - m \in 1..n, up'[i] = more[i - m] PROVE FALSE
      BY <1>3
    <3>1. i - m \in DOMAIN more /\ Asks(more[i - m]) /\ more[i - m].n # 0
      BY <1>2
    <3> QED BY <3>1
  <2>2. /\ up[i].n = view.seq /\ sub.pc = "idle" /\ view.committed = <<>> /\ parser = <<>>
        /\ view.wire # 0
        /\ \A j \in DOMAIN up : Asks(up[j]) => i = j
    BY <1>1, <1>2, <2>1 DEF Resumes
  <2>3. /\ \A k \in DOMAIN more : ~ Asks(more[k])
        /\ view'.seq = view.seq /\ view'.committed = <<>> /\ parser' = <<>>
    BY <2>2
  <2>4. ASSUME NEW j \in 1..(m + n), Asks(up'[j]) PROVE i = j
    <3>1. j \in 1..m /\ up'[j] = up[j]
      BY <1>2, <1>3, <2>3, <2>4
    <3> QED BY <1>2, <2>2, <2>4, <3>1
  <2> QED BY <2>1, <2>2, <2>3, <2>4
<1>6. Proofs'
  BY DEF OpeningInvariant, Proofs
<1> QED BY <1>4, <1>5, <1>6 DEF OpeningInvariant

\* A message that is taken leaves the others.
LEMMA TailServing ==
    ASSUME Known, OpeningInvariant, UNCHANGED <<ring, sub, link>>, link, down # <<>>,
           Head(down).type # "hello", down' = Tail(down),
           sub.pc = "rendering" => view'.seq <= sub.dto
    PROVE  /\ Serving' /\ \A i \in DOMAIN down' : down'[i].type # "hello"
           /\ Head(down).type # "status" => sub.pc # "idle"
<1>1. /\ 1 \in DOMAIN down /\ Head(down) = down[1]
      /\ \A i \in DOMAIN down' : i + 1 \in DOMAIN down /\ down'[i] = down[i + 1]
  BY Receiving DEF Known, Typed
<1>2. Last' = Last
  BY DEF Last
<1>3. Serving'
  BY <1>1, <1>2 DEF OpeningInvariant, Serving, Within
<1>4. ASSUME NEW i \in DOMAIN down', down'[i].type = "hello" PROVE FALSE
  <2>1. view.wire = 0 /\ down # <<>>
    BY <1>1, <1>4 DEF OpeningInvariant, Cursor
  <2> QED BY <2>1 DEF Known, ShownInvariant, Speaks
<1>5. Head(down).type # "status" => sub.pc # "idle"
  BY <1>1 DEF OpeningInvariant, Serving
<1> QED BY <1>3, <1>4, <1>5

\* Nothing is added to what the view asked for.
LEMMA NothingAsked ==
    ASSUME Known
    PROVE  /\ <<>> \in Seq(RequestType) /\ up = up \o <<>>
           /\ \A i \in DOMAIN <<>> : ~ Asks(<<>>[i])
           /\ \A size \in Sizes :
                 /\ <<Resize(size)>> \in Seq(RequestType)
                 /\ \A i \in DOMAIN <<Resize(size)>> : ~ Asks(<<Resize(size)>>[i])
           /\ <<Subscribe(0)>> \in Seq(RequestType)
           /\ \A i \in DOMAIN <<Subscribe(0)>> : <<Subscribe(0)>>[i].n = 0
<1>1. up \in Seq(RequestType)
  BY DEF Known, Typed
<1>2. <<>> \in Seq(RequestType) /\ up = up \o <<>>
  BY <1>1, ConcatEmptySeq
<1>3. ASSUME NEW size \in Sizes
      PROVE  /\ <<Resize(size)>> \in Seq(RequestType)
             /\ \A i \in DOMAIN <<Resize(size)>> : ~ Asks(<<Resize(size)>>[i])
  <2>1. Resize(size) \in RequestType /\ ~ Asks(Resize(size))
    BY DEF Resize, RequestType, Asks
  <2> QED BY <2>1
<1>4. /\ <<Subscribe(0)>> \in Seq(RequestType)
      /\ \A i \in DOMAIN <<Subscribe(0)>> : <<Subscribe(0)>>[i].n = 0
  <2>1. Subscribe(0) \in RequestType /\ Subscribe(0).n = 0
    BY DEF Subscribe, RequestType
  <2> QED BY <2>1
<1> QED BY <1>2, <1>3, <1>4

\* A status.
LEMMA StatusOpening ==
    ASSUME Known, Typed', OpeningInvariant, HearStatus
    PROVE  OpeningInvariant' /\ Opens
<1>1. /\ link /\ down # <<>> /\ down' = Tail(down) /\ Head(down).type = "status"
      /\ UNCHANGED <<child, host, ring, sub, link, up, parser>>
  BY DEF HearStatus, Hearing
<1>2. PICK late \in BOOLEAN : view' = Identified(view, Head(down), late)
  BY DEF HearStatus
<1>3. /\ Head(down) \in MessageType /\ Head(down).gen = host.gen
      /\ view.wire = host.gen /\ view.gen = host.gen /\ down \in Seq(MessageType)
  BY <1>1, HearingFacts DEF Known, Typed, Of
<1>4. Head(down) \in IdentityType
  BY <1>1, <1>3 DEF MessageType, BeginType, ReadyType, LineType
<1>5. view \in ViewType /\ view.seq \in Nat
  BY DEF Known, Typed, ViewType
<1>6. /\ view'.client = view.client /\ view'.seq = view.seq
      /\ view'.gen = host.gen /\ view'.wire = host.gen
      /\ view'.committed \in {view.committed, <<>>}
  BY <1>2, <1>4, <1>5, <1>3, IdentifiedFacts
<1>7. Keeps(view, view') /\ (Waits(view, view') \/ (Len(parser) = 0 /\ Proven(view')))
  BY <1>2, <1>3, <1>4, <1>5, IdentifiedKeeps
<1>8. Brings(Tail(down), view', parser)
  <2>1. Brings(Tail(down), view, parser)
    BY <1>1, <1>3, <1>5, TailBrings DEF OpeningInvariant
  <2> QED BY <1>6, <1>7, <2>1, KeepsBrings
<1>9. Serving' /\ \A i \in DOMAIN down' : down'[i].type # "hello"
  BY <1>1, <1>6, TailServing DEF OpeningInvariant, Serving
<1>10. OpeningInvariant'
  <2>1. Brings(down', view', parser')
    BY <1>1, <1>8
  <2> QED BY <1>1, <1>3, <1>6, <1>9, <2>1, NothingAsked, ViewOpening
<1>11. Len(parser) = 0 => parser' = <<>>
  BY <1>1, EmptySeq DEF Known, Typed
<1> QED BY <1>7, <1>10, <1>11 DEF Opens

\* What comes over the socket is as it was to a view that shows the same.
LEMMA SameBrings ==
    ASSUME NEW v, NEW w, NEW items, NEW others, NEW msgs, w.seq = v.seq,
           \A cov : Painted(v, items, cov) => Painted(w, others, cov),
           Shows(w, others), Stream(msgs, v, items), Replays(msgs, v, items)
    PROVE  Brings(msgs, w, others)
<1>1. Stream(msgs, w, others)
  BY DEF Stream, Sound
<1>2. Replays(msgs, w, others)
  <2> SUFFICES ASSUME NEW k \in DOMAIN msgs, msgs[k].type = "state", msgs[k].cov.covered
               PROVE  Replaying(msgs, k - 1, msgs[k].cov, w, others)
    BY DEF Replays
  <2>1. Replaying(msgs, k - 1, msgs[k].cov, v, items)
    BY DEF Replays
  <2> QED BY <2>1 DEF Replaying
<1> QED BY <1>1, <1>2 DEF Brings

\* Of a view that is told of another coverage, the rest is the same.
Retells(v, w) ==
    /\ w.hydration = v.hydration /\ w.committed = v.committed /\ Ident(w) = Ident(v)
    /\ w.gate = v.gate /\ w.grid = v.grid /\ w.sync = v.sync /\ w.behind = v.behind
    /\ w.seq = v.seq /\ w.opened = v.opened

\* Such a view shows what it showed, if the coverage is of that.
LEMMA RetoldBrings ==
    ASSUME NEW v, NEW w, NEW items, NEW msgs, Retells(v, w), Brings(msgs, v, items),
           w.cov.covered => Painted(v, items, w.cov)
    PROVE  Brings(msgs, w, items)
<1>1. \A cov : Painted(v, items, cov) => Painted(w, items, cov)
  BY DEF Painted, Retells
<1>2. Shows(w, items)
  BY <1>1 DEF Shows, Copied, Retells, Brings
<1> QED BY <1>1, <1>2, SameBrings DEF Brings, Retells

\* The view hears what brings no output, and may ask for all of it.
LEMMA HeardOpening ==
    ASSUME Known, Typed', OpeningInvariant, UNCHANGED <<child, host, ring, sub, link, parser>>,
           link, down # <<>>, Head(down).type \notin {"hello", "status", "output"}, down' = Tail(down),
           Brings(Tail(down), view', parser), view'.gen = host.gen, view'.wire = host.gen,
           view'.seq = view.seq,
           view'.client = view.client \/ view'.client \in {"live", "collecting", "resyncing"},
           NEW more \in Seq(RequestType), up' = up \o more,
           \A i \in DOMAIN more : Asks(more[i]) => more[i].n = 0
    PROVE  OpeningInvariant'
<1>1. view.wire = host.gen /\ view.gen = host.gen /\ view.wire # 0
  BY HearingFacts DEF Known
<1>2. Serving' /\ (\A i \in DOMAIN down' : down'[i].type # "hello") /\ sub.pc # "idle"
  BY TailServing DEF OpeningInvariant, Serving
<1>3. view'.seq <= Last
  BY <1>1 DEF OpeningInvariant, Cursor
<1>4. Brings(down', view', parser')
  OBVIOUS
<1> QED BY <1>1, <1>2, <1>3, <1>4, ViewOpening

\* A record is of what the terminal shows, or of the future.
LEMMA RecordOpening ==
    ASSUME Known, Typed', OpeningInvariant, HearRecord
    PROVE  OpeningInvariant' /\ Opens
<1> DEFINE msg == Head(down)
           cov == Covers(msg.n, msg.c, msg.n)
           good == view.required => msg.c.rev = view.rev
           v == [view EXCEPT !.cov = cov, !.ident = Ident(view), !.satisfied = good]
<1>1. /\ link /\ down # <<>> /\ down' = Tail(down) /\ msg.type = "record"
      /\ UNCHANGED <<child, host, ring, sub, link, up, parser>>
      /\ view' = IF view.client \in {"live", "resyncing"} /\ msg.n <= view.seq
                 THEN Evaluate(v, Len(parser)) ELSE view
  BY DEF HearRecord, Hearing
<1>2. /\ view \in ViewType /\ down \in Seq(MessageType) /\ msg \in MessageType
      /\ view.wire = host.gen /\ view.gen = host.gen
  BY <1>1, HearingFacts DEF Known, Typed
<1>3. /\ Brings(Tail(down), view, parser)
      /\ msg.n <= view.seq => Painted(view, parser, cov)
  <2>1. Sound(msg, 1, view, parser)
    BY <1>1, <1>2, TailStream DEF OpeningInvariant, Brings
  <2> QED BY <1>1, <1>2, <2>1, TailBrings DEF OpeningInvariant, Sound
<1>4. v \in ViewType /\ Retells(view, v) /\ v.cov = cov /\ v.gen = host.gen /\ v.wire = host.gen
         /\ v.client = view.client
  <2>1. msg.n \in Nat /\ msg.c \in ChunkType
    BY <1>1, <1>2 DEF MessageType, LineType, IdentityType, BeginType, ReadyType
  <2>2. cov \in CoverageType
    BY <2>1 DEF Covers, CoverageType, ChunkType
  <2>3. good \in BOOLEAN /\ Ident(view) \in IdentType
    BY <1>2, IdentTyped DEF ViewType
  <2> HIDE DEF cov, good
  <2>4. v \in ViewType
    <3>1. [view EXCEPT !.cov = cov, !.ident = Ident(view)] \in ViewType
      BY <1>2, <2>2, <2>3 DEF ViewType
    <3>2. ASSUME NEW z \in ViewType PROVE [z EXCEPT !.satisfied = good] \in ViewType
      BY <2>3 DEF ViewType
    <3> QED BY <3>1, <3>2
  <2> QED BY <1>2, <2>4 DEF ViewType, Retells, Ident
<1> HIDE DEF v
<1>5. CASE view' = Evaluate(v, Len(parser)) /\ msg.n <= view.seq
  <2>1. Brings(Tail(down), v, parser)
    BY <1>3, <1>4, <1>5, RetoldBrings
  <2>2. SameStream(v, view') /\ Keeps(v, view') /\ (Waits(v, view') \/ (Len(parser) = 0 /\ Proven(view')))
    BY <1>4, <1>5, EvaluateFacts, EvaluateKeeps
  <2>3. view'.seq = view.seq /\ view'.gen = host.gen /\ view'.wire = host.gen /\ view'.client = view.client
    BY <1>4, <2>2 DEF SameStream, Retells
  <2>4. Brings(Tail(down), view', parser)
    BY <1>4, <2>1, <2>2, <2>3, KeepsBrings DEF Retells
  <2>5. OpeningInvariant'
    BY <1>1, <2>3, <2>4, NothingAsked, HeardOpening
  <2>6. Opens
    BY <1>1, <1>4, <2>2, EmptySeq DEF Opens, Waits, Retells, Known, Typed
  <2> QED BY <2>5, <2>6
<1>6. CASE view' = view
  <2>1. OpeningInvariant'
    BY <1>1, <1>2, <1>3, <1>6, NothingAsked, HeardOpening
  <2> QED BY <1>6, <2>1 DEF Opens, Waits
<1> QED BY <1>1, <1>5, <1>6

\* The coverage that ends a replay is of what the terminal shows.
LEMMA StateOpening ==
    ASSUME Known, Typed', OpeningInvariant, HearState
    PROVE  OpeningInvariant' /\ Opens
<1> DEFINE cov == Head(down).cov
           ident == IF cov.covered THEN Ident(view) ELSE NoIdent
           v == [view EXCEPT !.client = "live", !.cov = cov, !.ident = ident]
<1>1. /\ link /\ down # <<>> /\ down' = Tail(down) /\ Head(down).type = "state"
      /\ UNCHANGED <<child, host, ring, sub, link, up, parser>>
      /\ view' = IF view.client \in {"live", "resyncing"} THEN Evaluate(v, Len(parser)) ELSE view
  BY DEF HearState, Hearing
<1>2. /\ view \in ViewType /\ down \in Seq(MessageType) /\ Head(down) \in MessageType
      /\ view.wire = host.gen /\ view.gen = host.gen
  BY <1>1, HearingFacts DEF Known, Typed
<1>3. Brings(Tail(down), view, parser)
  BY <1>1, <1>2, TailBrings DEF OpeningInvariant
<1>4. cov.covered => Painted(view, parser, cov)
  <2>1. 1 \in DOMAIN down /\ Head(down) = down[1]
    BY <1>1, <1>2, Receiving
  <2>2. cov.covered => Replaying(down, 1 - 1, cov, view, parser)
    BY <1>1, <2>1 DEF OpeningInvariant, Brings, Replays
  <2>3. \A j \in 1..(1 - 1) : FALSE
    OBVIOUS
  <2> QED BY <2>2, <2>3 DEF Replaying
<1>5. v \in ViewType /\ Retells(view, v) /\ v.cov = cov /\ v.gen = host.gen /\ v.wire = host.gen
         /\ v.client = "live"
  <2>1. cov \in CoverageType
    BY <1>1, <1>2 DEF MessageType, LineType, IdentityType, BeginType, ReadyType
  <2>2. ident \in IdentType
    BY <1>2, IdentTyped, ConstantsTyped
  <2> HIDE DEF cov, ident
  <2>3. v \in ViewType
    <3>1. [view EXCEPT !.client = "live"] \in ViewType
      BY <1>2 DEF ViewType
    <3>2. ASSUME NEW z \in ViewType PROVE [z EXCEPT !.cov = cov, !.ident = ident] \in ViewType
      BY <2>1, <2>2 DEF ViewType
    <3> QED BY <3>1, <3>2
  <2> QED BY <1>2, <2>3 DEF ViewType, Retells, Ident
<1> HIDE DEF v
<1>6. CASE view' = Evaluate(v, Len(parser))
  <2>1. Brings(Tail(down), v, parser)
    BY <1>3, <1>4, <1>5, RetoldBrings
  <2>2. SameStream(v, view') /\ Keeps(v, view') /\ (Waits(v, view') \/ (Len(parser) = 0 /\ Proven(view')))
    BY <1>5, <1>6, EvaluateFacts, EvaluateKeeps
  <2>3. view'.seq = view.seq /\ view'.gen = host.gen /\ view'.wire = host.gen /\ view'.client = "live"
    BY <1>5, <2>2 DEF SameStream, Retells
  <2>4. Brings(Tail(down), view', parser)
    BY <1>5, <2>1, <2>2, <2>3, KeepsBrings DEF Retells
  <2>5. OpeningInvariant'
    BY <1>1, <2>3, <2>4, NothingAsked, HeardOpening
  <2>6. Opens
    BY <1>1, <1>5, <2>2, EmptySeq DEF Opens, Waits, Retells, Known, Typed
  <2> QED BY <2>5, <2>6
<1>7. CASE view' = view
  <2>1. OpeningInvariant'
    BY <1>1, <1>2, <1>3, <1>7, NothingAsked, HeardOpening
  <2> QED BY <1>7, <2>1 DEF Opens, Waits
<1> QED BY <1>1, <1>6, <1>7

\* A view that asks again keeps what it shows.
LEMMA AskingKeeps ==
    ASSUME NEW v \in ViewType, NEW gen \in Nat, gen = v.gen
    PROVE  LET w == [[v EXCEPT !.gen = gen] EXCEPT !.client = "resyncing"]
           IN  /\ w \in ViewType /\ Keeps(v, w) /\ Waits(v, w) /\ w.seq = v.seq /\ w.gen = v.gen
               /\ w.wire = v.wire /\ w.client = "resyncing"
<1> DEFINE w == [[v EXCEPT !.gen = gen] EXCEPT !.client = "resyncing"]
<1>1. w \in ViewType
  BY ZenonT(40) DEF ViewType
<1>2. /\ w.hydration = v.hydration /\ w.committed = v.committed /\ Ident(w) = Ident(v)
      /\ w.gate = v.gate /\ w.grid = v.grid /\ w.sync = v.sync /\ w.behind = v.behind
      /\ w.cov = v.cov /\ w.opened = v.opened
      /\ w.seq = v.seq /\ w.gen = v.gen /\ w.wire = v.wire /\ w.client = "resyncing"
  BY DEF ViewType, Ident
<1>3. w = [[v EXCEPT !.gen = gen] EXCEPT !.client = "resyncing"]
  OBVIOUS
<1> HIDE DEF w
<1>4. Keeps(v, w) /\ Waits(v, w)
  BY <1>2 DEF Keeps, Waits
<1> QED BY <1>1, <1>2, <1>3, <1>4

\* A snapshot's begin or end that the view did not expect.
LEMMA RejectOpening ==
    ASSUME Known, Typed', OpeningInvariant, RejectBegin \/ RejectEnd
    PROVE  OpeningInvariant' /\ Opens
<1>1. /\ link /\ down # <<>> /\ down' = Tail(down) /\ Head(down).type \in {"begin", "end"}
      /\ UNCHANGED <<child, host, ring, sub, link, parser>> /\ up' = up \o <<Subscribe(0)>>
  BY DEF RejectBegin, RejectEnd, Hearing, AskAgain, Ask
<1>2. /\ view \in ViewType /\ down \in Seq(MessageType) /\ view.gen \in Nat
      /\ view.wire = host.gen /\ view.gen = host.gen
      /\ Head(down).type = "begin" => Head(down).gen = view.gen
  BY <1>1, HearingFacts DEF Known, Typed, ViewType, Of
<1>3. PICK gen \in Nat : /\ gen = view.gen
                         /\ view' = [[view EXCEPT !.gen = gen] EXCEPT !.client = "resyncing"]
  <2>1. CASE RejectBegin
    <3>1. Head(down).gen = view.gen
      BY <1>2, <2>1 DEF RejectBegin, Hearing
    <3> QED BY <1>2, <2>1, <3>1 DEF RejectBegin, AskAgain
  <2>2. CASE RejectEnd
    <3>1. [view EXCEPT !.gen = view.gen] = view
      BY <1>2 DEF ViewType
    <3>2. view' = [view EXCEPT !.client = "resyncing"]
      BY <2>2 DEF RejectEnd, AskAgain
    <3> QED BY <1>2, <3>1, <3>2
  <2> QED BY <2>1, <2>2
<1>4. /\ Keeps(view, view') /\ Waits(view, view') /\ view'.seq = view.seq /\ view'.gen = host.gen
      /\ view'.wire = host.gen /\ view'.client = "resyncing"
  BY <1>2, <1>3, AskingKeeps
<1>5. Brings(Tail(down), view', parser)
  <2>1. Brings(Tail(down), view, parser)
    BY <1>1, <1>2, TailBrings DEF OpeningInvariant
  <2> QED BY <1>4, <2>1, KeepsBrings
<1>6. OpeningInvariant'
  BY <1>1, <1>4, <1>5, NothingAsked, HeardOpening
<1> QED BY <1>4, <1>6 DEF Opens

\* A snapshot begins.
LEMMA BeginOpening ==
    ASSUME Known, Typed', OpeningInvariant, HearBegin
    PROVE  OpeningInvariant' /\ Opens
<1> DEFINE msg == Head(down)
           settle == IF view.protocol \/ ~ view.trusted THEN view.settle ELSE FALSE
           opts == [view EXCEPT !.client = "collecting", !.protocol = TRUE, !.gen = msg.gen,
                                !.settle = settle]
           gone == [Forget(opts) EXCEPT !.gate = TRUE]
           fresh == IF msg.empty THEN Invalidate(gone)
                    ELSE IF OfAnother(msg.gen, view.committed) \/ OfAnother(msg.gen, view.recovery)
                    THEN Invalidate(Forget(opts)) ELSE opts
           Good(w) == /\ w \in ViewType /\ Keeps(view, w) /\ Waits(view, w) /\ w.gen = host.gen
                      /\ w.wire = host.gen /\ w.seq = view.seq /\ w.client = "collecting"
<1>1. /\ link /\ down # <<>> /\ down' = Tail(down) /\ msg.type = "begin"
      /\ UNCHANGED <<child, host, ring, sub, link, parser>>
  BY DEF HearBegin, Hearing
<1>2. /\ msg.gen = host.gen /\ view.wire = host.gen /\ view.gen = host.gen /\ host.gen \in Nat
      /\ view \in ViewType /\ down \in Seq(MessageType) /\ up \in Seq(RequestType)
  BY <1>1, HearingFacts DEF Of, Known, Typed, HostType
<1>3. Good(opts)
  <2>1. settle \in BOOLEAN
    BY <1>2 DEF ViewType
  <2> HIDE DEF settle, msg
  <2>2. opts \in ViewType
    <3>1. [view EXCEPT !.client = "collecting", !.protocol = TRUE] \in ViewType
      BY <1>2 DEF ViewType
    <3>2. ASSUME NEW v \in ViewType PROVE [v EXCEPT !.gen = msg.gen, !.settle = settle] \in ViewType
      BY <1>2, <2>1 DEF ViewType
    <3> QED BY <3>1, <3>2
  <2>3. /\ opts.hydration = view.hydration /\ opts.committed = view.committed
        /\ Ident(opts) = Ident(view) /\ opts.gate = view.gate /\ opts.grid = view.grid
        /\ opts.sync = view.sync /\ opts.behind = view.behind /\ opts.cov = view.cov
        /\ opts.opened = view.opened /\ opts.gen = host.gen /\ opts.wire = host.gen
        /\ opts.seq = view.seq /\ opts.client = "collecting"
    BY <1>2 DEF ViewType, Ident
  <2> HIDE DEF opts
  <2> QED BY <2>2, <2>3 DEF Keeps, Waits
<1>4. ASSUME NEW v, Good(v), NEW w \in ViewType, Keeps(v, w), Waits(v, w), SameStream(v, w) PROVE Good(w)
  BY <1>4, KeepsBoth DEF SameStream
<1>5. ASSUME NEW v, Good(v) PROVE Good(Invalidate(v)) /\ Good(Forget(v)) /\ Good(NoteGeometryIntent(v))
  <2>1. v \in ViewType
    BY <1>5
  <2> HIDE DEF Good
  <2> QED BY <1>4, <1>5, <2>1, DropsKeep, NoteGeometryKeeps, InvalidateFacts, ForgetFacts, NoteGeometryFacts
<1>6. Good(gone)
  <2>1. Good(Forget(opts)) /\ Forget(opts).committed = <<>>
    <3>1. opts \in ViewType
      BY <1>3
    <3> HIDE DEF Good, opts
    <3> QED BY <1>3, <1>5, <3>1, DropsKeep
  <2> DEFINE f == Forget(opts)
             g == [f EXCEPT !.gate = TRUE]
  <2>2. Good(f) /\ f.committed = <<>>
    BY <2>1
  <2> HIDE DEF f
  <2>3. g \in ViewType /\ Keeps(f, g) /\ Waits(f, g) /\ SameStream(f, g)
    BY <2>2 DEF ViewType, Keeps, Waits, SameStream
  <2>4. Good(g)
    BY <1>4, <2>2, <2>3
  <2> QED BY <2>4 DEF f
<1>7. Good(fresh)
  <2> HIDE DEF opts, gone, Good
  <2> QED BY <1>3, <1>5, <1>6
<1>8. /\ view' \in {fresh, NoteGeometryIntent(fresh)}
      /\ up' = up \/ up' = up \o <<Resize(view.size)>>
  BY DEF HearBegin, Ask
<1>9. Good(view')
  <2> HIDE DEF fresh, Good
  <2> QED BY <1>5, <1>7, <1>8
<1>10. PICK more \in Seq(RequestType) : up' = up \o more /\ \A i \in DOMAIN more : ~ Asks(more[i])
  <2>1. view.size \in Sizes
    BY <1>2 DEF ViewType
  <2> QED BY <1>8, <2>1, NothingAsked
<1>11. Brings(Tail(down), view', parser)
  <2>1. Brings(Tail(down), view, parser)
    BY <1>1, <1>2, TailBrings DEF OpeningInvariant
  <2> QED BY <1>9, <2>1, KeepsBrings
<1>12. OpeningInvariant'
  BY <1>1, <1>9, <1>10, <1>11, HeardOpening
<1> QED BY <1>9, <1>12 DEF Opens

\* The view is greeted: nothing is shown, and what comes is not yet of a stream.
LEMMA HelloOpening ==
    ASSUME Known, Typed', OpeningInvariant, HearHello
    PROVE  OpeningInvariant' /\ Opens
<1> DEFINE msg == Head(down)
<1>1. /\ link /\ down # <<>> /\ down' = Tail(down) /\ msg.type = "hello"
      /\ UNCHANGED <<child, host, ring, sub, link, parser>>
  BY DEF HearHello, Hearing
<1>2. /\ view \in ViewType /\ view.seq \in Nat /\ down \in Seq(MessageType) /\ up \in Seq(RequestType)
      /\ msg \in MessageType /\ msg.gen = host.gen /\ host.gen # 0
  BY <1>1, HearingFacts DEF Known, Typed, ViewType, Of
<1>3. msg \in IdentityType
  BY <1>1, <1>2 DEF MessageType, BeginType, ReadyType, LineType
<1>4. /\ 1 \in DOMAIN down /\ msg = down[1]
      /\ \A i \in DOMAIN Tail(down) : i + 1 \in DOMAIN down /\ Tail(down)[i] = down[i + 1] /\ i + 1 # 1
  <2>1. /\ 1 \in DOMAIN down /\ msg = down[1]
        /\ \A i \in DOMAIN Tail(down) : i + 1 \in DOMAIN down /\ Tail(down)[i] = down[i + 1]
    BY <1>1, <1>2, Receiving
  <2>2. \A i \in DOMAIN Tail(down) : i \in Nat \ {0}
    <3>1. Tail(down) \in Seq(MessageType)
      BY <1>1, <1>2, Receiving
    <3>2. PICK k \in Nat : DOMAIN Tail(down) = 1..k
      BY <3>1, LenProperties
    <3> QED BY <3>2
  <2>3. \A i \in DOMAIN Tail(down) : i + 1 # 1
    BY <2>2
  <2> QED BY <2>1, <2>3
<1>5. /\ view.wire = 0 /\ view.committed = <<>> /\ parser = <<>>
      /\ view.client \in {"probing", "reconciling"}
  <2>1. view.wire = 0
    BY <1>1, <1>4 DEF OpeningInvariant, Cursor
  <2> QED BY <1>1, <2>1 DEF OpeningInvariant, Cursor, Known, ShownInvariant, Knows
<1>6. /\ \A i \in DOMAIN Tail(down) : Tail(down)[i].type # "hello"
      /\ sub.pc = "idle" => \A i \in DOMAIN Tail(down) : Tail(down)[i].type = "status"
      /\ Brings(Tail(down), view, parser) /\ Within(Tail(down), Last)
      /\ sub.pc = "rendering" => view.seq <= sub.dto /\ Within(Tail(down), sub.dto)
  <2>1. \A i \in DOMAIN Tail(down) : Tail(down)[i].type # "hello"
    BY <1>4 DEF OpeningInvariant, Cursor
  <2>2. sub.pc = "idle" => \A i \in DOMAIN Tail(down) : Tail(down)[i].type = "status"
    BY <1>4, <2>1 DEF OpeningInvariant, Serving
  <2>3. Brings(Tail(down), view, parser)
    BY <1>1, <1>2, TailBrings DEF OpeningInvariant
  <2> QED BY <1>4, <2>1, <2>2, <2>3 DEF OpeningInvariant, Serving, Within
<1>7. PICK late \in BOOLEAN :
        LET v == Identified(view, msg, late)
            next == IF msg.gen # view.gen THEN EpochReset(v) ELSE v
        IN  IF view.client # "reconciling" THEN view' = v /\ UNCHANGED up
            ELSE /\ view' = [next EXCEPT !.client = "resyncing"]
                 /\ Ask(<<Subscribe(next.seq)>>)
  BY DEF HearHello
<1> DEFINE v == Identified(view, msg, late)
           reset == EpochReset(v)
           next == IF msg.gen # view.gen THEN reset ELSE v
<1>8. /\ v \in ViewType /\ v.client = view.client /\ v.seq = view.seq /\ v.gen = host.gen
      /\ v.wire = host.gen /\ v.committed = <<>>
  BY <1>2, <1>3, <1>5, IdentifiedFacts
<1>9. Keeps(view, v) /\ Waits(view, v)
  <2>1. Keeps(view, v) /\ (Waits(view, v) \/ (Len(parser) = 0 /\ Proven(v)))
    BY <1>2, <1>3, <1>5, IdentifiedKeeps
  <2> HIDE DEF v
  <2> QED BY <1>8, <2>1 DEF Proven
<1>10. /\ \/ view.client # "reconciling" /\ view' = v /\ UNCHANGED up
          \/ /\ view.client = "reconciling" /\ view' = [next EXCEPT !.client = "resyncing"]
             /\ up' = up \o <<Subscribe(next.seq)>>
  BY <1>7 DEF v, reset, next, Ask
<1> HIDE DEF v
<1>11. Last' = Last /\ Proofs'
  BY <1>1 DEF Last, OpeningInvariant, Proofs
<1>12. CASE view.client # "reconciling" /\ view' = v /\ UNCHANGED up
  <2>1. Brings(down', view', parser')
    BY <1>1, <1>6, <1>8, <1>9, <1>12, KeepsBrings
  <2>2. Serving'
    BY <1>1, <1>6, <1>8, <1>11, <1>12 DEF Serving
  <2>3. Cursor'
    <3>1. view.seq = 0 /\ view.client = "probing" /\ 0 <= Last
      BY <1>5, <1>12, LenProperties DEF OpeningInvariant, Cursor, Last, Known, Typed
    <3> QED BY <1>1, <1>2, <1>6, <1>8, <1>11, <1>12, <3>1 DEF Cursor
  <2>4. Resumes'
    <3>1. \A i \in DOMAIN up : ~ (Asks(up[i]) /\ up[i].n # 0)
      BY <1>5 DEF OpeningInvariant, Resumes
    <3> QED BY <1>12, <3>1 DEF Resumes
  <2>5. Opens
    BY <1>9, <1>12 DEF Opens
  <2> QED BY <1>11, <2>1, <2>2, <2>3, <2>4, <2>5 DEF OpeningInvariant
<1>13. CASE /\ view.client = "reconciling" /\ view' = [next EXCEPT !.client = "resyncing"]
            /\ up' = up \o <<Subscribe(next.seq)>>
  <2>1. /\ reset \in ViewType /\ reset.seq = 0 /\ reset.gen = host.gen /\ reset.wire = host.gen
        /\ reset.committed = <<>> /\ reset.opened = v.opened
    <3>1. /\ reset \in ViewType /\ reset.seq = 0 /\ reset.gen = host.gen /\ reset.wire = host.gen
      BY <1>8, EpochResetFacts
    <3> DEFINE z == [v EXCEPT !.seq = 0]
    <3>2. z \in ViewType /\ z.opened = v.opened
      BY <1>8 DEF ViewType
    <3>3. reset = Invalidate(Forget(z))
      BY DEF EpochReset
    <3> HIDE DEF z, reset
    <3>4. Forget(z) \in ViewType /\ Forget(z).committed = <<>> /\ Forget(z).opened = z.opened
      BY <3>2, ForgetFacts DEF Forget, ViewType
    <3>5. Invalidate(Forget(z)).committed = <<>> /\ Invalidate(Forget(z)).opened = z.opened
      BY <3>4 DEF Invalidate, ViewType
    <3> QED BY <3>1, <3>2, <3>3, <3>5
  <2> HIDE DEF reset
  <2>2. /\ next \in ViewType /\ next.gen = host.gen /\ next.wire = host.gen
        /\ next.committed = <<>> /\ next.opened = v.opened
        /\ next.seq \in Nat /\ next.seq <= Last
    <3>1. CASE msg.gen # view.gen
      BY <2>1, <3>1, LenProperties DEF Last, Known, Typed
    <3>2. CASE msg.gen = view.gen
      BY <1>2, <1>8, <3>2 DEF OpeningInvariant, Cursor
    <3> QED BY <3>1, <3>2
  <2> HIDE DEF next
  <2>3. /\ view'.gen = host.gen /\ view'.wire = host.gen /\ view'.committed = <<>>
        /\ view'.opened = v.opened /\ view'.seq = next.seq /\ view'.client = "resyncing"
    BY <1>13, <2>2 DEF ViewType
  <2>4. sub.pc = "idle" /\ \A i \in DOMAIN up : ~ Asks(up[i])
    BY <1>1, <1>13 DEF OpeningInvariant, Cursor
  <2>5. \A i \in DOMAIN down' : down'[i].type = "status"
    BY <1>1, <1>6, <2>4
  <2>6. Brings(down', view', parser')
    <3>1. Stream(down', view', parser') /\ Replays(down', view', parser')
      BY <2>5 DEF Stream, Ordered, Carries, Sound, Replays
    <3>2. DOMAIN parser' = {}
      BY <1>1, <1>5
    <3>3. Shows(view', parser')
      BY <2>3, <3>2 DEF Shows, Copied, Painted
    <3> QED BY <3>1, <3>3 DEF Brings
  <2>7. Serving'
    BY <1>1, <1>6, <1>11, <2>4, <2>5 DEF Serving
  <2>8. PICK m \in Nat : /\ DOMAIN up = 1..m /\ DOMAIN up' = 1..(m + 1)
                         /\ \A i \in 1..m : up'[i] = up[i]
                         /\ up'[m + 1] = Subscribe(next.seq)
    <3> DEFINE more == <<Subscribe(next.seq)>>
    <3>1. Subscribe(next.seq) \in RequestType
      BY <2>2 DEF Subscribe, RequestType
    <3>2. more \in Seq(RequestType) /\ Len(more) = 1 /\ more[1] = Subscribe(next.seq)
      BY <3>1
    <3>3. up' = up \o more
      BY <1>13
    <3> HIDE DEF more
    <3>4. /\ Len(up) \in Nat /\ DOMAIN up = 1..Len(up)
          /\ DOMAIN (up \o more) = 1..(Len(up) + Len(more))
          /\ \A i \in 1..Len(up) : (up \o more)[i] = up[i]
          /\ \A i \in 1..Len(more) : (up \o more)[Len(up) + i] = more[i]
      <4>1. up \in Seq(RequestType) /\ more \in Seq(RequestType)
        BY <1>2, <3>2
      <4> QED BY <4>1, Joined
    <3>5. 1 \in 1..Len(more)
      BY <3>2
    <3>6. (up \o more)[Len(up) + 1] = Subscribe(next.seq)
      BY <3>2, <3>4, <3>5
    <3> QED BY <3>2, <3>3, <3>4, <3>6
  <2>9. \A i \in 1..(m + 1) : Asks(up'[i]) => i = m + 1
    <3> SUFFICES ASSUME NEW i \in 1..(m + 1), i # m + 1 PROVE ~ Asks(up'[i])
      OBVIOUS
    <3>1. i \in 1..m
      OBVIOUS
    <3> QED BY <2>4, <2>8, <3>1
  <2>10. Cursor'
    BY <1>1, <1>2, <1>11, <2>2, <2>3, <2>5 DEF Cursor
  <2>11. Resumes'
    <3>1. Subscribe(next.seq).n = view'.seq
      BY <2>3 DEF Subscribe
    <3>2. ASSUME NEW i \in 1..(m + 1), Asks(up'[i])
          PROVE  /\ up'[i].n = view'.seq
                 /\ \A j \in 1..(m + 1) : Asks(up'[j]) => i = j
      BY <2>8, <2>9, <3>1, <3>2
    <3> QED BY <1>1, <1>2, <1>5, <2>3, <2>4, <2>8, <3>2 DEF Resumes
  <2>12. Opens
    BY <1>9, <2>3 DEF Opens, Waits
  <2> QED BY <1>11, <2>6, <2>7, <2>10, <2>11, <2>12 DEF OpeningInvariant
<1> QED BY <1>10, <1>12, <1>13

\* Messages up to a chunk, with others that are.
LEMMA WithinBoth ==
    ASSUME NEW s \in Seq(MessageType), NEW t \in Seq(MessageType), NEW n
    PROVE  /\ Within(s, n) /\ Within(t, n) => Within(s \o t, n)
           /\ \A m \in Nat : m <= n /\ n \in Nat /\ Within(s, m) => Within(s, n)
<1>1. ASSUME Within(s, n), Within(t, n) PROVE Within(s \o t, n)
  <2>1. \A i \in DOMAIN (s \o t) :
           (\E j \in DOMAIN s : (s \o t)[i] = s[j]) \/ \E j \in DOMAIN t : (s \o t)[i] = t[j]
    BY Sending
  <2> QED BY <1>1, <2>1 DEF Within
<1>2. ASSUME NEW m \in Nat, m <= n, n \in Nat, Within(s, m) PROVE Within(s, n)
  <2>1. \A i \in DOMAIN s : s[i] \in MessageType
    BY LenProperties, ElementOfSeq
  <2> SUFFICES ASSUME NEW i \in DOMAIN s, Carries(s[i]) PROVE Reaches(s[i]) <= n
    BY DEF Within
  <2>2. Reaches(s[i]) \in Nat /\ Reaches(s[i]) <= m
    BY <1>2, <2>1, NumbersTyped DEF Within
  <2> QED BY <1>2, <2>2
<1> QED BY <1>1, <1>2

\* The lines of a snapshot that is not taken for one come as output.
LEMMA FlushBrings ==
    ASSUME NEW m \in ReadyType, NEW v, NEW items, Shows(v, items), ReadyOk(m), Follows(m, v.seq),
           v.seq \in Nat
    PROVE  LET most == m.flush \o <<[type |-> "end"]>>
           IN  /\ most \in Seq(MessageType) /\ Brings(most, v, items) /\ Within(most, m.upto)
               /\ \A i \in DOMAIN most : most[i].type # "hello"
<1> DEFINE flush == m.flush
           end == [type |-> "end"]
           more == <<end>>
<1>1. /\ m.type = "ready" /\ m.upto \in Nat /\ flush \in Seq(LineType)
  BY DEF ReadyType
<1>2. \A i \in DOMAIN flush : flush[i] \in LineType /\ flush[i].type = "output" /\ flush[i].n \in Nat
  <2>1. \A i \in DOMAIN flush : flush[i] \in LineType
    BY <1>1, LenProperties, ElementOfSeq
  <2> QED BY <2>1 DEF LineType
<1>3. /\ \A i \in DOMAIN flush : LineOk(flush[i]) /\ flush[i].n <= m.upto /\ v.seq < flush[i].n
      /\ \A i, j \in DOMAIN flush : i < j => flush[i].n < flush[j].n
  BY <1>1 DEF ReadyOk, Follows
<1>4. end \in MessageType /\ Mute(end) /\ end.type = "end"
  BY DEF MessageType, Mute, Carries
<1> HIDE DEF flush, end
<1>5. flush \in Seq(MessageType)
  BY <1>1, <1>2, LenProperties, SeqDef DEF MessageType
<1>6. Stream(flush, v, items)
  <2>1. Ordered(flush)
    BY <1>2, <1>3 DEF Ordered, Follows, Reaches
  <2>2. \A i \in DOMAIN flush : Sound(flush[i], i, v, items)
    BY <1>2, <1>3 DEF Sound, Follows
  <2> QED BY <2>1, <2>2 DEF Stream
<1>7. Brings(flush, v, items) /\ Within(flush, m.upto)
  BY <1>2, <1>3, <1>6 DEF Brings, Replays, Within, Reaches
<1>8. more \in Seq(MessageType) /\ \A i \in DOMAIN more : more[i] = end
  BY <1>4
<1> HIDE DEF more
<1>9. Brings(flush \o more, v, items) /\ Within(flush \o more, m.upto) /\ flush \o more \in Seq(MessageType)
  BY <1>1, <1>4, <1>5, <1>7, <1>8, MuteBrings, Sending
<1>10. \A i \in DOMAIN (flush \o more) : (flush \o more)[i].type # "hello"
  <2>1. \A i \in DOMAIN (flush \o more) :
           \/ \E j \in DOMAIN flush : (flush \o more)[i] = flush[j]
           \/ \E j \in DOMAIN more : (flush \o more)[i] = more[j]
    BY <1>5, <1>8, Sending
  <2> QED BY <1>2, <1>4, <1>8, <2>1
<1> QED BY <1>9, <1>10 DEF more, end, flush

\* A frame that the view did not expect is taken for the output that it contains.
LEMMA FrameOpening ==
    ASSUME Known, Typed', OpeningInvariant, RejectFrame
    PROVE  OpeningInvariant' /\ Opens
<1> DEFINE msg == Head(down)
           rest == Tail(down)
           most == msg.flush \o <<[type |-> "end"]>>
<1>1. /\ link /\ down # <<>> /\ msg.type = "ready" /\ down' = most \o rest
      /\ UNCHANGED <<child, host, ring, sub, link, parser>>
      /\ view' = [view EXCEPT !.client = "resyncing"] /\ up' = up \o <<Subscribe(0)>>
  BY DEF RejectFrame, AskAgain, Ask
<1>2. /\ view \in ViewType /\ view.seq \in Nat /\ view.gen \in Nat /\ down \in Seq(MessageType)
      /\ msg \in MessageType /\ rest \in Seq(MessageType)
      /\ view.wire = host.gen /\ view.gen = host.gen /\ view.wire # 0
  BY <1>1, HearingFacts DEF Known, Typed, ViewType
<1>3. /\ 1 \in DOMAIN down /\ msg = down[1]
      /\ \A i \in DOMAIN rest : i + 1 \in DOMAIN down /\ rest[i] = down[i + 1]
  BY <1>1, <1>2, Receiving
<1>4. msg \in ReadyType /\ msg.upto \in Nat
  BY <1>1, <1>2 DEF MessageType, IdentityType, BeginType, LineType, ReadyType
<1>5. /\ Stream(rest, view, parser) /\ Sound(msg, 1, view, parser)
      /\ \A i \in DOMAIN rest : rest[i].type # "record" /\ (Carries(rest[i]) => Follows(rest[i], msg.upto))
  <2>1. Stream(down, view, parser)
    BY DEF OpeningInvariant, Brings
  <2>2. /\ Stream(rest, view, parser) /\ Sound(msg, 1, view, parser)
        /\ \A i \in DOMAIN rest :
              /\ rest[i].type # "record"
              /\ Carries(msg) /\ Carries(rest[i]) => Follows(rest[i], Reaches(msg))
    BY <1>1, <1>2, <2>1, TailStream
  <2>3. Carries(msg) /\ Reaches(msg) = msg.upto
    BY <1>1 DEF Carries, Reaches
  <2> QED BY <2>2, <2>3
<1>6. \A k \in DOMAIN rest : ~ (rest[k].type = "state" /\ rest[k].cov.covered)
  BY <1>1, <1>2, TailReplays DEF OpeningInvariant, Brings
<1>7. \A i \in DOMAIN rest : rest[i].type # "hello"
  BY <1>2, <1>3 DEF OpeningInvariant, Cursor
<1>8. /\ most \in Seq(MessageType) /\ Brings(most, view, parser) /\ Within(most, msg.upto)
      /\ \A i \in DOMAIN most : most[i].type # "hello"
  <2>1. ReadyOk(msg) /\ Follows(msg, view.seq) /\ Shows(view, parser)
    BY <1>1, <1>5 DEF Sound, OpeningInvariant, Brings
  <2> QED BY <1>2, <1>4, <2>1, FlushBrings
<1> HIDE DEF most
<1>9. Stream(most \o rest, view, parser)
  <2>1. Ordered(rest) /\ \A i \in DOMAIN rest : Sound(rest[i], i, view, parser)
    BY <1>5 DEF Stream
  <2> HIDE DEF rest
  <2> QED BY <1>2, <1>4, <1>5, <1>8, <2>1, SaidStream DEF Brings
<1>10. Replays(most \o rest, view, parser)
  <2> HIDE DEF rest
  <2> QED BY <1>2, <1>6, <1>8, SaidReplays DEF Brings
<1>11. ASSUME NEW n \in Nat, Within(down, n) PROVE Within(most \o rest, n)
  <2>1. Carries(msg) /\ Reaches(msg) = msg.upto
    BY <1>1 DEF Carries, Reaches
  <2>2. Within(rest, n) /\ msg.upto <= n
    BY <1>3, <1>11, <2>1 DEF Within
  <2> HIDE DEF rest
  <2> QED BY <1>2, <1>4, <1>8, <1>11, <2>2, WithinBoth
<1>12. \A i \in DOMAIN (most \o rest) : (most \o rest)[i].type # "hello"
  <2>1. \A i \in DOMAIN (most \o rest) :
           \/ \E j \in DOMAIN most : (most \o rest)[i] = most[j]
           \/ \E j \in DOMAIN rest : (most \o rest)[i] = rest[j]
    <3>1. most \in Seq(MessageType) /\ rest \in Seq(MessageType)
      BY <1>2, <1>8
    <3> HIDE DEF rest
    <3> QED BY <3>1, Sending
  <2> QED BY <1>7, <1>8, <2>1
<1>13. /\ Keeps(view, view') /\ Waits(view, view') /\ view'.seq = view.seq /\ view'.gen = view.gen
       /\ view'.wire = view.wire /\ view'.client = "resyncing"
  <2>1. [view EXCEPT !.gen = view.gen] = view
    BY <1>2 DEF ViewType
  <2>2. LET w == [[view EXCEPT !.gen = view.gen] EXCEPT !.client = "resyncing"]
        IN  /\ Keeps(view, w) /\ Waits(view, w) /\ w.seq = view.seq /\ w.gen = view.gen
            /\ w.wire = view.wire /\ w.client = "resyncing"
    BY <1>2, AskingKeeps
  <2>3. view' = [[view EXCEPT !.gen = view.gen] EXCEPT !.client = "resyncing"]
    BY <1>1, <2>1
  <2> QED BY <2>2, <2>3
<1>14. Brings(down', view', parser')
  <2>1. Brings(most \o rest, view, parser)
    BY <1>8, <1>9, <1>10 DEF Brings
  <2>2. Brings(most \o rest, view', parser)
    BY <1>13, <2>1, KeepsBrings
  <2> QED BY <1>1, <2>2
<1>15. sub.pc # "idle"
  BY <1>1, <1>3 DEF OpeningInvariant, Serving
<1>16. Serving' /\ Last' = Last /\ view'.seq <= Last
  <2>1. Last' = Last /\ Last \in Nat /\ sub.dto \in Nat
    BY <1>1, LenProperties DEF Last, Known, Typed, SubType
  <2>2. Within(down', Last) /\ (sub.pc = "rendering" => Within(down', sub.dto))
    BY <1>1, <1>11, <2>1 DEF OpeningInvariant, Serving
  <2>3. view'.seq <= Last
    BY <1>2, <1>13 DEF OpeningInvariant, Cursor
  <2> QED BY <1>1, <1>13, <1>15, <2>1, <2>2, <2>3 DEF OpeningInvariant, Serving
<1>17. OpeningInvariant'
  <2>1. \A i \in DOMAIN down' : down'[i].type # "hello"
    BY <1>1, <1>12
  <2> QED BY <1>1, <1>2, <1>13, <1>14, <1>15, <1>16, <2>1, NothingAsked, ViewOpening
<1> QED BY <1>13, <1>17 DEF Opens

\* A record that is put before what comes.
LEMMA RecordFirst ==
    ASSUME NEW msgs \in Seq(MessageType), NEW rec \in MessageType, rec.type = "record",
           NEW v \in ViewType, NEW items, Sound(rec, 1, v, items), Brings(msgs, v, items),
           \A i \in DOMAIN msgs :
              msgs[i].type # "record" /\ (Carries(msgs[i]) => Follows(msgs[i], rec.n))
    PROVE  Brings(<<rec>> \o msgs, v, items)
<1> DEFINE first == <<rec>>
           all == first \o msgs
<1>1. /\ first \in Seq(MessageType) /\ Len(first) = 1 /\ DOMAIN first = {1} /\ first[1] = rec
      /\ rec.n \in Nat /\ v.seq \in Nat
  BY NumbersTyped DEF Carries, ViewType
<1> HIDE DEF first
<1>2. Stream(all, v, items)
  <2>1. Stream(first, v, items) /\ Within(first, rec.n)
    BY <1>1 DEF Stream, Ordered, Within, Reaches
  <2>2. Stream(msgs, v, items) /\ Ordered(msgs) /\ \A i \in DOMAIN msgs : Sound(msgs[i], i, v, items)
    BY DEF Brings, Stream
  <2> QED BY <1>1, <2>1, <2>2, SaidStream
<1>3. PICK n \in Nat : /\ DOMAIN msgs = 1..n /\ DOMAIN all = 1..(1 + n)
                       /\ all[1] = rec /\ \A i \in 1..n : all[1 + i] = msgs[i]
  <2>1. /\ Len(msgs) \in Nat /\ DOMAIN msgs = 1..Len(msgs)
        /\ DOMAIN (first \o msgs) = 1..(Len(first) + Len(msgs))
        /\ \A i \in 1..Len(first) : (first \o msgs)[i] = first[i]
        /\ \A i \in 1..Len(msgs) : (first \o msgs)[Len(first) + i] = msgs[i]
    BY <1>1, Joined
  <2>2. 1 \in 1..Len(first)
    BY <1>1
  <2> QED BY <1>1, <2>1, <2>2
<1> HIDE DEF all
<1>4. \A i \in 1..(1 + n) : i = 1 \/ (i - 1 \in 1..n /\ 1 + (i - 1) = i /\ all[i] = msgs[i - 1])
  <2> SUFFICES ASSUME NEW i \in 1..(1 + n), i # 1
               PROVE  i - 1 \in 1..n /\ 1 + (i - 1) = i /\ all[i] = msgs[i - 1]
    OBVIOUS
  <2>1. i - 1 \in 1..n /\ 1 + (i - 1) = i
    OBVIOUS
  <2> QED BY <1>3, <2>1
<1>5. ASSUME NEW k \in 1..n, msgs[k].type = "state", msgs[k].cov.covered
      PROVE  Replaying(all, k, msgs[k].cov, v, items)
  <2> DEFINE cov == msgs[k].cov
  <2>1. Replaying(msgs, k - 1, cov, v, items)
    BY <1>3, <1>5 DEF Brings, Replays
  <2>2. cov.thru \in Nat
    <3>1. msgs[k] \in MessageType
      BY <1>3, LenProperties, ElementOfSeq
    <3> QED BY <1>5, <3>1 DEF MessageType, IdentityType, BeginType, ReadyType, LineType, CoverageType
  <2> HIDE DEF cov
  <2>3. /\ cov.thru <= v.seq + (k - 1)
        /\ \A i \in 1..(k - 1) :
              /\ msgs[i].type \in {"output", "record", "status"}
              /\ msgs[i].type = "output" <=> v.seq + (k - 1 - i) < cov.thru
              /\ msgs[i].type = "output" => msgs[i].n + (k - 1 - i) = cov.thru
              /\ Paints(msgs[i]) /\ (\A j \in (i + 1)..(k - 1) : ~ Paints(msgs[j])) => Fits(msgs[i].c, cov)
        /\ (\A j \in 1..(k - 1) : ~ Paints(msgs[j])) => Painted(v, items, cov)
    BY <2>1 DEF Replaying
  <2>4. ASSUME NEW i \in 1..k
        PROVE  /\ all[i].type \in {"output", "record", "status"}
               /\ all[i].type = "output" <=> v.seq + (k - i) < cov.thru
               /\ all[i].type = "output" => all[i].n + (k - i) = cov.thru
               /\ Paints(all[i]) /\ (\A j \in (i + 1)..k : ~ Paints(all[j])) => Fits(all[i].c, cov)
    <3>1. CASE i = 1
      <4>1. ~ (v.seq + (k - 1) < cov.thru)
        BY <1>1, <2>2, <2>3
      <4> QED BY <1>3, <3>1, <4>1 DEF Paints
    <3>2. CASE i # 1
      <4>1. i - 1 \in 1..(k - 1) /\ k - 1 - (i - 1) = k - i /\ all[i] = msgs[i - 1]
        <5>1. i \in 1..(1 + n)
          OBVIOUS
        <5> QED BY SMTT(30), <1>4, <3>2, <5>1
      <4>2. ASSUME \A j \in (i + 1)..k : ~ Paints(all[j])
            PROVE  \A j \in (i - 1 + 1)..(k - 1) : ~ Paints(msgs[j])
        <5> SUFFICES ASSUME NEW j \in (i - 1 + 1)..(k - 1) PROVE ~ Paints(msgs[j])
          OBVIOUS
        <5>1. 1 + j \in (i + 1)..k /\ j \in 1..n
          OBVIOUS
        <5> QED BY <1>3, <4>2, <5>1
      <4>3. /\ msgs[i - 1].type \in {"output", "record", "status"}
            /\ msgs[i - 1].type = "output" <=> v.seq + (k - 1 - (i - 1)) < cov.thru
            /\ msgs[i - 1].type = "output" => msgs[i - 1].n + (k - 1 - (i - 1)) = cov.thru
            /\ Paints(msgs[i - 1]) /\ (\A j \in (i - 1 + 1)..(k - 1) : ~ Paints(msgs[j]))
                  => Fits(msgs[i - 1].c, cov)
        BY <2>3, <4>1
      <4> QED BY <4>1, <4>2, <4>3
    <3> QED BY <3>1, <3>2
  <2>5. ASSUME \A j \in 1..k : ~ Paints(all[j]) PROVE Painted(v, items, cov)
    <3>1. ASSUME NEW j \in 1..(k - 1) PROVE ~ Paints(msgs[j])
      <4>1. 1 + j \in 1..k /\ j \in 1..n
        OBVIOUS
      <4> QED BY <1>3, <2>5, <4>1
    <3> QED BY <2>3, <3>1
  <2>6. cov.thru <= v.seq + k
    BY <1>1, <2>2, <2>3
  <2>7. Replaying(all, k, cov, v, items)
    BY <2>4, <2>5, <2>6 DEF Replaying
  <2> QED BY <2>7 DEF cov
<1>6. Replays(all, v, items)
  <2> SUFFICES ASSUME NEW k \in 1..(1 + n), all[k].type = "state", all[k].cov.covered
               PROVE  Replaying(all, k - 1, all[k].cov, v, items)
    BY <1>3 DEF Replays
  <2>1. k # 1
    BY <1>3
  <2>2. k - 1 \in 1..n /\ all[k] = msgs[k - 1]
    BY <1>4, <2>1
  <2> QED BY <1>5, <2>2
<1>7. Brings(all, v, items)
  BY <1>2, <1>6 DEF Brings
<1> QED BY <1>7 DEF all, first

\* A write more is what the terminal will show, if it draws.
LEMMA AppendShows ==
    ASSUME NEW v, NEW w, NEW items \in Seq(ItemType), NEW item \in ItemType, item.what = "output",
           item.picture.c.kind # "none", Keeps(v, w), Shows(v, items),
           Draws(item.picture.c) => ~ w.cov.covered
    PROVE  /\ Shows(w, Append(items, item))
           /\ ~ Draws(item.picture.c) =>
                 \A cov : Painted(v, items, cov) => Painted(w, Append(items, item), cov)
           /\ Draws(item.picture.c) =>
                 \A cov : Fits(item.picture.c, cov) => Painted(w, Append(items, item), cov)
<1> DEFINE all == Append(items, item)
           c == item.picture.c
<1>1. PICK n \in Nat : /\ DOMAIN items = 1..n /\ DOMAIN all = 1..(n + 1)
                       /\ \A i \in 1..n : all[i] = items[i]
                       /\ all[n + 1] = item
  <2>1. PICK n \in Nat : n = Len(items) /\ DOMAIN items = 1..n
    BY LenProperties
  <2>2. /\ all \in Seq(ItemType) /\ Len(all) = n + 1
        /\ \A i \in 1..n : all[i] = items[i]
        /\ all[n + 1] = item
    BY <2>1, AppendProperties
  <2> HIDE DEF all
  <2>3. DOMAIN all = 1..(n + 1)
    BY <2>2, LenProperties
  <2> QED BY <2>1, <2>2, <2>3
<1> HIDE DEF all
<1>2. \A i \in 1..(n + 1) : i \in 1..n \/ i = n + 1
  OBVIOUS
<1>3. Drawing(item) <=> Draws(c)
  BY DEF Drawing
<1>4. n + 1 \in 1..(n + 1) /\ \A i \in 1..n : i < n + 1 /\ i \in 1..(n + 1)
  OBVIOUS
<1> HIDE DEF c
<1>5. ASSUME Draws(c), NEW cov, Fits(c, cov) PROVE Painted(w, all, cov)
  <2>1. \A i \in {0} \cup (1..n) : ~ Settled(all, i)
    BY <1>1, <1>3, <1>4, <1>5 DEF Settled
  <2>2. all[n + 1].picture.c = c
    BY <1>1 DEF c
  <2> QED BY <1>1, <1>2, <1>5, <2>1, <2>2 DEF Painted
<1>6. ASSUME ~ Draws(c), NEW cov, Painted(v, items, cov) PROVE Painted(w, all, cov)
  <2>1. \A i \in {0} \cup (1..n) : Settled(all, i) => Settled(items, i)
    BY <1>1, <1>4 DEF Settled
  <2>2. ~ Drawing(all[n + 1])
    BY <1>1, <1>3, <1>6
  <2>3. Painted(w, items, cov)
    BY <1>6, KeepsPainted
  <2> QED BY <1>1, <1>2, <2>1, <2>2, <2>3 DEF Painted
<1>7. Copied(w, all)
  <2>1. Copied(w, items)
    BY DEF Keeps, Shows, Copied
  <2>2. all[n + 1].what # "frame" /\ all[n + 1].picture.c.kind # "none"
    BY <1>1
  <2> QED BY <1>1, <1>2, <2>1, <2>2 DEF Copied
<1>8. Shows(w, all)
  <2> SUFFICES ASSUME w.cov.covered PROVE Painted(w, all, w.cov)
    BY <1>7 DEF Shows
  <2>1. ~ Draws(c) /\ Painted(v, items, v.cov)
    BY DEF Keeps, Shows, c
  <2>2. Painted(w, all, v.cov)
    BY <1>6, <2>1
  <2> QED BY <2>2, SamePainted DEF Keeps
<1> QED BY <1>5, <1>6, <1>8 DEF all, c

\* The next chunk is taken: what ends a replay is as far, in what comes.
LEMMA TakenReplays ==
    ASSUME NEW msgs \in Seq(MessageType), msgs # <<>>, NEW v \in ViewType, NEW w, NEW items, NEW others,
           Head(msgs).type = "output", Replays(msgs, v, items)
    PROVE  /\ Head(msgs).n # v.seq + 1 =>
                 \A k \in DOMAIN Tail(msgs) : ~ (Tail(msgs)[k].type = "state" /\ Tail(msgs)[k].cov.covered)
           /\ /\ w.seq = v.seq + 1
              /\ ~ Draws(Head(msgs).c) => \A cov : Painted(v, items, cov) => Painted(w, others, cov)
              /\ Draws(Head(msgs).c) => \A cov : Fits(Head(msgs).c, cov) => Painted(w, others, cov)
              => Replays(Tail(msgs), w, others)
<1> DEFINE c == Head(msgs).c
           rest == Tail(msgs)
<1>1. PICK n \in Nat : DOMAIN rest = 1..n
  BY Receiving, LenProperties
<1>2. /\ 1 \in DOMAIN msgs /\ Head(msgs) = msgs[1] /\ v.seq \in Nat /\ msgs[1].n \in Nat
      /\ \A i \in 1..n : i + 1 \in DOMAIN msgs /\ rest[i] = msgs[i + 1] /\ rest[i] \in MessageType
  <2>1. /\ 1 \in DOMAIN msgs /\ Head(msgs) = msgs[1] /\ Head(msgs) \in MessageType
        /\ \A i \in 1..n : i + 1 \in DOMAIN msgs /\ rest[i] = msgs[i + 1]
        /\ rest \in Seq(MessageType)
    BY <1>1, Receiving
  <2>2. \A i \in 1..n : rest[i] \in MessageType
    <3> HIDE DEF rest
    <3> QED BY <1>1, <2>1, LenProperties, ElementOfSeq
  <2>3. Head(msgs).n \in Nat
    BY <2>1, NumbersTyped DEF Carries
  <2> QED BY <2>1, <2>2, <2>3 DEF ViewType
<1> HIDE DEF rest
<1>3. ASSUME NEW k \in 1..n, rest[k].type = "state", rest[k].cov.covered
      PROVE  /\ msgs[1].n = v.seq + 1 /\ rest[k].cov.thru = v.seq + k
             /\ Replaying(msgs, k, rest[k].cov, v, items)
  <2> DEFINE cov == rest[k].cov
  <2>1. Replaying(msgs, k + 1 - 1, cov, v, items)
    BY <1>2, <1>3 DEF Replays
  <2>2. cov.thru \in Nat
    BY <1>2, <1>3 DEF MessageType, IdentityType, BeginType, ReadyType, LineType, CoverageType
  <2> HIDE DEF cov
  <2>3. k + 1 - 1 = k
    OBVIOUS
  <2>4. Replaying(msgs, k, cov, v, items) /\ 1 \in 1..k
    BY <2>1, <2>3
  <2>5. cov.thru <= v.seq + k /\ v.seq + (k - 1) < cov.thru /\ msgs[1].n + (k - 1) = cov.thru
    BY <1>2, <2>4 DEF Replaying
  <2>6. msgs[1].n = v.seq + 1 /\ cov.thru = v.seq + k
    <3>1. PICK s, m, t \in Nat : s = v.seq /\ m = msgs[1].n /\ t = cov.thru
      BY <1>2, <2>2
    <3>2. t <= s + k /\ s + (k - 1) < t /\ m + (k - 1) = t
      BY <2>5, <3>1
    <3>3. m = s + 1 /\ t = s + k
      BY <3>2
    <3> QED BY <3>1, <3>3
  <2> QED BY <2>4, <2>6 DEF cov
<1>4. ASSUME w.seq = v.seq + 1,
             ~ Draws(c) => \A cov : Painted(v, items, cov) => Painted(w, others, cov),
             Draws(c) => \A cov : Fits(c, cov) => Painted(w, others, cov),
             NEW k \in 1..n, rest[k].type = "state", rest[k].cov.covered
      PROVE  Replaying(rest, k - 1, rest[k].cov, w, others)
  <2> DEFINE cov == rest[k].cov
  <2>1. Replaying(msgs, k, cov, v, items) /\ cov.thru = v.seq + k
    BY <1>3, <1>4
  <2> HIDE DEF cov
  <2>2. \A i \in 1..k :
           /\ msgs[i].type \in {"output", "record", "status"}
           /\ msgs[i].type = "output" <=> v.seq + (k - i) < cov.thru
           /\ msgs[i].type = "output" => msgs[i].n + (k - i) = cov.thru
           /\ Paints(msgs[i]) /\ (\A j \in (i + 1)..k : ~ Paints(msgs[j])) => Fits(msgs[i].c, cov)
    BY <2>1 DEF Replaying
  <2>3. cov.thru <= w.seq + (k - 1)
    BY <1>2, <1>4, <2>1
  <2>4. ASSUME NEW i \in 1..(k - 1)
        PROVE  /\ rest[i].type \in {"output", "record", "status"}
               /\ rest[i].type = "output" <=> w.seq + (k - 1 - i) < cov.thru
               /\ rest[i].type = "output" => rest[i].n + (k - 1 - i) = cov.thru
               /\ Paints(rest[i]) /\ (\A j \in (i + 1)..(k - 1) : ~ Paints(rest[j]))
                     => Fits(rest[i].c, cov)
    <3>1. i + 1 \in 1..k /\ k - (i + 1) = k - 1 - i /\ i \in 1..n /\ rest[i] = msgs[i + 1]
      <4>1. i + 1 \in 1..k /\ k - (i + 1) = k - 1 - i /\ i \in 1..n
        OBVIOUS
      <4> QED BY <1>2, <4>1
    <3>2. ASSUME \A j \in (i + 1)..(k - 1) : ~ Paints(rest[j])
          PROVE  \A j \in (i + 1 + 1)..k : ~ Paints(msgs[j])
      <4> SUFFICES ASSUME NEW j \in (i + 1 + 1)..k PROVE ~ Paints(msgs[j])
        OBVIOUS
      <4>1. j - 1 \in (i + 1)..(k - 1) /\ j - 1 \in 1..n /\ j - 1 + 1 = j
        OBVIOUS
      <4> QED BY <1>2, <3>2, <4>1
    <3>3. /\ msgs[i + 1].type \in {"output", "record", "status"}
          /\ msgs[i + 1].type = "output" <=> v.seq + (k - (i + 1)) < cov.thru
          /\ msgs[i + 1].type = "output" => msgs[i + 1].n + (k - (i + 1)) = cov.thru
          /\ Paints(msgs[i + 1]) /\ (\A j \in (i + 1 + 1)..k : ~ Paints(msgs[j]))
                => Fits(msgs[i + 1].c, cov)
      BY <2>2, <3>1
    <3>4. (v.seq + (k - (i + 1)) < cov.thru) /\ (w.seq + (k - 1 - i) < cov.thru)
      <4>1. v.seq + (k - (i + 1)) < v.seq + k /\ v.seq + 1 + (k - 1 - i) < v.seq + k
        BY <1>2
      <4> QED BY <1>4, <2>1, <4>1
    <3> QED BY <3>1, <3>2, <3>3, <3>4
  <2>5. ASSUME \A j \in 1..(k - 1) : ~ Paints(rest[j]) PROVE Painted(w, others, cov)
    <3>1. \A j \in (1 + 1)..k : ~ Paints(msgs[j])
      <4> SUFFICES ASSUME NEW j \in (1 + 1)..k PROVE ~ Paints(msgs[j])
        OBVIOUS
      <4>1. j - 1 \in 1..(k - 1) /\ j - 1 \in 1..n /\ j - 1 + 1 = j
        OBVIOUS
      <4> QED BY <1>2, <2>5, <4>1
    <3>2. Paints(msgs[1]) <=> Draws(c)
      BY <1>2 DEF Paints
    <3>3. CASE Draws(c)
      <4>1. 1 \in 1..k
        OBVIOUS
      <4>2. Fits(msgs[1].c, cov)
        BY <2>2, <3>1, <3>2, <3>3, <4>1
      <4> QED BY <1>2, <1>4, <3>3, <4>2
    <3>4. CASE ~ Draws(c)
      <4>1. \A j \in 1..k : ~ Paints(msgs[j])
        <5> SUFFICES ASSUME NEW j \in 1..k PROVE ~ Paints(msgs[j])
          OBVIOUS
        <5>1. j = 1 \/ j \in (1 + 1)..k
          OBVIOUS
        <5> QED BY <3>1, <3>2, <3>4, <5>1
      <4>2. Painted(v, items, cov)
        BY <2>1, <4>1 DEF Replaying
      <4> QED BY <1>4, <3>4, <4>2
    <3> QED BY <3>3, <3>4
  <2>6. Replaying(rest, k - 1, cov, w, others)
    BY <2>3, <2>4, <2>5 DEF Replaying
  <2> QED BY <2>6 DEF cov
<1>5. (w.seq = v.seq + 1
       /\ (~ Draws(c) => \A cov : Painted(v, items, cov) => Painted(w, others, cov))
       /\ (Draws(c) => \A cov : Fits(c, cov) => Painted(w, others, cov)))
      => Replays(rest, w, others)
  BY <1>1, <1>4 DEF Replays
<1>6. Head(msgs).n # v.seq + 1 => \A k \in 1..n : ~ (rest[k].type = "state" /\ rest[k].cov.covered)
  BY <1>2, <1>3
<1> QED BY <1>1, <1>5, <1>6 DEF rest, c

\* The view hears a chunk.
LEMMA ChunkOpening ==
    ASSUME Known, Typed', OpeningInvariant, HearOutput
    PROVE  OpeningInvariant' /\ Opens
<1> DEFINE msg == Head(down)
           rest == Tail(down)
           record == [type |-> "record", n |-> msg.n, c |-> msg.c]
           heard == [view EXCEPT !.client = "live", !.seq = msg.n]
           item == OutputItem(view, msg.n, msg.c)
<1>1. /\ link /\ down # <<>> /\ msg.type = "output" /\ view.client \in {"live", "resyncing"}
      /\ down' = IF msg.record THEN <<record>> \o rest ELSE rest
      /\ \/ /\ msg.n = view.seq + 1
            /\ view' = NoteOutput(heard, {msg.c}) /\ parser' = Append(parser, item)
         \/ msg.n # view.seq + 1 /\ UNCHANGED <<view, parser>>
      /\ UNCHANGED <<child, host, ring, sub, link, up>>
  BY DEF HearOutput
<1>2. /\ view \in ViewType /\ view.seq \in Nat /\ down \in Seq(MessageType)
      /\ msg \in MessageType /\ rest \in Seq(MessageType) /\ parser \in Seq(ItemType)
      /\ view.wire = host.gen /\ view.gen = host.gen /\ view.wire # 0
  BY <1>1, HearingFacts DEF Known, Typed, ViewType
<1>3. /\ 1 \in DOMAIN down /\ msg = down[1]
      /\ \A i \in DOMAIN rest : i + 1 \in DOMAIN down /\ rest[i] = down[i + 1]
  BY <1>1, <1>2, Receiving
<1>4. msg.n \in Nat /\ msg.c \in ChunkType /\ record \in MessageType
  <2>1. msg.n \in Nat /\ msg.c \in ChunkType
    BY <1>1, <1>2 DEF MessageType, LineType, IdentityType, BeginType, ReadyType
  <2> QED BY <2>1 DEF MessageType
<1>5. /\ Stream(rest, view, parser) /\ LineOk(msg) /\ view.seq < msg.n
      /\ \A i \in DOMAIN rest : rest[i].type # "record" /\ (Carries(rest[i]) => Follows(rest[i], msg.n))
  <2>1. Stream(down, view, parser)
    BY DEF OpeningInvariant, Brings
  <2>2. /\ Stream(rest, view, parser) /\ Sound(msg, 1, view, parser)
        /\ \A i \in DOMAIN rest :
              /\ rest[i].type # "record"
              /\ Carries(msg) /\ Carries(rest[i]) => Follows(rest[i], Reaches(msg))
    BY <1>1, <1>2, <2>1, TailStream
  <2>3. Carries(msg) /\ Reaches(msg) = msg.n
    BY <1>1 DEF Carries, Reaches
  <2> QED BY <1>1, <2>2, <2>3 DEF Sound, Follows
<1>6. /\ msg.n # view.seq + 1 => Replays(rest, view, parser)
      /\ Replays(down, view, parser) /\ Shows(view, parser)
  <2>1. Replays(down, view, parser) /\ Shows(view, parser)
    BY DEF OpeningInvariant, Brings
  <2>2. msg.n # view.seq + 1 => \A k \in DOMAIN rest : ~ (rest[k].type = "state" /\ rest[k].cov.covered)
    BY <1>1, <1>2, <2>1, TakenReplays
  <2> QED BY <2>1, <2>2 DEF Replays
<1>7. /\ Brings(rest, view', parser') /\ Waits(view, view') /\ view'.gen = view.gen
      /\ view'.wire = view.wire /\ view'.client \in {view.client, "live"}
      /\ view'.seq \in {view.seq, msg.n}
      /\ msg.record => Sound(record, 1, view', parser')
  <2>1. CASE msg.n # view.seq + 1 /\ UNCHANGED <<view, parser>>
    <3>1. Brings(rest, view', parser')
      BY <1>5, <1>6, <2>1 DEF Brings
    <3>2. Sound(record, 1, view', parser')
      BY <1>2, <1>4, <1>5, <2>1 DEF Sound
    <3> QED BY <2>1, <3>1, <3>2 DEF Waits
  <2>2. CASE /\ msg.n = view.seq + 1
             /\ view' = NoteOutput(heard, {msg.c}) /\ parser' = Append(parser, item)
    <3> HIDE DEF msg, rest
    <3>1. heard \in ViewType /\ Keeps(view, heard) /\ Waits(view, heard) /\ heard.gen = view.gen
             /\ heard.wire = view.wire /\ heard.client = "live" /\ heard.seq = msg.n
      BY <1>2, <1>4 DEF ViewType, Keeps, Waits, Ident
    <3> HIDE DEF heard
    <3>2. /\ Keeps(heard, view') /\ Waits(heard, view') /\ SameStream(heard, view')
          /\ Draws(msg.c) => ~ view'.cov.covered
      <4>1. msg.c \in {msg.c}
        OBVIOUS
      <4> QED BY <2>2, <3>1, <4>1, NoteOutputKeeps, NoteOutputFacts
    <3>3. /\ Keeps(view, view') /\ Waits(view, view') /\ view'.gen = view.gen
          /\ view'.wire = view.wire /\ view'.client = "live" /\ view'.seq = msg.n
      BY <3>1, <3>2, KeepsBoth DEF SameStream
    <3>4. /\ item \in ItemType /\ item.what = "output" /\ item.picture.c = msg.c
          /\ item.picture.c.kind # "none"
      <4>1. view.gen \in Nat
        BY <1>2 DEF ViewType
      <4>2. msg.c.kind # "none"
        BY <1>5 DEF LineOk
      <4> QED BY <1>2, <1>4, <4>1, <4>2, IdentTyped DEF OutputItem, Item, ItemType, PictureType
    <3> HIDE DEF item
    <3>5. /\ Shows(view', parser')
          /\ ~ Draws(msg.c) => \A cov : Painted(view, parser, cov) => Painted(view', parser', cov)
          /\ Draws(msg.c) => \A cov : Fits(msg.c, cov) => Painted(view', parser', cov)
      BY <1>2, <1>6, <2>2, <3>2, <3>3, <3>4, AppendShows
    <3>6. Replays(rest, view', parser')
      BY <1>1, <1>2, <1>6, <2>2, <3>3, <3>5, TakenReplays DEF msg, rest
    <3>7. Stream(rest, view', parser')
      <4>1. Ordered(rest) /\ \A i \in DOMAIN rest : Sound(rest[i], i, view, parser)
        BY <1>5 DEF Stream
      <4>2. \A i \in DOMAIN rest : Sound(rest[i], i, view', parser')
        BY <1>5, <3>3, <4>1 DEF Sound, Carries
      <4> QED BY <4>1, <4>2 DEF Stream
    <3>8. msg.record => Sound(record, 1, view', parser')
      <4> SUFFICES ASSUME msg.record PROVE Sound(record, 1, view', parser')
        OBVIOUS
      <4>1. msg.c.proof /\ Draws(msg.c)
        BY <1>5 DEF LineOk
      <4>2. Fits(msg.c, Covers(msg.n, msg.c, msg.n))
        BY <4>1 DEF Fits, Covers
      <4>3. Painted(view', parser', Covers(msg.n, msg.c, msg.n))
        BY <3>5, <4>1, <4>2
      <4> QED BY <4>3 DEF Sound
    <3> QED BY <3>3, <3>5, <3>6, <3>7, <3>8 DEF Brings
  <2> QED BY <1>1, <2>1, <2>2
<1>8. view' \in ViewType
  BY DEF Typed
<1>9. Brings(down', view', parser')
  <2>1. CASE msg.record
    <3>1. record.type = "record" /\ record.n = msg.n
      OBVIOUS
    <3> HIDE DEF record, rest, msg
    <3>2. Brings(<<record>> \o rest, view', parser')
      BY <1>2, <1>4, <1>5, <1>7, <1>8, <2>1, <3>1, RecordFirst
    <3> QED BY <1>1, <2>1, <3>2 DEF rest, msg
  <2>2. CASE ~ msg.record
    BY <1>1, <1>7, <2>2
  <2> QED BY <2>1, <2>2
<1>10. \A i \in DOMAIN down' :
          (\E j \in DOMAIN rest : down'[i] = rest[j]) \/ down'[i] = record
  <2> DEFINE first == <<record>>
  <2> HIDE DEF record, rest
  <2>1. first \in Seq(MessageType) /\ \A i \in DOMAIN first : first[i] = record
    BY <1>4
  <2> HIDE DEF first
  <2>2. \A i \in DOMAIN (first \o rest) :
           \/ \E j \in DOMAIN first : (first \o rest)[i] = first[j]
           \/ \E j \in DOMAIN rest : (first \o rest)[i] = rest[j]
    <3>1. first \in Seq(MessageType) /\ rest \in Seq(MessageType)
      BY <1>2, <2>1
    <3> QED BY <3>1, Sending
  <2>3. down' = first \o rest \/ down' = rest
    BY <1>1 DEF first, rest, record
  <2> QED BY <2>1, <2>2, <2>3
<1>11. \A i \in DOMAIN down' : down'[i].type # "hello"
  <2>1. \A i \in DOMAIN rest : rest[i].type # "hello"
    BY <1>2, <1>3 DEF OpeningInvariant, Cursor
  <2> HIDE DEF rest
  <2> QED BY <1>10, <2>1
<1>12. ASSUME NEW n, Within(down, n) PROVE Within(down', n) /\ msg.n <= n
  <2>1. msg.n <= n
    BY <1>1, <1>3, <1>12 DEF Within, Carries, Reaches
  <2>2. \A i \in DOMAIN rest : Carries(rest[i]) => Reaches(rest[i]) <= n
    BY <1>3, <1>12 DEF Within
  <2>3. Reaches(record) = msg.n
    BY DEF Reaches
  <2> HIDE DEF rest, record
  <2> QED BY <1>10, <2>1, <2>2, <2>3 DEF Within
<1>13. sub.pc # "idle"
  BY <1>1, <1>3 DEF OpeningInvariant, Serving
<1>14. Serving' /\ view'.seq <= Last
  <2>1. Last' = Last /\ link' /\ sub' = sub
    BY <1>1 DEF Last
  <2>2. Within(down', Last) /\ msg.n <= Last
    BY <1>12 DEF OpeningInvariant, Serving
  <2>3. sub.pc = "rendering" => Within(down', sub.dto) /\ msg.n <= sub.dto /\ view.seq <= sub.dto
    BY <1>12 DEF OpeningInvariant, Serving
  <2>4. view.seq <= Last
    BY <1>2 DEF OpeningInvariant, Cursor
  <2>5. Within(down', Last')
    BY <2>1, <2>2
  <2>6. sub.pc = "rendering" => view'.seq <= sub.dto /\ Within(down', sub.dto)
    BY <1>7, <2>3
  <2>7. Serving'
    BY <1>13, <2>1, <2>5, <2>6 DEF Serving
  <2> QED BY <1>7, <2>2, <2>4, <2>7
<1>15. OpeningInvariant'
  <2>1. view'.client \notin {"probing", "reconciling"}
    BY <1>1, <1>7
  <2> QED BY <1>1, <1>2, <1>7, <1>9, <1>11, <1>13, <1>14, <2>1, NothingAsked, ViewOpening
<1> QED BY <1>7, <1>15 DEF Opens

\* A fresh terminal shows nothing.
LEMMA ReplaceParserBare ==
    ASSUME NEW v \in ViewType
    PROVE  LET w == ReplaceParser(v)
           IN  /\ w.committed = <<>> /\ w.opened = v.opened /\ w.hydration = "idle"
               /\ w.asked = v.asked
<1> DEFINE g == CaptureRecovery(v)
           w == [g EXCEPT !.epoch = @ + 1, !.sync = FALSE, !.committed = <<>>,
                          !.hydration = "idle", !.grid = Blank, !.torn = FALSE]
<1>1. g \in ViewType
  BY CaptureRecoveryFacts
<1>2. g.opened = v.opened /\ g.asked = v.asked
  BY DEF CaptureRecovery, ViewType
<1>3. w = ReplaceParser(v)
  BY DEF ReplaceParser
<1> HIDE DEF g
<1>4. w.committed = <<>> /\ w.opened = g.opened /\ w.hydration = "idle" /\ w.asked = g.asked
  BY <1>1 DEF ViewType
<1> QED BY <1>2, <1>3, <1>4

\* What a snapshot leaves of the copies, and the coverage that it proves.
LEMMA AdoptBare ==
    ASSUME NEW v \in ViewType, NEW msg \in ReadyType, v.committed = <<>>
    PROVE  LET w == Adopt(v, msg)
           IN  /\ w.committed = <<>> /\ w.opened = v.opened
               /\ w.cov.covered => ~ msg.empty /\ w.cov = msg.cov /\ msg.cov.covered
               /\ ~ msg.empty => w.hydration = "hydrating" /\ (w.asked /\ ~ v.asked => ~ w.cov.covered)
<1> DEFINE ident == IF msg.cov.covered THEN Ident(v) ELSE NoIdent
           asked == ~ msg.cov.covered /\ (v.asked \/ msg.proofs)
           new == [v EXCEPT !.cov = msg.cov, !.ident = ident, !.satisfied = FALSE, !.asked = asked]
           none == [Forget(new) EXCEPT !.gate = TRUE, !.baseline = "empty"]
           some == [new EXCEPT !.baseline = "content", !.hydration = "hydrating"]
<1>1. /\ msg.cov \in CoverageType /\ msg.cov.covered \in BOOLEAN /\ msg.proofs \in BOOLEAN
      /\ v.asked \in BOOLEAN
  BY DEF ReadyType, CoverageType, ViewType
<1>2. ident \in IdentType /\ asked \in BOOLEAN
  BY <1>1, IdentTyped, ConstantsTyped
<1> HIDE DEF ident
<1>3. /\ new \in ViewType /\ new.committed = <<>> /\ new.opened = v.opened /\ new.cov = msg.cov
      /\ new.asked = asked
  <2> HIDE DEF asked
  <2>1. [v EXCEPT !.cov = msg.cov, !.ident = ident] \in ViewType
    BY <1>1, <1>2 DEF ViewType
  <2>2. ASSUME NEW g \in ViewType PROVE [g EXCEPT !.satisfied = FALSE, !.asked = asked] \in ViewType
    BY <1>2 DEF ViewType
  <2>3. new \in ViewType
    BY <2>1, <2>2
  <2> QED BY <2>3 DEF ViewType
<1>4. Adopt(v, msg) = IF msg.empty THEN Invalidate(none) ELSE some
  BY DEF Adopt, ident
<1> HIDE DEF new
<1>5. Invalidate(none).committed = <<>> /\ Invalidate(none).opened = v.opened /\ Invalidate(none).cov = Unknown
  <2>1. Forget(new) \in ViewType /\ Forget(new).committed = <<>> /\ Forget(new).opened = v.opened
    BY ZenonT(40), <1>3, ForgetFacts DEF Forget, ViewType
  <2>2. none \in ViewType /\ none.committed = <<>> /\ none.opened = v.opened
    BY <2>1 DEF ViewType
  <2> HIDE DEF none
  <2> QED BY <2>2 DEF Invalidate, ViewType
<1>6. /\ some.committed = <<>> /\ some.opened = v.opened /\ some.cov = msg.cov
      /\ some.hydration = "hydrating" /\ some.asked = asked
  BY <1>3 DEF ViewType
<1> HIDE DEF none, some
<1>7. CASE msg.empty
  BY <1>4, <1>5, <1>7 DEF Unknown
<1>8. CASE ~ msg.empty
  BY <1>4, <1>6, <1>8
<1> QED BY <1>7, <1>8

\* The view hears a frame: its terminal is new.
LEMMA ReadyOpening ==
    ASSUME Known, Typed', OpeningInvariant, HearReady
    PROVE  OpeningInvariant' /\ Opens
<1> DEFINE msg == Head(down)
           old == ReplaceParser(view)
           v == Adopt(old, msg)
           asks == v.asked /\ ~ view.asked
           flush == IF asks THEN <<>> ELSE msg.flush
           chunks == {flush[i].c : i \in DOMAIN flush}
           noted == NoteOutput(v, chunks)
           frame == IF msg.empty THEN <<>> ELSE <<Item("frame", v, msg.picture)>>
           items == [i \in DOMAIN flush |-> OutputItem(v, flush[i].n, flush[i].c)]
           rest == Tail(down)
<1>1. /\ link /\ down # <<>> /\ down' = rest /\ msg.type = "ready"
      /\ UNCHANGED <<child, host, ring, sub, link>>
      /\ view' = [noted EXCEPT !.client = "live", !.seq = msg.upto,
                               !.torn = asks /\ msg.flush # <<>>]
      /\ parser' = frame \o items
      /\ up' = up \o (IF asks THEN <<Subscribe(0)>> ELSE <<>>)
  BY DEF HearReady, Hearing, Ask
<1>2. /\ view \in ViewType /\ view.seq \in Nat /\ down \in Seq(MessageType)
      /\ msg \in MessageType /\ rest \in Seq(MessageType)
      /\ view.wire = host.gen /\ view.gen = host.gen /\ view.wire # 0
  <2>1. view \in ViewType /\ view.seq \in Nat /\ down \in Seq(MessageType)
    BY DEF Known, Typed, ViewType
  <2>2. link /\ down # <<>> /\ msg.type = "ready"
    BY <1>1
  <2>3. /\ msg \in MessageType /\ rest \in Seq(MessageType)
        /\ view.wire = host.gen /\ view.gen = host.gen /\ view.wire # 0
    <3>1. Typed /\ ShownInvariant
      BY DEF Known
    <3> QED BY <2>2, <3>1, HearingFacts
  <2> QED BY <2>1, <2>3
<1>3. /\ 1 \in DOMAIN down /\ msg = down[1]
      /\ \A i \in DOMAIN rest : i + 1 \in DOMAIN down /\ rest[i] = down[i + 1]
  BY <1>1, <1>2, Receiving
<1>4. /\ msg \in ReadyType /\ msg.upto \in Nat /\ msg.flush \in Seq(LineType)
      /\ msg.picture \in PictureType
  BY <1>1, <1>2 DEF MessageType, IdentityType, BeginType, LineType, ReadyType
<1>5. /\ Stream(rest, view, parser) /\ ReadyOk(msg)
      /\ \A i \in DOMAIN rest : rest[i].type # "record" /\ (Carries(rest[i]) => Follows(rest[i], msg.upto))
  <2>1. Stream(down, view, parser)
    BY DEF OpeningInvariant, Brings
  <2>2. /\ Stream(rest, view, parser) /\ Sound(msg, 1, view, parser)
        /\ \A i \in DOMAIN rest :
              /\ rest[i].type # "record"
              /\ Carries(msg) /\ Carries(rest[i]) => Follows(rest[i], Reaches(msg))
    BY <1>1, <1>2, <2>1, TailStream
  <2>3. Carries(msg) /\ Reaches(msg) = msg.upto
    BY <1>1 DEF Carries, Reaches
  <2> QED BY <1>1, <2>2, <2>3 DEF Sound
<1>6. \A k \in DOMAIN rest : ~ (rest[k].type = "state" /\ rest[k].cov.covered)
  BY <1>1, <1>2, TailReplays DEF OpeningInvariant, Brings
<1>7. /\ old \in ViewType /\ SameStream(view, old) /\ old.committed = <<>>
      /\ old.opened = view.opened /\ old.asked = view.asked
  BY <1>2, ReplaceParserFacts, ReplaceParserBare
<1> HIDE DEF old, msg
<1>8. /\ v \in ViewType /\ SameStream(old, v) /\ v.committed = <<>> /\ v.opened = view.opened
      /\ v.cov.covered => ~ msg.empty /\ v.cov = msg.cov /\ msg.cov.covered /\ ~ asks
      /\ ~ msg.empty => v.hydration = "hydrating"
  <2>1. v \in ViewType /\ SameStream(old, v)
    BY <1>4, <1>7, AdoptFacts
  <2>2. /\ v.committed = <<>> /\ v.opened = old.opened
        /\ v.cov.covered => ~ msg.empty /\ v.cov = msg.cov /\ msg.cov.covered
        /\ ~ msg.empty => v.hydration = "hydrating" /\ (v.asked /\ ~ old.asked => ~ v.cov.covered)
    BY <1>4, <1>7, AdoptBare
  <2> QED BY <1>7, <2>1, <2>2
<1> HIDE DEF v
<1>9. /\ noted \in ViewType /\ SameStream(v, noted) /\ Keeps(v, noted) /\ Waits(v, noted)
      /\ SameCopies(v, noted) /\ ((\E c \in chunks : Draws(c)) => ~ noted.cov.covered)
  <2> HIDE DEF chunks
  <2> QED BY <1>8, NoteOutputFacts, NoteOutputKeeps
<1>10. /\ view' \in ViewType /\ view'.gen = view.gen /\ view'.wire = view.wire
       /\ view'.client = "live" /\ view'.seq = msg.upto /\ view'.committed = <<>>
       /\ Waits(view, view') /\ view'.hydration = v.hydration /\ view'.cov = noted.cov
  <2>1. view' \in ViewType
    BY DEF Typed
  <2>2. /\ view'.gen = noted.gen /\ view'.wire = noted.wire
        /\ view'.client = "live" /\ view'.seq = msg.upto /\ view'.committed = noted.committed
        /\ view'.opened = noted.opened /\ view'.hydration = noted.hydration /\ view'.cov = noted.cov
    <3> HIDE DEF noted, asks
    <3> QED BY <1>1, <1>9 DEF ViewType
  <2>3. noted.gen = view.gen /\ noted.wire = view.wire /\ noted.committed = <<>>
    BY <1>7, <1>8, <1>9 DEF SameStream, SameCopies
  <2> QED BY <1>8, <1>9, <2>1, <2>2, <2>3 DEF Keeps, Waits
<1>11. view'.cov.covered =>
          /\ ~ msg.empty /\ msg.cov.covered /\ view'.cov.size = msg.cov.size /\ view'.cov.rev = msg.cov.rev
          /\ Fits(msg.picture.c, msg.cov)
          /\ \A i \in DOMAIN flush : ~ Draws(flush[i].c)
  <2> SUFFICES ASSUME view'.cov.covered
               PROVE  /\ ~ msg.empty /\ msg.cov.covered
                      /\ view'.cov.size = msg.cov.size /\ view'.cov.rev = msg.cov.rev
                      /\ Fits(msg.picture.c, msg.cov)
                      /\ \A i \in DOMAIN flush : ~ Draws(flush[i].c)
    OBVIOUS
  <2>1. v.cov.covered /\ view'.cov.size = v.cov.size /\ view'.cov.rev = v.cov.rev
    BY <1>9, <1>10 DEF Keeps
  <2>2. ~ msg.empty /\ v.cov = msg.cov /\ msg.cov.covered /\ ~ asks
    BY <1>8, <2>1
  <2>3. \A i \in DOMAIN flush : ~ Draws(flush[i].c)
    <3> HIDE DEF flush
    <3>1. \A i \in DOMAIN flush : flush[i].c \in chunks
      OBVIOUS
    <3> HIDE DEF chunks
    <3> QED BY <1>9, <1>10, <3>1
  <2>4. flush = msg.flush
    BY <2>2
  <2>5. Fits(msg.picture.c, msg.cov)
    BY <1>5, <2>2, <2>3, <2>4 DEF ReadyOk
  <2> QED BY <2>1, <2>2, <2>3, <2>5
<1>12. flush \in Seq(LineType) /\ \A i \in DOMAIN flush : flush[i] \in LineType /\ flush[i].c.kind # "none"
  <2>1. flush \in Seq(LineType)
    BY <1>4
  <2>2. \A i \in DOMAIN flush : flush[i].c.kind # "none"
    BY <1>5 DEF ReadyOk, LineOk
  <2> HIDE DEF flush
  <2> QED BY <2>1, <2>2, LenProperties, ElementOfSeq
<1> DEFINE shown == Item("frame", v, msg.picture)
<1>13. /\ frame \in Seq(ItemType) /\ \A i \in DOMAIN frame : i = 1 /\ ~ msg.empty /\ frame[i] = shown
       /\ Len(frame) = IF msg.empty THEN 0 ELSE 1
  <2>1. shown \in ItemType
    BY <1>4, <1>8, IdentTyped DEF Item, ItemType
  <2> HIDE DEF shown
  <2> QED BY <2>1 DEF shown
<1>14. /\ items \in Seq(ItemType)
       /\ \A i \in DOMAIN items : /\ i \in DOMAIN flush /\ items[i].what = "output"
                                  /\ items[i].picture.c = flush[i].c
  <2> HIDE DEF flush
  <2>1. PICK k \in Nat : DOMAIN flush = 1..k
    BY <1>12, LenProperties
  <2>2. ASSUME NEW i \in 1..k
        PROVE  LET item == OutputItem(v, flush[i].n, flush[i].c)
               IN  item \in ItemType /\ item.what = "output" /\ item.picture.c = flush[i].c
    <3>1. flush[i].n \in Nat /\ flush[i].c \in ChunkType /\ v.gen \in Nat
      BY <1>8, <1>12, <2>1 DEF LineType, ViewType
    <3> QED BY <1>8, <3>1, IdentTyped DEF OutputItem, Item, ItemType, PictureType
  <2>3. /\ items \in [1..k -> ItemType]
        /\ \A i \in 1..k : items[i].what = "output" /\ items[i].picture.c = flush[i].c
    BY <2>1, <2>2
  <2>4. DOMAIN items = 1..k
    BY <2>1
  <2> HIDE DEF items
  <2> QED BY <2>1, <2>3, <2>4, SeqDef
<1> HIDE DEF frame, items, shown
<1>15. PICK n \in Nat : DOMAIN parser' = 1..n
  <2>1. parser' \in Seq(ItemType)
    BY DEF Typed
  <2> QED BY <2>1, LenProperties
<1>16. \A i \in 1..n :
          \/ i = 1 /\ ~ msg.empty /\ parser'[i] = shown
          \/ \E j \in DOMAIN items : parser'[i] = items[j]
  <2>1. PICK a, b \in Nat : /\ a = Len(frame) /\ DOMAIN frame = 1..a /\ DOMAIN items = 1..b
                            /\ DOMAIN (frame \o items) = 1..(a + b)
                            /\ \A i \in 1..a : (frame \o items)[i] = frame[i]
                            /\ \A i \in 1..b : (frame \o items)[a + i] = items[i]
    <3>1. /\ Len(frame) \in Nat /\ Len(items) \in Nat
          /\ DOMAIN frame = 1..Len(frame) /\ DOMAIN items = 1..Len(items)
          /\ DOMAIN (frame \o items) = 1..(Len(frame) + Len(items))
          /\ \A i \in 1..Len(frame) : (frame \o items)[i] = frame[i]
          /\ \A i \in 1..Len(items) : (frame \o items)[Len(frame) + i] = items[i]
      <4>1. frame \in Seq(ItemType) /\ items \in Seq(ItemType)
        BY <1>13, <1>14
      <4> QED BY <4>1, Joined
    <3> QED BY <3>1
  <2>2. 1..n = 1..(a + b)
    BY <1>1, <1>15, <2>1
  <2> SUFFICES ASSUME NEW i \in 1..(a + b)
               PROVE  \/ i = 1 /\ ~ msg.empty /\ parser'[i] = shown
                      \/ \E j \in DOMAIN items : parser'[i] = items[j]
    BY <2>2
  <2>3. CASE i \in 1..a
    BY <1>1, <1>13, <2>1, <2>3
  <2>4. CASE i \notin 1..a
    <3>1. i - a \in 1..b /\ a + (i - a) = i
      BY <2>4
    <3> QED BY SMTT(30), <1>1, <2>1, <3>1
  <2> QED BY <2>3, <2>4
<1>17. shown.what = "frame" /\ shown.picture = msg.picture
  BY DEF shown, Item
<1>18. \A j \in DOMAIN items : items[j].what = "output" /\ items[j].picture.c.kind # "none"
  BY <1>12, <1>14
<1>19. Shows(view', parser')
  <2>1. Copied(view', parser')
    BY <1>8, <1>10, <1>15, <1>16, <1>17, <1>18 DEF Copied
  <2>2. ASSUME view'.cov.covered PROVE Painted(view', parser', view'.cov)
    <3>1. \A j \in DOMAIN items : ~ Drawing(items[j])
      BY <1>11, <1>14, <2>2 DEF Drawing
    <3>2. Fits(msg.picture.c, view'.cov)
      BY <1>11, <2>2 DEF Fits
    <3> QED BY <1>10, <1>15, <1>16, <1>17, <3>1, <3>2 DEF Painted
  <2> QED BY <2>1, <2>2 DEF Shows
<1>20. Brings(down', view', parser')
  <2>1. Stream(rest, view', parser')
    <3>1. Ordered(rest) /\ \A i \in DOMAIN rest : Sound(rest[i], i, view, parser)
      BY <1>5 DEF Stream
    <3>2. \A i \in DOMAIN rest : Sound(rest[i], i, view', parser')
      <4> HIDE DEF rest
      <4> QED BY <1>5, <1>10, <3>1 DEF Sound, Carries
    <3> QED BY <3>1, <3>2 DEF Stream
  <2>2. Replays(rest, view', parser')
    BY <1>6 DEF Replays
  <2> QED BY <1>1, <1>19, <2>1, <2>2 DEF Brings
<1>21. /\ msg.upto <= Last /\ (sub.pc = "rendering" => msg.upto <= sub.dto)
  <2>1. Carries(msg) /\ Reaches(msg) = msg.upto
    BY <1>1 DEF Carries, Reaches
  <2> QED BY <1>3, <2>1 DEF OpeningInvariant, Serving, Within, msg
<1>22. Serving' /\ (\A i \in DOMAIN down' : down'[i].type # "hello") /\ sub.pc # "idle"
  BY <1>1, <1>10, <1>21, TailServing DEF msg
<1>23. PICK more \in Seq(RequestType) :
          up' = up \o more /\ \A i \in DOMAIN more : Asks(more[i]) => more[i].n = 0
  BY <1>1, NothingAsked
<1>24. OpeningInvariant'
  BY <1>1, <1>2, <1>10, <1>20, <1>21, <1>22, <1>23, ViewOpening
<1> QED BY <1>10, <1>24 DEF Opens

----------------------------------------------------------------------------
(* The view's terminal, window and timers.                                 *)

\* What a commit leaves, and the copy that it makes.
LEMMA CommitHolds ==
    ASSUME NEW v \in ViewType,
           v.committed # <<>> =>
              ~ v.gate /\ v.committed[1].ident = Ident(v) /\ v.hydration # "hydrating"
    PROVE  LET w == CommitView(v)
           IN  /\ Copied(w, <<>>) /\ w.grid = v.grid /\ w.cov = v.cov /\ w.opened = v.opened
               /\ v.hydration = "hydrating" => w.committed = v.committed /\ w.hydration = v.hydration
<1> DEFINE copy == [picture |-> v.grid, torn |-> v.torn, ident |-> Ident(v)]
           kept == [v EXCEPT !.behind = v.committed # <<>>]
           made == [v EXCEPT !.committed = <<copy>>, !.recovery = <<>>, !.gate = FALSE,
                             !.behind = FALSE]
<1>1. CASE ~ Modern(v) \/ v.hydration = "hydrating"
  <2>1. CommitView(v) = kept
    BY <1>1 DEF CommitView
  <2>2. /\ kept.committed = v.committed /\ kept.gate = v.gate /\ kept.hydration = v.hydration
        /\ kept.grid = v.grid /\ kept.cov = v.cov /\ kept.opened = v.opened
        /\ v.committed # <<>> => kept.behind
    BY DEF ViewType
  <2>3. Ident(kept) = Ident(v)
    BY DEF ViewType, Ident
  <2> HIDE DEF kept
  <2>4. Copied(kept, <<>>)
    BY <2>2, <2>3 DEF Copied
  <2> QED BY <2>1, <2>2, <2>4
<1>2. CASE ~ (~ Modern(v) \/ v.hydration = "hydrating")
  <2>1. CommitView(v) = made
    BY <1>2 DEF CommitView
  <2>2. copy.picture = v.grid /\ copy.ident = Ident(v)
    OBVIOUS
  <2> HIDE DEF copy
  <2>3. /\ made.committed = <<copy>> /\ ~ made.gate /\ made.hydration = v.hydration
        /\ made.grid = v.grid /\ made.cov = v.cov /\ made.opened = v.opened
    BY DEF ViewType
  <2>4. Ident(made) = Ident(v)
    BY DEF ViewType, Ident
  <2> HIDE DEF made
  <2>5. Copied(made, <<>>)
    BY <1>2, <2>2, <2>3, <2>4 DEF Copied
  <2> QED BY <1>2, <2>1, <2>3, <2>5
<1> QED BY <1>1, <1>2

\* Parsing draws what draws, and copies where an update ends.
LEMMA ParsedHolds ==
    ASSUME NEW v \in ViewType, NEW item \in ItemType, Copied(v, <<>>),
           IF item.what = "frame" THEN v.hydration = "hydrating" ELSE item.picture.c.kind # "none"
    PROVE  LET w == Parsed(v, item)
           IN  /\ Copied(w, <<>>) /\ w.cov = v.cov /\ w.opened = v.opened
               /\ ~ Drawing(item) => w.grid = v.grid /\ w.committed = v.committed
               /\ Drawing(item) => w.grid = item.picture
               /\ item.what = "frame" => w.committed = <<>>
<1> DEFINE drawn == [v EXCEPT !.grid = item.picture, !.sync = Half(item.picture)]
<1>1. item.picture \in PictureType /\ Half(item.picture) \in BOOLEAN
      /\ item.picture.c \in ChunkType
  BY DEF ItemType, Half, PictureType
<1>2. v.committed # <<>> =>
          /\ ~ v.gate /\ v.committed[1].ident = Ident(v) /\ v.hydration # "hydrating"
          /\ item.what # "frame"
  BY DEF Copied
<1>3. /\ drawn \in ViewType /\ drawn.grid = item.picture /\ drawn.sync = Half(item.picture)
      /\ drawn.cov = v.cov /\ drawn.opened = v.opened /\ drawn.committed = v.committed
      /\ drawn.gate = v.gate /\ drawn.hydration = v.hydration /\ Ident(drawn) = Ident(v)
  <2>1. ASSUME NEW p \in PictureType, NEW b \in BOOLEAN
        PROVE  LET w == [v EXCEPT !.grid = p, !.sync = b]
               IN  /\ w \in ViewType /\ w.grid = p /\ w.sync = b
                   /\ w.cov = v.cov /\ w.opened = v.opened /\ w.committed = v.committed
                   /\ w.gate = v.gate /\ w.hydration = v.hydration /\ Ident(w) = Ident(v)
    <3>1. [v EXCEPT !.grid = p, !.sync = b] \in ViewType
      BY DEF ViewType
    <3> QED BY <3>1 DEF ViewType, Ident
  <2> QED BY <1>1, <2>1
<1> HIDE DEF drawn
<1>4. CASE item.what = "output" /\ ~ Draws(item.picture.c)
  <2>1. Parsed(v, item) = v
    BY <1>4 DEF Parsed, Draws
  <2> QED BY <1>4, <2>1 DEF Drawing
<1>5. CASE item.what = "output" /\ Draws(item.picture.c) /\ item.picture.c.kind \in {"whole", "tail"}
  <2>1. Parsed(v, item) = CommitView(drawn)
    BY <1>5 DEF Parsed, drawn
  <2>2. LET w == CommitView(drawn)
        IN  Copied(w, <<>>) /\ w.grid = drawn.grid /\ w.cov = drawn.cov /\ w.opened = drawn.opened
    BY <1>2, <1>3, CommitHolds
  <2> QED BY <1>3, <1>5, <2>1, <2>2 DEF Drawing
<1>6. CASE item.what = "frame"
           \/ (Draws(item.picture.c) /\ item.picture.c.kind \notin {"whole", "tail"})
  <2>1. Parsed(v, item) = drawn
    BY <1>6 DEF Parsed, drawn
  <2>2. item.what # "frame" => Half(item.picture)
    BY <1>1, <1>6 DEF Half, Draws, ChunkType, Kinds
  <2>3. Copied(drawn, <<>>)
    BY <1>2, <1>3, <2>2 DEF Copied
  <2> QED BY <1>2, <1>3, <1>6, <2>1, <2>3 DEF Drawing
<1> QED BY <1>4, <1>5, <1>6 DEF ItemType

\* A callback copies a snapshot that is parsed whole, and may open the view.
LEMMA CallbackHolds ==
    ASSUME NEW v \in ViewType, NEW item \in ItemType, Copied(v, <<>>),
           item.what = "frame" => v.committed = <<>>
    PROVE  LET w == Callback(v, item)
           IN  /\ Copied(w, <<>>)
               /\ w.cov.covered => v.cov.covered /\ w.cov.size = v.cov.size /\ w.cov.rev = v.cov.rev
               /\ w.committed # <<>> => w.grid = v.grid /\ (item.what = "frame" \/ v.committed # <<>>)
               /\ Waits(v, w) \/ (Len(parser) - 1 = 0 /\ Proven(w))
<1> DEFINE h == [v EXCEPT !.hydration = "complete"]
           hydrated == IF item.what # "frame" THEN v ELSE IF v.sync THEN h ELSE CommitView(h)
           heard == [hydrated EXCEPT !.received = TRUE]
           n == Len(parser) - 1
           Good(w) == /\ Copied(w, <<>>)
                      /\ w.cov.covered => v.cov.covered /\ w.cov.size = v.cov.size /\ w.cov.rev = v.cov.rev
                      /\ w.committed # <<>> =>
                            w.grid = v.grid /\ (item.what = "frame" \/ v.committed # <<>>)
<1>1. /\ h \in ViewType /\ h.grid = v.grid /\ h.cov = v.cov /\ h.opened = v.opened
      /\ h.committed = v.committed
  BY DEF ViewType
<1>2. hydrated \in ViewType /\ Good(hydrated) /\ Waits(v, hydrated)
  <2> HIDE DEF h
  <2>1. CASE item.what # "frame"
    BY <2>1 DEF Waits
  <2>2. CASE item.what = "frame" /\ v.sync
    <3>1. Copied(h, <<>>) /\ h.committed = <<>>
      BY <1>1, <2>2 DEF Copied
    <3> QED BY <1>1, <2>2, <3>1 DEF Waits
  <2>3. CASE item.what = "frame" /\ ~ v.sync
    <3>1. LET w == CommitView(h)
          IN  w \in ViewType /\ Copied(w, <<>>) /\ w.grid = h.grid /\ w.cov = h.cov /\ w.opened = h.opened
      BY <1>1, <2>3, CommitViewFacts, CommitHolds
    <3> QED BY <1>1, <2>3, <3>1 DEF Waits
  <2> QED BY <2>1, <2>2, <2>3
<1>3. ASSUME NEW w, Good(w), NEW x, Keeps(w, x) PROVE Good(x)
  <2>1. Copied(x, <<>>)
    BY <1>3 DEF Keeps, Copied
  <2>2. x.cov.covered => v.cov.covered /\ x.cov.size = v.cov.size /\ x.cov.rev = v.cov.rev
    BY <1>3 DEF Keeps
  <2>3. x.committed # <<>> => x.grid = v.grid /\ (item.what = "frame" \/ v.committed # <<>>)
    BY <1>3 DEF Keeps
  <2> QED BY <2>1, <2>2, <2>3
<1> HIDE DEF hydrated
<1>4. heard \in ViewType /\ Keeps(hydrated, heard) /\ Waits(hydrated, heard)
  BY <1>2 DEF ViewType, Keeps, Waits, Ident
<1> DEFINE deferred == DeferSettle(heard)
           last == Evaluate(deferred, n)
<1> HIDE DEF heard, Good
<1>5. deferred \in ViewType /\ Keeps(heard, deferred) /\ Waits(heard, deferred)
  BY <1>4, DeferSettleFacts, OtherKeeps
<1> HIDE DEF deferred
<1>6. Keeps(deferred, last) /\ (Waits(deferred, last) \/ (n = 0 /\ Proven(last)))
  BY <1>5, EvaluateKeeps
<1>7. Callback(v, item) = IF item.ident # Ident(v) THEN v ELSE last
  BY DEF Callback, last, deferred, heard, hydrated
<1> HIDE DEF last, n
<1>8. Good(last) /\ (Waits(v, last) \/ (n = 0 /\ Proven(last)))
  <2>1. Good(last)
    BY <1>2, <1>3, <1>4, <1>5, <1>6
  <2>2. Waits(v, deferred)
    BY <1>2, <1>4, <1>5, KeepsBoth
  <2> QED BY <1>6, <2>1, <2>2, KeepsBoth
<1>9. Good(v) /\ Waits(v, v)
  BY DEF Good, Waits
<1>10. LET w == Callback(v, item) IN Good(w) /\ (Waits(v, w) \/ (n = 0 /\ Proven(w)))
  BY <1>7, <1>8, <1>9
<1> QED BY <1>10 DEF Good, n

\* When the first write is parsed, what is drawn after the others stays the same.
LEMMA TailSettled ==
    ASSUME NEW items \in Seq(ItemType), items # <<>>
    PROVE  /\ \A i \in DOMAIN Tail(items) :
                 /\ i + 1 \in DOMAIN items /\ i + 1 # 1 /\ Tail(items)[i] = items[i + 1]
                 /\ Settled(Tail(items), i) => Settled(items, i + 1)
           /\ Settled(Tail(items), 0) => Settled(items, 1)
           /\ Settled(Tail(items), 0) /\ ~ Drawing(Head(items)) => Settled(items, 0)
           /\ 1 \in DOMAIN items /\ Head(items) = items[1] /\ Head(items) \in ItemType
<1> DEFINE rest == Tail(items)
<1>1. PICK n \in Nat : DOMAIN items = 1..(n + 1) /\ DOMAIN rest = 1..n
  <2>1. /\ Len(items) \in Nat /\ Len(items) # 0 /\ DOMAIN items = 1..Len(items)
        /\ DOMAIN rest = 1..(Len(items) - 1)
    BY LenProperties, HeadTailProperties, EmptySeq
  <2>2. Len(items) - 1 \in Nat /\ (Len(items) - 1) + 1 = Len(items)
    BY <2>1
  <2> QED BY <2>1, <2>2
<1>2. \A i \in DOMAIN rest : i + 1 \in DOMAIN items /\ rest[i] = items[i + 1]
  BY Receiving
<1>3. 1 \in DOMAIN items /\ Head(items) = items[1] /\ Head(items) \in ItemType
  BY Receiving
<1> HIDE DEF rest
<1>4. ASSUME NEW k \in Nat, Settled(rest, k) PROVE Settled(items, k + 1)
  <2> SUFFICES ASSUME NEW j \in 1..(n + 1), j > k + 1 PROVE ~ Drawing(items[j])
    BY <1>1 DEF Settled
  <2>1. j - 1 \in 1..n /\ j - 1 > k /\ (j - 1) + 1 = j
    OBVIOUS
  <2>2. rest[j - 1] = items[j]
    BY <1>1, <1>2, <2>1
  <2> QED BY <1>1, <1>4, <2>1, <2>2 DEF Settled
<1>5. Settled(rest, 0) => Settled(items, 1)
  <2>1. 0 \in Nat /\ 0 + 1 = 1
    OBVIOUS
  <2> QED BY <1>4, <2>1
<1>6. Settled(rest, 0) /\ ~ Drawing(Head(items)) => Settled(items, 0)
  <2> SUFFICES ASSUME Settled(items, 1), ~ Drawing(items[1]), NEW j \in 1..(n + 1)
               PROVE  ~ Drawing(items[j])
    BY <1>1, <1>3, <1>5 DEF Settled
  <2>1. j = 1 \/ j > 1
    OBVIOUS
  <2> QED BY <1>1, <2>1 DEF Settled
<1>7. \A i \in DOMAIN rest : i \in Nat /\ i + 1 # 1
  BY <1>1
<1> QED BY <1>2, <1>3, <1>4, <1>5, <1>6, <1>7 DEF rest

\* The terminal parses a write, which may open the view if it is the last.
LEMMA ParseOpening ==
    ASSUME Known, Typed', OpeningInvariant, Parse
    PROVE  OpeningInvariant' /\ Opens
<1> DEFINE item == Head(parser)
           rest == Tail(parser)
           drawn == Parsed(view, item)
           final == Callback(drawn, item)
<1>1. /\ parser # <<>> /\ parser' = rest /\ view' = final
      /\ UNCHANGED <<child, host, ring, sub, link, up, down>>
  BY DEF Parse, wire
<1>2. view \in ViewType /\ parser \in Seq(ItemType) /\ Brings(down, view, parser)
  BY DEF Known, Typed, OpeningInvariant
<1>3. /\ \A i \in DOMAIN rest :
            /\ i + 1 \in DOMAIN parser /\ i + 1 # 1 /\ rest[i] = parser[i + 1]
            /\ Settled(rest, i) => Settled(parser, i + 1)
      /\ Settled(rest, 0) => Settled(parser, 1)
      /\ Settled(rest, 0) /\ ~ Drawing(item) => Settled(parser, 0)
      /\ 1 \in DOMAIN parser /\ item = parser[1] /\ item \in ItemType
  BY <1>1, <1>2, TailSettled
<1> HIDE DEF item, rest
<1>4. Copied(view, parser)
  BY <1>2 DEF Brings, Shows
<1>5. /\ Copied(view, <<>>)
      /\ IF item.what = "frame" THEN view.hydration = "hydrating" ELSE item.picture.c.kind # "none"
  BY <1>3, <1>4 DEF Copied
<1>6. /\ Copied(drawn, <<>>) /\ drawn.cov = view.cov /\ drawn.opened = view.opened
      /\ ~ Drawing(item) => drawn.grid = view.grid /\ drawn.committed = view.committed
      /\ Drawing(item) => drawn.grid = item.picture
      /\ item.what = "frame" => drawn.committed = <<>>
  BY <1>2, <1>3, <1>5, ParsedHolds
<1>7. drawn \in ViewType /\ SameStream(view, drawn)
      /\ (item.what = "frame" => drawn.grid = item.picture /\ drawn.sync = Half(item.picture))
  BY <1>2, <1>3, ParsedFacts
<1> HIDE DEF drawn
<1>8. /\ Copied(final, <<>>)
      /\ final.cov.covered =>
            drawn.cov.covered /\ final.cov.size = drawn.cov.size /\ final.cov.rev = drawn.cov.rev
      /\ final.committed # <<>> => final.grid = drawn.grid /\ (item.what = "frame" \/ drawn.committed # <<>>)
      /\ Waits(drawn, final) \/ (Len(parser) - 1 = 0 /\ Proven(final))
  BY <1>3, <1>6, <1>7, CallbackHolds
<1>9. SameStream(drawn, final)
  BY <1>3, <1>7, CallbackFacts
<1> HIDE DEF final
<1>10. ASSUME NEW cov, Painted(view, parser, cov) PROVE Painted(final, rest, cov)
  <2>1. ASSUME NEW i \in DOMAIN rest, Drawing(rest[i]), Settled(rest, i) PROVE Fits(rest[i].picture.c, cov)
    BY <1>3, <1>10, <2>1 DEF Painted
  <2>2. ASSUME final.committed # <<>>, Settled(rest, 0) PROVE Fits(final.grid.c, cov)
    <3>1. CASE Drawing(item)
      <4>1. Fits(item.picture.c, cov)
        BY <1>3, <1>10, <2>2, <3>1 DEF Painted
      <4> QED BY <1>6, <1>8, <2>2, <3>1, <4>1
    <3>2. CASE ~ Drawing(item)
      <4>1. view.committed # <<>>
        BY <1>6, <1>8, <2>2, <3>2 DEF Drawing
      <4>2. Fits(view.grid.c, cov)
        BY <1>3, <1>10, <2>2, <3>2, <4>1 DEF Painted
      <4> QED BY <1>6, <1>8, <2>2, <3>2, <4>2
    <3> QED BY <3>1, <3>2
  <2> QED BY <2>1, <2>2 DEF Painted
<1>11. Copied(final, rest)
  <2>1. \A i \in DOMAIN rest : rest[i].what # "frame" /\ rest[i].picture.c.kind # "none"
    BY <1>3, <1>4 DEF Copied
  <2> QED BY <1>8, <2>1 DEF Copied
<1>12. Shows(final, rest)
  <2> SUFFICES ASSUME final.cov.covered PROVE Painted(final, rest, final.cov)
    BY <1>11 DEF Shows
  <2>1. Painted(view, parser, view.cov)
    BY <1>2, <1>6, <1>8 DEF Brings, Shows
  <2>2. Painted(final, rest, view.cov)
    BY <1>10, <2>1
  <2> QED BY <1>6, <1>8, <2>2, SamePainted
<1>13. final.seq = view.seq /\ final.client = view.client /\ final.gen = view.gen /\ final.wire = view.wire
  BY <1>7, <1>9 DEF SameStream
<1>14. Brings(down', view', parser')
  <2>1. Brings(down, final, rest)
    BY <1>2, <1>10, <1>12, <1>13, SameBrings DEF Brings
  <2> QED BY <1>1, <2>1
<1>15. Serving'
  BY <1>1, <1>13 DEF OpeningInvariant, Serving, Last
<1>16. OpeningInvariant'
  BY <1>1, <1>13, <1>14, <1>15, NothingAsked, ViewOpening
<1>17. Len(parser) - 1 = 0 => rest = <<>>
  <2>1. rest \in Seq(ItemType) /\ Len(rest) = Len(parser) - 1
    BY <1>1, <1>2, HeadTailProperties DEF rest
  <2> QED BY <2>1, EmptySeq
<1>18. Waits(view, final) \/ (Len(parser) - 1 = 0 /\ Proven(final))
  BY <1>6, <1>8 DEF Waits
<1> QED BY <1>1, <1>16, <1>17, <1>18 DEF Opens

\* What the view does on its own leaves what it shows, or shows less.
LEMMA OwnOpening ==
    ASSUME Known, Typed', OpeningInvariant, UNCHANGED <<child, host, ring, sub, link, down, parser>>,
           Keeps(view, view'), Waits(view, view'), view'.client = view.client,
           view'.gen = view.gen, view'.wire = view.wire, view'.seq = view.seq,
           NEW more \in Seq(RequestType), up' = up \o more, \A i \in DOMAIN more : ~ Asks(more[i])
    PROVE  OpeningInvariant' /\ Opens
<1>1. Brings(down', view', parser')
  <2>1. Brings(down, view', parser)
    BY KeepsBrings DEF OpeningInvariant
  <2> QED BY <2>1
<1>2. Serving'
  BY DEF OpeningInvariant, Serving, Last
<1>3. parser = <<>> /\ view.committed = <<>> => parser' = <<>> /\ view'.committed = <<>>
  BY DEF Keeps
<1>4. \A i \in DOMAIN down' : down'[i].type = "hello" => i \in DOMAIN down /\ down[i].type = "hello"
  OBVIOUS
<1>5. OpeningInvariant'
  BY <1>1, <1>2, <1>3, <1>4, ViewOpening
<1> QED BY <1>5 DEF Opens

\* A timer fires.
LEMMA TimerOpening ==
    ASSUME Known, Typed', OpeningInvariant, SettleTimeout \/ HardTimeout
    PROVE  OpeningInvariant' /\ Opens
<1>1. UNCHANGED <<child, host, ring, sub, link, up, down, parser>>
  BY DEF SettleTimeout, HardTimeout, wire
<1>2. view \in ViewType
  BY DEF Known, Typed
<1>3. \/ view' = Finish(view, "deadline") \/ view' = [view EXCEPT !.settle = FALSE]
      \/ view' = [view EXCEPT !.hard = FALSE]
  BY DEF SettleTimeout, HardTimeout
<1>4. LET w == Finish(view, "deadline") IN SameStream(view, w) /\ Keeps(view, w) /\ Waits(view, w)
  BY <1>2, FinishFacts, FinishKeeps DEF Waits
<1>5. LET w == [view EXCEPT !.settle = FALSE] IN SameStream(view, w) /\ Keeps(view, w) /\ Waits(view, w)
  BY <1>2 DEF ViewType, SameStream, Keeps, Waits, Ident
<1>6. LET w == [view EXCEPT !.hard = FALSE] IN SameStream(view, w) /\ Keeps(view, w) /\ Waits(view, w)
  BY <1>2 DEF ViewType, SameStream, Keeps, Waits, Ident
<1>7. SameStream(view, view') /\ Keeps(view, view') /\ Waits(view, view')
  BY <1>3, <1>4, <1>5, <1>6
<1>8. up' = up \o <<>>
  BY <1>1, NothingAsked
<1> QED BY <1>1, <1>7, <1>8, NothingAsked, OwnOpening DEF SameStream

\* The window changes its size.
LEMMA ResizeOpening ==
    ASSUME Known, Typed', OpeningInvariant, NEW size \in Sizes, ResizeIfNeeded(size)
    PROVE  OpeningInvariant' /\ Opens
<1> DEFINE v == [view EXCEPT !.size = size]
<1>1. /\ view' = NoteGeometryIntent(v) /\ up' = IF link THEN Append(up, Resize(size)) ELSE up
      /\ UNCHANGED <<child, host, ring, sub, link, down, parser>>
  BY DEF ResizeIfNeeded
<1>2. view \in ViewType /\ up \in Seq(RequestType)
  BY DEF Known, Typed
<1>3. /\ v \in ViewType /\ v.gen = view.gen /\ v.wire = view.wire /\ v.client = view.client
      /\ v.seq = view.seq /\ v.hydration = view.hydration /\ v.opened = view.opened /\ v.cov = view.cov
  BY <1>2 DEF ViewType
<1> HIDE DEF v
<1>4. /\ SameStream(v, view') /\ Keeps(v, view') /\ Waits(v, view') /\ view'.committed = <<>>
  BY <1>1, <1>3, NoteGeometryFacts, NoteGeometryKeeps
<1>5. Keeps(view, view') /\ Waits(view, view')
  BY <1>3, <1>4 DEF Keeps, Waits
<1>6. PICK more \in Seq(RequestType) : up' = up \o more /\ \A i \in DOMAIN more : ~ Asks(more[i])
  <2>1. Resize(size) \in RequestType
    BY DEF Resize, RequestType
  <2>2. Append(up, Resize(size)) = up \o <<Resize(size)>>
    BY <1>2, <2>1, AppendIsConcat
  <2> QED BY <1>1, <2>2, NothingAsked
<1> QED BY <1>1, <1>3, <1>4, <1>5, <1>6, OwnOpening DEF SameStream

----------------------------------------------------------------------------
(* The view's socket comes and goes.                                       *)

\* A new socket brings a view that shows nothing, on which nothing is to be parsed.
LEMMA ConnectOpening ==
    ASSUME Known, Typed', OpeningInvariant, Connect
    PROVE  OpeningInvariant' /\ Opens
<1> DEFINE probing == view.client = "probing"
           c == CaptureRecovery(view)
           v == [c EXCEPT !.conn = @ + 1, !.committed = <<>>, !.wire = 0,
                          !.gate = TRUE, !.hard = Attaching(view)]
           w == [v EXCEPT !.client = IF probing THEN @ ELSE "reconciling"]
           hello == Identify("hello")
<1>1. /\ ~ link /\ parser = <<>> /\ link' /\ down' = <<hello>> /\ view' = DeferSettle(w)
      /\ up' = IF probing THEN <<Subscribe(0)>> ELSE <<>>
      /\ UNCHANGED <<child, host, ring, sub, parser>>
  BY DEF Connect
<1>2. view \in ViewType /\ sub.pc = "idle" /\ Proofs /\ Cursor
  BY <1>1 DEF Known, Typed, OpeningInvariant, Serving
<1>3. /\ c \in ViewType /\ SameStream(view, c) /\ Waits(view, c)
  BY <1>2, CaptureRecoveryFacts, OtherKeeps
<1>4. /\ v \in ViewType /\ v.gen = c.gen /\ v.wire = 0 /\ v.committed = <<>>
      /\ v.client = c.client /\ v.seq = c.seq /\ v.opened = c.opened
  <2> HIDE DEF c
  <2>1. c.conn + 1 \in Nat /\ Attaching(view) \in BOOLEAN
    BY <1>3 DEF ViewType, Attaching
  <2>2. ASSUME NEW n \in Nat, NEW x \in AtMostOne(CopyType), NEW b \in BOOLEAN
        PROVE  [c EXCEPT !.conn = n, !.committed = x, !.wire = 0, !.gate = TRUE, !.hard = b] \in ViewType
    <3>1. [c EXCEPT !.conn = n, !.committed = x] \in ViewType
      BY <1>3 DEF ViewType
    <3>2. ASSUME NEW d \in ViewType PROVE [d EXCEPT !.wire = 0, !.gate = TRUE] \in ViewType
      BY DEF ViewType
    <3>3. ASSUME NEW d \in ViewType PROVE [d EXCEPT !.hard = b] \in ViewType
      BY DEF ViewType
    <3> QED BY <3>1, <3>2, <3>3
  <2>3. v \in ViewType
    BY <2>1, <2>2, ConstantsTyped
  <2> QED BY <1>3, <2>3 DEF ViewType
<1> HIDE DEF v, c
<1>5. /\ w \in ViewType /\ w.gen = v.gen /\ w.wire = 0 /\ w.committed = <<>> /\ w.seq = v.seq
      /\ w.opened = v.opened
      /\ w.client = IF probing THEN "probing" ELSE "reconciling"
  BY SMTT(30), <1>3, <1>4 DEF ViewType, SameStream
<1> HIDE DEF w
<1>6. /\ SameStream(w, view') /\ Waits(w, view') /\ view'.committed = <<>>
  BY <1>1, <1>5, DeferSettleFacts, OtherKeeps DEF SameCopies
<1>7. /\ view'.gen = view.gen /\ view'.wire = 0 /\ view'.seq = view.seq
      /\ view'.client = IF probing THEN "probing" ELSE "reconciling"
      /\ Waits(view, view')
  BY <1>3, <1>4, <1>5, <1>6 DEF SameStream, Waits
<1>8. hello.type = "hello"
  BY DEF Identify
<1> HIDE DEF hello
<1>9. Brings(down', view', parser')
  <2>1. Shows(view', parser')
    BY <1>1, <1>6 DEF Shows, Copied, Painted
  <2>2. Stream(down', view', parser') /\ Replays(down', view', parser')
    BY <1>1, <1>8 DEF Stream, Ordered, Carries, Sound, Replays
  <2> QED BY <2>1, <2>2 DEF Brings
<1>10. Serving'
  BY <1>1, <1>2, <1>8 DEF Serving, Within, Carries
<1>11. Cursor'
  <2>1. ~ probing => up' = <<>>
    BY <1>1
  <2>2. \A i \in DOMAIN down' : i = 1
    BY <1>1
  <2>3. view'.gen = host'.gen => view'.seq <= Last'
    BY <1>1, <1>2, <1>7 DEF Cursor, Last
  <2>4. view'.client = "reconciling" => ~ probing
    BY <1>7
  <2>5. view'.client = "reconciling" => \A i \in DOMAIN up' : ~ Asks(up'[i])
    BY <2>1, <2>4
  <2> QED BY <1>1, <1>2, <1>7, <2>2, <2>3, <2>5 DEF Cursor
<1>12. Resumes'
  <2>1. \A i \in DOMAIN up' : up'[i].n = 0
    BY <1>1 DEF Subscribe
  <2> QED BY <2>1 DEF Resumes
<1>13. Proofs'
  BY <1>1, <1>2 DEF Proofs
<1> QED BY <1>7, <1>9, <1>10, <1>11, <1>12, <1>13 DEF OpeningInvariant, Opens

\* A socket is lost, with what is on it, and a host maybe replaced.
LEMMA DisconnectOpening ==
    ASSUME Known, Typed', OpeningInvariant, DropLink \/ ReplaceHost
    PROVE  OpeningInvariant' /\ Opens
<1>1. /\ ~ link' /\ up' = <<>> /\ down' = <<>> /\ sub' = NoSub
      /\ view' = CaptureRecovery(view) /\ UNCHANGED parser
  BY DEF DropLink, ReplaceHost, Disconnect
<1>2. view \in ViewType /\ Proofs /\ Cursor
  BY DEF Known, Typed, OpeningInvariant
<1>3. SameStream(view, view') /\ Keeps(view, view') /\ Waits(view, view')
  BY <1>1, <1>2, CaptureRecoveryFacts, OtherKeeps
<1>4. sub'.pc = "idle"
  BY <1>1 DEF NoSub
<1>5. Brings(down', view', parser')
  <2>1. Shows(view', parser)
    BY <1>3, KeepsShows DEF OpeningInvariant, Brings
  <2>2. Stream(down', view', parser') /\ Replays(down', view', parser')
    BY <1>1 DEF Stream, Ordered, Replays
  <2> QED BY <1>1, <2>1, <2>2 DEF Brings
<1>6. Serving'
  BY <1>1, <1>4 DEF Serving, Within
<1>7. Proofs' /\ (view'.gen = host'.gen => view'.seq <= Last')
  <2>1. CASE DropLink
    BY <1>2, <1>3, <2>1 DEF DropLink, Proofs, Cursor, Last, SameStream
  <2>2. CASE ReplaceHost
    <3>1. host'.gen = host.gen + 1 /\ child'.open = <<>> /\ ring' = <<>>
      BY <2>2 DEF ReplaceHost
    <3>2. host.gen \in Nat /\ view.gen \in Nat /\ view.gen <= host.gen
      BY DEF Known, Typed, HostType, ViewType, ShownInvariant, Knows
    <3>3. view'.gen # host'.gen
      BY <1>3, <3>1, <3>2 DEF SameStream
    <3> QED BY <3>1, <3>3 DEF Proofs
  <2> QED BY <2>1, <2>2
<1>8. Cursor'
  BY <1>1, <1>2, <1>3, <1>7 DEF Cursor, SameStream
<1>9. Resumes'
  BY <1>1 DEF Resumes
<1> QED BY <1>3, <1>5, <1>6, <1>7, <1>8, <1>9 DEF OpeningInvariant, Opens

\* The view starts with nothing on its screen and nothing on the wire.
LEMMA InitOpening ==
    ASSUME Init
    PROVE  OpeningInvariant
<1>1. /\ child.open = <<>> /\ ring = <<>> /\ sub.pc = "idle" /\ ~ link /\ up = <<>> /\ down = <<>>
      /\ parser = <<>> /\ host.gen = 1
  BY DEF Init, NoSub
<1>2. PICK width \in Sizes : view = NewView(width)
  BY DEF Init
<1>3. view.committed = <<>> /\ view.gen = 0 /\ view.seq = 0 /\ view.client = "probing"
  BY <1>2 DEF NewView
<1>4. Brings(down, view, parser)
  BY <1>1, <1>3 DEF Brings, Shows, Copied, Painted, Stream, Ordered, Replays
<1>5. Proofs /\ Serving
  BY <1>1 DEF Proofs, Serving, Within
<1>6. Cursor /\ Resumes
  BY <1>1, <1>3 DEF Cursor, Resumes
<1> QED BY <1>4, <1>5, <1>6 DEF OpeningInvariant

----------------------------------------------------------------------------
(* What opens the view.                                                    *)

\* Every step keeps the invariant, and opens the view by a deadline, or by a proof
\* when everything is parsed.
LEMMA OpeningStep ==
    ASSUME Known, Typed', OpeningInvariant, [Next]_vars
    PROVE  OpeningInvariant' /\ Opens
<1>1. CASE UNCHANGED vars
  <2>1. UNCHANGED <<child, host, ring, sub, link, up, down, view, parser>>
    BY <1>1 DEF vars
  <2>2. OpeningInvariant' /\ Opens
    BY <2>1, KeepsSelf, NothingAsked, OwnOpening
  <2> QED BY <2>2
<1>2. CASE Output \/ NoticeSize \/ HearIntent \/ ApplyResize \/ HearSubscribe \/ Capture
              \/ FinishSnapshot \/ EnableReporter \/ LoseReporter \/ ReplaceReporter
              \/ PeerConnects
  <2>1. OpeningInvariant'
    BY <1>2, OutputOpening, SilentSteps, SubscribeOpening, CaptureOpening, FinishOpening, TellingOpening
  <2>2. view' = view
    BY <1>2 DEF Output, NoticeSize, HearIntent, ApplyResize, HearSubscribe, Capture, FinishSnapshot,
                EnableReporter, LoseReporter, ReplaceReporter, PeerConnects
  <2> QED BY <2>1, <2>2 DEF Opens, Waits
<1>3. CASE Connect \/ DropLink \/ ReplaceHost
  BY <1>3, ConnectOpening, DisconnectOpening
<1>4. CASE HearStatus \/ HearHello \/ HearBegin \/ HearReady
  BY <1>4, StatusOpening, HelloOpening, BeginOpening, ReadyOpening
<1>5. CASE RejectBegin \/ RejectFrame \/ RejectEnd \/ HearOutput \/ HearRecord \/ HearState
  BY <1>5, RejectOpening, FrameOpening, ChunkOpening, RecordOpening, StateOpening
<1>6. CASE Parse \/ SettleTimeout \/ HardTimeout
  BY <1>6, ParseOpening, TimerOpening
<1>7. CASE \E size \in Sizes : ResizeIfNeeded(size)
  BY <1>7, ResizeOpening
<1> QED BY <1>1, <1>2, <1>3, <1>4, <1>5, <1>6, <1>7 DEF Next

\* What FirstViewIsProven says of a step.
OpensProven ==
    view.opened = "no" /\ view'.opened = "proof" /\ ~ view'.behind =>
        \E i \in DOMAIN Shown(view') :
           LET s == Shown(view')[i].picture IN
           /\ s = view'.grid
           /\ s.c.proof /\ s.c.size = view'.size
           /\ view'.required => s.c.rev = view'.rev

\* A view that a proof opens shows the frame that is proven.
LEMMA OpensWithFrame ==
    ASSUME Typed', OpeningInvariant', Opens
    PROVE  OpensProven
<1> SUFFICES ASSUME view.opened = "no", view'.opened = "proof", ~ view'.behind
             PROVE  \E i \in DOMAIN Shown(view') :
                       LET s == Shown(view')[i].picture IN
                       /\ s = view'.grid
                       /\ s.c.proof /\ s.c.size = view'.size
                       /\ view'.required => s.c.rev = view'.rev
  BY DEF OpensProven
<1>1. parser' = <<>> /\ Proven(view')
  BY DEF Opens, Waits
<1>2. PICK v : v = view'
  OBVIOUS
<1>3. v.committed # <<>> /\ Publish(v)
  BY <1>1, <1>2 DEF Proven
<1>4. /\ v.cov.covered /\ v.cov.size = v.size /\ ~ v.sync /\ v.received
      /\ v.required => v.cov.rev = v.rev
  BY <1>3 DEF Publish
<1>5. Shows(v, <<>>)
  BY <1>1, <1>2 DEF OpeningInvariant, Brings
<1>6. ~ v.gate /\ v.committed[1].ident = Ident(v) /\ v.committed[1].picture = v.grid
  BY <1>2, <1>3, <1>4, <1>5 DEF Shows, Copied
<1>7. Fits(v.grid.c, v.cov)
  BY <1>3, <1>4, <1>5 DEF Shows, Painted, Settled
<1>8. Shown(v) = v.committed
  BY <1>2, <1>3, <1>4, <1>6 DEF Shown, Attaching
<1>9. 1 \in DOMAIN v.committed
  <2>1. v \in ViewType
    BY <1>2 DEF Typed
  <2> QED BY <1>3, <2>1 DEF ViewType, AtMostOne
<1> QED BY <1>2, <1>4, <1>6, <1>7, <1>8, <1>9 DEF Fits

\* The banner gives way to a proof only for a frame that the reporter proved, at the
\* view's size and after its last resize, and that frame is what is shown, in whatever
\* order proof, output, resize, reconnect and parser come (evaluateAttachReady,
\* decideAttachPresentation).
THEOREM OpensWithProof == Spec => FirstViewIsProven
<1> DEFINE Inv == Typed /\ ShownInvariant /\ OpeningInvariant
<1>1. Init => Inv
  BY InitShown, InitOpening
<1>2. Inv /\ [Next]_vars => Inv' /\ OpensProven
  <2> SUFFICES ASSUME Typed, ShownInvariant, OpeningInvariant, [Next]_vars
               PROVE  Inv' /\ OpensProven
    OBVIOUS
  <2>1. Typed' /\ ShownInvariant'
    BY ShownStep
  <2>2. OpeningInvariant' /\ Opens
    BY <2>1, OpeningStep DEF Known
  <2> QED BY <2>1, <2>2, OpensWithFrame
<1>3. Inv /\ [Next]_vars => [OpensProven]_vars
  BY <1>2
<1>4. Spec => [][OpensProven]_vars
  <2> HIDE DEF Inv
  <2> QED BY <1>1, <1>2, <1>3, PTL DEF Spec
<1> QED BY <1>4 DEF FirstViewIsProven, OpensProven
=============================================================================
