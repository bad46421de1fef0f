--------------------------- MODULE LhatTypesProofs ---------------------------
(***************************************************************************)
(* What is known of a name stays true of its value through any nesting of  *)
(* branches and loops, where a single test, and a single move, is right.   *)
(***************************************************************************)
EXTENDS LhatTypesProps, SequenceTheorems, WellFoundedInduction, TLAPS

(***************************************************************************)
(* The invariant.                                                          *)
(***************************************************************************)
\* What a narrowing may say of v: nothing, or a list that is true of it.
Facts(lists, v) == {<<>>} \cup {known \in lists : Carries(v, known)}

\* A loop keeps what was known before it, for its next turn.
Blocks(lists, v) ==
    [kind : {"branch"}, mark : Nat, head : {None}, asks : {None}]
      \cup [kind : Conditional, mark : Nat, head : Seq(Facts(lists, v)), asks : Tests]
      \cup [kind : {"counted"}, mark : Nat, head : Seq(Facts(lists, v)), asks : {None}]

\* Each block ends no later than the ones inside it, and where a loop's next
\* turn starts is where its end will be.
Nested(fs, blocks) ==
    /\ \A i \in DOMAIN blocks :
          /\ blocks[i].mark <= Len(fs)
          /\ blocks[i].kind # "branch" => Len(blocks[i].head) = blocks[i].mark
    /\ \A i, j \in DOMAIN blocks : i <= j => blocks[i].mark <= blocks[j].mark

Believed(lists) ==
    /\ seat \in Seats /\ value \in Values /\ Carries(value, ArmsOf(seat))
    /\ facts \in Seq(Facts(lists, value))
    /\ open \in Seq(Blocks(lists, value))
    /\ Nested(facts, open)

-----------------------------------------------------------------------------
(* The latest narrowing.                                                   *)

\* A set of positions with a member has a greatest one.
LEMMA GreatestIn ==
  ASSUME NEW n \in Nat, NEW S \in SUBSET (1..n), S # {}
  PROVE  Max(S) \in S
<1> DEFINE Above == {k \in Nat : \A x \in S : x <= k}
           R == OpToRel(<, Nat)
<1>1. n \in Above
  OBVIOUS
<1>2. PICK k \in Above : \A y \in Above : ~(<<y, k>> \in R)
  <2>1. Above \subseteq Nat
    OBVIOUS
  <2>2. Above # {}
    BY <1>1
  <2> HIDE DEF Above
  <2>3. QED
    BY NatLessThanWellFounded, <2>1, <2>2, WFMin, Zenon
<1>3. k \in Nat /\ \A x \in S : x <= k
  OBVIOUS
<1>4. k \in S
  <2>1. SUFFICES ASSUME k \notin S PROVE FALSE
    OBVIOUS
  <2>2. \A x \in S : x \in 1..n /\ x <= k /\ x # k
    BY <1>3, <2>1
  <2>3. k - 1 \in Nat /\ \A x \in S : x <= k - 1
    <3>1. ASSUME NEW x \in S PROVE x <= k - 1 /\ k - 1 \in Nat
      BY <1>3, <2>2
    <3>2. QED
      BY <3>1
  <2>4. k - 1 \in Above
    BY <2>3
  <2>5. <<k - 1, k>> \in R
    BY <1>3, <2>3 DEF OpToRel
  <2>6. QED
    BY <1>2, <2>4, <2>5, Zenon
<1>5. \E x \in S : \A y \in S : x >= y
  BY <1>3, <1>4
<1>6. QED
  BY <1>5, Zenon DEF Max

\* What is known of a name is true of what it holds.
LEMMA KnownCarries ==
  ASSUME NEW lists, NEW v, NEW fs \in Seq(Facts(lists, v)),
         ArmsOf(seat) \in lists, Carries(v, ArmsOf(seat))
  PROVE  KnownBy(fs) \in lists /\ Carries(v, KnownBy(fs))
<1> DEFINE live == {i \in DOMAIN fs : fs[i] # <<>>}
<1>1. CASE live = {}
  BY <1>1 DEF KnownBy
<1>2. CASE live # {}
  <2>1. Len(fs) \in Nat /\ live \in SUBSET (1..Len(fs))
    OBVIOUS
  <2>2. Max(live) \in live
    <3> HIDE DEF live
    <3>1. QED
      BY <1>2, <2>1, GreatestIn
  <2>3. fs[Max(live)] \in Facts(lists, v) /\ fs[Max(live)] # <<>>
    <3> DEFINE m == Max(live)
    <3>1. m \in DOMAIN fs /\ fs[m] # <<>>
      BY <2>2
    <3> HIDE DEF m
    <3>2. fs[m] \in Facts(lists, v)
      BY <3>1
    <3>3. QED
      BY <3>1, <3>2 DEF m
  <2>4. KnownBy(fs) = fs[Max(live)]
    BY <1>2 DEF KnownBy
  <2>5. QED
    BY <2>3, <2>4 DEF Facts
<1>3. QED
  BY <1>1, <1>2

\* A test that is answered as the machine would leaves a narrowing that is
\* true, or none.
LEMMA PushCarries ==
  ASSUME NEW lists, EachTestIsSound(lists), NEW v \in Values,
         NEW fs \in Seq(Facts(lists, v)), NEW w \in Tests,
         ArmsOf(seat) \in lists, Carries(v, ArmsOf(seat)),
         NEW after \in Push(fs, w, Holds(v, w))
  PROVE  after \in Seq(Facts(lists, v)) /\ Len(fs) <= Len(after)
<1> DEFINE known == KnownBy(fs)
           left == Inside(known, w, Holds(v, w))
<1>1. known \in lists /\ Carries(v, known)
  BY KnownCarries
<1>2. after = (IF left = <<>> THEN fs ELSE Append(fs, left))
  BY Zenon DEF Push
<1>3. left # <<>> => left \in lists /\ Carries(v, left)
  BY <1>1, Zenon DEF EachTestIsSound
<1> HIDE DEF left, known
<1>4. left # <<>> => left \in Facts(lists, v)
  BY <1>3 DEF Facts
<1>5. QED
  BY <1>2, <1>4

\* The answer of a test is the machine's, wherever what is known is true.
LEMMA AnswerHolds ==
  ASSUME NEW lists, EachTestIsSound(lists), NEW v \in Values,
         NEW fs \in Seq(Facts(lists, v)), NEW w \in Tests,
         ArmsOf(seat) \in lists, Carries(v, ArmsOf(seat))
  PROVE  Answer(v, KnownBy(fs), w) = Holds(v, w)
BY KnownCarries, Zenon DEF EachTestIsSound

LEMMA EmptiedCarries ==
  ASSUME NEW lists, NEW v, NEW u, NEW fs \in Seq(Facts(lists, u))
  PROVE  Emptied(fs) \in Seq(Facts(lists, v)) /\ Len(Emptied(fs)) = Len(fs)
BY DEF Emptied, Facts

LEMMA ReadCarries ==
  ASSUME NEW lists, NEW v, NEW fs \in Seq(Facts(lists, v)), NEW after \in Read(fs)
  PROVE  after \in Seq(Facts(lists, v)) /\ Len(after) = Len(fs)
BY EmptiedCarries DEF Read

-----------------------------------------------------------------------------
(* Blocks open and end.                                                    *)

LEMMA Opened ==
  ASSUME NEW lists, NEW v, NEW fs \in Seq(Facts(lists, v)),
         NEW after \in Seq(Facts(lists, v)), Len(fs) <= Len(after),
         NEW blocks \in Seq(Blocks(lists, v)), Nested(fs, blocks),
         NEW b \in Blocks(lists, v), b.mark = Len(fs),
         b.kind # "branch" => b.head = fs
  PROVE  /\ Append(blocks, b) \in Seq(Blocks(lists, v))
         /\ Nested(after, Append(blocks, b))
<1> DEFINE n == Len(blocks)  more == Append(blocks, b)
<1>1. /\ n \in Nat /\ Len(fs) \in Nat /\ Len(after) \in Nat
      /\ more \in Seq(Blocks(lists, v)) /\ DOMAIN more = 1..(n + 1)
      /\ DOMAIN blocks = 1..n
      /\ \A i \in 1..n : more[i] = blocks[i]
      /\ more[n + 1] = b
  OBVIOUS
<1>2. \A i \in 1..n : blocks[i].mark \in Nat
  BY <1>1 DEF Blocks
<1> HIDE DEF n, more
<1>3. ASSUME NEW i \in DOMAIN more
      PROVE  /\ more[i].mark <= Len(after)
             /\ more[i].kind # "branch" => Len(more[i].head) = more[i].mark
  <2>1. CASE i = n + 1
    BY <1>1, <2>1
  <2>2. CASE i \in 1..n
    BY <1>1, <1>2, <2>2 DEF Nested
  <2>3. QED
    BY <1>1, <1>3, <2>1, <2>2
<1>4. ASSUME NEW i \in DOMAIN more, NEW j \in DOMAIN more, i <= j
      PROVE  more[i].mark <= more[j].mark
  <2>1. CASE j \in 1..n
    BY <1>1, <1>4, <2>1 DEF Nested
  <2>2. CASE j = n + 1 /\ i \in 1..n
    BY <1>1, <2>2 DEF Nested
  <2>3. CASE i = n + 1 /\ j = n + 1
    BY <1>1, <2>3
  <2>4. QED
    BY <1>1, <1>4, <2>1, <2>2, <2>3
<1>5. QED
  BY <1>1, <1>3, <1>4 DEF Nested, more

LEMMA Closed ==
  ASSUME NEW lists, NEW v, NEW fs \in Seq(Facts(lists, v)),
         NEW blocks \in Seq(Blocks(lists, v)), blocks # <<>>, Nested(fs, blocks),
         NEW after \in Seq(Facts(lists, v)), Len(after) = blocks[Len(blocks)].mark
  PROVE  /\ Front(blocks) \in Seq(Blocks(lists, v))
         /\ Nested(after, Front(blocks))
<1> DEFINE n == Len(blocks)  less == Front(blocks)
<1>1. /\ n \in Nat \ {0} /\ DOMAIN blocks = 1..n /\ n \in DOMAIN blocks
      /\ less = SubSeq(blocks, 1, n - 1)
  BY DEF Front
<1>2. /\ less \in Seq(Blocks(lists, v)) /\ DOMAIN less = 1..(n - 1)
      /\ \A i \in 1..(n - 1) : less[i] = blocks[i]
  BY <1>1
<1> HIDE DEF n, less
<1>3. \A i \in DOMAIN less : /\ less[i] = blocks[i] /\ i \in DOMAIN blocks /\ i <= n
  BY <1>1, <1>2
<1>4. Len(after) = blocks[n].mark
  BY DEF n
<1>5. \A i \in DOMAIN less :
         /\ less[i].mark <= Len(after)
         /\ less[i].kind # "branch" => Len(less[i].head) = less[i].mark
  BY <1>1, <1>3, <1>4 DEF Nested
<1>6. \A i, j \in DOMAIN less : i <= j => less[i].mark <= less[j].mark
  BY <1>3 DEF Nested
<1>7. QED
  BY <1>2, <1>5, <1>6 DEF Nested, less

\* What an end gives back was there before.
LEMMA PoppedCarries ==
  ASSUME NEW lists, NEW v, NEW fs \in Seq(Facts(lists, v)),
         NEW mark \in Nat, mark <= Len(fs)
  PROVE  Popped(fs, mark) \in Seq(Facts(lists, v)) /\ Len(Popped(fs, mark)) = mark
BY DEF Popped

LEMMA HereIs ==
  ASSUME NEW lists, Believed(lists), open # <<>>
  PROVE  /\ Here \in Blocks(lists, value) /\ Here.mark \in Nat /\ Here.mark <= Len(facts)
         /\ Here.kind # "branch" => Len(Here.head) = Here.mark
<1>1. Len(open) \in DOMAIN open
  BY DEF Believed
<1>2. Here \in Blocks(lists, value)
  BY <1>1 DEF Believed, Here
<1>3. QED
  BY <1>1, <1>2 DEF Believed, Nested, Here, Blocks

-----------------------------------------------------------------------------
(* Every step keeps the invariant.                                         *)
Sound(lists) ==
    EachTestIsSound(lists) /\ EachMoveIsSound(lists) /\ ~MayWriteInLoops

LEMMA InitBelieved ==
  ASSUME NEW lists, Sound(lists), Init
  PROVE  Believed(lists)
<1>1. seat \in Seats /\ value \in Values /\ Carries(value, ArmsOf(seat))
  BY DEF Init, Sound, EachMoveIsSound
<1>2. facts = <<>> /\ open = <<>>
  BY DEF Init
<1>3. QED
  BY <1>1, <1>2 DEF Believed, Nested

LEMMA SeatIs ==
  ASSUME NEW lists, Sound(lists), Believed(lists)
  PROVE  /\ seat \in Seats /\ value \in Values
         /\ ArmsOf(seat) \in lists /\ Carries(value, ArmsOf(seat))
         /\ facts \in Seq(Facts(lists, value))
         /\ open \in Seq(Blocks(lists, value)) /\ Nested(facts, open)
         /\ EachTestIsSound(lists)
BY DEF Believed, Sound, EachMoveIsSound

LEMMA EnterBranchBelieved ==
  ASSUME NEW lists, Sound(lists), Believed(lists), EnterBranch
  PROVE  Believed(lists)'
<1> DEFINE b == Block("branch", None, None)
<1>0. /\ seat \in Seats /\ value \in Values
      /\ ArmsOf(seat) \in lists /\ Carries(value, ArmsOf(seat))
      /\ facts \in Seq(Facts(lists, value))
      /\ open \in Seq(Blocks(lists, value)) /\ Nested(facts, open)
      /\ EachTestIsSound(lists)
  BY SeatIs
<1> USE <1>0
<1>1. PICK w \in Tests : Answer(value, Known, w) /\ facts' \in Push(facts, w, TRUE)
  BY DEF EnterBranch
<1>2. Holds(value, w) = TRUE
  BY <1>1, AnswerHolds DEF Known, Holds
<1>3. facts' \in Push(facts, w, Holds(value, w))
  BY <1>1, <1>2
<1>4. facts' \in Seq(Facts(lists, value)) /\ Len(facts) <= Len(facts')
  BY <1>3, PushCarries
<1>5. b \in Blocks(lists, value) /\ b.mark = Len(facts) /\ b.kind = "branch"
  BY DEF Block, Blocks
<1>6. open' = Append(open, b) /\ seat' = seat /\ value' = value
  BY DEF EnterBranch
<1> HIDE DEF b
<1>7. /\ Append(open, b) \in Seq(Blocks(lists, value))
      /\ Nested(facts', Append(open, b))
  BY <1>4, <1>5, Opened
<1>8. QED
  BY <1>4, <1>6, <1>7 DEF Believed

LEMMA DeniedCarries ==
  ASSUME NEW lists, Sound(lists), Believed(lists), NEW after \in Denied
  PROVE  after \in Seq(Facts(lists, value)) /\ Len(facts) <= Len(after)
<1>0. /\ seat \in Seats /\ value \in Values
      /\ ArmsOf(seat) \in lists /\ Carries(value, ArmsOf(seat))
      /\ facts \in Seq(Facts(lists, value))
      /\ open \in Seq(Blocks(lists, value)) /\ Nested(facts, open)
      /\ EachTestIsSound(lists)
  BY SeatIs
<1> USE <1>0
<1>1. PICK w \in {t \in Tests : ~Answer(value, Known, t)} :
          after \in UNION {Push(fs, w, FALSE) : fs \in Read(facts)}
  BY Zenon DEF Denied
<1>2. PICK fs \in Read(facts) : after \in Push(fs, w, FALSE)
  BY <1>1, Zenon
<1>3. w \in Tests /\ ~Answer(value, Known, w)
  OBVIOUS
<1>4. Holds(value, w) = FALSE
  <2>1. Answer(value, Known, w) = Holds(value, w)
    BY <1>3, AnswerHolds DEF Known
  <2>2. Holds(value, w) \in BOOLEAN
    BY DEF Holds
  <2>3. Holds(value, w) # TRUE
    BY <1>3, <2>1
  <2>4. QED
    BY <2>2, <2>3
<1>5. fs \in Seq(Facts(lists, value)) /\ Len(fs) = Len(facts)
  BY ReadCarries
<1>6. after \in Push(fs, w, Holds(value, w))
  BY <1>2, <1>4
<1>7. QED
  BY <1>3, <1>5, <1>6, PushCarries

LEMMA EnterElseBelieved ==
  ASSUME NEW lists, Sound(lists), Believed(lists), EnterElse
  PROVE  Believed(lists)'
<1> DEFINE b == Block("branch", None, None)
<1>0. /\ seat \in Seats /\ value \in Values
      /\ ArmsOf(seat) \in lists /\ Carries(value, ArmsOf(seat))
      /\ facts \in Seq(Facts(lists, value))
      /\ open \in Seq(Blocks(lists, value)) /\ Nested(facts, open)
      /\ EachTestIsSound(lists)
  BY SeatIs
<1> USE <1>0
<1>1. facts' \in Seq(Facts(lists, value)) /\ Len(facts) <= Len(facts')
  BY DeniedCarries DEF EnterElse
<1>2. b \in Blocks(lists, value) /\ b.mark = Len(facts) /\ b.kind = "branch"
  BY DEF Block, Blocks
<1>3. open' = Append(open, b) /\ seat' = seat /\ value' = value
  BY DEF EnterElse
<1> HIDE DEF b
<1>4. /\ Append(open, b) \in Seq(Blocks(lists, value))
      /\ Nested(facts', Append(open, b))
  BY <1>1, <1>2, Opened
<1>5. QED
  BY <1>1, <1>3, <1>4 DEF Believed

\* More known than before disturbs no block.
LEMMA NestedOn ==
  ASSUME NEW lists, NEW v, NEW fs \in Seq(Facts(lists, v)),
         NEW after \in Seq(Facts(lists, v)), Len(fs) <= Len(after),
         NEW blocks \in Seq(Blocks(lists, v)), Nested(fs, blocks)
  PROVE  Nested(after, blocks)
<1>1. \A i \in DOMAIN blocks : blocks[i].mark \in Nat
  BY DEF Blocks
<1>2. Len(fs) \in Nat /\ Len(after) \in Nat
  OBVIOUS
<1>3. QED
  BY <1>1, <1>2 DEF Nested

LEMMA PassByBelieved ==
  ASSUME NEW lists, Sound(lists), Believed(lists), PassBy
  PROVE  Believed(lists)'
<1>0. /\ seat \in Seats /\ value \in Values
      /\ ArmsOf(seat) \in lists /\ Carries(value, ArmsOf(seat))
      /\ facts \in Seq(Facts(lists, value))
      /\ open \in Seq(Blocks(lists, value)) /\ Nested(facts, open)
      /\ EachTestIsSound(lists)
  BY SeatIs
<1> USE <1>0
<1>1. facts' \in Seq(Facts(lists, value)) /\ Len(facts) <= Len(facts')
  <2>1. CASE facts' \in Read(facts)
    BY <2>1, ReadCarries
  <2>2. CASE facts' \in Denied
    BY <2>2, DeniedCarries
  <2>3. QED
    BY <2>1, <2>2 DEF PassBy
<1>2. seat' = seat /\ value' = value /\ open' = open
  BY DEF PassBy
<1>3. Nested(facts', open)
  BY <1>1, NestedOn
<1>4. QED
  BY <1>1, <1>2, <1>3 DEF Believed

\* Popping, and reading what was stepped over.
LEMMA EndBelieved ==
  ASSUME NEW lists, Sound(lists), Believed(lists), open # <<>>,
         facts' \in Read(Popped(facts, Here.mark)), open' = Front(open),
         seat' = seat, value' = value
  PROVE  Believed(lists)'
<1>0. /\ seat \in Seats /\ value \in Values
      /\ ArmsOf(seat) \in lists /\ Carries(value, ArmsOf(seat))
      /\ facts \in Seq(Facts(lists, value))
      /\ open \in Seq(Blocks(lists, value)) /\ Nested(facts, open)
      /\ EachTestIsSound(lists)
  BY SeatIs
<1> USE <1>0
<1>1. Here.mark \in Nat /\ Here.mark <= Len(facts)
  BY HereIs
<1>2. /\ Popped(facts, Here.mark) \in Seq(Facts(lists, value))
      /\ Len(Popped(facts, Here.mark)) = Here.mark
  BY <1>1, PoppedCarries
<1>3. facts' \in Seq(Facts(lists, value)) /\ Len(facts') = Here.mark
  BY <1>2, ReadCarries
<1>4. Front(open) \in Seq(Blocks(lists, value)) /\ Nested(facts', Front(open))
  BY <1>3, Closed DEF Here
<1>5. QED
  BY <1>3, <1>4 DEF Believed

LEMMA EnterLoopBelieved ==
  ASSUME NEW lists, Sound(lists), Believed(lists), EnterLoop
  PROVE  Believed(lists)'
<1>0. /\ seat \in Seats /\ value \in Values
      /\ ArmsOf(seat) \in lists /\ Carries(value, ArmsOf(seat))
      /\ facts \in Seq(Facts(lists, value))
      /\ open \in Seq(Blocks(lists, value)) /\ Nested(facts, open)
      /\ EachTestIsSound(lists)
  BY SeatIs
<1> USE <1>0
<1>1. PICK w \in LoopTests : \E holds \in {Answer(value, Known, w)} :
          /\ facts' \in Push(facts, w, holds)
          /\ open' = Append(open, Block(IF holds THEN "while" ELSE "until", facts, w))
  BY Zenon DEF EnterLoop
<1>. w \in Tests
  BY LoopTestsAssumption
<1> DEFINE kind == IF Holds(value, w) THEN "while" ELSE "until"
           b == Block(kind, facts, w)
<1>2. Answer(value, Known, w) = Holds(value, w)
  BY AnswerHolds DEF Known
<1>3. facts' \in Push(facts, w, Holds(value, w)) /\ open' = Append(open, b)
  BY <1>1, <1>2
<1>4. facts' \in Seq(Facts(lists, value)) /\ Len(facts) <= Len(facts')
  BY <1>3, PushCarries
<1>5. b \in Blocks(lists, value) /\ b.mark = Len(facts) /\ b.head = facts
  BY DEF Block, Blocks, Conditional
<1>6. open' = Append(open, b) /\ seat' = seat /\ value' = value
  BY <1>3 DEF EnterLoop
<1> HIDE DEF b
<1>7. /\ Append(open, b) \in Seq(Blocks(lists, value))
      /\ Nested(facts', Append(open, b))
  BY <1>4, <1>5, Opened
<1>8. QED
  BY <1>4, <1>6, <1>7 DEF Believed

LEMMA EnterCountedBelieved ==
  ASSUME NEW lists, Sound(lists), Believed(lists), EnterCounted
  PROVE  Believed(lists)'
<1> DEFINE b == Block("counted", facts, None)
<1>0. /\ seat \in Seats /\ value \in Values
      /\ ArmsOf(seat) \in lists /\ Carries(value, ArmsOf(seat))
      /\ facts \in Seq(Facts(lists, value))
      /\ open \in Seq(Blocks(lists, value)) /\ Nested(facts, open)
      /\ EachTestIsSound(lists)
  BY SeatIs
<1> USE <1>0
<1>1. b \in Blocks(lists, value) /\ b.mark = Len(facts) /\ b.head = facts
  BY DEF Block, Blocks
<1>2. open' = Append(open, b) /\ seat' = seat /\ value' = value /\ facts' = facts
  BY DEF EnterCounted
<1> HIDE DEF b
<1>3. /\ Append(open, b) \in Seq(Blocks(lists, value))
      /\ Nested(facts, Append(open, b))
  BY <1>1, Opened
<1>4. QED
  BY <1>2, <1>3 DEF Believed

LEMMA NextTurnBelieved ==
  ASSUME NEW lists, Sound(lists), Believed(lists), NextTurn
  PROVE  Believed(lists)'
<1>0. /\ seat \in Seats /\ value \in Values
      /\ ArmsOf(seat) \in lists /\ Carries(value, ArmsOf(seat))
      /\ facts \in Seq(Facts(lists, value))
      /\ open \in Seq(Blocks(lists, value)) /\ Nested(facts, open)
      /\ EachTestIsSound(lists)
  BY SeatIs
<1> USE <1>0
<1>1. open # <<>> /\ seat' = seat /\ value' = value /\ open' = open
  BY DEF NextTurn
<1>2. /\ Here \in Blocks(lists, value) /\ Here.mark \in Nat
      /\ Here.kind # "branch" => Len(Here.head) = Here.mark
  BY <1>1, HereIs
<1>3. facts' \in Seq(Facts(lists, value)) /\ Here.mark <= Len(facts')
  <2>1. CASE Here.kind \in Conditional
    <3>1. Here.head \in Seq(Facts(lists, value)) /\ Here.asks \in Tests
          /\ Len(Here.head) = Here.mark
      BY <1>2, <2>1 DEF Blocks, Conditional
    <3>2. /\ Answer(value, KnownBy(Here.head), Here.asks) = (Here.kind = "while")
          /\ facts' \in Push(Here.head, Here.asks, Here.kind = "while")
      BY <2>1 DEF NextTurn, Conditional
    <3>3. Holds(value, Here.asks) = (Here.kind = "while")
      BY <3>1, <3>2, AnswerHolds
    <3>4. facts' \in Push(Here.head, Here.asks, Holds(value, Here.asks))
      BY <3>2, <3>3
    <3>5. QED
      BY <3>1, <3>4, PushCarries
  <2>2. CASE Here.kind = "counted"
    BY <1>2, <2>2 DEF Blocks, NextTurn, Conditional
  <2>3. QED
    BY <2>1, <2>2 DEF NextTurn
<1>4. Nested(facts', open)
  <2>1. \A i \in DOMAIN open : open[i].mark <= Here.mark /\ open[i].mark \in Nat
    <3>1. Len(open) \in DOMAIN open /\ \A i \in DOMAIN open : i <= Len(open)
      BY <1>1
    <3>2. QED
      BY <3>1 DEF Nested, Here, Blocks
  <2>2. Len(facts') \in Nat
    BY <1>3
  <2>3. \A i \in DOMAIN open : open[i].mark <= Len(facts')
    BY <1>2, <1>3, <2>1, <2>2
  <2>4. QED
    BY <2>3 DEF Nested
<1>5. QED
  BY <1>1, <1>3, <1>4 DEF Believed

\* A write empties what is known, and the loops around it had known nothing
\* but the declaration.
LEMMA WriteBelieved ==
  ASSUME NEW lists, Sound(lists), Believed(lists), Write
  PROVE  Believed(lists)'
<1>0. /\ seat \in Seats /\ value \in Values
      /\ ArmsOf(seat) \in lists /\ Carries(value, ArmsOf(seat))
      /\ facts \in Seq(Facts(lists, value))
      /\ open \in Seq(Blocks(lists, value)) /\ Nested(facts, open)
      /\ EachTestIsSound(lists)
  BY SeatIs
<1> USE <1>0
<1>1. /\ value' \in Values /\ TakenBy(<<Held[value'].type>>, seat)
      /\ facts' = Emptied(facts) /\ seat' = seat /\ open' = open
  BY DEF Write
<1>2. Carries(value', ArmsOf(seat))
  BY <1>1 DEF Sound, EachMoveIsSound
<1>3. facts' \in Seq(Facts(lists, value')) /\ Len(facts') = Len(facts)
  BY <1>1, EmptiedCarries
<1>4. ArmsOf(seat) \in Facts(lists, value')
  BY <1>2 DEF Facts
<1>5. ASSUME NEW i \in DOMAIN open
      PROVE  open[i] \in Blocks(lists, value')
  <2>1. open[i] \in Blocks(lists, value)
    OBVIOUS
  <2>2. CASE open[i].kind = "branch"
    BY <2>1, <2>2 DEF Blocks, Conditional
  <2>3. CASE open[i].kind # "branch"
    <3> DEFINE head == open[i].head
    <3>1. \A k \in DOMAIN head : head[k] \in {<<>>, ArmsOf(seat)}
      BY <2>3 DEF Write, Narrows, Sound
    <3>2. head \in Seq(Facts(lists, value))
      BY <2>1, <2>3 DEF Blocks
    <3> HIDE DEF head
    <3>3. \A k \in DOMAIN head : head[k] \in Facts(lists, value')
      BY <1>4, <3>1 DEF Facts
    <3>4. head \in Seq(Facts(lists, value'))
      BY <3>2, <3>3
    <3>5. QED
      BY <2>1, <2>3, <3>4 DEF Blocks, head
  <2>4. QED
    BY <2>2, <2>3
<1>6. open \in Seq(Blocks(lists, value'))
  BY <1>5
<1>7. Nested(facts', open)
  BY <1>3 DEF Nested
<1>8. QED
  BY <1>1, <1>2, <1>3, <1>6, <1>7 DEF Believed

LEMMA MoveBelieved ==
  ASSUME NEW lists, Sound(lists), Believed(lists), Move
  PROVE  Believed(lists)'
<1>0. /\ seat \in Seats /\ value \in Values
      /\ ArmsOf(seat) \in lists /\ Carries(value, ArmsOf(seat))
      /\ facts \in Seq(Facts(lists, value))
      /\ open \in Seq(Blocks(lists, value)) /\ Nested(facts, open)
      /\ EachTestIsSound(lists)
  BY SeatIs
<1> USE <1>0
<1>1. Known \in lists /\ Carries(value, Known)
  BY KnownCarries DEF Known
<1>2. /\ \A i \in DOMAIN Known : Kind(Known[i]) # "unknown"
      /\ seat' \in Seats /\ TakenBy(Known, seat')
      /\ facts' = <<>> /\ open' = <<>> /\ value' = value
  BY DEF Move
<1>3. Carries(value, ArmsOf(seat'))
  BY <1>1, <1>2, Zenon DEF Sound, EachMoveIsSound
<1>4. QED
  BY <1>2, <1>3 DEF Believed, Nested

LEMMA NextBelieved ==
  ASSUME NEW lists, Sound(lists), Believed(lists), [Next]_vars
  PROVE  Believed(lists)'
<1>1. CASE EnterBranch
  BY <1>1, EnterBranchBelieved
<1>2. CASE EnterElse
  BY <1>2, EnterElseBelieved
<1>3. CASE PassBy
  BY <1>3, PassByBelieved
<1>4. CASE EndBranch
  BY <1>4, EndBelieved DEF EndBranch
<1>5. CASE EnterLoop
  BY <1>5, EnterLoopBelieved
<1>6. CASE EnterCounted
  BY <1>6, EnterCountedBelieved
<1>7. CASE NextTurn
  BY <1>7, NextTurnBelieved
<1>8. CASE EndLoop
  BY <1>8, EndBelieved DEF EndLoop
<1>9. CASE Write
  BY <1>9, WriteBelieved
<1>10. CASE Move
  BY <1>10, MoveBelieved
<1>11. CASE UNCHANGED vars
  BY <1>11 DEF vars, Believed
<1>12. QED
  BY <1>1, <1>2, <1>3, <1>4, <1>5, <1>6, <1>7, <1>8, <1>9, <1>10, <1>11 DEF Next

-----------------------------------------------------------------------------
\* What is known of a name is true of the value it holds (chk_only,
\* chk_without and the popping of narrowings, check_narrow.c, against
\* value_satisfies, object.c), for any program of branches, loops, writes and
\* moves, however deep, that writes no name narrowed around a loop inside it:
\* provided one test, and one move, is right.
THEOREM AlwaysKnownHolds ==
  ASSUME NEW CONSTANT lists, Sound(lists)
  PROVE  Spec => []KnownHolds
<1>1. Init => Believed(lists)
  BY InitBelieved
<1>2. Believed(lists) /\ [Next]_vars => Believed(lists)'
  BY NextBelieved
<1>3. Believed(lists) => KnownHolds
  BY SeatIs, KnownCarries DEF KnownHolds, Known, Carries
<1>4. QED
  BY <1>1, <1>2, <1>3, PTL DEF Spec

\* Wherever a program of that kind has got to, a test the compiler settles
\* ahead of the run answers what the machine would have (compile_fits_test,
\* compile.c, against FITS).
THEOREM AlwaysSettledTestsAgree ==
  ASSUME NEW CONSTANT lists, Sound(lists)
  PROVE  Spec => []SettledTestsAgree
<1>1. Init => Believed(lists)
  BY InitBelieved
<1>2. Believed(lists) /\ [Next]_vars => Believed(lists)'
  BY NextBelieved
<1>3. Believed(lists) => SettledTestsAgree
  BY SeatIs, AnswerHolds DEF SettledTestsAgree, Known
<1>4. QED
  BY <1>1, <1>2, <1>3, PTL DEF Spec
=============================================================================
