----------------------------- MODULE LhatNarrow -----------------------------
(***************************************************************************)
(* What the checker knows of a name on the way through a body, beside the  *)
(* run of it: the narrowings a condition leaves in a branch, after it and  *)
(* around a loop (check_narrow.c, check_stmt.c), and the value that is     *)
(* tested, written and handed on meanwhile.                                *)
(*                                                                         *)
(* The program is chosen as it runs: every step is a piece of text the     *)
(* checker has read and the machine now runs.  Text the run steps over may *)
(* have written the name, which empties what was known of it.              *)
(*                                                                         *)
(* An and^, an or^ or a not^ narrows as the branches it stands for do.     *)
(*                                                                         *)
(* Left out: paths through members and indexes, bounds of numbers, the     *)
(* clauses of a loop body, the arms of a catch^, finally^, and what a      *)
(* subroutine written inside a branch was told.                            *)
(***************************************************************************)
EXTENDS LhatTypes

CONSTANTS
    Seats,            \* the types a name is declared with
    Tests,            \* what is asked of the name
    LoopTests,        \* those of them a loop asks
    MaxOpen,          \* how many branches and loops stand open
    MayWriteInLoops   \* a loop's body writes a name narrowed around it

ASSUME LoopTestsAssumption == LoopTests \subseteq Tests

VARIABLES
    seat,             \* the declared type of the name
    value,            \* what it holds
    facts,            \* Checker.narrowings: the arms each left, <<>> emptied
    open              \* the branches and loops under way

vars == <<seat, value, facts, open>>

Conforms(a, b) == b \in Conforming[a]
Disjoint(a, b) == b \in Apart[a]
FitsDisjoint(a, b) == b \in FitsApart[a]
Holds(v, t) == t \in Holding[v]
Settled(t) == t \in Settlement

\* lhat_type_equal: a gap is no claim about sameness.
SameType(a, b) ==
    /\ IsGap(a) <=> IsGap(b)
    /\ IsGap(a) => Kind(a) = Kind(b)
    /\ Kind(a) = "table" /\ Kind(b) = "table" =>
          BothOrNeither(Decl[a].key, Decl[b].key)
    /\ Conforms(a, b) /\ Conforms(b, a)

(***************************************************************************)
(* What a test leaves                                                      *)
(***************************************************************************)
ArmsOf(t) == IF Kind(t) = "union" THEN Decl[t].arms ELSE <<t>>

\* lhat_type_union: flat, no arm twice, any^ takes in all the others.
AppendArm(arms, t) ==
    IF \E i \in DOMAIN arms : SameType(arms[i], t) THEN arms ELSE Append(arms, t)
Union(arms) ==
    IF \E i \in DOMAIN arms : Kind(arms[i]) = "any"
      THEN <<CHOOSE t \in Range(arms) : Kind(t) = "any">>
      ELSE FoldLeft(AppendArm, <<>>, arms)

AllConform(arms, w) ==
    \A i \in DOMAIN arms :
        Conforms(arms[i], w) /\ (Len(arms) > 1 => Kind(arms[i]) # "pending")

TakenAsConforming(arms, t) ==            \* a mutant of TakenBy
    \/ Kind(t) = "pending"
    \/ /\ \A i \in DOMAIN arms : Kind(arms[i]) # "pending"
       /\ AllConform(arms, t)

\* lhat_type_conforms_strict, which a write, an argument and a binding ask:
\* any^ takes everything, and an arm still pending nowhere else.
TakenBy(arms, t) ==
    \/ Kind(t) \in {"any", "pending"}
    \/ /\ \A i \in DOMAIN arms : Kind(arms[i]) # "pending"
       /\ AllConform(arms, t)

\* chk_only: an arm wider than the test narrows down to the test.
OnlyOf(arm, w) ==
    IF Conforms(arm, w) THEN <<arm>>
    ELSE IF Conforms(w, arm) THEN ArmsOf(w) ELSE <<>>
Only(arms, w) == Union(FlattenSeq([i \in DOMAIN arms |-> OnlyOf(arms[i], w)]))

\* chk_without: a set is taken apart, anything else that overlaps stays whole.
WithoutOf(arm, w) ==
    CASE IsGap(arm) -> <<arm>>
      [] ~IsGap(arm) /\ Conforms(arm, w) -> <<>>
      [] OTHER -> IF Kind(arm) = "set" /\ ~Disjoint(arm, w)
                    THEN SelectSeq(Decl[arm].kinds, LAMBDA k : ~Conforms(k, w))
                    ELSE <<arm>>
Without(arms, w) == Union(FlattenSeq([i \in DOMAIN arms |-> WithoutOf(arms[i], w)]))

\* chk_narrow_from: a test that holds gives a gap the shape tested.
LoneGaps == {<<t>> : t \in {u \in Types : IsGap(u)}}
Inside(arms, w, held) ==
    IF ~held THEN Without(arms, w)
    ELSE LET left == Only(arms, w) IN IF left \in LoneGaps THEN ArmsOf(w) ELSE left

\* fits_split_by_nil: nil^ alone on one side and every other arm on the other.
SplitByNil(arms, w, nilIn) ==
    \A i \in DOMAIN arms :
        IF (Kind(arms[i]) = "nil") = nilIn THEN Conforms(arms[i], w)
                                          ELSE FitsDisjoint(arms[i], w)

\* compile_fits_test: the answer, settled or asked of the value.
BothSettled(arms, w) == Settled(w) /\ \A i \in DOMAIN arms : Settled(arms[i])
Answer(v, arms, w) ==
    IF Kind(w) = "any" THEN TRUE
    ELSE IF ~BothSettled(arms, w) THEN Holds(v, w)
    ELSE IF AllConform(arms, w) THEN TRUE
    ELSE IF \A i \in DOMAIN arms : FitsDisjoint(arms[i], w) THEN FALSE
    ELSE IF \E nilIn \in BOOLEAN : SplitByNil(arms, w, nilIn)
      THEN (Held[v].kind = "nil") = SplitByNil(arms, w, TRUE)
    ELSE Holds(v, w)

\* chk_narrowed_type: the latest that says something, else the declaration.
KnownBy(fs) ==
    LET live == {i \in DOMAIN fs : fs[i] # <<>>} IN
    IF live = {} THEN ArmsOf(seat) ELSE fs[Max(live)]
Known == KnownBy(facts)

Kept(fs) == fs                            \* a mutant of Emptied
\* chk_drop_narrowings_for: emptied where they stand.
Emptied(fs) == [i \in DOMAIN fs |-> <<>>]
\* Text stepped over has been read all the same.
Read(fs) == {fs, Emptied(fs)}

\* push_narrowing: where nothing survives the wider type stands.  (The one
\* outcome, as a set, so that each operand is evaluated once.)
Push(fs, w, held) ==
    {IF left = <<>> THEN fs ELSE Append(fs, left) :
        left \in {Inside(known, w, held) : known \in {KnownBy(fs)}}}

\* chk_pop_narrowings
Popped(fs, mark) == SubSeq(fs, 1, mark)

Block(kind, head, w) == [kind |-> kind, mark |-> Len(facts), head |-> head, asks |-> w]
Here == open[Len(open)]
Narrows(fs) == \E i \in DOMAIN fs : fs[i] \notin {<<>>, ArmsOf(seat)}

Init ==
    /\ seat \in Seats
    /\ value \in {v \in Values : TakenBy(<<Held[v].type>>, seat)}
    /\ facts = <<>> /\ open = <<>>

(***************************************************************************)
(* if^                                                                     *)
(***************************************************************************)
EnterBranch ==
    /\ Len(open) < MaxOpen
    /\ \E w \in Tests : Answer(value, Known, w) /\ facts' \in Push(facts, w, TRUE)
    /\ open' = Append(open, Block("branch", None, None))
    /\ UNCHANGED <<seat, value>>

DeniedAsAsked ==                          \* a mutant of Denied
    UNION {UNION {Push(fs, w, TRUE) : fs \in Read(facts)} :
              w \in {t \in Tests : ~Answer(value, Known, t)}}

\* What the condition denied, whether or not the clause not taken, which is
\* read first, wrote the name.
Denied ==
    UNION {UNION {Push(fs, w, FALSE) : fs \in Read(facts)} :
              w \in {t \in Tests : ~Answer(value, Known, t)}}

EnterElse ==
    /\ Len(open) < MaxOpen
    /\ facts' \in Denied
    /\ open' = Append(open, Block("branch", None, None))
    /\ UNCHANGED <<seat, value>>

\* There is no else.  Where every clause leaves, what the condition denied
\* holds for the rest of the list; otherwise the paths join.
PassBy ==
    /\ Len(facts) < MaxOpen
    /\ facts' \in Read(facts) \cup Denied
    /\ UNCHANGED <<seat, value, open>>

EndBranch ==
    /\ open # <<>> /\ Here.kind = "branch"
    /\ facts' \in Read(Popped(facts, Here.mark))
    /\ open' = Front(open)
    /\ UNCHANGED <<seat, value>>

(***************************************************************************)
(* while^ and until^, and the loops with no condition                      *)
(***************************************************************************)
\* A body runs where a while^ holds, or where an until^ does not.
Conditional == {"while", "until"}
EnterLoop ==
    /\ Len(open) < MaxOpen
    /\ \E w \in LoopTests : \E holds \in {Answer(value, Known, w)} :
          /\ facts' \in Push(facts, w, holds)
          /\ open' = Append(open, Block(IF holds THEN "while" ELSE "until", facts, w))
    /\ UNCHANGED <<seat, value>>

EnterCounted ==
    /\ Len(open) < MaxOpen
    /\ open' = Append(open, Block("counted", facts, None))
    /\ UNCHANGED <<seat, value, facts>>

\* The body was read once, from what was known before it.
NextTurn ==
    /\ open # <<>>
    /\ \/ /\ Here.kind \in Conditional
          /\ Answer(value, KnownBy(Here.head), Here.asks) = (Here.kind = "while")
          /\ facts' \in Push(Here.head, Here.asks, Here.kind = "while")
       \/ Here.kind = "counted" /\ facts' = Here.head
    /\ UNCHANGED <<seat, value, open>>

\* At its end or by a break^: nothing is known of what ended it.
EndLoop ==
    /\ open # <<>> /\ Here.kind # "branch"
    /\ facts' \in Read(Popped(facts, Here.mark))
    /\ open' = Front(open)
    /\ UNCHANGED <<seat, value>>

(***************************************************************************)
(* Writing, and handing on                                                 *)
(***************************************************************************)
Write ==
    /\ MayWriteInLoops \/ \A i \in DOMAIN open :
          open[i].kind # "branch" => ~Narrows(open[i].head)
    /\ value' \in {v \in Values : TakenBy(<<Held[v].type>>, seat)}
    /\ facts' = Emptied(facts)
    /\ UNCHANGED <<seat, open>>

\* let^ y : t = x, followed from here on; what inference left open may go
\* anywhere, and is not followed.
Move ==
    /\ \A i \in DOMAIN Known : Kind(Known[i]) # "unknown"
    /\ seat' \in {t \in Seats : TakenBy(Known, t)}
    /\ facts' = <<>> /\ open' = <<>>
    /\ UNCHANGED value

Next ==
    \/ EnterBranch \/ EnterElse \/ PassBy \/ EndBranch
    \/ EnterLoop \/ EnterCounted \/ NextTurn \/ EndLoop
    \/ Write \/ Move

Spec == Init /\ [][Next]_vars
=============================================================================
