----------------------------- MODULE LhatTypes -----------------------------
(***************************************************************************)
(* The types of L^ and the two readings of them.  The checker asks whether *)
(* a type conforms to another, whether two are disjoint, and what a test   *)
(* leaves of a union (type.c, check_narrow.c).  The machine asks whether a *)
(* value satisfies a type (object.c), and the compiler leaves the question *)
(* out where the checker's reading already answers it (compile.c).         *)
(*                                                                         *)
(* A type is a name of Decl, so that one may hold itself.  What is known   *)
(* of a place is a sequence of types, the arms of the union it may hold.   *)
(*                                                                         *)
(* Left out: type arguments, delegates and bases of a written structure,   *)
(* the open slots of a coroutine type, and the folding of tuples, which no *)
(* name ever holds.                                                        *)
(***************************************************************************)
EXTENDS Integers, FiniteSets, SequencesExt

CONSTANTS
    Decl,             \* what each type says
    Held,             \* what each value is, with the type its literal has
    Under,            \* the host tags each host tag is declared under, itself too
    Positions,        \* the names of positions, in order: "0", "1", ...
    None              \* nothing written

Types == DOMAIN Decl
Values == DOMAIN Held
Pairs == Types \X Types

ASSUME TypesAssumption ==
    /\ {"nil", "number", "string"} \subseteq Types
    /\ None \notin Types
    /\ \A v \in Values : Held[v].type \in Types

Kind(t) == Decl[t].kind
IsGap(t) == Kind(t) \in {"unknown", "pending"}
IsError(t) == Kind(t) \in {"error", "set", "errkind"}
IsEnum(t) == Kind(t) \in {"enum", "enumerator"}
IsComposite(t) == Kind(t) \in {"union", "intersect"}
IsWide(t) == Kind(t) = "hostvalue"
Arms(t) == {Decl[t].arms[i] : i \in DOMAIN Decl[t].arms}
Named(t) == DOMAIN Decl[t].mem

\* The declaration an error kind or an enumerator came from.
DeclOf(t) == IF Kind(t) \in {"errkind", "enumerator"} THEN Decl[t].set ELSE t

\* The positions a table has, counted from the first.
Sequence(names) ==
    {i \in DOMAIN Positions : \A k \in 1..i : Positions[k] \in names}

(***************************************************************************)
(* lhat_type_disjoint: whether no value inhabits both                      *)
(***************************************************************************)
ErrorsDisjoint(a, b) ==
    \/ ~IsError(a) \/ ~IsError(b)
    \/ Decl[a].local # Decl[b].local
    \/ /\ "error" \notin {Kind(a), Kind(b)}
       /\ IF "set" \in {Kind(a), Kind(b)} THEN DeclOf(a) # DeclOf(b) ELSE a # b

EnumsDisjoint(a, b) ==
    IF "enum" \in {Kind(a), Kind(b)} THEN DeclOf(a) # DeclOf(b) ELSE a # b

NominalDisjoint(a, b) ==
    /\ a # b
    /\ Decl[b].tag \notin Under[Decl[a].tag]
    /\ Decl[a].tag \notin Under[Decl[b].tag]

\* Two structures are separate only where a name they share is.
TablesDisjoint(a, b, apart) ==
    IF Decl[a].tag # None /\ Decl[b].tag # None THEN NominalDisjoint(a, b)
    ELSE \E n \in Named(a) \cap Named(b) :
            apart[Decl[a].mem[n], Decl[b].mem[n]]

SameKindDisjoint(a, b, apart) ==
    CASE Kind(a) \in {"hostvalue", "box"} -> Decl[a].tag # Decl[b].tag
      [] Kind(a) = "tuple" ->
           \/ Len(Decl[a].arms) # Len(Decl[b].arms)
           \/ \E i \in DOMAIN Decl[a].arms :
                apart[Decl[a].arms[i], Decl[b].arms[i]]
      [] Kind(a) = "table" -> TablesDisjoint(a, b, apart)
      [] OTHER -> FALSE

DisjointIn[a \in Types, b \in Types, above \in SUBSET Pairs] ==
    LET seen == above \cup {<<a, b>>}
        apart == [c \in Types, d \in Types |-> DisjointIn[c, d, seen]] IN
    IF <<a, b>> \in above \/ IsGap(a) \/ IsGap(b) \/ "any" \in {Kind(a), Kind(b)}
      THEN FALSE
    ELSE IF "none" \in {Kind(a), Kind(b)} THEN TRUE
    ELSE IF Kind(a) = "union" THEN \A arm \in Arms(a) : apart[arm, b]
    ELSE IF Kind(b) = "union" THEN apart[b, a]
    ELSE IF Kind(a) = "intersect" THEN \E arm \in Arms(a) : apart[arm, b]
    ELSE IF Kind(b) = "intersect" THEN apart[b, a]
    ELSE IF IsError(a) \/ IsError(b) THEN ErrorsDisjoint(a, b)
    ELSE IF IsEnum(a) /\ IsEnum(b) THEN EnumsDisjoint(a, b)
    ELSE Kind(a) # Kind(b) \/ SameKindDisjoint(a, b, apart)

Apart == [a \in Types |-> {b \in Types : DisjointIn[a, b, {}]}]

(***************************************************************************)
(* lhat_type_conforms                                                      *)
(***************************************************************************)
TellsApartByHead[t \in Types] ==
    \/ Kind(t) = "nil" \/ IsError(t) \/ IsEnum(t)
    \/ Kind(t) = "union" /\ \A arm \in Arms(t) : TellsApartByHead[arm]

AdmitsAWideArm(t) ==
    /\ Kind(t) = "union"
    /\ Cardinality({i \in DOMAIN Decl[t].arms : IsWide(Decl[t].arms[i])}) = 1
    /\ \A arm \in Arms(t) : IsWide(arm) \/ TellsApartByHead[arm]

\* A host value is only itself, or an arm the head slot tells apart.
OnlyItself(a, b) ==
    /\ IsWide(a) \/ IsWide(b)
    /\ ~(IsWide(a) /\ AdmitsAWideArm(b))

\* Nothing was inferred on one side: no cascade.
Slot(a, b, fit) == a = None \/ b = None \/ fit[a, b]
BothOrNeither(a, b) == (a = None) <=> (b = None)

\* Storing nil^ takes an entry out: it asks nothing of the bound.
StoredConforms(a, b, fit) ==
    \A arm \in (IF Kind(a) = "union" THEN Arms(a) ELSE {a}) :
        Kind(arm) = "nil" \/ fit[arm, b]

ErrorConforms(a, b) ==
    /\ Decl[a].local = Decl[b].local
    /\ \/ Kind(b) = "error"
       \/ Kind(b) = "set" /\ Kind(a) # "error" /\ DeclOf(a) = b
       \/ a = b

EnumConforms(a, b) == IF Kind(b) = "enum" THEN DeclOf(a) = b ELSE a = b

\* The flags two signatures agree on, or that one may lack.
SignatureConforms(A, B) ==
    /\ B.is_function => A.is_function
    /\ A.takes_self = B.takes_self /\ A.self_last = B.self_last
    /\ A.mutable_self => B.mutable_self
    /\ B.answers_fresh => A.answers_fresh
    /\ Len(A.params) = Len(B.params)
    /\ BothOrNeither(A.variadic, B.variadic)
    /\ BothOrNeither(A.answer, B.answer)

FuncConforms(A, B, fit) ==
    /\ SignatureConforms(A, B)
    /\ \A i \in DOMAIN A.params : fit[B.params[i], A.params[i]]
    /\ Slot(B.variadic, A.variadic, fit)
    /\ Slot(A.answer, B.answer, fit)

CoroConforms(A, B, fit) ==
    \/ B.top
    \/ /\ ~A.top
       /\ B.is_function => A.is_function
       /\ BothOrNeither(A.receive, B.receive)
       /\ A.endless = B.endless /\ BothOrNeither(A.result, B.result)
       /\ Slot(B.receive, A.receive, fit)
       /\ Slot(A.produce, B.produce, fit)
       /\ Slot(A.result, B.result, fit)

\* The named and positional members b asks for: at least those.
MembersConform(a, b, fit) ==
    \A n \in Named(b) :
        n \in Named(a) /\ fit[Decl[a].mem[n], Decl[b].mem[n]]

KeyKind(n) ==
    IF \E i \in DOMAIN Positions : Positions[i] = n THEN "number" ELSE "string"

\* b bounds every key and every value: a literal, or another bound, can too.
IndexConforms(a, b, fit) ==
    LET A == Decl[a]  B == Decl[b] IN
    B.key # None =>
      /\ \/ B.inferred_index \/ A.entries_known
         \/ A.key # None /\ ~A.inferred_index
      /\ A.key # None => /\ fit[A.key, B.key]
                         /\ StoredConforms(A.item, B.item, fit)
      /\ \A n \in Named(a) :
            Kind(A.mem[n]) # "nil" =>
                /\ fit[KeyKind(n), B.key]
                /\ StoredConforms(A.mem[n], B.item, fit)
      /\ A.variadic # None => /\ fit["number", B.key]
                              /\ StoredConforms(A.variadic, B.item, fit)

TailConforms(a, b, fit) ==
    LET A == Decl[a]  B == Decl[b] IN
    B.variadic # None =>
      /\ Slot(A.variadic, B.variadic, fit)
      /\ A.key # None /\ "number" \notin Apart[A.key] =>
            StoredConforms(A.item, B.variadic, fit)
      /\ \A i \in Sequence(Named(a)) :
            fit[A.mem[Positions[i]], B.variadic]

TableConforms(a, b, fit) ==
    IF Decl[b].tag # None
      THEN a = b \/ (Decl[a].tag # None /\ Decl[b].tag \in Under[Decl[a].tag])
      ELSE /\ MembersConform(a, b, fit)
           /\ IndexConforms(a, b, fit)
           /\ TailConforms(a, b, fit)

\* Neither is a composite, a gap, any^ or a host value.
SameKindConforms(a, b, fit) ==
    \/ IsError(a) /\ IsError(b) /\ ErrorConforms(a, b)
    \/ IsEnum(a) /\ IsEnum(b) /\ EnumConforms(a, b)
    \/ /\ Kind(a) = Kind(b)
       /\ CASE Kind(a) \in {"nil", "bool", "number", "string", "costate"} -> TRUE
            [] Kind(a) = "box" -> /\ Decl[a].tag = Decl[b].tag
                                  /\ Decl[a].sealed => Decl[b].sealed
            [] Kind(a) = "table" -> TableConforms(a, b, fit)
            [] Kind(a) = "tuple" ->
                 /\ Len(Decl[a].arms) = Len(Decl[b].arms)
                 /\ \A i \in DOMAIN Decl[a].arms :
                      fit[Decl[a].arms[i], Decl[b].arms[i]]
            [] Kind(a) = "func" -> FuncConforms(Decl[a], Decl[b], fit)
            [] Kind(a) = "coro" -> CoroConforms(Decl[a], Decl[b], fit)
            [] OTHER -> FALSE

\* A pair already open further up answers yes: only a finite path can differ.
ConformsIn[a \in Types, b \in Types, above \in SUBSET Pairs] ==
    LET seen == above \cup {<<a, b>>}
        fit == [c \in Types, d \in Types |-> ConformsIn[c, d, seen]] IN
    IF <<a, b>> \in above \/ IsGap(a) \/ IsGap(b) THEN TRUE
    ELSE IF "none" \in {Kind(a), Kind(b)} THEN Kind(a) = Kind(b)
    ELSE IF OnlyItself(a, b)
      THEN IsWide(a) /\ IsWide(b) /\ Decl[a].tag = Decl[b].tag
    ELSE IF Kind(b) = "any" THEN Kind(a) # "tuple"
    ELSE IF Kind(a) = "union"
      THEN \A arm \in Arms(a) : Kind(arm) # "pending" /\ fit[arm, b]
    ELSE \/ Kind(a) = "intersect" /\ \E arm \in Arms(a) : fit[arm, b]
         \/ Kind(b) = "union" /\ \E arm \in Arms(b) : fit[a, arm]
         \/ Kind(b) = "intersect" /\ \A arm \in Arms(b) : fit[a, arm]
         \/ ~IsComposite(a) /\ ~IsComposite(b) /\ SameKindConforms(a, b, fit)

Conforming == [a \in Types |-> {b \in Types : ConformsIn[a, b, {}]}]

(***************************************************************************)
(* What the machine asks                                                   *)
(***************************************************************************)
NilHolds[t \in Types] ==
    \/ Kind(t) \in {"nil", "any"} \/ IsGap(t)
    \/ Kind(t) = "union" /\ \E arm \in Arms(t) : NilHolds[arm]
    \/ Kind(t) = "intersect" /\ \A arm \in Arms(t) : NilHolds[arm]

\* Whether a written member may be missing: nil^ has to be written.
AllowsAbsence[t \in Types] ==
    \/ Kind(t) = "nil"
    \/ Kind(t) = "union" /\ \E arm \in Arms(t) : AllowsAbsence[arm]
    \/ /\ Kind(t) = "intersect"
       /\ \A arm \in Arms(t) : NilHolds[arm]
       /\ \E arm \in Arms(t) : AllowsAbsence[arm]

RtSlot(a, b, fit) == b = None \/ fit[a, b]

RtTableFits(a, b, fit) ==
    LET A == Decl[a]  B == Decl[b]
        asked == Sequence(Named(b))  have == Sequence(Named(a)) IN
    /\ asked \subseteq have
    /\ \A n \in Named(b) :
          IF n \in Named(a) THEN fit[A.mem[n], B.mem[n]]
                           ELSE AllowsAbsence[B.mem[n]]
    /\ B.variadic # None =>
          /\ A.key # None /\ fit["number", A.key] =>
                fit[A.item, B.variadic]
          /\ A.variadic # None => fit[A.variadic, B.variadic]
          /\ \A i \in have \ asked :
                fit[A.mem[Positions[i]], B.variadic]
    /\ B.key # None => /\ A.key # None
                       /\ fit[A.key, B.key]
                       /\ fit[A.item, B.item]

RtFuncFits(A, B, fit) ==
    /\ SignatureConforms(A, B)
    /\ \A i \in DOMAIN A.params : fit[B.params[i], A.params[i]]
    /\ A.variadic # None => fit[B.variadic, A.variadic]
    /\ A.answer # None => fit[A.answer, B.answer]

RtCoroFits(A, B, fit) ==
    \/ B.top
    \/ /\ ~A.top
       /\ B.is_function => A.is_function
       /\ BothOrNeither(A.receive, B.receive)
       /\ A.endless = B.endless /\ BothOrNeither(A.result, B.result)
       /\ A.receive # None => fit[B.receive, A.receive]
       /\ RtSlot(A.produce, B.produce, fit)
       /\ RtSlot(A.result, B.result, fit)

RtSameKindFits(a, b, fit) ==
    \/ Kind(a) = "enumerator" /\ Kind(b) = "enum" /\ DeclOf(a) = b
    \/ IsError(a) /\ IsError(b) /\ ErrorConforms(a, b)
    \/ /\ Kind(a) = Kind(b)
       /\ CASE Kind(a) = "func" -> RtFuncFits(Decl[a], Decl[b], fit)
            [] Kind(a) = "coro" -> RtCoroFits(Decl[a], Decl[b], fit)
            [] Kind(a) \in {"hostvalue", "box"} -> Decl[a].tag = Decl[b].tag
            [] Kind(a) = "table" ->
                 IF None \in {Decl[a].tag, Decl[b].tag}
                   THEN /\ Decl[a].tag = Decl[b].tag
                        /\ RtTableFits(a, b, fit)
                   ELSE Decl[b].tag \in Under[Decl[a].tag]
            [] OTHER -> Kind(a) \in {"nil", "bool", "number", "string", "costate"}

\* rt_fits: a gap is no evidence here, where lhat_type_conforms forgives it.
RtFits[a \in Types, b \in Types, above \in SUBSET Pairs] ==
    LET seen == above \cup {<<a, b>>}
        fit == [c \in Types, d \in Types |-> RtFits[c, d, seen]] IN
    IF Kind(b) = "any" THEN ~IsWide(a)
    ELSE IF IsGap(a) \/ IsGap(b) THEN FALSE
    ELSE IF a = b THEN TRUE
    ELSE IF Kind(a) = "any" THEN FALSE
    ELSE IF <<a, b>> \in above THEN TRUE
    ELSE IF Kind(a) = "union" THEN \A arm \in Arms(a) : fit[arm, b]
    ELSE IF Kind(b) = "intersect" THEN \A arm \in Arms(b) : fit[a, arm]
    ELSE IF Kind(b) = "union" THEN \E arm \in Arms(b) : fit[a, arm]
    ELSE IF Kind(a) = "intersect" THEN \E arm \in Arms(a) : fit[arm, b]
    ELSE RtSameKindFits(a, b, fit)

\* Where a structure reads a value's members: a table's, a host object's,
\* the fields an error shows.  What has none is no structure.
Members(v) ==
    IF Held[v].kind \in {"table", "hostdata", "error"} THEN Held[v].mem
                                                      ELSE <<>>
HasMembers(v) == Held[v].kind \in {"table", "hostdata", "error"}
MemberOf(v, n) == IF n \in DOMAIN Members(v) THEN Members(v)[n] ELSE "nil"

\* A structure already being read further up only asks for a table.
StructureHolds(v, t, within, holds) ==
    LET T == Decl[t]
        asked == Sequence(Named(t))
        counted == Sequence(DOMAIN Members(v)) IN
    IF t \in within THEN Held[v].kind = "table"
    ELSE
    /\ HasMembers(v)
    /\ \A n \in Named(t) :
          LET at == MemberOf(v, n) IN
          /\ holds[at, T.mem[n]]
          /\ at = "nil" => n \notin {Positions[i] : i \in asked} /\ AllowsAbsence[T.mem[n]]
    /\ T.variadic # None =>
          \A i \in counted \ asked : holds[MemberOf(v, Positions[i]), T.variadic]
    /\ T.key # None =>
          /\ Held[v].kind = "table" /\ ~Held[v].is_instance
          /\ \A n \in DOMAIN Members(v) :
                /\ holds[KeyKind(n), T.key]
                /\ holds[MemberOf(v, n), T.item]

\* A callable fits by the signature it was made with; a group, by any arm's.
CallableFits(v, t) ==
    CASE Held[v].kind = "subroutine" -> RtFits[Held[v].type, t, {}]
      [] Held[v].kind = "group" ->
           \E i \in DOMAIN Held[v].candidates : RtFits[Held[v].candidates[i], t, {}]
      [] OTHER -> FALSE

\* value_satisfies.  The keys "number" and "string" name a value of each.
Satisfies[v \in Values, t \in Types, within \in SUBSET Types] ==
    LET here == [u \in Values, c \in Types |-> Satisfies[u, c, within]]
        inner == [u \in Values, c \in Types |-> Satisfies[u, c, within \cup {t}]] IN
    CASE Kind(t) \in {"any", "unknown", "pending"} -> TRUE
      [] Kind(t) \in {"nil", "bool", "number", "string", "costate"} ->
           Held[v].kind = Kind(t)
      [] Kind(t) = "table" ->
           IF Decl[t].tag # None
             THEN Held[v].kind = "hostdata" /\ Decl[t].tag \in Under[Held[v].tag]
             ELSE StructureHolds(v, t, within, inner)
      [] Kind(t) \in {"hostvalue", "box"} ->
           Held[v].kind = Kind(t) /\ Held[v].tag = Decl[t].tag
      [] IsError(t) -> Held[v].kind = "error" /\ ErrorConforms(Held[v].type, t)
      [] IsEnum(t) -> Held[v].kind = "enumerator" /\ EnumConforms(Held[v].type, t)
      [] Kind(t) = "func" -> CallableFits(v, t)
      [] Kind(t) = "coro" ->
           Held[v].kind = "coroutine" /\ RtFits[Held[v].type, t, {}]
      [] Kind(t) = "union" -> \E arm \in Arms(t) : here[v, arm]
      [] Kind(t) = "intersect" -> \A arm \in Arms(t) : here[v, arm]
      [] OTHER -> FALSE

Holding == [v \in Values |-> {t \in Types : Satisfies[v, t, {}]}]

(***************************************************************************)
(* What the compiler leaves out                                            *)
(***************************************************************************)
\* fits_type_settled: no gap and no any^ anywhere in what is asked.
Parts(t) ==
    CASE IsComposite(t) \/ Kind(t) = "tuple" -> Arms(t)
      [] Kind(t) \in {"table", "box", "hostvalue"} ->
           {Decl[t].mem[n] : n \in Named(t)} \cup
           {Decl[t].variadic, Decl[t].key, Decl[t].item}
      [] Kind(t) = "func" -> Range(Decl[t].params) \cup {Decl[t].variadic, Decl[t].answer}
      [] Kind(t) = "coro" -> {Decl[t].receive, Decl[t].produce, Decl[t].result}
      [] OTHER -> {}
SettledIn[t \in Types, seen \in SUBSET Types] ==
    /\ ~IsGap(t) /\ Kind(t) # "any"
    /\ \/ t \in seen
       \/ Kind(t) = "table" /\ Decl[t].tag # None
       \/ \A part \in Parts(t) \ {None} : SettledIn[part, seen \cup {t}]
Settlement == {t \in Types : SettledIn[t, {}]}

\* fits_types_disjoint: a calling convention does not change either.
SignaturesDisjoint(A, B) ==
    \/ A.takes_self # B.takes_self \/ A.self_last # B.self_last
    \/ ~BothOrNeither(A.variadic, B.variadic)
    \/ Len(A.params) # Len(B.params)
    \/ ~BothOrNeither(A.answer, B.answer)
    \/ A.answer # None /\ B.answer \in Apart[A.answer]

FitsDisjointIn[a \in Types, w \in Types] ==
    \/ w \in Apart[a]
    \/ Kind(a) = "union" /\ \A arm \in Arms(a) : FitsDisjointIn[arm, w]
    \/ /\ Kind(a) # "union" /\ Kind(w) = "union"
       /\ \A arm \in Arms(w) : FitsDisjointIn[arm, a]
    \/ Kind(a) = "func" /\ Kind(w) = "func" /\ SignaturesDisjoint(Decl[a], Decl[w])
FitsApart == [a \in Types |-> {w \in Types : FitsDisjointIn[a, w]}]
=============================================================================
