--------------------------- MODULE LhatTypesProps ---------------------------
(***************************************************************************)
(* What the two readings of a type owe each other, wherever a program has  *)
(* got to.                                                                 *)
(***************************************************************************)
EXTENDS LhatNarrow

\* What is known of a name is true of the value it holds: whatever tests,
\* branches, loops, writes and moves led here, the value satisfies an arm the
\* checker believes left (chk_only, chk_without and the popping of narrowings,
\* check_narrow.c, against value_satisfies, object.c).
KnownHolds == \E i \in DOMAIN Known : Holds(value, Known[i])

\* A test the compiler answers ahead of the run, or turns into a comparison
\* with nil^, answers what the machine would have (compile_fits_test,
\* compile.c, against FITS).
SettledTestsAgree ==
    \A w \in Tests : Answer(value, Known, w) = Holds(value, w)

\* A value that may move on from a name to a second and from there to a
\* third could have been put in the third at once: conformance chains, except
\* across what inference left open (lhat_type_conforms, type.c).
MovesChain ==
    \A t \in {s \in Seats : Settled(s) /\ TakenBy(Known, s)} :
        \A u \in Seats : TakenBy(<<t>>, u) => TakenBy(Known, u)

\* A host value, which is as wide as its tag says, is only ever where that
\* many slots are kept for it (05-modules.md 8.9, type.c).
WideStaysWide ==
    Held[value].kind = "hostvalue" => \E i \in DOMAIN Known : IsWide(Known[i])

(***************************************************************************)
(* One step at a time.                                                     *)
(***************************************************************************)
Carries(v, arms) == \E i \in DOMAIN arms : Holds(v, arms[i])

\* A single test of one of these lists is answered as the machine would, and
\* what it leaves is in the lists and true of any value the list was true of.
EachTestIsSound(lists) ==
    \A known \in lists : \A v \in {u \in Values : Carries(u, known)} : \A w \in Tests :
        /\ Answer(v, known, w) = Holds(v, w)
        /\ LET left == Inside(known, w, Holds(v, w)) IN
           left # <<>> => left \in lists /\ Carries(v, left)

\* A value may be put in a seat, or a name handed on to it, only where the
\* seat's type is true of the value.
EachMoveIsSound(lists) ==
    /\ \A s \in Seats : ArmsOf(s) \in lists
    /\ \A s \in Seats : \A v \in Values :
          /\ TakenBy(<<Held[v].type>>, s) => Carries(v, ArmsOf(s))
          /\ \A known \in lists :
                /\ TakenBy(known, s) /\ Carries(v, known)
                /\ \A i \in DOMAIN known : Kind(known[i]) # "unknown"
                => Carries(v, ArmsOf(s))
=============================================================================
