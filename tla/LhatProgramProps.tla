-------------------------- MODULE LhatProgramProps --------------------------
(***************************************************************************)
(* What holds of a program whose texts change under it.                    *)
(***************************************************************************)
EXTENDS LhatProgram

Bodies == {p \in Paths : program.body[p] # None}

\* The bodies somebody may still run: those of the units, those that wait,
\* those a machine holds, the loaded scripts, and what their tables answer.
Named ==
    LET first == {program.body[p] : p \in Bodies} \cup program.retired
                   \cup HeldBy(modules, kept) \cup scripts
    IN first \cup UNION {Range(program.made[b].table) : b \in first \ program.freed}

\* No body is freed that a machine, the program, a script or the unit table
\* of any of these can still come to (program_require.c:917-949).
NothingFreedIsNamed == Named \cap program.freed = {}

\* The old world stays whole beside the new one: every body that is not freed
\* reaches only bodies made from the very texts it was checked against, and
\* the current bodies reach only current ones (program_require.c:752-775).
EachWorldIsWhole ==
    \A b \in DOMAIN program.made \ program.freed :
        LET here == program.made[b] IN
        \A q \in DOMAIN here.table : here.table[q] # None =>
            /\ program.made[here.table[q]].from \subseteq here.from
            /\ program.body[here.unit] = b => program.body[q] = here.table[q]

\* Once every edit was read, a program whose units a fresh one finds nothing
\* wrong with has no error left of a unit, of a text that was not there or of
\* a cycle: none of these outlives its mending (program_require.c:783-786).
AllRead == \A p \in Range(program.units) : program.text[p] = disk[p]
Afresh == Folded(Checker, Empty, program.units)
EveryFixTakes ==
    AllRead /\ ~HasErrors(Afresh) =>
        ~HasErrors([program EXCEPT !.said = @ \ ({"collides"} \X Paths)])

\* And no collision outlives its own.  Not so: README, section 11.
EveryCollisionEnds ==
    AllRead /\ ~HasErrors(ReportColliding(Afresh)) => ~HasErrors(program)

\* A program with bodies for all its units is one a check would accept
\* (DesignDocuments/05-modules.md:1119).  Not so: README, section 11.
NoCollisionIsBuilt == (\A p \in Range(program.units) : program.body[p] # None) =>
    Colliding(program) = {}

\* A script the program would refuse the first time is refused again
\* (program.h:229-247).  Not so: README, section 11.
RefusedIsRefused ==
    \A b \in scripts : \A read \in program.made[b].from :
        read[1] # Script => read[1] \notin program.errors

\* A host that loads scripts does not reload.
ScriptsAlone == "scripts" \in session => session = {"scripts"}

\* No unit, with any text it may have, requires itself over others.
Acyclic ==
    \E rank \in [Paths -> 0..Cardinality(Paths)] :
        \A p \in Paths : \A t \in (Versions[p] \cup {OnDisk[p]}) \ {NoText} :
            \A q \in Range(Requires[t]) : rank[q] < rank[p]
=============================================================================
