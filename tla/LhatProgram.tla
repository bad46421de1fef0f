----------------------------- MODULE LhatProgram ----------------------------
(***************************************************************************)
(* The unit graph of a program (src/program.c, src/program_require.c): how *)
(* units are read, checked and compiled once, how a changed one is retired *)
(* with all that reach it, how the machines forget it, and when the bodies *)
(* of the old world are freed.                                             *)
(*                                                                         *)
(* Every entry takes the program's lock for its whole length, so an entry  *)
(* is one step.  The unit graph is one record, which the functions of the  *)
(* code take and answer as they do there.  A text is a value with the list *)
(* of paths it requires; what a unit was made from is a set of pairs of a  *)
(* path and the text read there; a body is a number, that of its proto.    *)
(* Every unit is a module named after its path, and publishes at least one *)
(* subroutine: its table in a machine holds its body.                      *)
(***************************************************************************)
EXTENDS Integers, FiniteSets, Sequences, Functions

CONSTANTS
    Paths, Root,      \* Root: the unit the host checks and runs
    Texts, NoText,
    OnDisk,           \* path -> text there at first
    Versions,         \* path -> texts that may be written there
    Requires,         \* text -> sequence of the paths it requires
    Broken,           \* the texts with an error of their own
    Clashes,          \* <<t, s>>: t does not fit what s publishes
    Stopping,         \* texts the compiler stops in, before any require
    Under,            \* <<p, q>>: the unit at p is named under that at q
    Publishes,        \* <<t, p>>: t publishes the name p would stand at there
    Scripts,          \* texts the host loads
    Machines,
    MaxEdits, MaxLoads,
    Sessions          \* what a host does: "whole" (lhat_reload), "apart"
                      \* (its parts), "scripts" (lhat_program_load_text)

Script == "a script"  \* the unit a load makes and forgets
Places == Paths \cup {Script}
None == 0             \* no body
TextsRead == Places \X Texts

ASSUME ProgramAssumption ==
    /\ IsFiniteSet(Paths) /\ Root \in Paths /\ Script \notin Paths
    /\ NoText \notin Texts
    /\ OnDisk \in [Paths -> Texts \cup {NoText}]
    /\ Versions \in [Paths -> SUBSET (Texts \cup {NoText})]
    /\ Requires \in [Texts -> Seq(Paths)]
    /\ Broken \cup Stopping \cup Scripts \subseteq Texts
    /\ Clashes \subseteq Texts \X Texts
    /\ Under \subseteq Paths \X Paths /\ Publishes \subseteq Texts \X Paths
    /\ {MaxEdits, MaxLoads} \subseteq Nat
    /\ Sessions \subseteq SUBSET {"whole", "apart", "scripts"}

VARIABLES
    disk,             \* path -> text: what the loader answers
    program,
    modules,          \* machine -> path -> the body whose table stands there
    kept,             \* machine -> bodies a closure or coroutine runs on it
    scripts,          \* the bodies of loaded scripts the host still has
    session, edits, loads

vars == <<disk, program, modules, kept, scripts, session, edits, loads>>
hostVars == <<disk, scripts, session, edits, loads>>

\* A body as the compiler made it: its unit and the text, what that was
\* checked from, and the bodies its require^s answer once they are filled in.
Made == [unit : Places, text : Texts, from : SUBSET TextsRead,
         filled : BOOLEAN, table : [Paths -> Nat]]

Programs == [
    units   : Seq(Paths),                         \* newest first
    state   : [Places -> {"absent", "checking", "failed", "done", "stale"}],
    text    : [Places -> Texts \cup {NoText}],    \* and its hash
    errors  : SUBSET Places,                      \* units with some
    from    : [Places -> SUBSET TextsRead],       \* what was checked
    edges   : [Places -> SUBSET Paths],           \* referenced
    body    : [Places -> Nat],                    \* proto
    named   : SUBSET Places,                      \* with a module_name
    said    : SUBSET ({"unread", "cycle", "collides"} \X Paths),  \* diagnostics
    made    : Seq(Made),                          \* every body there was
    retired : SUBSET Nat, freed : SUBSET Nat]

Empty == [
    units   |-> <<>>,
    state   |-> [p \in Places |-> "absent"],
    text    |-> [p \in Places |-> NoText],
    errors  |-> {},
    from    |-> [p \in Places |-> {}],
    edges   |-> [p \in Places |-> {}],
    body    |-> [p \in Places |-> None],
    named   |-> {},
    said    |-> {},
    made    |-> <<>>,
    retired |-> {}, freed |-> {}]

Init ==
    /\ disk = OnDisk
    /\ program = Empty
    /\ modules = [m \in Machines |-> [p \in Paths |-> None]]
    /\ kept = [m \in Machines |-> {}]
    /\ scripts = {}
    /\ session \in Sessions
    /\ edits = 0 /\ loads = 0

(***************************************************************************)
(* Checking                                                                *)
(***************************************************************************)
\* A loop over a sequence: step[x][e] is what the turn for e makes of x.
Folded(step, base, seq) ==
    LET after[i \in 0..Len(seq)] ==
          IF i = 0 THEN base ELSE step[after[i - 1]][seq[i]]
    IN after[Len(seq)]

\* resolve_require, when p comes to its require^ of q: the edge is recorded
\* before the state is judged, but a cycle has none.  `check` is the
\* check_path that is called for q.
Met(g, p, q) ==
    [g EXCEPT
        !.edges[p] = @ \cup {q},
        !.errors = IF g.state[q] # "done" \/ <<g.text[p], g.text[q]>> \in Clashes
                   THEN @ \cup {p} ELSE @,
        !.from[p] = IF g.state[q] = "done" THEN @ \cup g.from[q] ELSE @]
Cycle(g, p) == [g EXCEPT !.errors = @ \cup {p}]

Resolve(check, g, p, q) ==
    IF g.state[q] = "checking" THEN Cycle(check[g][q], p)
    ELSE Met(check[g][q], p, q)

\* A unit is checked from its text and all that it requires was checked from;
\* the name it is given stays when the text goes.
Begun(g, p, text) ==
    [g EXCEPT !.state[p] = "checking", !.text[p] = text,
              !.errors = IF text \in Broken THEN @ \cup {p} ELSE @ \ {p},
              !.from[p] = {<<p, text>>}]

CheckParsed(check, g, p, text) ==
    LET meet == [h \in Programs |-> [q \in Paths |-> Resolve(check, h, p, q)]]
        met == Folded(meet, Begun(g, p, text), Requires[text])
    IN [met EXCEPT !.state[p] = "done", !.named = @ \cup {p}]

LoadInto(check, g, p) ==
    IF disk[p] = NoText
    THEN [g EXCEPT !.state[p] = "failed", !.said = @ \cup {<<"unread", p>>}]
    ELSE CheckParsed(check, g, p, disk[p])

\* A unit is read once, unless an invalidation made it stale.
CheckUnit(check, g, p) ==
    CASE g.state[p] = "checking" ->
            [g EXCEPT !.said = @ \cup {<<"cycle", p>>}]
      [] g.state[p] = "absent" ->
            LoadInto(check, [g EXCEPT !.units = <<p>> \o @], p)
      [] g.state[p] = "stale" -> LoadInto(check, g, p)
      [] OTHER -> g

NoCall == [g \in Programs |-> [p \in Paths |-> g]]
OneCall(check) ==
    [g \in Programs |-> [p \in Paths |-> CheckUnit(check, g, p)]]

\* check_path, that many calls deep at most.  Each of them marks a unit that
\* was not being checked, so one more than there are paths is no limit.
Checker ==
    LET calls == Cardinality(Paths) + 1
        to[n \in 0..calls] == IF n = 0 THEN NoCall ELSE OneCall(to[n - 1])
    IN to[calls]
CheckPath(g, p) == Checker[g][p]

\* report_colliding_units: the units that are named under another whose text,
\* as it was last checked, publishes the name they would stand at.
Colliding(g) ==
    {p \in g.named : \E q \in g.named :
        <<p, q>> \in Under /\ <<g.text[q], p>> \in Publishes}
ReportColliding(g) == [g EXCEPT !.said = @ \cup ({"collides"} \X Colliding(g))]

HasErrors(g) ==
    \/ g.said # {}
    \/ \E p \in Range(g.units) : g.state[p] # "done" \/ p \in g.errors

(***************************************************************************)
(* Compiling                                                               *)
(***************************************************************************)
\* prg_compile_one: the edges are made anew, by the require^s compiled.
NewBody(g, p) ==
    [unit |-> p, text |-> g.text[p], from |-> g.from[p],
     filled |-> FALSE, table |-> [q \in Paths |-> None]]

CompileOne(g, p) ==
    IF g.text[p] \in Stopping THEN [g EXCEPT !.edges[p] = {}]
    ELSE [g EXCEPT !.edges[p] = Range(Requires[g.text[p]]),
                   !.made = Append(@, NewBody(g, p)),
                   !.body[p] = Len(g.made) + 1]

\* prg_fill_unit_table: the bodies its require^s answer, none for a unit
\* that never compiled.
Table(g, p) == [q \in Paths |-> IF q \in g.edges[p] THEN g.body[q] ELSE None]
FillTable(g, p) ==
    IF g.body[p] = None THEN g
    ELSE IF g.made[g.body[p]].filled THEN g
    ELSE [g EXCEPT !.made[g.body[p]] =
            [@ EXCEPT !.filled = TRUE, !.table = Table(g, p)]]

Due(g, p) == g.state[p] = "done" /\ g.body[p] = None

\* A compile goes on until a unit will not.
Compiles == [g : Programs, ok : BOOLEAN]
Tried(h, p) ==
    IF ~h.ok \/ ~Due(h.g, p) THEN h
    ELSE [g |-> CompileOne(h.g, p), ok |-> CompileOne(h.g, p).body[p] # None]

\* prg_compile_all: what is checked and has no body, up to the first that
\* will not compile; then every table that is not filled.
CompileAll(g) ==
    LET try == [h \in Compiles |-> [p \in Paths |-> Tried(h, p)]]
        fill == [h \in Programs |-> [p \in Paths |-> FillTable(h, p)]]
        tried == Folded(try, [g |-> g, ok |-> TRUE], g.units)
    IN [g |-> Folded(fill, tried.g, g.units), ok |-> tried.ok]

(***************************************************************************)
(* Invalidating and discarding                                             *)
(***************************************************************************)
DirectOnly(g, p) ==                       \* a mutant of Reaching
    {p} \cup {q \in Range(g.units) : p \in g.edges[q]}
\* p and every unit whose require^s reach it.
Reaching(g, p) ==
    LET units == {p} \cup Range(g.units)
        closed(set) == \A q \in units : g.edges[q] \cap set # {} => q \in set
    IN {q \in units : \A set \in SUBSET units : p \in set /\ closed(set) => q \in set}

RetireUnsaid(g, set) ==                   \* a mutant of Retire
    LET clear(f, v) == [p \in Places |-> IF p \in set THEN v ELSE f[p]] IN
    [g EXCEPT
        !.retired = @ \cup ({g.body[p] : p \in set} \ {None}),
        !.body = clear(@, None),
        !.state = clear(@, "stale"),
        !.text = clear(@, NoText),
        !.errors = @ \ set,
        !.from = clear(@, {}),
        !.edges = clear(@, {})]

\* retire_set: the bodies wait, what was made of the texts goes, and so does
\* what was said of these units.
Retire(g, set) ==
    LET clear(f, v) == [p \in Places |-> IF p \in set THEN v ELSE f[p]] IN
    [g EXCEPT
        !.retired = @ \cup ({g.body[p] : p \in set} \ {None}),
        !.body = clear(@, None),
        !.state = clear(@, "stale"),
        !.text = clear(@, NoText),
        !.errors = @ \ set,
        !.from = clear(@, {}),
        !.edges = clear(@, {}),
        !.said = {d \in @ : d[2] \notin set}]

\* prg_invalidate_held; an unreadable text is never unchanged.
Unchanged(g, p) ==
    \/ g.state[p] = "stale"
    \/ disk[p] # NoText /\ g.text[p] = disk[p]
Invalidated(g, p) == IF Unchanged(g, p) THEN g ELSE Retire(g, Reaching(g, p))

DiscardWaiting(g, held) ==                \* a mutant of DiscardUnheld
    [g EXCEPT !.freed = @ \cup g.retired, !.retired = {}]
\* lhat_program_discard_unheld: all that is retired, or nothing.
DiscardUnheld(g, held) ==
    IF g.retired \cap held # {} THEN g
    ELSE [g EXCEPT !.freed = @ \cup g.retired, !.retired = {}]

\* What the machines hold after a collection.
HeldBy(registries, closures) ==
    (UNION {Range(registries[m]) \cup closures[m] : m \in Machines}) \ {None}

\* lhat_machine_forget_unit, for these units on every machine.
Forgotten(set) ==
    [m \in Machines |->
        [p \in Paths |-> IF p \in set THEN None ELSE modules[m][p]]]

Stale(g) == {p \in Paths : g.state[p] = "stale"}

\* Every stale unit is read back, in the order of the list.
Recheck(g) ==
    LET again == [h \in Programs |-> [q \in Paths |->
                    IF h.state[q] = "stale" THEN CheckPath(h, q) ELSE h]]
    IN Folded(again, g, g.units)

(***************************************************************************)
(* Running                                                                 *)
(***************************************************************************)
\* A body runs each require^ in turn, then registers what it publishes; the
\* guard of a unit answers what is registered.  It stops at a unit that has
\* no body.  `run` is the run of a body it requires.
Runs == [registry : [Paths -> Nat], ok : BOOLEAN]

Required(run, at, b, q) ==
    LET wanted == program.made[b].table[q] IN
    IF ~at.ok THEN at
    ELSE IF wanted = None THEN [at EXCEPT !.ok = FALSE]
    ELSE run[at][wanted]

RunBody(run, at, b) ==
    LET unit == program.made[b].unit
        wanted == IF unit = Script \/ at.registry[unit] = None
                  THEN Requires[program.made[b].text] ELSE <<>>
        step == [h \in Runs |-> [q \in Paths |-> Required(run, h, b, q)]]
        done == Folded(step, at, wanted)
    IN IF ~done.ok \/ unit = Script \/ at.registry[unit] # None THEN done
       ELSE [done EXCEPT !.registry[unit] = b]

NoRun ==
    [at \in Runs |-> [b \in DOMAIN program.made |-> [at EXCEPT !.ok = FALSE]]]
OneRun(run) ==
    [at \in Runs |-> [b \in DOMAIN program.made |-> RunBody(run, at, b)]]

\* As many bodies deep as there are; only one that requires itself again
\* runs out of them.
Runner ==
    LET bodies == Len(program.made)
        to[n \in 0..bodies] == IF n = 0 THEN NoRun ELSE OneRun(to[n - 1])
    IN to[bodies]

RunOn(m, b) ==
    LET begun == [registry |-> modules[m], ok |-> TRUE]
        done == Runner[begun][b]
    IN modules' = [modules EXCEPT ![m] = done.registry]

(***************************************************************************)
(* The host                                                                *)
(***************************************************************************)
Write(p, text) ==
    /\ edits < MaxEdits
    /\ text # disk[p]
    /\ disk' = [disk EXCEPT ![p] = text]
    /\ edits' = edits + 1
    /\ UNCHANGED <<program, modules, kept, scripts, session, loads>>

\* lhat_program_check of the root, which alone asks for colliding units, and
\* lhat_program_compile.  A host compiles what has no errors.
Check ==
    /\ program' = ReportColliding(CheckPath(program, Root))
    /\ UNCHANGED <<modules, kept, hostVars>>

Compile ==
    /\ ~HasErrors(program) /\ program # Empty
    /\ program' = CompileAll(program).g
    /\ program' # program
    /\ UNCHANGED <<modules, kept, hostVars>>

Run(m) ==
    /\ program.body[Root] # None
    /\ RunOn(m, program.body[Root])
    /\ modules' # modules
    /\ UNCHANGED <<program, kept, hostVars>>

\* The host keeps a closure of what a machine has registered, or a coroutine
\* suspended in one (one at a time, per machine), and lets go of it.
Keep(m, p) ==
    /\ kept[m] = {} /\ modules[m][p] # None
    /\ kept' = [kept EXCEPT ![m] = {modules[m][p]}]
    /\ UNCHANGED <<program, modules, hostVars>>

LetGo(m) ==
    /\ kept[m] # {}
    /\ kept' = [kept EXCEPT ![m] = {}]
    /\ UNCHANGED <<program, modules, hostVars>>

\* lhat_reload, with every machine.
Reload(p) ==
    /\ "whole" \in session
    /\ program.state[p] # "absent" /\ ~Unchanged(program, p)
    /\ LET retired == Invalidated(program, p)
           checked == Recheck(retired)
           compiled == CompileAll(checked)
       IN /\ modules' = Forgotten(Stale(retired))
          /\ program' = IF HasErrors(checked) THEN checked
                        ELSE IF ~compiled.ok THEN compiled.g
                        ELSE DiscardUnheld(compiled.g, HeldBy(modules', kept))
    /\ UNCHANGED <<kept, hostVars>>

\* The same taken apart: lhat_program_invalidate, then Check and Compile
\* while the old world runs; the forgetting and the discard come later.
Invalidate(p) ==
    /\ "apart" \in session
    /\ program.state[p] # "absent" /\ ~Unchanged(program, p)
    /\ program' = Invalidated(program, p)
    /\ UNCHANGED <<modules, kept, hostVars>>

Forget ==
    /\ "apart" \in session
    /\ LET old == {p \in Paths : \E m \in Machines : modules[m][p] \in program.retired}
       IN old # {} /\ modules' = Forgotten(old)
    /\ UNCHANGED <<program, kept, hostVars>>

Discard ==
    /\ "apart" \in session
    /\ program.retired # {}
    /\ program' = DiscardUnheld(program, HeldBy(modules, kept))
    /\ program' # program
    /\ UNCHANGED <<modules, kept, hostVars>>

(***************************************************************************)
(* Scripts                                                                 *)
(***************************************************************************)
\* What a load says: of the program, of the script, and of the units it
\* brought in.
Complaints(g, checked) ==
    \/ checked.said # g.said
    \/ Script \in checked.errors
    \/ \E p \in Range(checked.units) \ Range(g.units) : p \in checked.errors

WithoutScript(g) ==
    [g EXCEPT !.state[Script] = "absent", !.text[Script] = NoText,
              !.named = @ \ {Script},
              !.errors = @ \ {Script}, !.from[Script] = {},
              !.edges[Script] = {}, !.body[Script] = None]

\* lhat_program_load_text: what the script requires stays in the program,
\* the script itself does not.
Load(text) ==
    /\ "scripts" \in session
    /\ loads < MaxLoads
    /\ LET checked == CheckParsed(Checker, program, Script, text)
           compiled == CompileAll(checked)
           own == CompileOne(compiled.g, Script)
           built == ~Complaints(program, checked) /\ compiled.ok
                      /\ own.body[Script] # None
       IN /\ program' = WithoutScript(IF Complaints(program, checked) THEN checked
                                ELSE IF ~compiled.ok THEN compiled.g
                                ELSE FillTable(own, Script))
          /\ scripts' = IF built THEN scripts \cup {own.body[Script]} ELSE scripts
    /\ loads' = loads + 1
    /\ UNCHANGED <<disk, modules, kept, session, edits>>

RunScript(m, b) ==
    /\ b \in scripts
    /\ RunOn(m, b)
    /\ UNCHANGED <<program, kept, hostVars>>

Next ==
    \/ \E p \in Paths : \E text \in Versions[p] : Write(p, text)
    \/ Check \/ Compile \/ Forget \/ Discard
    \/ \E m \in Machines : Run(m) \/ LetGo(m) \/ \E b \in scripts : RunScript(m, b)
    \/ \E m \in Machines, p \in Paths : Keep(m, p)
    \/ \E p \in Paths : Reload(p) \/ Invalidate(p)
    \/ \E text \in Scripts : Load(text)

Spec == Init /\ [][Next]_vars
=============================================================================
