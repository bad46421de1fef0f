------------------------- MODULE LhatProgramProofs -------------------------
(***************************************************************************)
(* Proofs about the unit graph: under a host that does not mix scripts     *)
(* with reloads no freed body is named, each world stays whole, and every  *)
(* fix takes but that of a collision.  A check calls itself for what a     *)
(* text requires, so the argument is an induction on how deep it may still *)
(* go.                                                                     *)
(***************************************************************************)
EXTENDS LhatProgramProps, FiniteSetTheorems, SequenceTheorems,
        WellFoundedInduction, TLAPS

(***************************************************************************)
(* The invariant.                                                          *)
(***************************************************************************)
Known == {"done", "failed"}
Settled == {"done", "failed", "checking"}
HasScripts == "scripts" \in session

\* Between two entries: every unit is listed, none is being checked, and what
\* is not checked has no text.
Shaped(g) ==
    \A p \in Paths :
        /\ g.state[p] # "absent" => p \in Range(g.units)
        /\ g.state[p] # "checking"
        /\ g.state[p] # "done" => g.text[p] = NoText

Current(g) == {g.body[p] : p \in Paths} \ {None}
Live(g) == Current(g) \cup g.retired

\* The body of p is its own, was made of what p is now, and its table
\* answers the current bodies of units p has an edge to.
Owned(g, p) ==
    LET b == g.made[g.body[p]] IN
    /\ g.state[p] = "done"
    /\ g.body[p] \in DOMAIN g.made
    /\ g.body[p] \notin g.retired \cup g.freed
    /\ b.unit = p /\ b.from = g.from[p]
    /\ \A q \in Paths : b.table[q] # None =>
           q \in g.edges[p] /\ b.table[q] = g.body[q]
    /\ ~b.filled => /\ g.text[p] \notin Stopping
                    /\ g.edges[p] = Range(Requires[g.text[p]])
                    /\ \A q \in Paths : b.table[q] = None

Bodied(g) ==
    /\ \A p \in Paths : g.body[p] # None => Owned(g, p)
    /\ g.retired \cup g.freed \subseteq DOMAIN g.made
    /\ g.retired \cap g.freed = {}
    /\ \A b \in g.retired : \A q \in Paths :
           g.made[b].table[q] # None => g.made[b].table[q] \in Live(g)

\* Every table, also of a body long replaced, answers what its own was
\* checked against.
Sourced(g) ==
    \A b \in DOMAIN g.made : \A q \in Paths :
        LET s == g.made[b].table[q] IN
        s # None => s \in DOMAIN g.made /\ g.made[s].from \subseteq g.made[b].from
Matched == ~HasScripts \/ Acyclic

Judgement(g, p) ==
    LET asked == Range(Requires[g.text[p]]) IN
    /\ g.text[p] \in Texts
    /\ g.text[p] \notin Stopping /\ (Acyclic \/ p \notin g.errors) =>
         \A q \in asked : /\ q \in g.edges[p] /\ g.state[q] \in Known
                          /\ g.state[q] = "done" => g.from[q] \subseteq g.from[p]
    /\ Acyclic /\ p \in g.errors =>
         \/ g.text[p] \in Broken
         \/ \E q \in asked :
              /\ HasScripts \/ q \in g.edges[p]
              /\ g.state[q] = "failed" \/ <<g.text[p], g.text[q]>> \in Clashes

Judged(g) == \A p \in Paths : g.state[p] = "done" => Judgement(g, p)

SaidOf(g) ==
    Acyclic => \A d \in g.said :
        d[1] # "collides" => d[1] = "unread" /\ g.state[d[2]] = "failed"

Whole(g) ==
    /\ g \in Programs
    /\ Shaped(g) /\ Bodied(g) /\ Judged(g) /\ SaidOf(g)
    /\ Matched => Sourced(g)

TypeOK ==
    /\ disk \in [Paths -> Texts \cup {NoText}]
    /\ \A p \in Paths : disk[p] \in Versions[p] \cup {OnDisk[p]}
    /\ scripts \subseteq DOMAIN program.made
    /\ scripts # {} => HasScripts
    /\ ScriptsAlone

HeldLive ==
    IF HasScripts THEN program.retired = {} /\ program.freed = {}
    ELSE /\ modules \in [Machines -> [Paths -> Live(program) \cup {None}]]
         /\ kept \in [Machines -> SUBSET Live(program)]

Steady == TypeOK /\ Whole(program) /\ program.body[Script] = None /\ HeldLive

-----------------------------------------------------------------------------
(* Induction, and the loops.                                               *)

\* A set with 0 that goes on from every number it has holds every number.
LEMMA Induct ==
  ASSUME NEW S, 0 \in S, \A n \in Nat : n \in S => n + 1 \in S
  PROVE  Nat \subseteq S
<1> DEFINE R == OpToRel(<, Nat)
           T == Nat \ S
<1>1. SUFFICES ASSUME T # {} PROVE FALSE
  OBVIOUS
<1>2. PICK x \in T : \A y \in T : ~(<<y, x>> \in R)
  <2>1. T \subseteq Nat
    OBVIOUS
  <2> HIDE DEF T
  <2>2. QED
    BY NatLessThanWellFounded, <1>1, <2>1, WFMin, Zenon
<1>3. x \in Nat /\ x # 0 /\ x - 1 \in Nat
  OBVIOUS
<1>4. <<x - 1, x>> \in R
  BY <1>3 DEF OpToRel
<1>5. x - 1 \in S
  BY <1>2, <1>3, <1>4, Zenon
<1>6. (x - 1) + 1 \in S
  BY <1>3, <1>5
<1>7. QED
  BY <1>3, <1>6

\* The turns of a loop, each made of the one before.
Turns(step, base, seq, f) ==
    /\ f[0] = base
    /\ \A i \in 1..Len(seq) : f[i] = step[f[i - 1]][seq[i]]
    /\ Folded(step, base, seq) = f[Len(seq)]

LEMMA FoldedHolds ==
  ASSUME NEW step, NEW base, NEW seq, Len(seq) \in Nat
  PROVE  \E f : Turns(step, base, seq, f)
<1> DEFINE Fits(f, n) ==
      f = [i \in 0..n |-> IF i = 0 THEN base ELSE step[f[i - 1]][seq[i]]]
           S == {n \in Nat : \E f : Fits(f, n)}
<1>1. 0 \in S
  <2>1. Fits([i \in 0..0 |-> base], 0)
    OBVIOUS
  <2>2. QED
    BY <2>1
<1>2. ASSUME NEW n \in Nat, n \in S
      PROVE  n + 1 \in S
  <2>1. PICK f : Fits(f, n)
    BY <1>2
  <2> DEFINE g == [i \in 0..(n + 1) |->
                     IF i = n + 1 THEN step[f[n]][seq[n + 1]] ELSE f[i]]
  <2>2. Fits(g, n + 1)
    <3> SUFFICES ASSUME NEW i \in 0..(n + 1)
                 PROVE  g[i] = IF i = 0 THEN base ELSE step[g[i - 1]][seq[i]]
      OBVIOUS
    <3>1. CASE i = n + 1
      BY <3>1
    <3>2. CASE i # n + 1
      <4>1. i \in 0..n /\ (i # 0 => i - 1 \in 0..n)
        BY <3>2
      <4>2. f[i] = IF i = 0 THEN base ELSE step[f[i - 1]][seq[i]]
        BY <2>1, <4>1
      <4>3. QED
        BY <3>2, <4>1, <4>2
    <3>3. QED
      BY <3>1, <3>2
  <2>3. \E f_1 : Fits(f_1, n + 1)
    <3> HIDE DEF Fits, g
    <3>1. QED
      BY <2>2
  <2>4. QED
    <3> HIDE DEF Fits
    <3>1. QED
      BY <2>3
<1>3. Nat \subseteq S
  <2> HIDE DEF S
  <2>1. QED
    BY <1>1, <1>2, Induct
<1>4. PICK h : Fits(h, Len(seq))
  BY <1>3
<1> DEFINE f == CHOOSE f : Fits(f, Len(seq))
<1>5. Fits(f, Len(seq))
  <2> HIDE DEF Fits
  <2>1. QED
    BY <1>4
<1>6. Folded(step, base, seq) = f[Len(seq)]
  BY DEF Folded
<1>7. /\ f[0] = base
      /\ \A i \in 1..Len(seq) : f[i] = step[f[i - 1]][seq[i]]
  <2> HIDE DEF f
  <2>1. QED
    BY <1>5
<1>8. Turns(step, base, seq, f)
  <2> HIDE DEF f
  <2>1. QED
    BY <1>6, <1>7 DEF Turns
<1>9. QED
  <2> HIDE DEF f
  <2>1. QED
    BY <1>8

\* What holds before the loop, and from each turn to the next, holds after it.
LEMMA FoldedIn ==
  ASSUME NEW step, NEW base, NEW seq, Len(seq) \in Nat,
         NEW S, base \in S[0],
         \A i \in 1..Len(seq) : \A x \in S[i - 1] : step[x][seq[i]] \in S[i]
  PROVE  Folded(step, base, seq) \in S[Len(seq)]
<1>0. PICK f : Turns(step, base, seq, f)
  BY FoldedHolds, Zenon
<1>1. /\ f[0] = base
      /\ \A i \in 1..Len(seq) : f[i] = step[f[i - 1]][seq[i]]
      /\ Folded(step, base, seq) = f[Len(seq)]
  BY <1>0 DEF Turns
<1> DEFINE T == {n \in Nat : n <= Len(seq) => f[n] \in S[n]}
<1>2. 0 \in T
  BY <1>1
<1>3. ASSUME NEW n \in Nat, n \in T
      PROVE  n + 1 \in T
  <2>1. CASE n + 1 <= Len(seq)
    <3>1. n + 1 \in 1..Len(seq) /\ n <= Len(seq) /\ (n + 1) - 1 = n
      BY <2>1
    <3>2. f[n] \in S[n]
      BY <1>3, <3>1
    <3>3. f[n + 1] = step[f[n]][seq[n + 1]]
      BY <1>1, <3>1
    <3>4. step[f[n]][seq[n + 1]] \in S[n + 1]
      BY <3>1, <3>2
    <3>5. QED
      BY <3>3, <3>4
  <2>2. CASE ~(n + 1 <= Len(seq))
    BY <2>2
  <2>3. QED
    BY <2>1, <2>2
<1>4. Nat \subseteq T
  <2> HIDE DEF T
  <2>1. QED
    BY <1>2, <1>3, Induct
<1>5. QED
  BY <1>1, <1>4

-----------------------------------------------------------------------------
(* The operators keep the shape of the record.                             *)
LEMMA Facts ==
  /\ Script \notin Paths /\ Paths \subseteq Places /\ Script \in Places
  /\ NoText \notin Texts /\ None = 0
  /\ \A t \in Texts : Requires[t] \in Seq(Paths)
  /\ \A t, s : <<t, s>> \in Clashes => t \in Texts /\ s \in Texts
BY ProgramAssumption DEF Places, None

\* The half of the record a check leaves alone.
SameBodies(g, h) ==
    h.body = g.body /\ h.made = g.made /\ h.retired = g.retired /\ h.freed = g.freed

\* A unit that is as it was.
Same(g, h, u) ==
    /\ h.state[u] = g.state[u] /\ h.text[u] = g.text[u]
    /\ h.from[u] = g.from[u] /\ h.edges[u] = g.edges[u]
    /\ u \in h.errors <=> u \in g.errors

LEMMA BegunIs ==
  ASSUME NEW g \in Programs, NEW p \in Places, NEW text \in Texts
  PROVE  LET r == Begun(g, p, text)
         IN /\ r \in Programs
            /\ r.state[p] = "checking" /\ r.text[p] = text
            /\ r.from[p] = {<<p, text>>} /\ r.edges[p] = g.edges[p]
            /\ p \in r.errors <=> text \in Broken
            /\ \A u \in Places \ {p} : Same(g, r, u)
            /\ r.units = g.units /\ r.said = g.said
            /\ SameBodies(g, r)
<1>1. {<<p, text>>} \in SUBSET TextsRead
  BY DEF TextsRead
<1>2. QED
  BY <1>1 DEF Programs, SameBodies, Begun, Same

LEMMA MetIs ==
  ASSUME NEW h \in Programs, NEW p \in Places, NEW q \in Paths
  PROVE  LET r == Met(h, p, q)
         IN /\ r \in Programs
            /\ r.units = h.units /\ r.state = h.state /\ r.text = h.text
            /\ r.said = h.said /\ SameBodies(h, r)
            /\ r.errors = IF h.state[q] # "done" \/ <<h.text[p], h.text[q]>> \in Clashes
                          THEN h.errors \cup {p} ELSE h.errors
            /\ r.from = [h.from EXCEPT ![p] =
                           IF h.state[q] = "done" THEN @ \cup h.from[q] ELSE @]
            /\ r.edges = [h.edges EXCEPT ![p] = @ \cup {q}]
<1> DEFINE e == IF h.state[q] = "done" THEN h.from[p] \cup h.from[q] ELSE h.from[p]
           w == IF h.state[q] # "done" \/ <<h.text[p], h.text[q]>> \in Clashes
                THEN h.errors \cup {p} ELSE h.errors
           r == [h EXCEPT !.edges[p] = @ \cup {q}, !.errors = w, !.from[p] = e]
<1>1. q \in Places
  BY Facts
<1>2. e \in SUBSET TextsRead /\ w \in SUBSET Places
  BY <1>1 DEF Programs
<1>3. /\ r \in Programs
      /\ r.units = h.units /\ r.state = h.state /\ r.text = h.text
      /\ r.said = h.said /\ SameBodies(h, r)
      /\ r.errors = w
      /\ r.from = [h.from EXCEPT ![p] = e]
      /\ r.edges = [h.edges EXCEPT ![p] = @ \cup {q}]
  <2> HIDE DEF e, w
  <2>1. QED
    BY <1>1, <1>2 DEF Programs, SameBodies
<1>4. r = Met(h, p, q)
  BY <1>1 DEF Programs, Met
<1>5. QED
  <2> HIDE DEF r
  <2>1. QED
    BY <1>3, <1>4

LEMMA CycleIs ==
  ASSUME NEW h \in Programs, NEW p \in Places
  PROVE  LET r == Cycle(h, p)
         IN /\ r \in Programs
            /\ r.units = h.units /\ r.state = h.state /\ r.text = h.text
            /\ r.said = h.said /\ SameBodies(h, r)
            /\ r.errors = h.errors \cup {p}
            /\ r.from = h.from /\ r.edges = h.edges
BY DEF Programs, Cycle, SameBodies

LEMMA FinishedIs ==
  ASSUME NEW h \in Programs, NEW p \in Places
  PROVE  LET r == [h EXCEPT !.state[p] = "done", !.named = @ \cup {p}]
         IN /\ r \in Programs
            /\ r.state = [h.state EXCEPT ![p] = "done"]
            /\ r.units = h.units /\ r.text = h.text
            /\ r.said = h.said /\ SameBodies(h, r)
            /\ r.errors = h.errors /\ r.from = h.from /\ r.edges = h.edges
BY DEF Programs, SameBodies

LEMMA SaidIs ==
  ASSUME NEW h \in Programs, NEW p \in Paths, NEW w \in {"unread", "cycle"}
  PROVE  LET r == [h EXCEPT !.said = @ \cup {<<w, p>>}]
         IN /\ r \in Programs
            /\ r.said = h.said \cup {<<w, p>>}
            /\ r.units = h.units /\ r.text = h.text /\ r.state = h.state
            /\ SameBodies(h, r)
            /\ r.errors = h.errors /\ r.from = h.from /\ r.edges = h.edges
<1>1. {<<w, p>>} \subseteq {"unread", "cycle", "collides"} \X Paths
  OBVIOUS
<1>2. QED
  BY <1>1 DEF Programs, SameBodies

LEMMA FailedIs ==
  ASSUME NEW h \in Programs, NEW p \in Paths
  PROVE  LET r == [h EXCEPT !.state[p] = "failed", !.said = @ \cup {<<"unread", p>>}]
         IN /\ r \in Programs
            /\ r.said = h.said \cup {<<"unread", p>>}
            /\ r.state = [h.state EXCEPT ![p] = "failed"]
            /\ r.units = h.units /\ r.text = h.text /\ SameBodies(h, r)
            /\ r.errors = h.errors /\ r.from = h.from /\ r.edges = h.edges
<1>1. {<<"unread", p>>} \subseteq {"unread", "cycle", "collides"} \X Paths /\ p \in Places
  BY Facts
<1>2. QED
  BY <1>1 DEF Programs, SameBodies

LEMMA ListedIs ==
  ASSUME NEW h \in Programs, NEW p \in Paths
  PROVE  LET r == [h EXCEPT !.units = <<p>> \o @]
         IN /\ r \in Programs
            /\ Range(r.units) = {p} \cup Range(h.units)
            /\ r.said = h.said /\ r.text = h.text /\ r.state = h.state
            /\ SameBodies(h, r)
            /\ r.errors = h.errors /\ r.from = h.from /\ r.edges = h.edges
<1> DEFINE u == <<p>> \o h.units
<1>1. h.units \in Seq(Paths)
  BY DEF Programs
<1>2. u \in Seq(Paths) /\ Range(u) = {p} \cup Range(h.units)
  <2>1. u \in Seq(Paths) /\ Len(u) = Len(h.units) + 1
    BY <1>1
  <2>2. \A i \in 1..Len(u) : u[i] = IF i = 1 THEN p ELSE h.units[i - 1]
    BY <1>1
  <2>3. \A i \in 1..Len(h.units) : u[i + 1] = h.units[i] /\ i + 1 \in 1..Len(u)
    BY <1>1, <2>1, <2>2
  <2>4. QED
    <3> HIDE DEF u
    <3>1. DOMAIN u = 1..Len(u) /\ DOMAIN h.units = 1..Len(h.units) /\ Len(h.units) \in Nat
      BY <1>1, <2>1
    <3>2. Range(u) \subseteq {p} \cup Range(h.units)
      <4> SUFFICES ASSUME NEW i \in 1..Len(u)
                   PROVE  u[i] = p \/ u[i] \in Range(h.units)
        BY <3>1 DEF Range
      <4>1. i = 1 \/ i - 1 \in DOMAIN h.units
        BY <2>1, <3>1
      <4>2. u[i] = IF i = 1 THEN p ELSE h.units[i - 1]
        BY <2>2
      <4>3. QED
        BY <4>1, <4>2 DEF Range
    <3>3. p \in Range(u)
      BY <2>1, <2>2, <3>1 DEF Range
    <3>4. Range(h.units) \subseteq Range(u)
      BY <2>3, <3>1 DEF Range
    <3>5. QED
      BY <2>1, <3>2, <3>3, <3>4
<1> HIDE DEF u
<1>3. [h EXCEPT !.units = u] \in Programs
  BY <1>2 DEF Programs
<1>4. QED
  BY <1>2, <1>3 DEF Programs, SameBodies, u

-----------------------------------------------------------------------------
(* What a check does to the units it is not asked about.                   *)
Rank ==
    CHOOSE rank \in [Paths -> 0..Cardinality(Paths)] :
        \A p \in Paths : \A t \in (Versions[p] \cup {OnDisk[p]}) \ {NoText} :
            \A q \in Range(Requires[t]) : rank[q] < rank[p]

\* What is recorded of p once these of its require^s were met.
Answered(h, p, asked) ==
    /\ Acyclic \/ p \notin h.errors =>
         \A q \in asked : /\ q \in h.edges[p] /\ h.state[q] \in Known
                          /\ h.state[q] = "done" => h.from[q] \subseteq h.from[p]
    /\ p \notin h.errors =>
         /\ h.text[p] \notin Broken
         /\ \A q \in asked : /\ h.state[q] = "done"
                             /\ <<h.text[p], h.text[q]>> \notin Clashes
    /\ Acyclic /\ p \in h.errors =>
         \/ h.text[p] \in Broken
         \/ \E q \in asked : \/ h.state[q] = "failed"
                             \/ <<h.text[p], h.text[q]>> \in Clashes

\* A unit that was checked now.
New(g, h, u) ==
    \/ h.state[u] = "failed" /\ h.text[u] = g.text[u]
    \/ /\ h.state[u] = "done" /\ h.text[u] = disk[u] /\ disk[u] # NoText
       /\ Answered(h, u, Range(Requires[h.text[u]]))

\* From g to h, while the units of `own` are being checked.
Checked(g, h, own) ==
    /\ g \in Programs /\ h \in Programs /\ SameBodies(g, h)
    /\ Range(g.units) \subseteq Range(h.units)
    /\ \A u \in Paths : h.state[u] # "absent" =>
         g.state[u] # "absent" \/ u \in Range(h.units)
    /\ \A u \in Places \ own :
         \/ Same(g, h, u)
         \/ (u \in Paths /\ g.state[u] \notin Settled /\ New(g, h, u))
    /\ \A u \in own : /\ h.state[u] = "checking" /\ g.state[u] = "checking"
                      /\ h.text[u] = g.text[u]
    /\ Acyclic => \A d \in h.said :
         d \in g.said \/ (d[1] = "unread" /\ d[2] \in Paths /\ h.state[d[2]] = "failed")

\* What is recorded of a unit stays so while others are checked.
LEMMA AnsweredStays ==
  ASSUME NEW h, NEW k, NEW own, Checked(h, k, own),
         NEW u \in Places \ own, Same(h, k, u),
         NEW asked, asked \subseteq Paths, Answered(h, u, asked)
  PROVE  Answered(k, u, asked)
<1>1. \A q \in asked : h.state[q] \in Known => Same(h, k, q)
  BY Facts DEF Checked, Known, Settled
<1>2. \A q \in asked : h.state[q] = "failed" => k.state[q] = "failed"
  BY <1>1 DEF Known, Same
<1>3. QED
  BY <1>1, <1>2 DEF Answered, Same, Known

LEMMA CheckedOn ==
  ASSUME NEW g, NEW h, NEW k, NEW own, Checked(g, h, own), Checked(h, k, own)
  PROVE  Checked(g, k, own)
<1>1. ASSUME NEW u \in Places \ own
      PROVE  \/ Same(g, k, u)
             \/ (u \in Paths /\ g.state[u] \notin Settled /\ New(g, k, u))
  <2>1. \/ Same(g, h, u)
        \/ (u \in Paths /\ g.state[u] \notin Settled /\ New(g, h, u))
    BY DEF Checked
  <2>2. \/ Same(h, k, u)
        \/ u \in Paths /\ h.state[u] \notin Settled /\ New(h, k, u)
    BY DEF Checked
  <2>3. CASE Same(g, h, u)
    BY <2>2, <2>3 DEF Same, New
  <2>4. CASE u \in Paths /\ g.state[u] \notin Settled /\ New(g, h, u)
    <3>1. Same(h, k, u)
      BY <2>2, <2>4 DEF New, Settled
    <3>2. CASE h.state[u] = "failed" /\ h.text[u] = g.text[u]
      BY <2>4, <3>1, <3>2 DEF Same, New
    <3>3. CASE h.state[u] # "failed"
      <4>1. /\ h.state[u] = "done" /\ h.text[u] = disk[u] /\ disk[u] # NoText
            /\ Answered(h, u, Range(Requires[h.text[u]]))
        BY <2>4, <3>3 DEF New
      <4>2. h.text[u] \in Texts /\ Range(Requires[h.text[u]]) \subseteq Paths
        <5>1. h.text[u] \in Texts
          BY <4>1 DEF Checked, Programs
        <5>2. QED
          BY <5>1, Facts DEF Range
      <4>3. Answered(k, u, Range(Requires[k.text[u]]))
        BY <3>1, <4>1, <4>2, AnsweredStays DEF Same
      <4>4. QED
        BY <2>4, <3>1, <4>1, <4>3 DEF New, Same
    <3>4. QED
      BY <2>4, <3>2, <3>3 DEF New
  <2>5. QED
    BY <2>1, <2>3, <2>4
<1>2. Acyclic => \A d \in k.said :
         d \in g.said \/ (d[1] = "unread" /\ d[2] \in Paths /\ k.state[d[2]] = "failed")
  <2> SUFFICES ASSUME Acyclic, NEW d \in k.said, d \notin g.said
               PROVE  d[1] = "unread" /\ d[2] \in Paths /\ k.state[d[2]] = "failed"
    OBVIOUS
  <2>1. CASE d \in h.said
    <3>1. d[1] = "unread" /\ d[2] \in Paths /\ h.state[d[2]] = "failed"
      BY <2>1 DEF Checked
    <3>2. d[2] \in Places \ own
      BY <3>1, Facts DEF Checked
    <3>3. Same(h, k, d[2])
      BY <3>1, <3>2 DEF Checked, Settled
    <3>4. QED
      BY <3>1, <3>3 DEF Same
  <2>2. CASE d \notin h.said
    BY <2>2 DEF Checked
  <2>3. QED
    BY <2>1, <2>2
<1>3. SameBodies(g, k)
  BY DEF Checked, SameBodies
<1>4. \A u \in Paths : k.state[u] # "absent" =>
         g.state[u] # "absent" \/ u \in Range(k.units)
  BY DEF Checked
<1>5. QED
  BY <1>1, <1>2, <1>3, <1>4 DEF Checked

LEMMA CheckedSelf ==
  ASSUME NEW g \in Programs, NEW own, \A u \in own : g.state[u] = "checking"
  PROVE  Checked(g, g, own)
BY DEF Checked, Same, SameBodies

\* A change of p alone, while p is being checked, is a step of its check.
LEMMA CheckedOwn ==
  ASSUME NEW g \in Programs, NEW h \in Programs, NEW p \in Places,
         g.state[p] = "checking",
         h.state = g.state, h.text = g.text, h.units = g.units,
         h.said = g.said, SameBodies(g, h),
         \A u \in Places \ {p} : Same(g, h, u)
  PROVE  Checked(g, h, {p})
BY DEF Checked

LEMMA CheckedWider ==
  ASSUME NEW g, NEW h, Checked(g, h, {}), NEW p \in Places, g.state[p] = "checking"
  PROVE  Checked(g, h, {p}) /\ Same(g, h, p)
<1>1. Same(g, h, p)
  BY DEF Checked, Settled
<1>2. QED
  BY <1>1 DEF Checked, Same

\* One require^ more.
LEMMA MetAnswers ==
  ASSUME NEW h \in Programs, NEW p \in Places, h.state[p] = "checking",
         NEW q \in Paths, h.state[q] \in Known,
         NEW asked, asked \subseteq Paths, Answered(h, p, asked)
  PROVE  /\ Checked(h, Met(h, p, q), {p})
         /\ Answered(Met(h, p, q), p, asked \cup {q})
<1> DEFINE r == Met(h, p, q)
<1>1. /\ r \in Programs
      /\ r.units = h.units /\ r.state = h.state /\ r.text = h.text
      /\ r.said = h.said /\ SameBodies(h, r)
      /\ r.errors = IF h.state[q] # "done" \/ <<h.text[p], h.text[q]>> \in Clashes
                    THEN h.errors \cup {p} ELSE h.errors
      /\ r.from = [h.from EXCEPT ![p] =
                     IF h.state[q] = "done" THEN @ \cup h.from[q] ELSE @]
      /\ r.edges = [h.edges EXCEPT ![p] = @ \cup {q}]
  BY MetIs
<1> HIDE DEF r
<1>2. /\ h.from \in [Places -> SUBSET TextsRead] /\ h.edges \in [Places -> SUBSET Paths]
      /\ q \in Places /\ q # p /\ h.errors \subseteq Places
  BY Facts DEF Programs, Known
<1>3. \A u \in Places \ {p} : Same(h, r, u)
  BY <1>1, <1>2 DEF Same
<1>4. Checked(h, r, {p})
  BY <1>1, <1>3, CheckedOwn
<1>5. /\ h.edges[p] \subseteq r.edges[p] /\ q \in r.edges[p]
      /\ h.from[p] \subseteq r.from[p]
      /\ h.state[q] = "done" => h.from[q] \subseteq r.from[p]
  BY <1>1, <1>2
<1>6. \A s \in asked : h.state[s] \in Known => r.from[s] = h.from[s]
  BY <1>1, <1>2, Facts DEF Known
<1>7. r.from[q] = h.from[q]
  BY <1>1, <1>2
<1>8. p \notin r.errors => p \notin h.errors
  BY <1>1
<1>9. Acyclic \/ p \notin r.errors =>
         \A s \in asked \cup {q} : /\ s \in r.edges[p] /\ r.state[s] \in Known
                                   /\ r.state[s] = "done" => r.from[s] \subseteq r.from[p]
  <2> SUFFICES ASSUME Acyclic \/ p \notin r.errors, NEW s \in asked \cup {q}
               PROVE  /\ s \in r.edges[p] /\ r.state[s] \in Known
                      /\ r.state[s] = "done" => r.from[s] \subseteq r.from[p]
    OBVIOUS
  <2>1. CASE s = q
    BY <1>1, <1>5, <1>7, <2>1
  <2>2. CASE s \in asked
    <3>1. /\ s \in h.edges[p] /\ h.state[s] \in Known
          /\ h.state[s] = "done" => h.from[s] \subseteq h.from[p]
      BY <1>8, <2>2 DEF Answered
    <3>2. QED
      BY <1>1, <1>5, <1>6, <2>2, <3>1
  <2>3. QED
    BY <2>1, <2>2
<1>10. p \notin r.errors =>
         /\ r.text[p] \notin Broken
         /\ \A s \in asked \cup {q} : /\ r.state[s] = "done"
                                      /\ <<r.text[p], r.text[s]>> \notin Clashes
  BY <1>1, <1>8 DEF Answered
<1>11. Acyclic /\ p \in r.errors =>
         \/ r.text[p] \in Broken
         \/ \E s \in asked \cup {q} : \/ r.state[s] = "failed"
                                      \/ <<r.text[p], r.text[s]>> \in Clashes
  BY <1>1 DEF Answered, Known
<1>12. QED
  BY <1>4, <1>9, <1>10, <1>11 DEF Answered, r

LEMMA CycleAnswers ==
  ASSUME NEW h \in Programs, NEW p \in Places, h.state[p] = "checking", ~Acyclic,
         NEW asked
  PROVE  Checked(h, Cycle(h, p), {p}) /\ Answered(Cycle(h, p), p, asked)
<1> DEFINE r == Cycle(h, p)
<1>1. /\ r \in Programs
      /\ r.units = h.units /\ r.state = h.state /\ r.text = h.text
      /\ r.said = h.said /\ SameBodies(h, r)
      /\ r.errors = h.errors \cup {p}
      /\ r.from = h.from /\ r.edges = h.edges
  BY CycleIs
<1> HIDE DEF r
<1>2. \A u \in Places \ {p} : Same(h, r, u)
  BY <1>1 DEF Same
<1>3. Checked(h, r, {p})
  BY <1>1, <1>2, CheckedOwn
<1>4. Answered(r, p, asked)
  BY <1>1 DEF Answered
<1>5. QED
  BY <1>3, <1>4 DEF r

-----------------------------------------------------------------------------
(* A check, for as many nested calls as it may make.                       *)
Unchecked(g) == {u \in Paths : g.state[u] # "checking"}

\* Without cycles, nobody that waits for q is required by q.
Ready(g, q) ==
    Acyclic => \A u \in Paths : g.state[u] = "checking" => Rank[q] < Rank[u]

\* `check` can be called while fewer than n units are not being checked.
Sound(check, n) ==
    \A g \in Programs : \A q \in Paths :
        Ready(g, q) /\ Cardinality(Unchecked(g)) < n =>
            /\ Checked(g, check[g][q], {})
            /\ g.state[q] # "checking" => check[g][q].state[q] \in Known

LEMMA RankFalls ==
  ASSUME Acyclic
  PROVE  /\ Rank \in [Paths -> Nat]
         /\ \A p \in Paths : \A t \in (Versions[p] \cup {OnDisk[p]}) \ {NoText} :
               \A q \in Range(Requires[t]) : Rank[q] < Rank[p]
<1>1. \E rank \in [Paths -> 0..Cardinality(Paths)] :
        \A p \in Paths : \A t \in (Versions[p] \cup {OnDisk[p]}) \ {NoText} :
            \A q \in Range(Requires[t]) : rank[q] < rank[p]
  BY DEF Acyclic
<1>2. /\ Rank \in [Paths -> 0..Cardinality(Paths)]
      /\ \A p \in Paths : \A t \in (Versions[p] \cup {OnDisk[p]}) \ {NoText} :
            \A q \in Range(Requires[t]) : Rank[q] < Rank[p]
  BY <1>1 DEF Rank
<1>3. Cardinality(Paths) \in Nat
  BY ProgramAssumption, FS_CardinalityType
<1>4. QED
  BY <1>2, <1>3

LEMMA ResolveAnswers ==
  ASSUME NEW check, NEW n \in Nat, Sound(check, n),
         NEW h \in Programs, NEW p \in Places, h.state[p] = "checking",
         NEW q \in Paths, Ready(h, q), Cardinality(Unchecked(h)) < n,
         NEW asked, asked \subseteq Paths, Answered(h, p, asked)
  PROVE  /\ Checked(h, Resolve(check, h, p, q), {p})
         /\ Answered(Resolve(check, h, p, q), p, asked \cup {q})
<1> DEFINE k == check[h][q]
<1>1. Checked(h, k, {}) /\ (h.state[q] # "checking" => k.state[q] \in Known)
  BY DEF Sound
<1> HIDE DEF k
<1>2. k \in Programs /\ Checked(h, k, {p}) /\ Same(h, k, p)
  BY <1>1, CheckedWider DEF Checked
<1>3. k.state[p] = "checking"
  BY <1>2 DEF Same
<1>4. Answered(k, p, asked)
  BY <1>1, <1>2, AnsweredStays
<1>5. CASE h.state[q] = "checking"
  <2>1. ~Acyclic
    <3> SUFFICES ASSUME Acyclic PROVE FALSE
      OBVIOUS
    <3>1. Rank[q] < Rank[q] /\ Rank[q] \in Nat
      BY <1>5, RankFalls DEF Ready
    <3>2. QED
      BY <3>1
  <2>2. Resolve(check, h, p, q) = Cycle(k, p)
    BY <1>5 DEF Resolve, k
  <2>3. Checked(k, Cycle(k, p), {p}) /\ Answered(Cycle(k, p), p, asked \cup {q})
    BY <1>2, <1>3, <2>1, CycleAnswers
  <2>4. QED
    BY <1>2, <2>2, <2>3, CheckedOn
<1>6. CASE h.state[q] # "checking"
  <2>1. Resolve(check, h, p, q) = Met(k, p, q)
    BY <1>6 DEF Resolve, k
  <2>2. Checked(k, Met(k, p, q), {p}) /\ Answered(Met(k, p, q), p, asked \cup {q})
    BY <1>1, <1>2, <1>3, <1>4, <1>6, MetAnswers
  <2>3. QED
    BY <1>2, <2>1, <2>2, CheckedOn
<1>7. QED
  BY <1>5, <1>6

\* While p is checked, the units that are being checked stay the same.
LEMMA CheckingStays ==
  ASSUME NEW g, NEW h, NEW own, Checked(g, h, own)
  PROVE  /\ \A u \in Places : h.state[u] = "checking" <=> g.state[u] = "checking"
         /\ Unchecked(h) = Unchecked(g)
         /\ \A q : Ready(g, q) => Ready(h, q)
<1>1. \A u \in Places : h.state[u] = "checking" <=> g.state[u] = "checking"
  BY DEF Checked, Same, New, Settled
<1>2. QED
  BY <1>1, Facts DEF Unchecked, Ready

Finished(h, p) == [h EXCEPT !.state[p] = "done", !.named = @ \cup {p}]

LEMMA ParsedHolds ==
  ASSUME NEW check, NEW n \in Nat, Sound(check, n),
         NEW g \in Programs, NEW p \in Places, NEW text \in Texts,
         \A q \in Range(Requires[text]) : Ready(Begun(g, p, text), q),
         Cardinality(Unchecked(Begun(g, p, text))) < n
  PROVE  \E met : /\ Checked(Begun(g, p, text), met, {p})
                  /\ Answered(met, p, Range(Requires[text]))
                  /\ CheckParsed(check, g, p, text) = Finished(met, p)
<1> DEFINE begun == Begun(g, p, text)
           seq == Requires[text]
           upto(i) == {seq[j] : j \in 1..i}
           meet == [h \in Programs |-> [q \in Paths |-> Resolve(check, h, p, q)]]
           met == Folded(meet, begun, seq)
           S == [i \in 0..Len(seq) |->
                   {h \in Programs : /\ Checked(begun, h, {p})
                                     /\ Answered(h, p, upto(i))}]
<1>1. /\ begun \in Programs /\ begun.state[p] = "checking" /\ begun.text[p] = text
      /\ p \in begun.errors <=> text \in Broken
  BY BegunIs
<1>2. /\ seq \in Seq(Paths) /\ Len(seq) \in Nat
      /\ \A i \in 1..Len(seq) : seq[i] \in Paths /\ seq[i] \in Range(seq)
  <2>1. seq \in Seq(Paths)
    BY Facts
  <2>2. QED
    BY <2>1 DEF Range
<1>3. begun \in S[0]
  <2>1. Checked(begun, begun, {p})
    BY <1>1, CheckedSelf
  <2>2. Answered(begun, p, upto(0))
    BY <1>1 DEF Answered
  <2>3. QED
    BY <1>1, <1>2, <2>1, <2>2
<1>4. ASSUME NEW i \in 1..Len(seq), NEW h \in S[i - 1]
      PROVE  meet[h][seq[i]] \in S[i]
  <2> DEFINE q == seq[i]
             r == Resolve(check, h, p, q)
  <2>1. /\ i - 1 \in 0..Len(seq) /\ i \in 0..Len(seq)
        /\ h \in Programs /\ Checked(begun, h, {p}) /\ Answered(h, p, upto(i - 1))
    BY <1>2, <1>4
  <2>2. q \in Paths /\ upto(i - 1) \subseteq Paths /\ upto(i) = upto(i - 1) \cup {q}
    BY <1>2
  <2>3. h.state[p] = "checking" /\ Ready(h, q) /\ Cardinality(Unchecked(h)) < n
    <3>1. Ready(begun, q)
      BY <1>2
    <3> HIDE DEF begun, q
    <3>2. Ready(h, q) /\ Unchecked(h) = Unchecked(begun)
      BY <2>1, <3>1, CheckingStays
    <3>3. h.state[p] = "checking"
      BY <2>1 DEF Checked
    <3>4. QED
      BY <3>2, <3>3 DEF begun
  <2>4. Checked(h, r, {p}) /\ Answered(r, p, upto(i - 1) \cup {q})
    <3> HIDE DEF q, upto
    <3>1. QED
      BY <2>1, <2>2, <2>3, ResolveAnswers
  <2>5. Checked(begun, r, {p}) /\ r \in Programs
    <3> HIDE DEF r, begun
    <3>1. Checked(begun, r, {p})
      BY <2>1, <2>4, CheckedOn
    <3>2. QED
      BY <3>1 DEF Checked
  <2>6. meet[h][q] = r
    <3> HIDE DEF r, q
    <3>1. QED
      BY <2>1, <2>2 DEF r
  <2>7. r \in S[i]
    <3> HIDE DEF r, begun, q, upto
    <3>1. QED
      BY <2>1, <2>2, <2>4, <2>5
  <2>8. QED
    <3> HIDE DEF meet, S, r
    <3>1. QED
      BY <2>6, <2>7
<1>5. met \in S[Len(seq)]
  <2> HIDE DEF S, meet, begun, seq
  <2>1. QED
    BY <1>2, <1>3, <1>4, FoldedIn
<1>6. upto(Len(seq)) = Range(seq)
  BY <1>2 DEF Range
<1>7. Checked(begun, met, {p}) /\ Answered(met, p, Range(seq))
  <2> HIDE DEF met, upto, begun
  <2>1. QED
    BY <1>2, <1>5, <1>6
<1>8. CheckParsed(check, g, p, text) = Finished(met, p)
  BY DEF CheckParsed, Finished
<1>9. QED
  <2> HIDE DEF met
  <2>1. QED
    BY <1>7, <1>8

DiskTyped ==
    /\ disk \in [Paths -> Texts \cup {NoText}]
    /\ \A p \in Paths : disk[p] \in Versions[p] \cup {OnDisk[p]}

LEMMA FinishAnswers ==
  ASSUME NEW met \in Programs, NEW p \in Places, met.state[p] = "checking",
         NEW u \in Places, NEW asked, asked \subseteq Paths, Answered(met, u, asked)
  PROVE  Answered(Finished(met, p), u, asked)
<1> DEFINE r == Finished(met, p)
<1>1. /\ r.state = [met.state EXCEPT ![p] = "done"]
      /\ r.text = met.text /\ r.errors = met.errors
      /\ r.from = met.from /\ r.edges = met.edges
  BY FinishedIs DEF Finished
<1> HIDE DEF r
<1>2. \A q \in asked : met.state[q] \in Known => r.state[q] = met.state[q]
  BY <1>1, Facts DEF Known, Programs
<1>3. Answered(r, u, asked)
  BY <1>1, <1>2 DEF Answered, Known
<1>4. QED
  BY <1>3 DEF r

LEMMA LoadHolds ==
  ASSUME NEW check, NEW n \in Nat, Sound(check, n), DiskTyped,
         NEW g \in Programs, NEW p \in Paths, g.state[p] \notin Settled,
         g.state[p] # "absent" \/ p \in Range(g.units),
         Ready(g, p), Cardinality(Unchecked(g)) <= n
  PROVE  /\ Checked(g, LoadInto(check, g, p), {})
         /\ LoadInto(check, g, p).state[p] \in Known
<1> DEFINE r == LoadInto(check, g, p)
<1>0. p \in Places
  BY Facts
<1>1. CASE disk[p] = NoText
  <2>1. r = [g EXCEPT !.state[p] = "failed", !.said = @ \cup {<<"unread", p>>}]
    BY <1>1 DEF LoadInto
  <2>2. /\ r \in Programs
        /\ r.said = g.said \cup {<<"unread", p>>}
        /\ r.state = [g.state EXCEPT ![p] = "failed"]
        /\ r.units = g.units /\ r.text = g.text /\ SameBodies(g, r)
        /\ r.errors = g.errors /\ r.from = g.from /\ r.edges = g.edges
    <3> HIDE DEF r
    <3>1. QED
      BY <2>1, FailedIs, Zenon
  <2> HIDE DEF r
  <2>3. r.state[p] = "failed" /\ (\A u \in Places \ {p} : Same(g, r, u))
    BY <2>2, <1>0 DEF Same, Programs
  <2>4. Checked(g, r, {})
    <3>1. New(g, r, p)
      BY <2>2, <2>3 DEF New
    <3>2. \A d \in r.said : d \in g.said \/ (d[1] = "unread" /\ d[2] = p)
      BY <2>2
    <3>3. \A u \in Paths : r.state[u] # "absent" =>
             g.state[u] # "absent" \/ u \in Range(r.units)
      BY <2>2, <2>3, Facts DEF Same
    <3>4. QED
      BY <2>2, <2>3, <3>1, <3>2, <3>3 DEF Checked
  <2>5. QED
    BY <2>3, <2>4 DEF Known, r
<1>2. CASE disk[p] # NoText
  <2> DEFINE text == disk[p]
             begun == Begun(g, p, text)
  <2>1. text \in Texts /\ text \in (Versions[p] \cup {OnDisk[p]}) \ {NoText}
    BY <1>2 DEF DiskTyped
  <2>2. r = CheckParsed(check, g, p, text)
    BY <1>2 DEF LoadInto
  <2>3. /\ begun \in Programs
        /\ begun.state[p] = "checking" /\ begun.text[p] = text
        /\ \A u \in Places \ {p} : Same(g, begun, u)
        /\ begun.units = g.units /\ begun.said = g.said
        /\ SameBodies(g, begun)
    BY <1>0, <2>1, BegunIs
  <2>4. \A q \in Range(Requires[text]) : Ready(begun, q)
    <3> SUFFICES ASSUME Acyclic, NEW q \in Range(Requires[text]),
                        NEW u \in Paths, begun.state[u] = "checking"
                 PROVE  Rank[q] < Rank[u]
      BY DEF Ready
    <3>1. q \in Paths
      BY <2>1, Facts DEF Range
    <3>2. Rank[q] < Rank[p] /\ Rank \in [Paths -> Nat]
      BY <2>1, RankFalls
    <3>3. CASE u = p
      BY <3>2, <3>3
    <3>4. CASE u # p
      <4>1. g.state[u] = "checking"
        BY <2>3, <3>4, Facts DEF Same
      <4>2. Rank[p] < Rank[u]
        BY <4>1 DEF Ready
      <4>3. QED
        BY <3>1, <3>2, <4>2
    <3>5. QED
      BY <3>3, <3>4
  <2>5. Cardinality(Unchecked(begun)) < n
    <3>1. Unchecked(begun) = Unchecked(g) \ {p} /\ p \in Unchecked(g)
      BY <2>3, Facts DEF Unchecked, Same, Settled
    <3>2. IsFiniteSet(Unchecked(g))
      BY ProgramAssumption, FS_Subset DEF Unchecked
    <3>3. /\ Cardinality(Unchecked(begun)) = Cardinality(Unchecked(g)) - 1
          /\ Cardinality(Unchecked(g)) \in Nat
      BY <3>1, <3>2, FS_RemoveElement, FS_CardinalityType
    <3>4. QED
      BY <3>3
  <2> HIDE DEF text, r
  <2>18. \E met : /\ Checked(begun, met, {p})
                  /\ Answered(met, p, Range(Requires[text]))
                  /\ CheckParsed(check, g, p, text) = Finished(met, p)
    BY <1>0, <2>1, <2>4, <2>5, ParsedHolds
  <2> HIDE DEF begun
  <2>6. PICK met : /\ Checked(begun, met, {p})
                   /\ Answered(met, p, Range(Requires[text]))
                   /\ r = Finished(met, p)
    BY <2>2, <2>18
  <2>7. met \in Programs /\ met.state[p] = "checking" /\ met.text[p] = text
    BY <2>3, <2>6 DEF Checked
  <2>8. /\ r \in Programs
        /\ r.state = [met.state EXCEPT ![p] = "done"]
        /\ r.units = met.units /\ r.text = met.text
        /\ r.said = met.said /\ SameBodies(met, r)
        /\ r.errors = met.errors /\ r.from = met.from /\ r.edges = met.edges
    BY <1>0, <2>6, <2>7, FinishedIs DEF Finished
  <2>9. r.state[p] = "done" /\ \A u \in Places \ {p} : Same(met, r, u)
    BY <2>8, <1>0, <2>7 DEF Same, Programs
  <2>10. Range(Requires[text]) \subseteq Paths
    BY <2>1, Facts DEF Range
  <2>11. New(g, r, p)
    <3>1. Answered(r, p, Range(Requires[text]))
      BY <1>0, <2>6, <2>7, <2>10, FinishAnswers
    <3>2. QED
      BY <1>2, <2>7, <2>8, <2>9, <3>1 DEF New, text
  <2>12. ASSUME NEW u \in Places \ {p}
         PROVE  Same(g, r, u) \/ (u \in Paths /\ g.state[u] \notin Settled /\ New(g, r, u))
    <3>1. Same(g, begun, u) /\ Same(met, r, u)
      BY <2>3, <2>9
    <3>2. CASE Same(begun, met, u)
      BY <3>1, <3>2 DEF Same
    <3>3. CASE u \in Paths /\ begun.state[u] \notin Settled /\ New(begun, met, u)
      <4>1. CASE met.state[u] = "failed" /\ met.text[u] = begun.text[u]
        BY <3>1, <3>3, <4>1 DEF Same, New
      <4>2. CASE met.state[u] # "failed"
        <5>1. /\ met.state[u] = "done" /\ met.text[u] = disk[u] /\ disk[u] # NoText
              /\ Answered(met, u, Range(Requires[met.text[u]]))
          BY <3>3, <4>2 DEF New
        <5>2. Range(Requires[met.text[u]]) \subseteq Paths
          <6>1. met.text[u] \in Texts
            BY <5>1, <2>7 DEF Programs
          <6>2. QED
            BY <6>1, Facts DEF Range
        <5>3. Answered(r, u, Range(Requires[met.text[u]]))
          BY <2>6, <1>0, <2>7, <5>1, <5>2, FinishAnswers
        <5>4. QED
          BY <3>1, <3>3, <5>1, <5>3 DEF Same, New
      <4>3. QED
        BY <3>3, <4>1, <4>2 DEF New
    <3>4. QED
      BY <2>6, <3>2, <3>3 DEF Checked
  <2>13. Acyclic => \A d \in r.said :
           d \in g.said \/ (d[1] = "unread" /\ d[2] \in Paths /\ r.state[d[2]] = "failed")
    <3> SUFFICES ASSUME Acyclic, NEW d \in r.said, d \notin g.said
                 PROVE  d[1] = "unread" /\ d[2] \in Paths /\ r.state[d[2]] = "failed"
      OBVIOUS
    <3>1. d \in met.said /\ d \notin begun.said
      BY <2>3, <2>8
    <3>2. d[1] = "unread" /\ d[2] \in Paths /\ met.state[d[2]] = "failed"
      BY <2>6, <3>1 DEF Checked
    <3>3. d[2] \in Places \ {p}
      BY <2>7, <3>2, Facts
    <3>4. QED
      BY <2>9, <3>2, <3>3 DEF Same
  <2>14. \A u \in Paths : r.state[u] # "absent" =>
           g.state[u] # "absent" \/ u \in Range(r.units)
    <3> SUFFICES ASSUME NEW u \in Paths, r.state[u] # "absent"
                 PROVE  g.state[u] # "absent" \/ u \in Range(r.units)
      OBVIOUS
    <3>0. Range(g.units) \subseteq Range(r.units)
      BY <2>3, <2>6, <2>8 DEF Checked
    <3>1. CASE u = p
      BY <3>0, <3>1
    <3>2. CASE u # p
      <4>1. u \in Places \ {p}
        BY <3>2, Facts
      <4>2. met.state[u] # "absent"
        BY <2>9, <4>1 DEF Same
      <4>3. begun.state[u] # "absent" \/ u \in Range(met.units)
        BY <2>6, <4>2 DEF Checked
      <4>4. QED
        BY <2>3, <2>8, <4>1, <4>3 DEF Same
    <3>3. QED
      BY <3>1, <3>2
  <2>15. SameBodies(g, r) /\ Range(g.units) \subseteq Range(r.units)
    BY <2>3, <2>6, <2>8 DEF Checked, SameBodies
  <2>16. Checked(g, r, {})
    BY <2>8, <2>11, <2>12, <2>13, <2>14, <2>15 DEF Checked
  <2>17. QED
    BY <2>9, <2>16 DEF Known, r
<1>3. QED
  BY <1>1, <1>2

LEMMA UnitHolds ==
  ASSUME NEW check, NEW n \in Nat, Sound(check, n), DiskTyped,
         NEW g \in Programs, NEW p \in Paths,
         Ready(g, p), Cardinality(Unchecked(g)) < n + 1
  PROVE  /\ Checked(g, CheckUnit(check, g, p), {})
         /\ g.state[p] # "checking" => CheckUnit(check, g, p).state[p] \in Known
<1> DEFINE r == CheckUnit(check, g, p)
<1>1. p \in Places /\ Cardinality(Unchecked(g)) <= n
  <2>1. IsFiniteSet(Unchecked(g))
    BY ProgramAssumption, FS_Subset DEF Unchecked
  <2>2. Cardinality(Unchecked(g)) \in Nat
    BY <2>1, FS_CardinalityType
  <2>3. QED
    BY <2>2, Facts
<1>2. g.state[p] \in {"absent", "checking", "failed", "done", "stale"}
  BY <1>1 DEF Programs
<1>3. CASE g.state[p] = "checking"
  <2>1. r = [g EXCEPT !.said = @ \cup {<<"cycle", p>>}]
    BY <1>3 DEF CheckUnit
  <2> HIDE DEF r
  <2>2. /\ r \in Programs
        /\ r.units = g.units /\ r.text = g.text /\ r.state = g.state
        /\ SameBodies(g, r)
        /\ r.errors = g.errors /\ r.from = g.from /\ r.edges = g.edges
    BY <2>1, SaidIs
  <2>3. ~Acyclic
    <3> SUFFICES ASSUME Acyclic PROVE FALSE
      OBVIOUS
    <3>1. Rank[p] < Rank[p] /\ Rank[p] \in Nat
      BY <1>3, RankFalls DEF Ready
    <3>2. QED
      BY <3>1
  <2>4. Checked(g, r, {})
    BY <2>2, <2>3 DEF Checked, Same
  <2>5. QED
    BY <1>3, <2>4 DEF r
<1>4. CASE g.state[p] = "absent"
  <2> DEFINE l == [g EXCEPT !.units = <<p>> \o @]
  <2>1. r = LoadInto(check, l, p)
    BY <1>4 DEF CheckUnit
  <2>2. /\ l \in Programs
        /\ Range(l.units) = {p} \cup Range(g.units)
        /\ l.said = g.said /\ l.text = g.text /\ l.state = g.state
        /\ SameBodies(g, l)
        /\ l.errors = g.errors /\ l.from = g.from /\ l.edges = g.edges
    BY ListedIs
  <2> HIDE DEF l, r
  <2>3. Checked(g, l, {})
    BY <2>2 DEF Checked, Same
  <2>4. Ready(l, p) /\ Cardinality(Unchecked(l)) <= n
    BY <1>1, <2>3, CheckingStays
  <2>5. Checked(l, r, {}) /\ r.state[p] \in Known
    BY <1>4, <2>1, <2>2, <2>4, LoadHolds DEF Settled
  <2>6. Checked(g, r, {})
    BY <2>3, <2>5, CheckedOn
  <2>7. QED
    BY <2>5, <2>6 DEF r
<1>5. CASE g.state[p] = "stale"
  <2>1. r = LoadInto(check, g, p)
    BY <1>5 DEF CheckUnit
  <2>2. QED
    BY <1>1, <1>5, <2>1, LoadHolds DEF Settled
<1>6. CASE g.state[p] \in Known
  <2>1. r = g
    BY <1>6 DEF CheckUnit, Known
  <2>2. QED
    BY <1>6, <2>1, CheckedSelf
<1>7. QED
  BY <1>2, <1>3, <1>4, <1>5, <1>6 DEF Known

\* The recursion of a check is made of its calls.
LEMMA CheckerHolds ==
  \E to : /\ to[0] = NoCall
          /\ \A n \in 1..(Cardinality(Paths) + 1) : to[n] = OneCall(to[n - 1])
          /\ Checker = to[Cardinality(Paths) + 1]
<1> DEFINE calls == Cardinality(Paths) + 1
           Fits(f, n) == f = [i \in 0..n |-> IF i = 0 THEN NoCall ELSE OneCall(f[i - 1])]
           S == {n \in Nat : \E f : Fits(f, n)}
<1>0. calls \in Nat
  BY ProgramAssumption, FS_CardinalityType
<1>1. 0 \in S
  <2>1. Fits([i \in 0..0 |-> NoCall], 0)
    OBVIOUS
  <2>2. QED
    BY <2>1
<1>2. ASSUME NEW n \in Nat, n \in S
      PROVE  n + 1 \in S
  <2>1. PICK f : Fits(f, n)
    BY <1>2
  <2> DEFINE g == [i \in 0..(n + 1) |-> IF i = n + 1 THEN OneCall(f[n]) ELSE f[i]]
  <2>2. Fits(g, n + 1)
    <3> SUFFICES ASSUME NEW i \in 0..(n + 1)
                 PROVE  g[i] = IF i = 0 THEN NoCall ELSE OneCall(g[i - 1])
      OBVIOUS
    <3>1. CASE i = n + 1
      BY <3>1
    <3>2. CASE i # n + 1
      <4>1. i \in 0..n /\ (i # 0 => i - 1 \in 0..n)
        BY <3>2
      <4>2. f[i] = IF i = 0 THEN NoCall ELSE OneCall(f[i - 1])
        BY <2>1, <4>1
      <4>3. QED
        BY <3>2, <4>1, <4>2
    <3>3. QED
      BY <3>1, <3>2
  <2>3. \E f_1 : Fits(f_1, n + 1)
    <3> HIDE DEF Fits, g
    <3>1. QED
      BY <2>2
  <2>4. QED
    BY <2>3
<1>3. Nat \subseteq S
  <2> HIDE DEF S
  <2>1. QED
    BY <1>1, <1>2, Induct
<1>4. PICK h : Fits(h, calls)
  BY <1>0, <1>3
<1> DEFINE to == CHOOSE f : Fits(f, calls)
<1>5. Fits(to, calls)
  <2> HIDE DEF Fits
  <2>1. QED
    BY <1>4
<1>6. Checker = to[calls]
  BY DEF Checker
<1> HIDE DEF to
<1>7. to[0] = NoCall /\ \A n \in 1..calls : to[n] = OneCall(to[n - 1])
  BY <1>0, <1>5
<1>8. QED
  BY <1>6, <1>7

LEMMA CheckerSound ==
  ASSUME DiskTyped
  PROVE  Sound(Checker, Cardinality(Paths) + 1)
<1>1. PICK to : /\ to[0] = NoCall
                /\ \A n \in 1..(Cardinality(Paths) + 1) : to[n] = OneCall(to[n - 1])
                /\ Checker = to[Cardinality(Paths) + 1]
  BY CheckerHolds
<1> DEFINE calls == Cardinality(Paths) + 1
           S == {n \in Nat : n <= calls => Sound(to[n], n)}
<1>2. calls \in Nat
  BY ProgramAssumption, FS_CardinalityType
<1>3. 0 \in S
  <2>1. \A g \in Programs : ~(Cardinality(Unchecked(g)) < 0)
    <3> SUFFICES ASSUME NEW g \in Programs
                 PROVE  ~(Cardinality(Unchecked(g)) < 0)
      OBVIOUS
    <3>1. IsFiniteSet(Unchecked(g))
      BY ProgramAssumption, FS_Subset DEF Unchecked
    <3>2. Cardinality(Unchecked(g)) \in Nat
      BY <3>1, FS_CardinalityType
    <3>3. QED
      BY <3>2
  <2>2. QED
    BY <2>1 DEF Sound
<1>4. ASSUME NEW n \in Nat, n \in S
      PROVE  n + 1 \in S
  <2> SUFFICES ASSUME n + 1 <= calls
               PROVE  Sound(to[n + 1], n + 1)
    OBVIOUS
  <2>1. n + 1 \in 1..calls /\ (n + 1) - 1 = n /\ n <= calls
    BY <1>2
  <2>2. Sound(to[n], n)
    BY <1>4, <2>1
  <2>3. to[n + 1] = OneCall(to[n])
    BY <1>1, <2>1
  <2> SUFFICES ASSUME NEW g \in Programs, NEW q \in Paths,
                      Ready(g, q), Cardinality(Unchecked(g)) < n + 1
               PROVE  /\ Checked(g, to[n + 1][g][q], {})
                      /\ g.state[q] # "checking" => to[n + 1][g][q].state[q] \in Known
    BY DEF Sound
  <2>4. to[n + 1][g][q] = CheckUnit(to[n], g, q)
    BY <2>3 DEF OneCall
  <2>5. QED
    BY <2>2, <2>4, UnitHolds
<1>5. Nat \subseteq S
  <2> HIDE DEF S
  <2>1. QED
    BY <1>3, <1>4, Induct
<1>6. QED
  BY <1>1, <1>2, <1>5

-----------------------------------------------------------------------------
(* The body of a unit.                                                     *)
LEMMA OwnedFacts ==
  ASSUME NEW g, NEW p \in Places, NEW b, b = g.body[p], Owned(g, p)
  PROVE  /\ g.state[p] = "done" /\ b \in DOMAIN g.made
         /\ b \notin g.retired \cup g.freed
         /\ g.made[b].unit = p /\ g.made[b].from = g.from[p]
         /\ \A q \in Paths : g.made[b].table[q] # None =>
                q \in g.edges[p] /\ g.made[b].table[q] = g.body[q]
         /\ ~g.made[b].filled => /\ g.text[p] \notin Stopping
                                 /\ g.edges[p] = Range(Requires[g.text[p]])
                                 /\ \A q \in Paths : g.made[b].table[q] = None
BY DEF Owned

LEMMA BodyOwned ==
  ASSUME NEW g, Whole(g), NEW p \in Paths, g.body[p] # None
  PROVE  Owned(g, p)
BY DEF Whole, Bodied

LEMMA OwnedFrom ==
  ASSUME NEW h, NEW p \in Places, NEW b, b = h.body[p],
         h.state[p] = "done", b \in DOMAIN h.made, b \notin h.retired \cup h.freed,
         h.made[b].unit = p, h.made[b].from = h.from[p],
         \A q \in Paths : h.made[b].table[q] # None =>
            q \in h.edges[p] /\ h.made[b].table[q] = h.body[q],
         h.made[b].filled \/ /\ h.text[p] \notin Stopping
                             /\ h.edges[p] = Range(Requires[h.text[p]])
                             /\ \A q \in Paths : h.made[b].table[q] = None
  PROVE  Owned(h, p)
BY SMTT(20) DEF Owned

\* A body is its unit's own still when nothing of either changed, and the
\* bodies it answers stand.
LEMMA OwnedSame ==
  ASSUME NEW g, NEW h, NEW p \in Places, NEW b, b = g.body[p], Owned(g, p),
         h.body[p] = b, h.made[b] = g.made[b], b \in DOMAIN h.made,
         b \notin h.retired \cup h.freed,
         h.state[p] = g.state[p], h.text[p] = g.text[p],
         h.from[p] = g.from[p], h.edges[p] = g.edges[p],
         \A q \in Paths : g.body[q] # None /\ q \in g.edges[p] => h.body[q] = g.body[q]
  PROVE  Owned(h, p)
<1>1. /\ g.state[p] = "done" /\ g.made[b].unit = p /\ g.made[b].from = g.from[p]
      /\ \A q \in Paths : g.made[b].table[q] # None =>
             q \in g.edges[p] /\ g.made[b].table[q] = g.body[q]
      /\ ~g.made[b].filled => /\ g.text[p] \notin Stopping
                              /\ g.edges[p] = Range(Requires[g.text[p]])
                              /\ \A q \in Paths : g.made[b].table[q] = None
  BY OwnedFacts
<1>2. ASSUME NEW q \in Paths, h.made[b].table[q] # None
      PROVE  q \in h.edges[p] /\ h.made[b].table[q] = h.body[q]
  <2>1. g.made[b].table[q] # None => q \in g.edges[p] /\ g.made[b].table[q] = g.body[q]
    BY <1>1, Zenon
  <2>2. q \in g.edges[p] /\ g.made[b].table[q] = g.body[q] /\ g.body[q] # None
    BY <1>2, <2>1
  <2>3. h.body[q] = g.body[q]
    BY <2>2
  <2>4. QED
    BY <2>2, <2>3
<1>3. /\ h.state[p] = "done" /\ h.made[b].unit = p /\ h.made[b].from = h.from[p]
      /\ \A q \in Paths : h.made[b].table[q] # None =>
             q \in h.edges[p] /\ h.made[b].table[q] = h.body[q]
  BY <1>1, <1>2, Zenon
<1>4. h.made[b].filled \/ /\ h.text[p] \notin Stopping
                          /\ h.edges[p] = Range(Requires[h.text[p]])
                          /\ \A q \in Paths : h.made[b].table[q] = None
  BY <1>1
<1>5. QED
  BY <1>3, <1>4, OwnedFrom

-----------------------------------------------------------------------------
(* A check keeps the invariant.                                            *)
LEMMA PathChecked ==
  ASSUME DiskTyped, NEW g \in Programs, NEW p \in Paths,
         \A u \in Paths : g.state[u] # "checking"
  PROVE  Checked(g, CheckPath(g, p), {}) /\ CheckPath(g, p).state[p] \in Known
<1>1. Unchecked(g) = Paths /\ Cardinality(Paths) \in Nat
  BY ProgramAssumption, FS_CardinalityType DEF Unchecked
<1>2. Ready(g, p)
  BY DEF Ready
<1>3. QED
  BY <1>1, <1>2, CheckerSound DEF Sound, CheckPath

LEMMA JudgementNew ==
  ASSUME NEW h \in Programs, NEW p \in Places, h.text[p] \in Texts,
         Answered(h, p, Range(Requires[h.text[p]]))
  PROVE  Judgement(h, p)
BY DEF Answered, Judgement

LEMMA JudgementStays ==
  ASSUME NEW g, NEW h, NEW own, own \cap Paths = {}, Checked(g, h, own),
         Shaped(g), NEW p \in Paths,
         g.state[p] = "done", Judgement(g, p)
  PROVE  Judgement(h, p)
<1>1. \A u \in Paths : g.state[u] \in Known => Same(g, h, u)
  BY Facts DEF Checked, Known, Settled
<1>2. Same(g, h, p) /\ g.text[p] \in Texts
  BY <1>1, Facts DEF Known, Judgement
<1>3. Range(Requires[g.text[p]]) \subseteq Paths
  BY <1>2, Facts DEF Range
<1>4. ASSUME NEW q \in Range(Requires[g.text[p]])
      PROVE  /\ g.state[q] \in Known => Same(g, h, q)
             /\ g.text[q] \in Texts => Same(g, h, q)
  <2>1. q \in Paths /\ q \in Places
    BY <1>3, Facts
  <2>2. g.text[q] \in Texts => g.state[q] = "done"
    BY <2>1, Facts DEF Shaped
  <2>3. QED
    BY <1>1, <2>1, <2>2 DEF Known
<1>5. h.text[p] = g.text[p]
  BY <1>2 DEF Same
<1> DEFINE asked == Range(Requires[g.text[p]])
<1>6. h.text[p] \notin Stopping /\ (Acyclic \/ p \notin h.errors) =>
         \A q \in asked : /\ q \in h.edges[p] /\ h.state[q] \in Known
                          /\ h.state[q] = "done" => h.from[q] \subseteq h.from[p]
  BY <1>2, <1>4, <1>5 DEF Judgement, Same
<1>7. Acyclic /\ p \in h.errors =>
         \/ h.text[p] \in Broken
         \/ \E q \in asked :
              /\ HasScripts \/ q \in h.edges[p]
              /\ h.state[q] = "failed" \/ <<h.text[p], h.text[q]>> \in Clashes
  <2> SUFFICES ASSUME Acyclic /\ p \in h.errors, h.text[p] \notin Broken
               PROVE  \E q \in asked :
              /\ HasScripts \/ q \in h.edges[p]
              /\ h.state[q] = "failed" \/ <<h.text[p], h.text[q]>> \in Clashes
    OBVIOUS
  <2>1. PICK q \in asked :
              /\ HasScripts \/ q \in g.edges[p]
              /\ g.state[q] = "failed" \/ <<g.text[p], g.text[q]>> \in Clashes
    BY <1>2, <1>5 DEF Judgement, Same
  <2>2. Same(g, h, q)
    BY <1>4, <2>1, Facts DEF Known
  <2>3. QED
    BY <1>2, <2>1, <2>2 DEF Same
<1>8. QED
  BY <1>2, <1>5, <1>6, <1>7 DEF Judgement

LEMMA WholeChecked ==
  ASSUME DiskTyped, NEW g, NEW h, NEW own, own \cap Paths = {},
         Whole(g), Checked(g, h, own)
  PROVE  Whole(h) /\ Live(h) = Live(g)
<1>1. /\ g \in Programs /\ h \in Programs /\ SameBodies(g, h)
      /\ Range(g.units) \subseteq Range(h.units)
  BY DEF Checked
<1>2. \A u \in Paths : \/ Same(g, h, u)
                       \/ g.state[u] \notin Settled /\ New(g, h, u)
  BY Facts DEF Checked
<1>3. Shaped(h)
  <2>1. \A u \in Paths : h.state[u] # "checking"
    BY CheckingStays, Facts DEF Whole, Shaped
  <2>2. \A u \in Paths : h.state[u] # "absent" => u \in Range(h.units)
    BY <1>1 DEF Checked, Whole, Shaped
  <2>3. \A u \in Paths : h.state[u] # "done" => h.text[u] = NoText
    BY <1>2 DEF Whole, Shaped, Same, New, Settled
  <2>4. QED
    BY <2>1, <2>2, <2>3 DEF Shaped
<1>4. Current(h) = Current(g) /\ Live(h) = Live(g)
  BY <1>1 DEF SameBodies, Current, Live
<1>5. Bodied(h)
  <2>1. ASSUME NEW p \in Paths, h.body[p] # None
        PROVE  Owned(h, p)
    <3> DEFINE b == g.body[p]
    <3>1. Owned(g, p) /\ p \in Places
      BY <1>1, <2>1, BodyOwned, Facts DEF SameBodies
    <3>2. g.state[p] = "done" /\ b \in DOMAIN g.made /\ b \notin g.retired \cup g.freed
      BY <3>1, OwnedFacts
    <3>3. Same(g, h, p)
      BY <1>2, <3>2 DEF Settled
    <3> HIDE DEF b
    <3>4. QED
      BY <1>1, <3>1, <3>2, <3>3, OwnedSame DEF Same, SameBodies, b
  <2>2. /\ h.retired \cup h.freed \subseteq DOMAIN h.made
        /\ h.retired \cap h.freed = {}
    BY <1>1 DEF SameBodies, Whole, Bodied
  <2>3. \A b \in h.retired : \A q \in Paths :
           h.made[b].table[q] # None => h.made[b].table[q] \in Live(h)
    BY <1>1, <1>4 DEF SameBodies, Whole, Bodied
  <2>4. QED
    BY <2>1, <2>2, <2>3 DEF Bodied
<1>6. Judged(h)
  <2> SUFFICES ASSUME NEW p \in Paths, h.state[p] = "done"
               PROVE  Judgement(h, p)
    BY DEF Judged
  <2>1. CASE Same(g, h, p)
    <3>1. Judgement(g, p) /\ g.state[p] = "done"
      BY <2>1 DEF Whole, Judged, Same
    <3>2. QED
      BY <3>1, JudgementStays DEF Whole
  <2>2. CASE New(g, h, p)
    <3>1. /\ h.text[p] = disk[p] /\ disk[p] # NoText
          /\ Answered(h, p, Range(Requires[h.text[p]]))
      BY <2>2 DEF New
    <3>2. h.text[p] \in Texts
      BY <3>1 DEF DiskTyped
    <3>3. QED
      BY <1>1, <3>1, <3>2, JudgementNew, Facts
  <2>3. QED
    BY <1>2, <2>1, <2>2
<1>7. SaidOf(h)
  <2> SUFFICES ASSUME Acyclic, NEW d \in h.said, d[1] # "collides"
               PROVE  d[1] = "unread" /\ h.state[d[2]] = "failed"
    BY DEF SaidOf
  <2>1. CASE d \in g.said
    <3>1. d[1] = "unread" /\ g.state[d[2]] = "failed"
      BY <2>1 DEF Whole, SaidOf
    <3>2. d[2] \in Paths
      BY <1>1, <2>1 DEF Programs
    <3>3. Same(g, h, d[2])
      BY <1>2, <3>1, <3>2 DEF Settled
    <3>4. QED
      BY <3>1, <3>3 DEF Same
  <2>2. CASE d \notin g.said
    BY <2>2 DEF Checked
  <2>3. QED
    BY <2>1, <2>2
<1>8. Matched => Sourced(h)
  BY <1>1 DEF Whole, Sourced, SameBodies
<1>9. QED
  BY <1>1, <1>3, <1>4, <1>5, <1>6, <1>7, <1>8 DEF Whole

\* Asking for colliding units changes nothing else.
LEMMA CollidingWhole ==
  ASSUME NEW g, Whole(g)
  PROVE  LET r == ReportColliding(g)
         IN Whole(r) /\ Live(r) = Live(g) /\ SameBodies(g, r)
<1> DEFINE said == g.said \cup ({"collides"} \X (Colliding(g) \cap Paths))
           r == [g EXCEPT !.said = said]
<1>1. g \in Programs
  BY DEF Whole
<1>2. said \subseteq {"unread", "cycle", "collides"} \X Paths
  BY <1>1 DEF Programs
<1>3. Colliding(g) \subseteq Paths
  BY ProgramAssumption DEF Colliding
<1>4. /\ r \in Programs /\ r.said = said
      /\ r.units = g.units /\ r.state = g.state /\ r.text = g.text
      /\ r.errors = g.errors /\ r.from = g.from /\ r.edges = g.edges
      /\ SameBodies(g, r)
  <2> HIDE DEF said
  <2>1. QED
    BY <1>1, <1>2 DEF Programs, SameBodies
<1>5. ReportColliding(g) = r
  <2>1. Colliding(g) \cap Paths = Colliding(g)
    BY <1>3
  <2>2. QED
    BY <2>1 DEF ReportColliding
<1> HIDE DEF r
<1>6. Live(r) = Live(g)
  BY <1>4 DEF Live, Current, SameBodies
<1>7. Shaped(r) /\ Judged(r)
  BY <1>4 DEF Whole, Shaped, Judged, Judgement
<1>8. Bodied(r)
  BY <1>4, <1>6 DEF Whole, Bodied, Owned, SameBodies
<1>9. SaidOf(r)
  BY <1>4 DEF Whole, SaidOf
<1>10. Matched => Sourced(r)
  BY <1>4 DEF Whole, Sourced, SameBodies
<1>11. Whole(r)
  BY <1>4, <1>7, <1>8, <1>9, <1>10 DEF Whole
<1>12. QED
  BY <1>4, <1>5, <1>6, <1>11

LEMMA PathWhole ==
  ASSUME DiskTyped, NEW g, Whole(g), NEW p \in Paths
  PROVE  /\ Whole(CheckPath(g, p)) /\ Live(CheckPath(g, p)) = Live(g)
         /\ SameBodies(g, CheckPath(g, p))
<1>1. Checked(g, CheckPath(g, p), {})
  BY PathChecked DEF Whole, Shaped
<1>2. {} \cap Paths = {}
  OBVIOUS
<1>3. QED
  BY <1>1, <1>2, WholeChecked DEF Checked

\* Reading every stale unit back is a number of checks.
LEMMA RecheckWhole ==
  ASSUME DiskTyped, NEW g, Whole(g)
  PROVE  Whole(Recheck(g)) /\ Live(Recheck(g)) = Live(g) /\ SameBodies(g, Recheck(g))
<1> DEFINE again == [h \in Programs |-> [q \in Paths |->
                       IF h.state[q] = "stale" THEN CheckPath(h, q) ELSE h]]
           S == [i \in 0..Len(g.units) |->
                   {h \in Programs : /\ Whole(h) /\ Live(h) = Live(g)
                                     /\ SameBodies(g, h)}]
<1>1. /\ g \in Programs /\ g.units \in Seq(Paths) /\ Len(g.units) \in Nat
      /\ \A i \in 1..Len(g.units) : g.units[i] \in Paths
  BY DEF Whole, Programs
<1>2. g \in S[0]
  BY <1>1 DEF SameBodies
<1>3. ASSUME NEW i \in 1..Len(g.units), NEW h \in S[i - 1]
      PROVE  again[h][g.units[i]] \in S[i]
  <2> DEFINE q == g.units[i]
             k == IF h.state[q] = "stale" THEN CheckPath(h, q) ELSE h
  <2>1. /\ i - 1 \in 0..Len(g.units) /\ i \in 0..Len(g.units) /\ q \in Paths
        /\ h \in Programs /\ Whole(h) /\ Live(h) = Live(g) /\ SameBodies(g, h)
    BY <1>1, <1>3
  <2>2. /\ Whole(k) /\ Live(k) = Live(g) /\ SameBodies(g, k)
    <3>1. CASE h.state[q] = "stale"
      <4> HIDE DEF q
      <4>1. /\ Whole(CheckPath(h, q)) /\ Live(CheckPath(h, q)) = Live(h)
            /\ SameBodies(h, CheckPath(h, q))
        BY <2>1, PathWhole
      <4>2. QED
        BY <2>1, <3>1, <4>1 DEF SameBodies
    <3>2. CASE h.state[q] # "stale"
      BY <2>1, <3>2
    <3>3. QED
      BY <3>1, <3>2
  <2>3. again[h][q] = k
    BY <2>1
  <2>4. k \in S[i]
    <3> HIDE DEF k, q
    <3>1. QED
      BY <2>1, <2>2 DEF Whole
  <2>5. QED
    <3> HIDE DEF again, S, k
    <3>1. QED
      BY <2>3, <2>4
<1>4. Folded(again, g, g.units) \in S[Len(g.units)]
  <2> HIDE DEF S, again
  <2>1. QED
    BY <1>1, <1>2, <1>3, FoldedIn
<1>5. Recheck(g) = Folded(again, g, g.units)
  BY DEF Recheck
<1>6. QED
  <2> HIDE DEF again
  <2>1. QED
    BY <1>1, <1>4, <1>5

-----------------------------------------------------------------------------
(* Compiling keeps the invariant.                                          *)
Clean(g, p) == HasScripts \/ p \notin g.errors

\* From g to h only bodies are added, and the edges made anew.
Compiled(g, h) ==
    /\ h.units = g.units /\ h.state = g.state /\ h.text = g.text
    /\ h.errors = g.errors /\ h.from = g.from /\ h.said = g.said
    /\ h.retired = g.retired /\ h.freed = g.freed
    /\ \A p \in Paths : g.body[p] # None => h.body[p] = g.body[p]
    /\ DOMAIN g.made \subseteq DOMAIN h.made

LEMMA CompiledOn ==
  ASSUME NEW g, NEW h, NEW k, Compiled(g, h), Compiled(h, k)
  PROVE  Compiled(g, k)
BY DEF Compiled

LEMMA CompiledLive ==
  ASSUME NEW g, NEW h, Compiled(g, h)
  PROVE  Live(g) \subseteq Live(h)
BY DEF Compiled, Live, Current

LEMMA BareIs ==
  ASSUME NEW g \in Programs, NEW p \in Places
  PROVE  LET r == [g EXCEPT !.edges[p] = {}]
         IN /\ r \in Programs /\ r.edges = [g.edges EXCEPT ![p] = {}]
            /\ r.units = g.units /\ r.state = g.state /\ r.text = g.text
            /\ r.errors = g.errors /\ r.from = g.from /\ r.said = g.said
            /\ SameBodies(g, r)
BY DEF Programs, SameBodies

LEMMA CompileIs ==
  ASSUME NEW g \in Programs, NEW p \in Places, g.text[p] \in Texts,
         g.text[p] \notin Stopping
  PROVE  LET r == CompileOne(g, p)
         IN /\ r \in Programs
            /\ r.edges = [g.edges EXCEPT ![p] = Range(Requires[g.text[p]])]
            /\ r.made = Append(g.made, NewBody(g, p))
            /\ r.body = [g.body EXCEPT ![p] = Len(g.made) + 1]
            /\ r.units = g.units /\ r.state = g.state /\ r.text = g.text
            /\ r.errors = g.errors /\ r.from = g.from /\ r.said = g.said
            /\ r.retired = g.retired /\ r.freed = g.freed
<1>1. NewBody(g, p) \in Made
  BY Facts DEF NewBody, Made, Programs, None
<1>2. Range(Requires[g.text[p]]) \subseteq Paths
  BY Facts DEF Range
<1>3. g.made \in Seq(Made) /\ Len(g.made) + 1 \in Nat
  BY DEF Programs
<1>4. Append(g.made, NewBody(g, p)) \in Seq(Made)
  BY <1>1, <1>3
<1> DEFINE e == Range(Requires[g.text[p]])
           m == Append(g.made, NewBody(g, p))
           b == Len(g.made) + 1
           r == [g EXCEPT !.edges[p] = e, !.made = m, !.body[p] = b]
<1>5. CompileOne(g, p) = r
  BY DEF CompileOne, Programs
<1>6. /\ r \in Programs
      /\ r.edges = [g.edges EXCEPT ![p] = e]
      /\ r.made = m
      /\ r.body = [g.body EXCEPT ![p] = b]
      /\ r.units = g.units /\ r.state = g.state /\ r.text = g.text
      /\ r.errors = g.errors /\ r.from = g.from /\ r.said = g.said
      /\ r.retired = g.retired /\ r.freed = g.freed
  <2> HIDE DEF e, m, b
  <2>1. e \subseteq Paths /\ m \in Seq(Made) /\ b \in Nat
    BY <1>2, <1>3, <1>4 DEF e, m, b
  <2>2. QED
    BY <2>1 DEF Programs
<1>7. QED
  <2> HIDE DEF r
  <2>1. QED
    BY <1>5, <1>6

LEMMA FillIs ==
  ASSUME NEW g \in Programs, NEW p \in Places, g.body[p] # None,
         g.body[p] \in DOMAIN g.made, ~g.made[g.body[p]].filled
  PROVE  LET r == FillTable(g, p)
             b == g.body[p]
         IN /\ r \in Programs
            /\ DOMAIN r.made = DOMAIN g.made
            /\ \A c \in DOMAIN g.made : c # b => r.made[c] = g.made[c]
            /\ \A c \in DOMAIN g.made : /\ r.made[c].unit = g.made[c].unit
                                        /\ r.made[c].from = g.made[c].from
            /\ r.made[b].filled /\ r.made[b].table = Table(g, p)
            /\ r.edges = g.edges /\ r.body = g.body
            /\ r.units = g.units /\ r.state = g.state /\ r.text = g.text
            /\ r.errors = g.errors /\ r.from = g.from /\ r.said = g.said
            /\ r.retired = g.retired /\ r.freed = g.freed
<1> DEFINE b == g.body[p]
           n == [g.made[b] EXCEPT !.filled = TRUE, !.table = Table(g, p)]
           m == [g.made EXCEPT ![b] = n]
           r == [g EXCEPT !.made = m]
<1>1. /\ g.made \in Seq(Made) /\ b \in 1..Len(g.made) /\ Len(g.made) \in Nat
      /\ DOMAIN g.made = 1..Len(g.made) /\ g.made[b] \in Made
  BY DEF Programs
<1>2. Table(g, p) \in [Paths -> Nat]
  BY Facts DEF Table, Programs, None
<1>3. /\ n \in Made /\ n.filled /\ n.table = Table(g, p)
      /\ n.unit = g.made[b].unit /\ n.from = g.made[b].from
  BY <1>1, <1>2 DEF Made
<1>4. /\ m \in Seq(Made) /\ DOMAIN m = DOMAIN g.made /\ m[b] = n
      /\ \A c \in DOMAIN g.made : c # b => m[c] = g.made[c]
  <2> HIDE DEF n, b
  <2>1. /\ DOMAIN m = 1..Len(g.made) /\ m[b] = n
        /\ \A c \in DOMAIN g.made : c # b => m[c] = g.made[c]
    BY <1>1
  <2>2. m \in [1..Len(g.made) -> Made]
    BY <1>1, <1>3
  <2>3. QED
    BY <1>1, <2>1, <2>2
<1>5. FillTable(g, p) = r
  BY DEF FillTable, Programs
<1>6. /\ r \in Programs /\ r.made = m
      /\ r.edges = g.edges /\ r.body = g.body
      /\ r.units = g.units /\ r.state = g.state /\ r.text = g.text
      /\ r.errors = g.errors /\ r.from = g.from /\ r.said = g.said
      /\ r.retired = g.retired /\ r.freed = g.freed
  <2> HIDE DEF m
  <2>1. QED
    BY <1>4 DEF Programs
<1>7. \A c \in DOMAIN g.made : m[c].unit = g.made[c].unit /\ m[c].from = g.made[c].from
  <2> HIDE DEF m, n
  <2>1. QED
    BY <1>3, <1>4
<1>8. QED
  <2> HIDE DEF r, m, n
  <2>1. QED
    BY <1>3, <1>4, <1>5, <1>6, <1>7

\* A judgement is of the units, whatever bodies they have.
LEMMA JudgementSame ==
  ASSUME NEW g, NEW h, NEW p \in Places, Judgement(g, p),
         h.state = g.state, h.text = g.text, h.errors = g.errors, h.from = g.from,
         h.edges[p] = g.edges[p]
  PROVE  Judgement(h, p)
BY DEF Judgement

LEMMA CompileOneWhole ==
  ASSUME NEW g, Whole(g), NEW p \in Places, p \in Paths => Due(g, p),
         g.text[p] \in Texts, g.body[p] = None, Clean(g, p)
  PROVE  Whole(CompileOne(g, p)) /\ Compiled(g, CompileOne(g, p))
<1> DEFINE r == CompileOne(g, p)
<1>1. /\ g \in Programs /\ g.edges \in [Places -> SUBSET Paths]
      /\ g.body \in [Places -> Nat] /\ g.made \in Seq(Made)
      /\ DOMAIN g.made = 1..Len(g.made) /\ Len(g.made) \in Nat
  BY DEF Whole, Programs
<1>2. CASE g.text[p] \in Stopping
  <2>1. r = [g EXCEPT !.edges[p] = {}]
    BY <1>2 DEF CompileOne
  <2> HIDE DEF r
  <2>2. /\ r \in Programs /\ r.edges = [g.edges EXCEPT ![p] = {}]
        /\ r.units = g.units /\ r.state = g.state /\ r.text = g.text
        /\ r.errors = g.errors /\ r.from = g.from /\ r.said = g.said
        /\ SameBodies(g, r)
    BY <1>1, <2>1, BareIs, ZenonT(40)
  <2>3. \A u \in Paths : u # p => r.edges[u] = g.edges[u]
    BY <1>1, <2>2, Facts
  <2>4. Shaped(r) /\ SaidOf(r)
    BY <2>2 DEF Whole, Shaped, SaidOf
  <2>5. Judged(r)
    <3> SUFFICES ASSUME NEW u \in Paths, r.state[u] = "done"
                 PROVE  Judgement(r, u)
      BY DEF Judged
    <3>1. Judgement(g, u)
      BY <2>2 DEF Whole, Judged
    <3>2. CASE u # p
      BY <2>2, <2>3, <3>1, <3>2, JudgementSame, Facts
    <3>3. CASE u = p
      BY <1>2, <2>2, <3>1, <3>3 DEF Judgement, Clean
    <3>4. QED
      BY <3>2, <3>3
  <2>6. Bodied(r)
    <3>1. ASSUME NEW u \in Paths, r.body[u] # None
          PROVE  Owned(r, u)
      <4> DEFINE b == g.body[u]
      <4>1. Owned(g, u) /\ u # p /\ u \in Places
        BY <2>2, <3>1, BodyOwned, Facts DEF SameBodies
      <4>2. b \in DOMAIN g.made /\ b \notin g.retired \cup g.freed
        BY <4>1, OwnedFacts
      <4>3. /\ r.body = g.body /\ r.made = g.made /\ b \notin r.retired \cup r.freed
            /\ r.state = g.state /\ r.text = g.text /\ r.from = g.from
            /\ r.edges[u] = g.edges[u]
        BY <2>2, <2>3, <4>1, <4>2 DEF SameBodies
      <4> HIDE DEF b
      <4>4. QED
        BY <4>1, <4>2, <4>3, OwnedSame DEF b
    <3>2. QED
      BY <2>2, <3>1 DEF Bodied, Whole, SameBodies, Live, Current
  <2>7. Matched => Sourced(r)
    BY <2>2 DEF Whole, Sourced, SameBodies
  <2>8. Compiled(g, r)
    BY <2>2 DEF Compiled, SameBodies
  <2>9. QED
    BY <2>2, <2>4, <2>5, <2>6, <2>7, <2>8 DEF Whole, r
<1>3. CASE g.text[p] \notin Stopping
  <2> DEFINE n == Len(g.made) + 1
  <2>1. /\ r \in Programs
        /\ r.edges = [g.edges EXCEPT ![p] = Range(Requires[g.text[p]])]
        /\ r.made = Append(g.made, NewBody(g, p))
        /\ r.body = [g.body EXCEPT ![p] = n]
        /\ r.units = g.units /\ r.state = g.state /\ r.text = g.text
        /\ r.errors = g.errors /\ r.from = g.from /\ r.said = g.said
        /\ r.retired = g.retired /\ r.freed = g.freed
    BY <1>1, <1>3, CompileIs
  <2> HIDE DEF r
  <2>2. /\ \A u \in Paths : u # p => r.edges[u] = g.edges[u] /\ r.body[u] = g.body[u]
        /\ r.edges[p] = Range(Requires[g.text[p]]) /\ r.body[p] = n
    BY <1>1, <2>1, Facts
  <2>3. /\ n \in DOMAIN r.made /\ n \notin DOMAIN g.made
        /\ DOMAIN r.made = DOMAIN g.made \cup {n}
        /\ r.made[n] = NewBody(g, p)
        /\ \A c \in DOMAIN g.made : r.made[c] = g.made[c]
    BY <1>1, <2>1
  <2>4. /\ r.made[n].unit = p /\ r.made[n].from = g.from[p] /\ ~r.made[n].filled
        /\ \A q \in Paths : r.made[n].table[q] = None
    BY <2>3 DEF NewBody
  <2> HIDE DEF n
  <2>5. Shaped(r) /\ SaidOf(r)
    BY <2>1 DEF Whole, Shaped, SaidOf
  <2>6. Compiled(g, r)
    <3>1. \A u \in Paths : g.body[u] # None => r.body[u] = g.body[u]
      BY <2>2
    <3>2. QED
      BY <2>1, <2>3, <3>1 DEF Compiled
  <2>7. Live(g) \subseteq Live(r)
    BY <2>6, CompiledLive
  <2>8. Judged(r)
    <3> SUFFICES ASSUME NEW u \in Paths, r.state[u] = "done"
                 PROVE  Judgement(r, u)
      BY DEF Judged
    <3>1. Judgement(g, u)
      BY <2>1 DEF Whole, Judged
    <3>2. CASE u # p
      BY <2>1, <2>2, <3>1, <3>2, JudgementSame, Facts
    <3>3. CASE u = p
      BY <1>3, <2>1, <2>2, <3>1, <3>3 DEF Judgement, Clean
    <3>4. QED
      BY <3>2, <3>3
  <2>9. Bodied(r)
    <3>1. ASSUME NEW u \in Paths, r.body[u] # None
          PROVE  Owned(r, u)
      <4>1. CASE u = p
        <5>1. r.body[u] = n /\ r.state[u] = "done"
          BY <2>1, <2>2, <4>1 DEF Due
        <5>2. n \notin r.retired \cup r.freed
          BY <2>1, <2>3 DEF Whole, Bodied
        <5>3. /\ r.text[p] = g.text[p] /\ r.from[p] = g.from[p]
              /\ r.edges[p] = Range(Requires[g.text[p]]) /\ n \in DOMAIN r.made
          BY <2>1, <2>2, <2>3
        <5>4. QED
          BY <1>3, <2>4, <4>1, <5>1, <5>2, <5>3 DEF Owned
      <4>2. CASE u # p
        <5> DEFINE b == g.body[u]
        <5>1. Owned(g, u) /\ r.body[u] = b /\ r.edges[u] = g.edges[u]
          BY <2>2, <3>1, <4>2 DEF Whole, Bodied
        <5>2. b \in DOMAIN g.made /\ b \notin r.retired \cup r.freed
          BY <2>1, <5>1 DEF Owned
        <5>3. r.made[b] = g.made[b] /\ b \in DOMAIN r.made
          BY <2>3, <5>2
        <5>4. \A q \in Paths : g.body[q] # None => r.body[q] = g.body[q]
          BY <2>2
        <5>5. /\ r.state[u] = g.state[u] /\ r.text[u] = g.text[u]
              /\ r.from[u] = g.from[u] /\ u \in Places
          BY <2>1, Facts
        <5> HIDE DEF b
        <5>6. QED
          BY <5>1, <5>2, <5>3, <5>4, <5>5, OwnedSame DEF b
      <4>3. QED
        BY <4>1, <4>2
    <3>2. r.retired \cup r.freed \subseteq DOMAIN r.made /\ r.retired \cap r.freed = {}
      BY <2>1, <2>3 DEF Whole, Bodied
    <3>3. \A b \in r.retired : \A q \in Paths :
           r.made[b].table[q] # None => r.made[b].table[q] \in Live(r)
      BY <2>1, <2>3, <2>7 DEF Whole, Bodied
    <3>4. QED
      BY <3>1, <3>2, <3>3 DEF Bodied
  <2>10. Matched => Sourced(r)
    <3> SUFFICES ASSUME Sourced(g) PROVE Sourced(r)
      BY DEF Whole
    <3>1. ASSUME NEW b \in DOMAIN r.made, NEW q \in Paths, r.made[b].table[q] # None
          PROVE  /\ r.made[b].table[q] \in DOMAIN r.made
                 /\ r.made[r.made[b].table[q]].from \subseteq r.made[b].from
      <4>1. b \in DOMAIN g.made
        BY <2>3, <2>4, <3>1
      <4>2. r.made[b] = g.made[b]
        BY <2>3, <4>1
      <4> DEFINE s == g.made[b].table[q]
      <4>3. s \in DOMAIN g.made /\ g.made[s].from \subseteq g.made[b].from
        BY <3>1, <4>1, <4>2 DEF Sourced
      <4>4. QED
        BY <2>3, <4>2, <4>3
    <3>2. QED
      BY <3>1 DEF Sourced
  <2>11. QED
    BY <2>1, <2>5, <2>6, <2>8, <2>9, <2>10 DEF Whole, r
<1>4. QED
  BY <1>2, <1>3

LEMMA FillWhole ==
  ASSUME NEW g, Whole(g), NEW p \in Places,
         g.body[p] = None \/ (Owned(g, p) /\ Judgement(g, p)), Clean(g, p)
  PROVE  Whole(FillTable(g, p)) /\ Compiled(g, FillTable(g, p))
<1> DEFINE r == FillTable(g, p)
           b == g.body[p]
<1>1. /\ g \in Programs /\ g.edges \in [Places -> SUBSET Paths]
      /\ g.body \in [Places -> Nat]
  BY DEF Whole, Programs
<1>2. CASE g.body[p] = None \/ g.made[b].filled
  <2>1. r = g
    BY <1>2 DEF FillTable
  <2>2. QED
    BY <2>1 DEF Compiled
<1>3. CASE g.body[p] # None /\ ~g.made[b].filled
  <2>1. Owned(g, p) /\ Judgement(g, p)
    BY <1>3
  <2>2. b \in DOMAIN g.made /\ b \notin g.retired \cup g.freed
    BY <2>1, OwnedFacts
  <2>3. /\ r \in Programs
        /\ DOMAIN r.made = DOMAIN g.made
        /\ \A c \in DOMAIN g.made : c # b => r.made[c] = g.made[c]
        /\ \A c \in DOMAIN g.made : /\ r.made[c].unit = g.made[c].unit
                                    /\ r.made[c].from = g.made[c].from
        /\ r.made[b].filled /\ r.made[b].table = Table(g, p)
        /\ r.edges = g.edges /\ r.body = g.body
        /\ r.units = g.units /\ r.state = g.state /\ r.text = g.text
        /\ r.errors = g.errors /\ r.from = g.from /\ r.said = g.said
        /\ r.retired = g.retired /\ r.freed = g.freed
    BY <1>1, <1>3, <2>2, FillIs
  <2> HIDE DEF r
  <2>4. \A q \in Paths : r.made[b].table[q] = IF q \in g.edges[p] THEN g.body[q] ELSE None
    BY <2>3 DEF Table
  <2>5. /\ r \in Programs /\ r.edges = g.edges /\ r.body = g.body
        /\ r.units = g.units /\ r.state = g.state /\ r.text = g.text
        /\ r.errors = g.errors /\ r.from = g.from /\ r.said = g.said
        /\ r.retired = g.retired /\ r.freed = g.freed
    BY <2>3
  <2>6. /\ DOMAIN r.made = DOMAIN g.made
        /\ \A c \in DOMAIN g.made : c # b => r.made[c] = g.made[c]
        /\ \A c \in DOMAIN g.made : /\ r.made[c].unit = g.made[c].unit
                                    /\ r.made[c].from = g.made[c].from
    BY <2>3
  <2>7. Shaped(r) /\ SaidOf(r) /\ Judged(r)
    BY <2>5 DEF Whole, Shaped, SaidOf, Judged, Judgement
  <2>8. Compiled(g, r)
    <3>1. DOMAIN g.made \subseteq DOMAIN r.made
      BY <2>6
    <3>2. QED
      BY <2>5, <3>1 DEF Compiled
  <2>9. Live(g) = Live(r)
    <3>1. r.body = g.body /\ r.retired = g.retired
      BY <2>5
    <3>2. QED
      BY <3>1, Zenon DEF Live, Current
  <2>10. g.made[b].unit = p /\ g.made[b].from = g.from[p] /\ g.state[p] = "done"
    BY <2>1, OwnedFacts
  <2>11. Bodied(r)
    <3>1. ASSUME NEW u \in Paths, r.body[u] # None
          PROVE  Owned(r, u)
      <4>1. Owned(g, u) /\ r.body[u] = g.body[u]
        BY <2>5, <3>1, BodyOwned
      <4>2. CASE u = p
        <5>1. r.made[b].unit = p /\ r.made[b].from = r.from[p] /\ b \in DOMAIN r.made
          BY <2>2, <2>5, <2>6, <2>10
        <5>2. \A q \in Paths : r.made[b].table[q] # None =>
                q \in r.edges[p] /\ r.made[b].table[q] = r.body[q]
          BY <2>4, <2>5
        <5>3. /\ r.body[p] = b /\ r.state[p] = "done" /\ b \notin r.retired \cup r.freed
          BY <2>2, <2>5, <2>10
        <5>4. r.made[b].filled
          BY <2>3
        <5> HIDE DEF b
        <5>5. QED
          BY <4>2, <5>1, <5>2, <5>3, <5>4, OwnedFrom
      <4>3. CASE u # p
        <5> DEFINE c == g.body[u]
        <5>1. /\ g.made[c].unit = u /\ c \in DOMAIN g.made
              /\ c \notin g.retired \cup g.freed
          BY <4>1, Facts, OwnedFacts
        <5>2. c # b
          BY <2>10, <4>3, <5>1
        <5> HIDE DEF b
        <5>3. /\ r.made[c] = g.made[c] /\ c \in DOMAIN r.made
              /\ c \notin r.retired \cup r.freed
          BY <2>5, <2>6, <5>1, <5>2
        <5>4. /\ r.state[u] = g.state[u] /\ r.text[u] = g.text[u]
              /\ r.from[u] = g.from[u] /\ r.edges[u] = g.edges[u] /\ u \in Places
              /\ \A q \in Paths : r.body[q] = g.body[q]
          BY <2>5, Facts
        <5> HIDE DEF c
        <5>5. QED
          BY <4>1, <5>3, <5>4, OwnedSame DEF c
      <4>4. QED
        BY <4>2, <4>3
    <3>2. \A c \in r.retired : r.made[c] = g.made[c]
      BY <2>2, <2>5, <2>6 DEF Whole, Bodied
    <3>3. QED
      BY <2>5, <2>6, <2>9, <3>1, <3>2 DEF Bodied, Whole
  <2>12. Matched => Sourced(r)
    <3> SUFFICES ASSUME Matched, Sourced(g) PROVE Sourced(r)
      BY DEF Whole
    <3>1. ASSUME NEW c \in DOMAIN r.made, NEW q \in Paths, r.made[c].table[q] # None
          PROVE  /\ r.made[c].table[q] \in DOMAIN r.made
                 /\ r.made[r.made[c].table[q]].from \subseteq r.made[c].from
      <4> DEFINE s == r.made[c].table[q]
      <4>0. c \in DOMAIN g.made
        BY <2>6, <3>1
      <4>1. s \in DOMAIN g.made /\ g.made[s].from \subseteq g.made[c].from
        <5>1. CASE c # b
          <6>1. r.made[c] = g.made[c]
            BY <2>6, <4>0, <5>1
          <6>2. QED
            BY <3>1, <4>0, <6>1 DEF Sourced
        <5>2. CASE c = b
          <6>1. q \in g.edges[p] /\ s = g.body[q] /\ g.body[q] # None
            <7>1. s = r.made[b].table[q] /\ s # None
              BY <3>1, <5>2
            <7>2. QED
              BY <2>4, <7>1
          <6>2. Owned(g, q)
            BY <6>1 DEF Whole, Bodied
          <6>3. /\ g.state[q] = "done" /\ s \in DOMAIN g.made
                /\ g.made[s].from = g.from[q]
            BY <6>1, <6>2, Facts, OwnedFacts
          <6>4. /\ g.text[p] \notin Stopping
                /\ g.edges[p] = Range(Requires[g.text[p]])
            BY <1>3, <2>1, OwnedFacts
          <6>5. Acyclic \/ p \notin g.errors
            BY DEF Matched, Clean
          <6>6. g.from[q] \subseteq g.from[p]
            BY <2>1, <6>1, <6>3, <6>4, <6>5 DEF Judgement
          <6> HIDE DEF s
          <6>7. QED
            BY <2>10, <5>2, <6>3, <6>6
        <5>3. QED
          BY <5>1, <5>2
      <4> HIDE DEF s
      <4>2. s \in DOMAIN r.made /\ r.made[s].from \subseteq r.made[c].from
        BY <2>6, <4>0, <4>1
      <4>3. QED
        BY <4>2 DEF s
    <3>2. QED
      BY <3>1 DEF Sourced
  <2>13. QED
    BY <2>5, <2>7, <2>8, <2>11, <2>12 DEF Whole, r
<1>4. QED
  BY <1>2, <1>3

\* Compiling the units leaves a script alone.
Apart(g, h) == h.body[Script] = g.body[Script] /\ h.edges[Script] = g.edges[Script]

LEMMA OneApart ==
  ASSUME NEW g \in Programs, NEW p \in Paths, g.text[p] \in Texts
  PROVE  Apart(g, CompileOne(g, p))
<1>1. /\ p \in Places /\ p # Script /\ Script \in Places
      /\ g.edges \in [Places -> SUBSET Paths] /\ g.body \in [Places -> Nat]
  BY Facts DEF Programs
<1>2. CASE g.text[p] \in Stopping
  <2>1. CompileOne(g, p) = [g EXCEPT !.edges[p] = {}]
    BY <1>2 DEF CompileOne
  <2>2. QED
    BY <1>1, <2>1, BareIs DEF Apart, SameBodies
<1>3. CASE g.text[p] \notin Stopping
  <2>1. /\ CompileOne(g, p).edges = [g.edges EXCEPT ![p] = Range(Requires[g.text[p]])]
        /\ CompileOne(g, p).body = [g.body EXCEPT ![p] = Len(g.made) + 1]
    BY <1>1, <1>3, CompileIs
  <2>2. QED
    BY <1>1, <2>1 DEF Apart
<1>4. QED
  BY <1>2, <1>3

LEMMA FillApart ==
  ASSUME NEW g, Whole(g), NEW p \in Paths
  PROVE  Apart(g, FillTable(g, p))
<1>1. g \in Programs /\ p \in Places
  BY Facts DEF Whole
<1>2. CASE g.body[p] = None \/ g.made[g.body[p]].filled
  BY <1>2 DEF FillTable, Apart
<1>3. CASE g.body[p] # None /\ ~g.made[g.body[p]].filled
  <2>1. g.body[p] \in DOMAIN g.made
    BY <1>3 DEF Whole, Bodied, Owned
  <2>2. FillTable(g, p).edges = g.edges /\ FillTable(g, p).body = g.body
    BY <1>1, <1>3, <2>1, FillIs
  <2>3. QED
    BY <2>2 DEF Apart
<1>4. QED
  BY <1>2, <1>3

\* How far a compilation of the program has come.
Underway(g) ==
    {h \in Programs : Whole(h) /\ Compiled(g, h) /\ Apart(g, h)}

LEMMA TriedHolds ==
  ASSUME NEW g, \A u \in Range(g.units) : Clean(g, u),
         NEW h \in Compiles, h.g \in Underway(g), NEW p \in Range(g.units), p \in Paths
  PROVE  Tried(h, p) \in Compiles /\ Tried(h, p).g \in Underway(g)
<1>1. CASE ~h.ok \/ ~Due(h.g, p)
  <2>1. Tried(h, p) = h
    BY <1>1 DEF Tried
  <2>2. QED
    BY <2>1
<1>2. CASE h.ok /\ Due(h.g, p)
  <2> DEFINE k == CompileOne(h.g, p)
             c == k.body[p] # None
  <2>1. Tried(h, p) = [g |-> k, ok |-> c]
    BY <1>2 DEF Tried
  <2>2. Whole(h.g) /\ Compiled(g, h.g) /\ Apart(g, h.g) /\ h.g \in Programs
    BY DEF Underway
  <2>3. h.g.state[p] = "done" /\ h.g.body[p] = None /\ p \in Places
    BY <1>2, Facts DEF Due
  <2>4. h.g.text[p] \in Texts
    BY <2>2, <2>3 DEF Whole, Judged, Judgement
  <2>5. Clean(h.g, p)
    BY <2>2 DEF Compiled, Clean
  <2>6. Whole(k) /\ Compiled(h.g, k)
    BY <1>2, <2>2, <2>3, <2>4, <2>5, CompileOneWhole
  <2>7. Apart(h.g, k)
    BY <2>2, <2>4, OneApart
  <2> HIDE DEF k
  <2>8. k \in Underway(g)
    <3>1. Compiled(g, k)
      BY <2>2, <2>6, CompiledOn
    <3>2. QED
      BY <2>2, <2>6, <2>7, <3>1 DEF Underway, Apart, Whole
  <2>9. c \in BOOLEAN
    OBVIOUS
  <2> HIDE DEF c
  <2>10. QED
    BY <2>1, <2>8, <2>9 DEF Compiles, Underway
<1>3. QED
  BY <1>1, <1>2

LEMMA FillHolds ==
  ASSUME NEW g, \A u \in Range(g.units) : Clean(g, u),
         NEW h \in Underway(g), NEW p \in Range(g.units), p \in Paths
  PROVE  FillTable(h, p) \in Underway(g)
<1>1. Whole(h) /\ Compiled(g, h) /\ Apart(g, h) /\ h \in Programs
  BY DEF Underway
<1>2. Clean(h, p) /\ p \in Places
  BY <1>1, Facts DEF Compiled, Clean
<1>3. h.body[p] = None \/ (Owned(h, p) /\ Judgement(h, p))
  BY <1>1 DEF Whole, Bodied, Judged, Owned
<1>4. Whole(FillTable(h, p)) /\ Compiled(h, FillTable(h, p))
  BY <1>1, <1>2, <1>3, FillWhole
<1>5. Apart(h, FillTable(h, p))
  BY <1>1, FillApart
<1>6. Compiled(g, FillTable(h, p))
  BY <1>1, <1>4, CompiledOn
<1>7. QED
  BY <1>1, <1>4, <1>5, <1>6 DEF Underway, Apart, Whole

LEMMA CompileAllWhole ==
  ASSUME NEW g, Whole(g), \A u \in Range(g.units) : Clean(g, u)
  PROVE  CompileAll(g).g \in Underway(g)
<1> DEFINE try == [h \in Compiles |-> [p \in Paths |-> Tried(h, p)]]
           fill == [h \in Programs |-> [p \in Paths |-> FillTable(h, p)]]
           start == [g |-> g, ok |-> TRUE]
           tried == Folded(try, start, g.units)
           S == [i \in 0..Len(g.units) |-> {h \in Compiles : h.g \in Underway(g)}]
           T == [i \in 0..Len(g.units) |-> Underway(g)]
<1>1. /\ g \in Programs /\ g.units \in Seq(Paths) /\ Len(g.units) \in Nat
      /\ DOMAIN g.units = 1..Len(g.units)
      /\ \A i \in 1..Len(g.units) : g.units[i] \in Paths /\ g.units[i] \in Range(g.units)
  BY DEF Whole, Programs, Range
<1>2. g \in Underway(g)
  BY <1>1 DEF Underway, Compiled, Apart
<1>3. start \in S[0]
  <2>1. start \in Compiles /\ start.g = g
    BY <1>1 DEF Compiles
  <2>2. QED
    BY <1>1, <1>2, <2>1
<1>4. ASSUME NEW i \in 1..Len(g.units), NEW h \in S[i - 1]
      PROVE  try[h][g.units[i]] \in S[i]
  <2>1. /\ i - 1 \in 0..Len(g.units) /\ i \in 0..Len(g.units)
        /\ h \in Compiles /\ h.g \in Underway(g)
    BY <1>1, <1>4
  <2>2. Tried(h, g.units[i]) \in Compiles /\ Tried(h, g.units[i]).g \in Underway(g)
    BY <1>1, <2>1, TriedHolds
  <2>3. try[h][g.units[i]] = Tried(h, g.units[i])
    BY <1>1, <2>1
  <2>4. QED
    BY <2>1, <2>2, <2>3
<1>5. tried \in S[Len(g.units)]
  <2> HIDE DEF S, try, start
  <2>1. QED
    BY <1>1, <1>3, <1>4, FoldedIn
<1>6. tried.g \in T[0]
  BY <1>1, <1>5
<1>7. ASSUME NEW i \in 1..Len(g.units), NEW h \in T[i - 1]
      PROVE  fill[h][g.units[i]] \in T[i]
  <2>1. i - 1 \in 0..Len(g.units) /\ i \in 0..Len(g.units) /\ h \in Underway(g)
    BY <1>1, <1>7
  <2>2. h \in Programs
    BY <2>1 DEF Underway
  <2>3. FillTable(h, g.units[i]) \in Underway(g)
    BY <1>1, <2>1, FillHolds
  <2>4. fill[h][g.units[i]] = FillTable(h, g.units[i])
    BY <1>1, <2>2
  <2>5. QED
    BY <2>1, <2>3, <2>4
<1>8. Folded(fill, tried.g, g.units) \in T[Len(g.units)]
  <2> HIDE DEF T, fill, tried
  <2>1. QED
    BY <1>1, <1>6, <1>7, FoldedIn
<1>9. CompileAll(g).g = Folded(fill, tried.g, g.units)
  BY DEF CompileAll
<1>10. QED
  <2> HIDE DEF fill, tried
  <2>1. QED
    BY <1>1, <1>8, <1>9

-----------------------------------------------------------------------------
(* Retiring keeps the invariant.                                           *)
LEMMA RetireIs ==
  ASSUME NEW g \in Programs, NEW set, set \subseteq Paths
  PROVE  LET r == Retire(g, set)
         IN /\ r \in Programs
            /\ \A u \in set : /\ r.state[u] = "stale" /\ r.text[u] = NoText
                              /\ r.body[u] = None
            /\ \A u \in Places \ set : Same(g, r, u) /\ r.body[u] = g.body[u]
            /\ r.retired = g.retired \cup ({g.body[p] : p \in set} \ {None})
            /\ r.said = {d \in g.said : d[2] \notin set}
            /\ r.units = g.units /\ r.made = g.made /\ r.freed = g.freed
<1> DEFINE waits == g.retired \cup ({g.body[p] : p \in set} \ {None})
           body == [p \in Places |-> IF p \in set THEN None ELSE g.body[p]]
           state == [p \in Places |-> IF p \in set THEN "stale" ELSE g.state[p]]
           text == [p \in Places |-> IF p \in set THEN NoText ELSE g.text[p]]
           from == [p \in Places |-> IF p \in set THEN {} ELSE g.from[p]]
           edges == [p \in Places |-> IF p \in set THEN {} ELSE g.edges[p]]
           said == {d \in g.said : d[2] \notin set}
           wrong == g.errors \ set
           r == [g EXCEPT !.retired = waits, !.body = body, !.state = state,
                          !.text = text, !.errors = wrong, !.from = from,
                          !.edges = edges, !.said = said]
<1>1. set \subseteq Places
  BY Facts
<1>2. /\ waits \subseteq Nat /\ body \in [Places -> Nat]
      /\ state \in [Places -> {"absent", "checking", "failed", "done", "stale"}]
      /\ text \in [Places -> Texts \cup {NoText}] /\ wrong \subseteq Places
      /\ from \in [Places -> SUBSET TextsRead] /\ edges \in [Places -> SUBSET Paths]
      /\ said \subseteq {"unread", "cycle", "collides"} \X Paths
  <2>1. waits \subseteq Nat /\ body \in [Places -> Nat]
    BY <1>1, Facts DEF Programs
  <2>2. /\ state \in [Places -> {"absent", "checking", "failed", "done", "stale"}]
        /\ text \in [Places -> Texts \cup {NoText}] /\ wrong \subseteq Places
    BY DEF Programs
  <2>3. from \in [Places -> SUBSET TextsRead] /\ edges \in [Places -> SUBSET Paths]
    BY DEF Programs
  <2>4. said \subseteq {"unread", "cycle", "collides"} \X Paths
    BY DEF Programs
  <2>5. QED
    BY <2>1, <2>2, <2>3, <2>4
<1>3. Retire(g, set) = r
  BY DEF Retire, Programs
<1>4. /\ r \in Programs
      /\ r.retired = waits /\ r.body = body /\ r.state = state /\ r.text = text
      /\ r.errors = wrong /\ r.from = from /\ r.edges = edges /\ r.said = said
      /\ r.units = g.units /\ r.made = g.made /\ r.freed = g.freed
  <2> HIDE DEF waits, body, state, text, wrong, from, edges, said
  <2>1. QED
    BY <1>2 DEF Programs
<1> HIDE DEF r
<1>5. \A u \in set : r.state[u] = "stale" /\ r.text[u] = NoText /\ r.body[u] = None
  BY <1>1, <1>4
<1>6. \A u \in Places \ set : Same(g, r, u) /\ r.body[u] = g.body[u]
  BY <1>4 DEF Same
<1>7. QED
  BY <1>3, <1>4, <1>5, <1>6

\* Whatever reaches a unit of the set is of it.
LEMMA ReachingClosed ==
  ASSUME NEW g \in Programs, NEW p \in Paths
  PROVE  LET set == Reaching(g, p)
         IN /\ p \in set /\ set \subseteq {p} \cup Range(g.units)
            /\ set \subseteq Paths
            /\ \A q \in Range(g.units) : \A x \in g.edges[q] : x \in set => q \in set
<1> DEFINE units == {p} \cup Range(g.units)
           closed(set) == \A q \in units : g.edges[q] \cap set # {} => q \in set
           set == Reaching(g, p)
<1>1. set = {q \in units : \A s \in SUBSET units : p \in s /\ closed(s) => q \in s}
  BY DEF Reaching
<1>2. p \in set /\ set \subseteq units
  BY <1>1
<1>3. Range(g.units) \subseteq Paths
  BY DEF Programs, Range
<1>4. ASSUME NEW q \in Range(g.units), NEW x \in g.edges[q], x \in set
      PROVE  q \in set
  <2> SUFFICES ASSUME NEW s \in SUBSET units, p \in s, closed(s)
               PROVE  q \in s
    BY <1>1
  <2>1. x \in s
    BY <1>1, <1>4
  <2>2. QED
    BY <2>1
<1>5. QED
  BY <1>2, <1>3, <1>4

LEMMA RetireWhole ==
  ASSUME NEW g, Whole(g), ~HasScripts, NEW p \in Paths, g.state[p] # "absent"
  PROVE  LET r == Retire(g, Reaching(g, p))
         IN Whole(r) /\ Live(r) = Live(g)
<1> DEFINE set == Reaching(g, p)
           r == Retire(g, set)
<1>0. g \in Programs
  BY DEF Whole
<1>1. /\ p \in set /\ set \subseteq {p} \cup Range(g.units) /\ set \subseteq Paths
      /\ \A q \in Range(g.units) : \A x \in g.edges[q] : x \in set => q \in set
  BY <1>0, ReachingClosed
<1> HIDE DEF set
<1>2. /\ r \in Programs
      /\ \A u \in set : /\ r.state[u] = "stale" /\ r.text[u] = NoText
                        /\ r.body[u] = None
      /\ \A u \in Places \ set : Same(g, r, u) /\ r.body[u] = g.body[u]
      /\ r.retired = g.retired \cup ({g.body[u] : u \in set} \ {None})
      /\ r.said = {d \in g.said : d[2] \notin set}
      /\ r.units = g.units /\ r.made = g.made /\ r.freed = g.freed
  BY <1>0, <1>1, RetireIs
<1> HIDE DEF r
<1>3. \A u \in Paths \ set : Same(g, r, u) /\ r.body[u] = g.body[u]
  BY <1>2, Facts
<1>4. Shaped(r)
  <2>1. \A u \in set : u \in Range(r.units)
    BY <1>1, <1>2 DEF Whole, Shaped
  <2>2. QED
    BY <1>2, <1>3, <2>1 DEF Whole, Shaped, Same
<1>5. Live(r) = Live(g)
  <2>1. Current(r) \subseteq Current(g)
    BY <1>2, <1>3 DEF Current
  <2>2. Current(g) \subseteq Live(r)
    BY <1>2, <1>3 DEF Current, Live
  <2>3. r.retired \subseteq Live(g) /\ g.retired \subseteq r.retired
    BY <1>1, <1>2 DEF Current, Live
  <2>4. QED
    BY <2>1, <2>2, <2>3 DEF Live
<1>6. \A u \in Paths : g.state[u] = "done" =>
        u \in Range(g.units) /\ (u \notin set => g.edges[u] \cap set = {})
  BY <1>1 DEF Whole, Shaped
<1>7. Bodied(r)
  <2>1. ASSUME NEW u \in Paths, r.body[u] # None
        PROVE  Owned(r, u)
    <3>1. u \notin set
      BY <1>2, <2>1
    <3> DEFINE b == g.body[u]
    <3>2. r.body[u] = b /\ b # None /\ Same(g, r, u) /\ Owned(g, u)
      BY <1>3, <2>1, <3>1 DEF Whole, Bodied
    <3>3. /\ g.state[u] = "done" /\ b \in DOMAIN g.made /\ b \notin g.retired \cup g.freed
          /\ g.made[b].unit = u /\ g.made[b].from = g.from[u]
      BY <3>2 DEF Owned
    <3>4. b \notin r.retired
      <4> SUFFICES ASSUME NEW v \in set, g.body[v] = b PROVE FALSE
        BY <1>2, <3>3
      <4>1. Owned(g, v)
        BY <1>1, <3>2 DEF Whole, Bodied
      <4>2. QED
        BY <3>1, <3>3, <4>1 DEF Owned
    <3>5. \A q \in Paths : g.made[b].table[q] # None =>
            q \in r.edges[u] /\ g.made[b].table[q] = r.body[q]
      <4> SUFFICES ASSUME NEW q \in Paths, g.made[b].table[q] # None
                   PROVE  q \in r.edges[u] /\ g.made[b].table[q] = r.body[q]
        OBVIOUS
      <4>1. q \in g.edges[u] /\ g.made[b].table[q] = g.body[q]
        BY <3>2 DEF Owned
      <4>2. q \notin set
        BY <1>6, <3>1, <3>3, <4>1
      <4>3. QED
        BY <1>3, <3>2, <4>1, <4>2 DEF Same
    <3>6. ~g.made[b].filled => /\ g.text[u] \notin Stopping
                               /\ g.edges[u] = Range(Requires[g.text[u]])
                               /\ \A q \in Paths : g.made[b].table[q] = None
      BY <3>2 DEF Owned
    <3> HIDE DEF b
    <3>7. QED
      BY <1>2, <3>2, <3>3, <3>4, <3>5, <3>6 DEF Owned, Same
  <2>2. \A v \in set : g.body[v] # None => Owned(g, v)
    BY <1>1 DEF Whole, Bodied
  <2>3. r.retired \cup r.freed \subseteq DOMAIN r.made /\ r.retired \cap r.freed = {}
    BY <1>2, <2>2 DEF Whole, Bodied, Owned
  <2>4. ASSUME NEW b \in r.retired, NEW q \in Paths, r.made[b].table[q] # None
        PROVE  r.made[b].table[q] \in Live(r)
    <3>1. CASE b \in g.retired
      BY <1>2, <1>5, <2>4, <3>1 DEF Whole, Bodied
    <3>2. CASE b \notin g.retired
      <4>1. PICK v \in set : b = g.body[v] /\ g.body[v] # None
        BY <1>2, <2>4, <3>2
      <4>2. g.made[b].table[q] = g.body[q] /\ g.made[b] = r.made[b]
        BY <1>2, <2>2, <2>4, <4>1 DEF Owned
      <4>3. QED
        BY <1>5, <2>4, <4>2 DEF Live, Current
    <3>3. QED
      BY <3>1, <3>2
  <2>5. QED
    BY <2>1, <2>3, <2>4 DEF Bodied
<1>8. Judged(r)
  <2> SUFFICES ASSUME NEW u \in Paths, r.state[u] = "done"
               PROVE  Judgement(r, u)
    BY DEF Judged
  <2>1. u \notin set
    BY <1>2
  <2>2. Same(g, r, u)
    BY <1>3, <2>1
  <2>3. g.state[u] = "done" /\ Judgement(g, u)
    BY <2>2 DEF Same, Whole, Judged
  <2>4. \A q \in Paths : q \in g.edges[u] => Same(g, r, q)
    BY <1>3, <1>6, <2>1, <2>3
  <2>5. g.text[u] \in Texts /\ Range(Requires[g.text[u]]) \subseteq Paths
    BY <2>3, Facts DEF Judgement, Range
  <2> DEFINE asked == Range(Requires[g.text[u]])
  <2>6. r.text[u] \notin Stopping /\ (Acyclic \/ u \notin r.errors) =>
         \A q \in asked : /\ q \in r.edges[u] /\ r.state[q] \in Known
                          /\ r.state[q] = "done" => r.from[q] \subseteq r.from[u]
    BY <2>2, <2>3, <2>4, <2>5 DEF Judgement, Same
  <2>7. Acyclic /\ u \in r.errors =>
         \/ r.text[u] \in Broken
         \/ \E q \in asked :
              /\ HasScripts \/ q \in r.edges[u]
              /\ r.state[q] = "failed" \/ <<r.text[u], r.text[q]>> \in Clashes
    <3> SUFFICES ASSUME Acyclic, u \in r.errors, r.text[u] \notin Broken
                 PROVE  \E q \in asked :
              /\ HasScripts \/ q \in r.edges[u]
              /\ r.state[q] = "failed" \/ <<r.text[u], r.text[q]>> \in Clashes
      OBVIOUS
    <3>1. PICK q \in asked :
              /\ HasScripts \/ q \in g.edges[u]
              /\ g.state[q] = "failed" \/ <<g.text[u], g.text[q]>> \in Clashes
      BY <2>2, <2>3 DEF Judgement, Same
    <3>2. Same(g, r, q) /\ q \in g.edges[u]
      BY <2>4, <2>5, <3>1
    <3>3. QED
      BY <2>2, <3>1, <3>2 DEF Same
  <2>8. QED
    BY <2>2, <2>5, <2>6, <2>7 DEF Judgement, Same
<1>9. SaidOf(r)
  <2> SUFFICES ASSUME Acyclic, NEW d \in r.said, d[1] # "collides"
               PROVE  d[1] = "unread" /\ r.state[d[2]] = "failed"
    BY DEF SaidOf
  <2>1. d \in g.said /\ d[2] \notin set
    BY <1>2
  <2>2. d[2] \in Paths
    BY <1>0, <2>1 DEF Programs
  <2>3. d[1] = "unread" /\ g.state[d[2]] = "failed"
    BY <2>1 DEF Whole, SaidOf
  <2>4. QED
    BY <1>3, <2>1, <2>2, <2>3 DEF Same
<1>10. Matched => Sourced(r)
  BY <1>2 DEF Whole, Sourced
<1>11. Whole(r)
  BY <1>2, <1>4, <1>7, <1>8, <1>9, <1>10 DEF Whole
<1>12. QED
  BY <1>5, <1>11 DEF r, set

-----------------------------------------------------------------------------
(* A script is checked and compiled beside the units.                      *)

\* Nothing of the units changes.
Aside(g, h) ==
    /\ \A u \in Paths : Same(g, h, u) /\ h.body[u] = g.body[u]
    /\ h.units = g.units /\ h.said = g.said /\ h.made = g.made
    /\ h.retired = g.retired /\ h.freed = g.freed

LEMMA AsideWhole ==
  ASSUME NEW g, Whole(g), NEW h \in Programs, Aside(g, h)
  PROVE  Whole(h) /\ Live(h) = Live(g)
<1>1. /\ \A u \in Paths : Same(g, h, u) /\ h.body[u] = g.body[u]
      /\ h.units = g.units /\ h.said = g.said /\ h.made = g.made
      /\ h.retired = g.retired /\ h.freed = g.freed
  BY DEF Aside
<1>2. Live(h) = Live(g)
  BY <1>1 DEF Live, Current
<1>3. Shaped(h)
  BY <1>1 DEF Whole, Shaped, Same
<1>4. Bodied(h)
  <2>1. ASSUME NEW u \in Paths, h.body[u] # None
        PROVE  Owned(h, u)
    <3>1. Owned(g, u)
      BY <1>1, <2>1 DEF Whole, Bodied
    <3>2. QED
      BY <1>1, <3>1 DEF Owned, Same
  <2>2. QED
    BY <1>1, <1>2, <2>1 DEF Whole, Bodied
<1>5. Judged(h)
  <2> SUFFICES ASSUME NEW u \in Paths, h.state[u] = "done"
               PROVE  Judgement(h, u)
    BY DEF Judged
  <2>1. Judgement(g, u) /\ Same(g, h, u)
    BY <1>1 DEF Whole, Judged, Same
  <2>2. Range(Requires[g.text[u]]) \subseteq Paths
    BY <2>1, Facts DEF Judgement, Range
  <2>3. \A q \in Range(Requires[g.text[u]]) : Same(g, h, q)
    BY <1>1, <2>2
  <2>4. QED
    BY <2>1, <2>3 DEF Judgement, Same
<1>6. SaidOf(h)
  <2>1. \A d \in g.said : d[2] \in Paths
    BY DEF Whole, Programs
  <2>2. QED
    BY <1>1, <2>1 DEF Whole, SaidOf, Same
<1>7. Matched => Sourced(h)
  BY <1>1 DEF Whole, Sourced
<1>8. QED
  BY <1>2, <1>3, <1>4, <1>5, <1>6, <1>7 DEF Whole

LEMMA ScriptChecked ==
  ASSUME DiskTyped, NEW g, Whole(g), NEW text \in Texts
  PROVE  LET r == CheckParsed(Checker, g, Script, text)
         IN /\ Whole(r) /\ SameBodies(g, r)
            /\ r.state[Script] = "done" /\ Judgement(r, Script)
<1> DEFINE begun == Begun(g, Script, text)
           r == CheckParsed(Checker, g, Script, text)
           n == Cardinality(Paths) + 1
<1>1. g \in Programs /\ Script \in Places /\ Script \notin Paths /\ n \in Nat
  BY Facts, ProgramAssumption, FS_CardinalityType DEF Whole
<1>2. /\ begun \in Programs
      /\ begun.state[Script] = "checking" /\ begun.text[Script] = text
      /\ \A u \in Places \ {Script} : Same(g, begun, u)
      /\ begun.units = g.units /\ begun.said = g.said
      /\ SameBodies(g, begun)
  BY <1>1, BegunIs
<1>3. \A u \in Paths : Same(g, begun, u) /\ begun.state[u] # "checking"
  BY <1>1, <1>2, Facts DEF Whole, Shaped, Same
<1>4. \A q \in Range(Requires[text]) : Ready(begun, q)
  BY <1>3 DEF Ready
<1>5. Unchecked(begun) = Paths
  BY <1>3 DEF Unchecked
<1>6. Cardinality(Unchecked(begun)) < n
  BY <1>1, <1>5, ProgramAssumption, FS_CardinalityType
<1>7. Sound(Checker, n)
  BY CheckerSound
<1>8. \E met : /\ Checked(begun, met, {Script})
               /\ Answered(met, Script, Range(Requires[text]))
               /\ r = Finished(met, Script)
  <2> HIDE DEF n
  <2>1. QED
    BY <1>1, <1>4, <1>6, <1>7, ParsedHolds
<1> HIDE DEF begun, r
<1>9. PICK met : /\ Checked(begun, met, {Script})
                 /\ Answered(met, Script, Range(Requires[text]))
                 /\ r = Finished(met, Script)
  BY <1>8
<1>10. Whole(begun)
  <2>1. Aside(g, begun)
    BY <1>2, <1>3 DEF Aside, SameBodies
  <2>2. QED
    BY <1>2, <2>1, AsideWhole
<1>11. Whole(met) /\ SameBodies(begun, met)
  <2>1. {Script} \cap Paths = {}
    BY <1>1
  <2>2. QED
    BY <1>9, <1>10, <2>1, WholeChecked DEF Checked
<1>12. met \in Programs /\ met.state[Script] = "checking" /\ met.text[Script] = text
  BY <1>2, <1>9 DEF Checked
<1>13. /\ r \in Programs
       /\ r.state = [met.state EXCEPT ![Script] = "done"]
       /\ r.units = met.units /\ r.text = met.text
       /\ r.said = met.said /\ SameBodies(met, r)
       /\ r.errors = met.errors /\ r.from = met.from /\ r.edges = met.edges
  BY <1>1, <1>9, <1>12, FinishedIs DEF Finished
<1>14. r.state[Script] = "done" /\ \A u \in Paths : Same(met, r, u)
  BY <1>1, <1>12, <1>13, Facts DEF Same, Programs
<1>15. Whole(r)
  <2>1. Aside(met, r)
    BY <1>13, <1>14 DEF Aside, SameBodies
  <2>2. QED
    BY <1>11, <1>13, <2>1, AsideWhole
<1>16. Judgement(r, Script)
  <2>1. Range(Requires[text]) \subseteq Paths
    BY Facts DEF Range
  <2>2. Answered(r, Script, Range(Requires[text]))
    BY <1>1, <1>9, <1>12, <2>1, FinishAnswers
  <2>3. QED
    BY <1>1, <1>12, <1>13, <2>2, JudgementNew
<1>17. SameBodies(g, r)
  BY <1>2, <1>11, <1>13 DEF SameBodies
<1>18. QED
  BY <1>14, <1>15, <1>16, <1>17 DEF r

LEMMA CompileOneOwned ==
  ASSUME NEW g, Whole(g), NEW p \in Places, g.state[p] = "done",
         g.body[p] = None, Judgement(g, p), Clean(g, p)
  PROVE  LET r == CompileOne(g, p)
         IN r.body[p] = None \/ (Owned(r, p) /\ Judgement(r, p))
<1> DEFINE r == CompileOne(g, p)
           n == Len(g.made) + 1
<1>1. /\ g \in Programs /\ g.edges \in [Places -> SUBSET Paths]
      /\ g.body \in [Places -> Nat] /\ g.made \in Seq(Made)
      /\ DOMAIN g.made = 1..Len(g.made) /\ Len(g.made) \in Nat
      /\ g.text[p] \in Texts
  BY DEF Whole, Programs, Judgement
<1>2. CASE g.text[p] \in Stopping
  BY <1>1, <1>2, BareIs DEF CompileOne, SameBodies
<1>3. CASE g.text[p] \notin Stopping
  <2>1. /\ r \in Programs
        /\ r.edges = [g.edges EXCEPT ![p] = Range(Requires[g.text[p]])]
        /\ r.made = Append(g.made, NewBody(g, p))
        /\ r.body = [g.body EXCEPT ![p] = n]
        /\ r.units = g.units /\ r.state = g.state /\ r.text = g.text
        /\ r.errors = g.errors /\ r.from = g.from /\ r.said = g.said
        /\ r.retired = g.retired /\ r.freed = g.freed
    BY <1>1, <1>3, CompileIs
  <2> HIDE DEF r
  <2>2. r.edges[p] = Range(Requires[g.text[p]]) /\ r.body[p] = n
    BY <1>1, <2>1
  <2>3. n \in DOMAIN r.made /\ n \notin DOMAIN g.made /\ r.made[n] = NewBody(g, p)
    BY <1>1, <2>1
  <2>4. /\ r.made[n].unit = p /\ r.made[n].from = g.from[p] /\ ~r.made[n].filled
        /\ \A q \in Paths : r.made[n].table[q] = None
    BY <2>3 DEF NewBody
  <2>5. n \notin r.retired \cup r.freed
    BY <2>1, <2>3 DEF Whole, Bodied
  <2> HIDE DEF n
  <2>6. Owned(r, p)
    BY <1>3, <2>1, <2>2, <2>3, <2>4, <2>5 DEF Owned
  <2>7. Judgement(r, p)
    BY <2>1, <2>2 DEF Judgement
  <2>8. QED
    BY <2>6, <2>7 DEF r
<1>4. QED
  BY <1>2, <1>3

LEMMA WithoutScriptIs ==
  ASSUME NEW g \in Programs
  PROVE  LET r == WithoutScript(g)
         IN r \in Programs /\ Aside(g, r) /\ r.body[Script] = None
<1> DEFINE state == [g.state EXCEPT ![Script] = "absent"]
           text == [g.text EXCEPT ![Script] = NoText]
           wrong == g.errors \ {Script}
           from == [g.from EXCEPT ![Script] = {}]
           edges == [g.edges EXCEPT ![Script] = {}]
           body == [g.body EXCEPT ![Script] = None]
           named == g.named \ {Script}
           r == [g EXCEPT !.state = state, !.text = text, !.named = named,
                          !.errors = wrong,
                          !.from = from, !.edges = edges, !.body = body]
<1>1. /\ state \in [Places -> {"absent", "checking", "failed", "done", "stale"}]
      /\ text \in [Places -> Texts \cup {NoText}] /\ wrong \subseteq Places
      /\ from \in [Places -> SUBSET TextsRead] /\ edges \in [Places -> SUBSET Paths]
      /\ body \in [Places -> Nat] /\ named \subseteq Places
  BY Facts DEF Programs
<1>2. /\ \A u \in Paths : /\ state[u] = g.state[u] /\ text[u] = g.text[u]
                          /\ u \in wrong <=> u \in g.errors
                          /\ from[u] = g.from[u] /\ edges[u] = g.edges[u]
                          /\ body[u] = g.body[u]
      /\ body[Script] = None
  BY Facts DEF Programs
<1>3. WithoutScript(g) = r
  BY DEF WithoutScript, Programs
<1>4. /\ r \in Programs
      /\ r.state = state /\ r.text = text /\ r.errors = wrong
      /\ r.from = from /\ r.edges = edges /\ r.body = body
      /\ r.units = g.units /\ r.said = g.said /\ r.made = g.made
      /\ r.retired = g.retired /\ r.freed = g.freed
  <2> HIDE DEF state, text, wrong, from, edges, body, named
  <2>1. QED
    BY <1>1 DEF Programs
<1> HIDE DEF r, state, text, wrong, from, edges, body, named
<1>5. QED
  BY <1>2, <1>3, <1>4 DEF Aside, Same

-----------------------------------------------------------------------------
(* A machine registers only what the tables it runs over answer.           *)
Closed(set) ==
    /\ set \subseteq DOMAIN program.made
    /\ \A b \in set : \A q \in Paths :
         program.made[b].table[q] # None => program.made[b].table[q] \in set

Among(set) == [registry : [Paths -> set \cup {None}], ok : BOOLEAN]

Keeps(run, set) ==
    \A at \in Among(set) : \A b \in set : run[at][b] \in Among(set)

LEMMA AmongRuns ==
  ASSUME program \in Programs, NEW set, Closed(set)
  PROVE  /\ Among(set) \subseteq Runs
         /\ \A at \in Among(set) : [at EXCEPT !.ok = FALSE] \in Among(set)
<1>1. set \subseteq Nat
  <2>1. program.made \in Seq(Made)
    BY DEF Programs
  <2>2. DOMAIN program.made \subseteq Nat
    BY <2>1
  <2>3. QED
    BY <2>2 DEF Closed
<1>2. set \cup {None} \subseteq Nat
  BY <1>1, Facts
<1>3. [Paths -> set \cup {None}] \subseteq [Paths -> Nat]
  BY <1>2
<1>4. Among(set) \subseteq Runs
  BY <1>3 DEF Among, Runs
<1>5. ASSUME NEW at \in Among(set)
      PROVE  [at EXCEPT !.ok = FALSE] \in Among(set)
  BY DEF Among
<1>6. QED
  BY <1>4, <1>5

LEMMA RequiredKeeps ==
  ASSUME program \in Programs, NEW set, Closed(set), NEW run, Keeps(run, set),
         NEW at \in Among(set), NEW b \in set, NEW q \in Paths
  PROVE  Required(run, at, b, q) \in Among(set)
<1> DEFINE wanted == program.made[b].table[q]
<1>1. CASE ~at.ok
  BY <1>1 DEF Required
<1>2. CASE at.ok /\ wanted = None
  <2>1. Required(run, at, b, q) = [at EXCEPT !.ok = FALSE]
    BY <1>2 DEF Required
  <2>2. QED
    BY <2>1, AmongRuns
<1>3. CASE at.ok /\ wanted # None
  <2>1. Required(run, at, b, q) = run[at][wanted]
    BY <1>3 DEF Required
  <2>2. wanted \in set
    BY <1>3 DEF Closed
  <2>3. QED
    BY <2>1, <2>2 DEF Keeps
<1>4. QED
  BY <1>1, <1>2, <1>3

LEMMA RunBodyKeeps ==
  ASSUME program \in Programs, NEW set, Closed(set), NEW run, Keeps(run, set),
         NEW at \in Among(set), NEW b \in set
  PROVE  RunBody(run, at, b) \in Among(set)
<1> DEFINE unit == program.made[b].unit
           wanted == IF unit = Script \/ at.registry[unit] = None
                     THEN Requires[program.made[b].text] ELSE <<>>
           step == [h \in Runs |-> [q \in Paths |-> Required(run, h, b, q)]]
           done == Folded(step, at, wanted)
           S == [i \in 0..Len(wanted) |-> Among(set)]
<1>1. program.made[b] \in Made
  <2>1. program.made \in Seq(Made)
    BY DEF Programs
  <2>2. b \in DOMAIN program.made
    BY DEF Closed
  <2>3. QED
    BY <2>1, <2>2
<1>2. unit \in Places /\ program.made[b].text \in Texts
  BY <1>1 DEF Made
<1>3. wanted \in Seq(Paths)
  BY <1>2, Facts
<1> HIDE DEF wanted
<1>4. Len(wanted) \in Nat /\ \A i \in 1..Len(wanted) : wanted[i] \in Paths
  BY <1>3
<1>5. at \in S[0]
  BY <1>4
<1>6. ASSUME NEW i \in 1..Len(wanted), NEW h \in S[i - 1]
      PROVE  step[h][wanted[i]] \in S[i]
  <2>1. i - 1 \in 0..Len(wanted) /\ i \in 0..Len(wanted) /\ h \in Among(set)
    BY <1>4, <1>6
  <2>2. h \in Runs
    BY <2>1, AmongRuns
  <2>3. step[h][wanted[i]] = Required(run, h, b, wanted[i])
    BY <1>4, <2>2
  <2>4. Required(run, h, b, wanted[i]) \in Among(set)
    BY <1>4, <2>1, RequiredKeeps
  <2>5. QED
    BY <2>1, <2>3, <2>4
<1>7. done \in S[Len(wanted)]
  <2> HIDE DEF S, step
  <2>1. QED
    BY <1>4, <1>5, <1>6, FoldedIn
<1>8. done \in Among(set)
  BY <1>4, <1>7
<1>9. RunBody(run, at, b) =
        IF ~done.ok \/ unit = Script \/ at.registry[unit] # None THEN done
        ELSE [done EXCEPT !.registry[unit] = b]
  BY DEF RunBody, wanted
<1> HIDE DEF done
<1>10. CASE ~done.ok \/ unit = Script \/ at.registry[unit] # None
  BY <1>8, <1>9, <1>10
<1>11. CASE ~(~done.ok \/ unit = Script \/ at.registry[unit] # None)
  <2>1. unit \in Paths
    BY <1>2, <1>11 DEF Places
  <2>2. RunBody(run, at, b) = [done EXCEPT !.registry[unit] = b]
    BY <1>9, <1>11
  <2> HIDE DEF unit
  <2>3. [done.registry EXCEPT ![unit] = b] \in [Paths -> set \cup {None}]
    BY <1>8, <2>1 DEF Among
  <2>4. QED
    BY <1>8, <2>2, <2>3 DEF Among
<1>12. QED
  BY <1>10, <1>11

\* The recursion of a run is made of its bodies.
LEMMA RunnerHolds ==
  ASSUME program \in Programs
  PROVE  \E to : /\ to[0] = NoRun
                 /\ \A n \in 1..Len(program.made) : to[n] = OneRun(to[n - 1])
                 /\ Runner = to[Len(program.made)]
<1> DEFINE bodies == Len(program.made)
           Fits(f, n) == f = [i \in 0..n |-> IF i = 0 THEN NoRun ELSE OneRun(f[i - 1])]
           S == {n \in Nat : \E f : Fits(f, n)}
<1>0. bodies \in Nat
  <2>1. program.made \in Seq(Made)
    BY DEF Programs
  <2>2. QED
    BY <2>1
<1>1. 0 \in S
  <2>1. Fits([i \in 0..0 |-> NoRun], 0)
    OBVIOUS
  <2>2. QED
    BY <2>1
<1>2. ASSUME NEW n \in Nat, n \in S
      PROVE  n + 1 \in S
  <2>1. PICK f : Fits(f, n)
    BY <1>2
  <2> DEFINE g == [i \in 0..(n + 1) |-> IF i = n + 1 THEN OneRun(f[n]) ELSE f[i]]
  <2>2. Fits(g, n + 1)
    <3> SUFFICES ASSUME NEW i \in 0..(n + 1)
                 PROVE  g[i] = IF i = 0 THEN NoRun ELSE OneRun(g[i - 1])
      OBVIOUS
    <3>1. CASE i = n + 1
      BY <3>1
    <3>2. CASE i # n + 1
      <4>1. i \in 0..n /\ (i # 0 => i - 1 \in 0..n)
        BY <3>2
      <4>2. f[i] = IF i = 0 THEN NoRun ELSE OneRun(f[i - 1])
        BY <2>1, <4>1
      <4>3. QED
        BY <3>2, <4>1, <4>2
    <3>3. QED
      BY <3>1, <3>2
  <2>3. \E f_1 : Fits(f_1, n + 1)
    <3> HIDE DEF Fits, g
    <3>1. QED
      BY <2>2
  <2>4. QED
    BY <2>3
<1>3. Nat \subseteq S
  <2> HIDE DEF S
  <2>1. QED
    BY <1>1, <1>2, Induct
<1>4. PICK h : Fits(h, bodies)
  BY <1>0, <1>3
<1> DEFINE to == CHOOSE f : Fits(f, bodies)
<1>5. Fits(to, bodies)
  <2> HIDE DEF Fits
  <2>1. QED
    BY <1>4
<1>6. Runner = to[bodies]
  BY DEF Runner
<1> HIDE DEF to
<1>7. to[0] = NoRun /\ \A n \in 1..bodies : to[n] = OneRun(to[n - 1])
  BY <1>0, <1>5
<1>8. QED
  BY <1>6, <1>7

LEMMA RunnerKeeps ==
  ASSUME program \in Programs, NEW set, Closed(set)
  PROVE  Keeps(Runner, set)
<1>1. PICK to : /\ to[0] = NoRun
                /\ \A n \in 1..Len(program.made) : to[n] = OneRun(to[n - 1])
                /\ Runner = to[Len(program.made)]
  BY RunnerHolds
<1> DEFINE bodies == Len(program.made)
           S == {n \in Nat : n <= bodies => Keeps(to[n], set)}
<1>2. bodies \in Nat /\ set \subseteq DOMAIN program.made
  <2>1. program.made \in Seq(Made)
    BY DEF Programs
  <2>2. QED
    BY <2>1 DEF Closed
<1>3. 0 \in S
  <2> SUFFICES ASSUME NEW at \in Among(set), NEW b \in set
               PROVE  to[0][at][b] \in Among(set)
    BY DEF Keeps
  <2>1. at \in Runs /\ b \in DOMAIN program.made
    BY <1>2, AmongRuns
  <2>2. to[0][at][b] = [at EXCEPT !.ok = FALSE]
    BY <1>1, <2>1 DEF NoRun
  <2>3. QED
    BY <2>2, AmongRuns
<1>4. ASSUME NEW n \in Nat, n \in S
      PROVE  n + 1 \in S
  <2> SUFFICES ASSUME n + 1 <= bodies
               PROVE  Keeps(to[n + 1], set)
    OBVIOUS
  <2>1. n + 1 \in 1..bodies /\ (n + 1) - 1 = n /\ n <= bodies
    BY <1>2
  <2>2. Keeps(to[n], set)
    BY <1>4, <2>1
  <2>3. to[n + 1] = OneRun(to[n])
    BY <1>1, <2>1
  <2> SUFFICES ASSUME NEW at \in Among(set), NEW b \in set
               PROVE  to[n + 1][at][b] \in Among(set)
    BY DEF Keeps
  <2>4. at \in Runs /\ b \in DOMAIN program.made
    BY <1>2, AmongRuns
  <2>5. to[n + 1][at][b] = RunBody(to[n], at, b)
    BY <2>3, <2>4 DEF OneRun
  <2>6. QED
    BY <2>2, <2>5, RunBodyKeeps
<1>5. Nat \subseteq S
  <2> HIDE DEF S
  <2>1. QED
    BY <1>3, <1>4, Induct
<1>6. QED
  BY <1>1, <1>2, <1>5

\* What somebody may still run answers only what somebody may still run.
LEMMA LiveClosed ==
  ASSUME Whole(program)
  PROVE  Closed(Live(program))
<1>1. \A p \in Paths : program.body[p] # None => Owned(program, p)
  BY DEF Whole, Bodied
<1>2. Live(program) \subseteq DOMAIN program.made
  BY <1>1 DEF Whole, Bodied, Live, Current, Owned
<1>3. ASSUME NEW b \in Live(program), NEW q \in Paths,
             program.made[b].table[q] # None
      PROVE  program.made[b].table[q] \in Live(program)
  <2>1. CASE b \in program.retired
    BY <1>3, <2>1 DEF Whole, Bodied
  <2>2. CASE b \notin program.retired
    <3>1. PICK p \in Paths : b = program.body[p] /\ program.body[p] # None
      BY <2>2 DEF Live, Current
    <3>2. program.made[b].table[q] = program.body[q]
      BY <1>1, <1>3, <3>1 DEF Owned
    <3>3. QED
      BY <1>3, <3>2 DEF Live, Current
  <2>3. QED
    BY <2>1, <2>2
<1>4. QED
  BY <1>2, <1>3 DEF Closed

LEMMA RunRegisters ==
  ASSUME program \in Programs, NEW set, Closed(set), NEW m \in Machines,
         modules \in [Machines -> [Paths -> set \cup {None}]],
         NEW b \in set, RunOn(m, b)
  PROVE  modules' \in [Machines -> [Paths -> set \cup {None}]]
<1> DEFINE begun == [registry |-> modules[m], ok |-> TRUE]
           done == Runner[begun][b]
<1>1. begun \in Among(set)
  BY DEF Among
<1>2. done \in Among(set)
  BY <1>1, RunnerKeeps DEF Keeps
<1>3. modules' = [modules EXCEPT ![m] = done.registry]
  BY DEF RunOn
<1> HIDE DEF done
<1>4. QED
  BY <1>2, <1>3 DEF Among

LEMMA HeldHolds ==
  ASSUME NEW set, NEW registries \in [Machines -> [Paths -> set \cup {None}]],
         NEW closures \in [Machines -> SUBSET set]
  PROVE  /\ HeldBy(registries, closures) \subseteq set
         /\ \A m \in Machines :
              /\ \A p \in Paths : registries[m][p] # None =>
                    registries[m][p] \in HeldBy(registries, closures)
              /\ closures[m] \ {None} \subseteq HeldBy(registries, closures)
<1>1. \A m \in Machines : Range(registries[m]) \subseteq set \cup {None}
  BY DEF Range
<1>2. \A m \in Machines : \A p \in Paths : registries[m][p] \in Range(registries[m])
  BY DEF Range
<1>3. QED
  BY <1>1, <1>2 DEF HeldBy

LEMMA DiscardIs ==
  ASSUME NEW g \in Programs
  PROVE  LET r == [g EXCEPT !.freed = @ \cup g.retired, !.retired = {}]
         IN /\ r \in Programs /\ r.retired = {} /\ r.freed = g.freed \cup g.retired
            /\ r.units = g.units /\ r.state = g.state /\ r.text = g.text
            /\ r.errors = g.errors /\ r.from = g.from /\ r.said = g.said
            /\ r.edges = g.edges /\ r.body = g.body /\ r.made = g.made
BY DEF Programs

LEMMA DiscardWhole ==
  ASSUME NEW g, Whole(g), NEW held, held \subseteq Live(g)
  PROVE  LET r == DiscardUnheld(g, held)
         IN /\ Whole(r) /\ held \subseteq Live(r)
            /\ r.body = g.body /\ r.made = g.made
<1> DEFINE r == DiscardUnheld(g, held)
<1>1. CASE g.retired \cap held # {}
  BY <1>1 DEF DiscardUnheld
<1>2. CASE g.retired \cap held = {}
  <2>0. g \in Programs
    BY DEF Whole
  <2>1. r = [g EXCEPT !.freed = @ \cup g.retired, !.retired = {}]
    BY <1>2 DEF DiscardUnheld
  <2> HIDE DEF r
  <2>2. /\ r \in Programs /\ r.retired = {} /\ r.freed = g.freed \cup g.retired
        /\ r.units = g.units /\ r.state = g.state /\ r.text = g.text
        /\ r.errors = g.errors /\ r.from = g.from /\ r.said = g.said
        /\ r.edges = g.edges /\ r.body = g.body /\ r.made = g.made
    BY <2>0, <2>1, DiscardIs, ZenonT(40)
  <2>3. Shaped(r) /\ SaidOf(r) /\ Judged(r) /\ (Matched => Sourced(r))
    BY <2>2 DEF Whole, Shaped, SaidOf, Judged, Judgement, Sourced
  <2>4. Bodied(r)
    <3>1. ASSUME NEW u \in Paths, r.body[u] # None
          PROVE  Owned(r, u)
      <4> DEFINE b == g.body[u]
      <4>1. Owned(g, u) /\ u \in Places
        BY <2>2, <3>1, BodyOwned, Facts
      <4>2. b \in DOMAIN g.made /\ b \notin g.retired \cup g.freed
        BY <4>1, OwnedFacts
      <4> HIDE DEF b
      <4>3. QED
        BY <2>2, <4>1, <4>2, OwnedSame DEF b
    <3>2. QED
      BY <2>2, <3>1 DEF Whole, Bodied
  <2>5. held \subseteq Live(r)
    BY <1>2, <2>2 DEF Live, Current
  <2>6. QED
    BY <2>2, <2>3, <2>4, <2>5 DEF Whole, r
<1>3. QED
  BY <1>1, <1>2

-----------------------------------------------------------------------------
(* Every entry keeps the invariant.                                        *)
LEMMA WholeNext ==
  ASSUME session' = session, Whole(program')
  PROVE  Whole(program)'
<1>1. Judged(program)' <=> Judged(program')
  BY DEF Judged, Judgement, HasScripts
<1>2. QED
  BY <1>1 DEF Whole, Shaped, Bodied, Owned, SaidOf, Sourced, Matched, HasScripts,
              Live, Current

LEMMA SteadyFrom ==
  ASSUME Steady, session' = session, DiskTyped', Whole(program'),
         program'.body[Script] = None,
         scripts' \subseteq DOMAIN program'.made,
         HasScripts => program'.retired = {} /\ program'.freed = {},
         ~HasScripts =>
            /\ scripts' = {}
            /\ modules' \in [Machines -> [Paths -> Live(program') \cup {None}]]
            /\ kept' \in [Machines -> SUBSET Live(program')]
  PROVE  Steady'
<1>1. Whole(program)'
  BY WholeNext
<1>2. HasScripts' <=> HasScripts
  BY DEF HasScripts
<1>3. TypeOK'
  BY <1>2 DEF Steady, TypeOK, DiskTyped, ScriptsAlone
<1>4. HeldLive'
  BY <1>2 DEF HeldLive, Live, Current
<1>5. QED
  BY <1>1, <1>3, <1>4 DEF Steady

LEMMA LiveMade ==
  ASSUME NEW g, Whole(g)
  PROVE  Live(g) \subseteq DOMAIN g.made /\ None \notin Live(g)
<1>1. \A p \in Paths : g.body[p] # None => g.body[p] \in DOMAIN g.made
  BY DEF Whole, Bodied, Owned
<1>2. Live(g) \subseteq DOMAIN g.made
  BY <1>1 DEF Whole, Bodied, Live, Current
<1>3. g.made \in Seq(Made)
  BY DEF Whole, Programs
<1>4. None \notin DOMAIN g.made
  BY <1>3, Facts
<1>5. QED
  BY <1>2, <1>4

LEMMA EmptyWhole == Whole(Empty) /\ Live(Empty) = {} /\ Empty.body[Script] = None
<1>1. Empty \in Programs
  <2>1. <<>> \in Seq(Paths) /\ <<>> \in Seq(Made) /\ None \in Nat
    BY Facts
  <2>2. QED
    BY <2>1 DEF Empty, Programs
<1>2. /\ \A p \in Places : Empty.state[p] = "absent" /\ Empty.text[p] = NoText
                           /\ Empty.body[p] = None
      /\ Empty.said = {} /\ Empty.retired = {} /\ Empty.freed = {} /\ Empty.made = <<>>
  BY DEF Empty
<1>3. Shaped(Empty) /\ Judged(Empty) /\ SaidOf(Empty)
  BY <1>2, Facts DEF Shaped, Judged, SaidOf
<1>4. Bodied(Empty) /\ Sourced(Empty)
  BY <1>2, Facts DEF Bodied, Sourced
<1>5. Live(Empty) = {}
  BY <1>2, Facts DEF Live, Current
<1>6. QED
  BY <1>1, <1>2, <1>3, <1>4, <1>5, Facts DEF Whole

LEMMA InitSteady ==
  ASSUME Init, ScriptsAlone
  PROVE  Steady
<1>1. /\ disk = OnDisk /\ program = Empty /\ scripts = {}
      /\ modules = [m \in Machines |-> [p \in Paths |-> None]]
      /\ kept = [m \in Machines |-> {}]
  BY DEF Init
<1>2. Whole(program) /\ program.body[Script] = None
  BY <1>1, EmptyWhole
<1>3. TypeOK
  BY <1>1, ProgramAssumption DEF TypeOK
<1>4. HeldLive
  BY <1>1 DEF HeldLive, Empty
<1>5. QED
  BY <1>2, <1>3, <1>4 DEF Steady

\* What holds of a program between two entries, in the parts the steps use.
LEMMA SteadyFacts ==
  ASSUME Steady
  PROVE  /\ DiskTyped /\ Whole(program) /\ program \in Programs
         /\ program.body[Script] = None
         /\ scripts \subseteq DOMAIN program.made
         /\ HasScripts => /\ program.retired = {} /\ program.freed = {}
                          /\ session = {"scripts"}
         /\ ~HasScripts =>
              /\ scripts = {}
              /\ modules \in [Machines -> [Paths -> Live(program) \cup {None}]]
              /\ kept \in [Machines -> SUBSET Live(program)]
<1>1. HasScripts => session = {"scripts"}
  BY DEF Steady, TypeOK, ScriptsAlone, HasScripts
<1>2. ~HasScripts => scripts = {}
  BY DEF Steady, TypeOK
<1>3. QED
  BY <1>1, <1>2 DEF Steady, TypeOK, DiskTyped, HeldLive, Whole

\* What the machines hold may only grow less than what may be run.
LEMMA LiveGrows ==
  ASSUME NEW set, NEW more, set \subseteq more,
         NEW registries \in [Machines -> [Paths -> set \cup {None}]],
         NEW closures \in [Machines -> SUBSET set]
  PROVE  /\ registries \in [Machines -> [Paths -> more \cup {None}]]
         /\ closures \in [Machines -> SUBSET more]
<1>1. [Paths -> set \cup {None}] \subseteq [Paths -> more \cup {None}]
  OBVIOUS
<1>2. SUBSET set \subseteq SUBSET more
  OBVIOUS
<1>3. QED
  BY <1>1, <1>2

LEMMA WriteSteady ==
  ASSUME Steady, NEW p \in Paths, NEW text \in Versions[p], Write(p, text)
  PROVE  Steady'
<1>1. /\ disk' = [disk EXCEPT ![p] = text]
      /\ UNCHANGED <<program, modules, kept, scripts, session, loads>>
  BY DEF Write
<1>2. Versions[p] \subseteq Texts \cup {NoText}
  BY ProgramAssumption
<1>3. DiskTyped'
  BY <1>1, <1>2, SteadyFacts DEF DiskTyped
<1>4. QED
  BY <1>1, <1>3, SteadyFacts, SteadyFrom

LEMMA CheckSteady ==
  ASSUME Steady, Check
  PROVE  Steady'
<1> DEFINE g == CheckPath(program, Root)
<1>1. program' = ReportColliding(g) /\ UNCHANGED <<modules, kept, hostVars>>
  BY DEF Check
<1>2. Whole(g) /\ Live(g) = Live(program) /\ SameBodies(program, g)
  BY ProgramAssumption, SteadyFacts, PathWhole
<1> HIDE DEF g
<1>3. Whole(program') /\ Live(program') = Live(program) /\ SameBodies(program, program')
  BY <1>1, <1>2, CollidingWhole DEF SameBodies
<1>4. DiskTyped'
  BY <1>1, SteadyFacts DEF DiskTyped, hostVars
<1>5. QED
  BY <1>1, <1>3, <1>4, SteadyFacts, SteadyFrom DEF hostVars, SameBodies

\* What is compiled has no errors, unless scripts leave theirs.
LEMMA CleanUnits ==
  ASSUME NEW g, ~HasErrors(g)
  PROVE  \A u \in Range(g.units) : Clean(g, u)
BY DEF HasErrors, Clean

LEMMA CompileSteady ==
  ASSUME Steady, Compile
  PROVE  Steady'
<1>1. /\ ~HasErrors(program) /\ program' = CompileAll(program).g
      /\ UNCHANGED <<modules, kept, hostVars>>
  BY DEF Compile
<1>2. program' \in Underway(program)
  BY <1>1, SteadyFacts, CleanUnits, CompileAllWhole
<1>3. Whole(program') /\ Compiled(program, program') /\ Apart(program, program')
  BY <1>2 DEF Underway
<1>4. Live(program) \subseteq Live(program')
  BY <1>3, CompiledLive
<1>5. DiskTyped'
  BY <1>1, SteadyFacts DEF DiskTyped, hostVars
<1>6. ~HasScripts =>
            /\ modules' \in [Machines -> [Paths -> Live(program') \cup {None}]]
            /\ kept' \in [Machines -> SUBSET Live(program')]
  BY <1>1, <1>4, SteadyFacts, LiveGrows
<1>7. QED
  BY <1>1, <1>3, <1>5, <1>6, SteadyFacts, SteadyFrom DEF hostVars, Compiled, Apart

LEMMA RunSteady ==
  ASSUME Steady, NEW m \in Machines, Run(m)
  PROVE  Steady'
<1>1. /\ program.body[Root] # None /\ RunOn(m, program.body[Root])
      /\ UNCHANGED <<program, kept, hostVars>>
  BY DEF Run
<1>2. program.body[Root] \in Live(program)
  BY <1>1, ProgramAssumption DEF Live, Current
<1>3. ~HasScripts => modules' \in [Machines -> [Paths -> Live(program) \cup {None}]]
  <2> SUFFICES ASSUME ~HasScripts
               PROVE  modules' \in [Machines -> [Paths -> Live(program) \cup {None}]]
    OBVIOUS
  <2>1. Closed(Live(program)) /\ program \in Programs
    BY SteadyFacts, LiveClosed
  <2>2. modules \in [Machines -> [Paths -> Live(program) \cup {None}]]
    BY SteadyFacts
  <2>3. QED
    BY <1>1, <1>2, <2>1, <2>2, RunRegisters
<1>4. DiskTyped'
  BY <1>1, SteadyFacts DEF DiskTyped, hostVars
<1>5. QED
  BY <1>1, <1>3, <1>4, SteadyFacts, SteadyFrom DEF hostVars

LEMMA RunScriptSteady ==
  ASSUME Steady, NEW m \in Machines, NEW b \in scripts, RunScript(m, b)
  PROVE  Steady'
<1>1. HasScripts /\ UNCHANGED <<program, kept, hostVars>>
  BY SteadyFacts DEF RunScript
<1>2. DiskTyped'
  BY <1>1, SteadyFacts DEF DiskTyped, hostVars
<1>3. QED
  BY <1>1, <1>2, SteadyFacts, SteadyFrom DEF hostVars

LEMMA KeepSteady ==
  ASSUME Steady, NEW m \in Machines, NEW p \in Paths, Keep(m, p) \/ LetGo(m)
  PROVE  Steady'
<1>1. UNCHANGED <<program, modules, hostVars>>
  BY DEF Keep, LetGo
<1>2. ~HasScripts => kept' \in [Machines -> SUBSET Live(program)]
  <2> SUFFICES ASSUME ~HasScripts
               PROVE  kept' \in [Machines -> SUBSET Live(program)]
    OBVIOUS
  <2>1. /\ modules \in [Machines -> [Paths -> Live(program) \cup {None}]]
        /\ kept \in [Machines -> SUBSET Live(program)]
    BY SteadyFacts
  <2>2. CASE Keep(m, p)
    <3>1. modules[m][p] \in Live(program)
      BY <2>1, <2>2 DEF Keep
    <3>2. QED
      BY <2>1, <2>2, <3>1 DEF Keep
  <2>3. CASE LetGo(m)
    BY <2>1, <2>3 DEF LetGo
  <2>4. QED
    BY <2>2, <2>3
<1>3. DiskTyped'
  BY <1>1, SteadyFacts DEF DiskTyped, hostVars
<1>4. QED
  BY <1>1, <1>2, <1>3, SteadyFacts, SteadyFrom DEF hostVars

LEMMA ForgottenStays ==
  ASSUME NEW set, modules \in [Machines -> [Paths -> set \cup {None}]], NEW units
  PROVE  Forgotten(units) \in [Machines -> [Paths -> set \cup {None}]]
BY DEF Forgotten

\* A host that invalidates loads no scripts.
LEMMA InvalidatedSteady ==
  ASSUME Steady, "whole" \in session \/ "apart" \in session, NEW p \in Paths,
         program.state[p] # "absent", ~Unchanged(program, p)
  PROVE  LET r == Invalidated(program, p)
         IN /\ ~HasScripts /\ Whole(r) /\ Live(r) = Live(program)
            /\ r.body[Script] = None
<1> DEFINE set == Reaching(program, p)
           r == Retire(program, set)
<1>1. ~HasScripts
  BY SteadyFacts
<1>2. Invalidated(program, p) = r
  BY DEF Invalidated
<1>3. Whole(r) /\ Live(r) = Live(program)
  BY <1>1, SteadyFacts, RetireWhole
<1>4. set \subseteq Paths
  BY SteadyFacts, ReachingClosed
<1> HIDE DEF set
<1>5. r.body[Script] = program.body[Script]
  BY <1>4, SteadyFacts, RetireIs, Facts
<1>6. QED
  BY <1>1, <1>2, <1>3, <1>5, SteadyFacts

LEMMA InvalidateSteady ==
  ASSUME Steady, NEW p \in Paths, Invalidate(p)
  PROVE  Steady'
<1>1. /\ program' = Invalidated(program, p) /\ UNCHANGED <<modules, kept, hostVars>>
      /\ "apart" \in session /\ program.state[p] # "absent" /\ ~Unchanged(program, p)
  BY DEF Invalidate
<1>2. /\ ~HasScripts /\ Whole(program') /\ Live(program') = Live(program)
      /\ program'.body[Script] = None
  BY <1>1, InvalidatedSteady
<1>3. DiskTyped'
  BY <1>1, SteadyFacts DEF DiskTyped, hostVars
<1>4. QED
  BY <1>1, <1>2, <1>3, SteadyFacts, SteadyFrom DEF hostVars

LEMMA ForgetSteady ==
  ASSUME Steady, Forget
  PROVE  Steady'
<1> DEFINE old == {p \in Paths : \E m \in Machines : modules[m][p] \in program.retired}
<1>1. "apart" \in session /\ modules' = Forgotten(old) /\ UNCHANGED <<program, kept, hostVars>>
  BY DEF Forget
<1> HIDE DEF old
<1>2. ~HasScripts
  BY <1>1, SteadyFacts
<1>3. modules' \in [Machines -> [Paths -> Live(program) \cup {None}]]
  BY <1>1, <1>2, SteadyFacts, ForgottenStays
<1>4. DiskTyped'
  BY <1>1, SteadyFacts DEF DiskTyped, hostVars
<1>5. QED
  BY <1>1, <1>2, <1>3, <1>4, SteadyFacts, SteadyFrom DEF hostVars

\* What the machines hold can still be run after a discard.
LEMMA DiscardLive ==
  ASSUME NEW g, Whole(g),
         NEW registries \in [Machines -> [Paths -> Live(g) \cup {None}]],
         NEW closures \in [Machines -> SUBSET Live(g)]
  PROVE  LET r == DiscardUnheld(g, HeldBy(registries, closures))
         IN /\ Whole(r) /\ r.body = g.body /\ r.made = g.made
            /\ registries \in [Machines -> [Paths -> Live(r) \cup {None}]]
            /\ closures \in [Machines -> SUBSET Live(r)]
<1> DEFINE held == HeldBy(registries, closures)
           r == DiscardUnheld(g, held)
<1>1. /\ held \subseteq Live(g)
      /\ \A m \in Machines :
           /\ \A p \in Paths : registries[m][p] # None => registries[m][p] \in held
           /\ closures[m] \ {None} \subseteq held
  BY HeldHolds
<1> HIDE DEF held
<1>2. Whole(r) /\ held \subseteq Live(r) /\ r.body = g.body /\ r.made = g.made
  BY <1>1, DiscardWhole
<1> HIDE DEF r
<1>3. ASSUME NEW m \in Machines
      PROVE  registries[m] \in [Paths -> Live(r) \cup {None}] /\ closures[m] \subseteq Live(r)
  <2>1. registries[m] \in [Paths -> Live(g) \cup {None}] /\ closures[m] \subseteq Live(g)
    OBVIOUS
  <2>2. None \notin closures[m]
    BY <2>1, LiveMade
  <2>3. QED
    BY <1>1, <1>2, <2>1, <2>2
<1>4. QED
  BY <1>2, <1>3 DEF r, held

LEMMA DiscardSteady ==
  ASSUME Steady, Discard
  PROVE  Steady'
<1>1. /\ "apart" \in session
      /\ program' = DiscardUnheld(program, HeldBy(modules, kept))
      /\ UNCHANGED <<modules, kept, hostVars>>
  BY DEF Discard
<1>2. ~HasScripts
  BY <1>1, SteadyFacts
<1>3. /\ Whole(program') /\ program'.body = program.body /\ program'.made = program.made
      /\ modules' \in [Machines -> [Paths -> Live(program') \cup {None}]]
      /\ kept' \in [Machines -> SUBSET Live(program')]
  BY <1>1, <1>2, SteadyFacts, DiscardLive
<1>4. DiskTyped'
  BY <1>1, SteadyFacts DEF DiskTyped, hostVars
<1>5. QED
  BY <1>1, <1>2, <1>3, <1>4, SteadyFacts, SteadyFrom DEF hostVars

LEMMA ReloadSteady ==
  ASSUME Steady, NEW p \in Paths, Reload(p)
  PROVE  Steady'
<1> DEFINE retired == Invalidated(program, p)
           checked == Recheck(retired)
           compiled == CompileAll(checked)
           kind == IF HasErrors(checked) THEN checked
                   ELSE IF ~compiled.ok THEN compiled.g
                   ELSE DiscardUnheld(compiled.g, HeldBy(modules', kept))
<1>1. /\ "whole" \in session /\ program.state[p] # "absent" /\ ~Unchanged(program, p)
      /\ modules' = Forgotten(Stale(retired)) /\ program' = kind
      /\ UNCHANGED <<kept, hostVars>>
  BY DEF Reload
<1>2. /\ ~HasScripts /\ Whole(retired) /\ Live(retired) = Live(program)
      /\ retired.body[Script] = None
  BY <1>1, InvalidatedSteady
<1> HIDE DEF retired
<1>3. /\ Whole(checked) /\ Live(checked) = Live(program)
      /\ checked.body[Script] = None
  BY <1>2, SteadyFacts, RecheckWhole DEF SameBodies
<1> HIDE DEF checked
<1>4. /\ modules' \in [Machines -> [Paths -> Live(program) \cup {None}]]
      /\ kept' \in [Machines -> SUBSET Live(program)]
  BY <1>1, <1>2, SteadyFacts, ForgottenStays
<1>5. /\ Whole(kind) /\ kind.body[Script] = None
      /\ modules' \in [Machines -> [Paths -> Live(kind) \cup {None}]]
      /\ kept' \in [Machines -> SUBSET Live(kind)]
  <2>1. CASE HasErrors(checked)
    BY <1>3, <1>4, <2>1
  <2>2. CASE ~HasErrors(checked)
    <3>1. compiled.g \in Underway(checked)
      BY <1>3, <2>2, CleanUnits, CompileAllWhole
    <3>2. Whole(compiled.g) /\ Compiled(checked, compiled.g) /\ Apart(checked, compiled.g)
      BY <3>1 DEF Underway
    <3> HIDE DEF compiled
    <3>3. Live(program) \subseteq Live(compiled.g)
      BY <1>3, <3>2, CompiledLive
    <3>4. /\ modules' \in [Machines -> [Paths -> Live(compiled.g) \cup {None}]]
          /\ kept' \in [Machines -> SUBSET Live(compiled.g)]
      BY <1>4, <3>3, LiveGrows
    <3>5. compiled.g.body[Script] = None
      BY <1>3, <3>2 DEF Apart
    <3>6. CASE ~compiled.ok
      BY <2>2, <3>2, <3>4, <3>5, <3>6
    <3>7. CASE compiled.ok
      <4>1. kind = DiscardUnheld(compiled.g, HeldBy(modules', kept'))
        BY <1>1, <2>2, <3>7
      <4> HIDE DEF kind
      <4>2. /\ Whole(kind) /\ kind.body = compiled.g.body
            /\ modules' \in [Machines -> [Paths -> Live(kind) \cup {None}]]
            /\ kept' \in [Machines -> SUBSET Live(kind)]
        BY <3>2, <3>4, <4>1, DiscardLive
      <4>3. QED
        BY <3>5, <4>2
    <3>8. QED
      BY <3>6, <3>7
  <2>3. QED
    BY <2>1, <2>2
<1> HIDE DEF kind
<1>6. DiskTyped'
  BY <1>1, SteadyFacts DEF DiskTyped, hostVars
<1>7. QED
  BY <1>1, <1>2, <1>5, <1>6, SteadyFacts, SteadyFrom DEF hostVars

\* A program that loads scripts has nothing retired, with or without one.
LEMMA WithoutScriptWhole ==
  ASSUME NEW g, Whole(g)
  PROVE  LET r == WithoutScript(g)
         IN /\ Whole(r) /\ r.body[Script] = None
            /\ r.made = g.made /\ r.retired = g.retired /\ r.freed = g.freed
<1>1. /\ WithoutScript(g) \in Programs /\ Aside(g, WithoutScript(g))
      /\ WithoutScript(g).body[Script] = None
  BY WithoutScriptIs DEF Whole
<1>2. QED
  BY <1>1, AsideWhole DEF Aside

LEMMA LoadSteady ==
  ASSUME Steady, NEW text \in Scripts, Load(text)
  PROVE  Steady'
<1> DEFINE checked == CheckParsed(Checker, program, Script, text)
           compiled == CompileAll(checked)
           own == CompileOne(compiled.g, Script)
           built == ~Complaints(program, checked) /\ compiled.ok
                      /\ own.body[Script] # None
           left == IF Complaints(program, checked) THEN checked
                   ELSE IF ~compiled.ok THEN compiled.g
                   ELSE FillTable(own, Script)
           Fine(g) == /\ Whole(g) /\ DOMAIN program.made \subseteq DOMAIN g.made
                      /\ g.retired = {} /\ g.freed = {}
<1>1. /\ HasScripts /\ program' = WithoutScript(left)
      /\ scripts' = IF built THEN scripts \cup {own.body[Script]} ELSE scripts
      /\ UNCHANGED <<disk, modules, kept, session, edits>>
  BY DEF Load, HasScripts
<1>2. text \in Texts
  BY ProgramAssumption
<1>3. /\ Whole(checked) /\ SameBodies(program, checked)
      /\ checked.state[Script] = "done" /\ Judgement(checked, Script)
  BY <1>2, SteadyFacts, ScriptChecked
<1> HIDE DEF checked
<1>4. Fine(checked) /\ checked.body[Script] = None
  BY <1>1, <1>3, SteadyFacts DEF SameBodies
<1>5. compiled.g \in Underway(checked)
  BY <1>1, <1>3, CompileAllWhole DEF Clean
<1>6. Whole(compiled.g) /\ Compiled(checked, compiled.g) /\ Apart(checked, compiled.g)
  BY <1>5 DEF Underway
<1> HIDE DEF compiled
<1>7. /\ Fine(compiled.g) /\ compiled.g.body[Script] = None
      /\ compiled.g.state[Script] = "done"
  BY <1>3, <1>4, <1>6 DEF Compiled, Apart
<1>8. Judgement(compiled.g, Script)
  BY <1>3, <1>6, JudgementSame, Facts DEF Compiled, Apart
<1>9. Whole(own) /\ Compiled(compiled.g, own)
  <2>1. compiled.g.text[Script] \in Texts
    BY <1>8 DEF Judgement
  <2>2. Script \in Places /\ Script \notin Paths /\ Clean(compiled.g, Script)
    BY <1>1, Facts DEF Clean
  <2>3. QED
    BY <1>6, <1>7, <2>1, <2>2, CompileOneWhole
<1>10. own.body[Script] = None \/ (Owned(own, Script) /\ Judgement(own, Script))
  <2>1. Script \in Places /\ Clean(compiled.g, Script)
    BY <1>1, Facts DEF Clean
  <2>2. QED
    BY <1>6, <1>7, <1>8, <2>1, CompileOneOwned
<1> HIDE DEF own
<1>11. Fine(own)
  BY <1>7, <1>9 DEF Compiled
<1> DEFINE full == FillTable(own, Script)
<1>12. Whole(full) /\ Compiled(own, full)
  BY <1>1, <1>9, <1>10, Facts, FillWhole DEF Clean
<1> HIDE DEF full
<1>13. Fine(full)
  BY <1>11, <1>12 DEF Compiled
<1>14. Fine(left) /\ (built => own.body[Script] \in DOMAIN left.made)
  <2>1. CASE Complaints(program, checked)
    BY <1>4, <2>1
  <2>2. CASE ~Complaints(program, checked) /\ ~compiled.ok
    BY <1>7, <2>2
  <2>3. CASE ~Complaints(program, checked) /\ compiled.ok
    <3>1. left = full
      BY <2>3 DEF full
    <3>2. own.body[Script] # None => own.body[Script] \in DOMAIN full.made
      BY <1>10, <1>12, SMTT(20) DEF Owned, Compiled
    <3>3. QED
      BY <1>13, <3>1, <3>2
  <2>4. QED
    BY <2>1, <2>2, <2>3
<1> HIDE DEF built, left
<1>15. /\ Whole(program') /\ program'.body[Script] = None
       /\ program'.made = left.made /\ program'.retired = {} /\ program'.freed = {}
  BY <1>1, <1>14, WithoutScriptWhole
<1>16. scripts' \subseteq DOMAIN program'.made
  BY <1>1, <1>14, <1>15, SteadyFacts
<1>17. DiskTyped'
  BY <1>1, SteadyFacts DEF DiskTyped
<1>18. QED
  BY <1>1, <1>15, <1>16, <1>17, SteadyFacts, SteadyFrom

LEMMA NextSteady ==
  ASSUME Steady, [Next]_vars
  PROVE  Steady'
<1>1. CASE UNCHANGED vars
  <2>1. UNCHANGED <<disk, program, modules, kept, scripts, session>>
    BY <1>1 DEF vars
  <2>2. DiskTyped'
    BY <2>1, SteadyFacts DEF DiskTyped
  <2>3. QED
    BY <2>1, <2>2, SteadyFacts, SteadyFrom
<1>2. CASE \E p \in Paths : \E text \in Versions[p] : Write(p, text)
  BY <1>2, WriteSteady
<1>3. CASE Check
  BY <1>3, CheckSteady
<1>4. CASE Compile
  BY <1>4, CompileSteady
<1>5. CASE Forget
  BY <1>5, ForgetSteady
<1>6. CASE Discard
  BY <1>6, DiscardSteady
<1>7. CASE \E m \in Machines : Run(m)
  BY <1>7, RunSteady
<1>8. CASE \E m \in Machines : LetGo(m)
  <2>1. Root \in Paths
    BY ProgramAssumption
  <2>2. QED
    BY <1>8, <2>1, KeepSteady
<1>9. CASE \E m \in Machines : \E b \in scripts : RunScript(m, b)
  BY <1>9, RunScriptSteady
<1>10. CASE \E m \in Machines, p \in Paths : Keep(m, p)
  BY <1>10, KeepSteady
<1>11. CASE \E p \in Paths : Reload(p)
  BY <1>11, ReloadSteady
<1>12. CASE \E p \in Paths : Invalidate(p)
  BY <1>12, InvalidateSteady
<1>13. CASE \E text \in Scripts : Load(text)
  BY <1>13, LoadSteady
<1>14. QED
  BY <1>1, <1>2, <1>3, <1>4, <1>5, <1>6, <1>7, <1>8, <1>9, <1>10, <1>11, <1>12,
     <1>13 DEF Next

\* Between two entries the program is whole: every body of a unit is its own,
\* made of what the unit is, and answers the current bodies of the units it
\* requires; every judgement is the one its text and the units it requires
\* give; and what the machines hold is current or waits (src/program.c,
\* src/program_require.c).
THEOREM AlwaysSteady == Spec /\ ScriptsAlone => []Steady
<1>1. Init /\ ScriptsAlone => Steady
  BY InitSteady
<1>2. Steady /\ [Next]_vars => Steady'
  BY NextSteady
<1>3. QED
  BY <1>1, <1>2, PTL DEF Spec

-----------------------------------------------------------------------------
(* What the invariant gives.                                               *)

\* The kind of a session is chosen once.
LEMMA SessionStays ==
  ASSUME [Next]_vars
  PROVE  session' = session
<1>1. CASE UNCHANGED vars
  BY <1>1 DEF vars
<1>2. CASE \E p \in Paths : \E text \in Versions[p] : Write(p, text)
  BY <1>2 DEF Write
<1>3. CASE Check \/ Compile \/ Forget \/ Discard
  BY <1>3 DEF Check, Compile, Forget, Discard, hostVars
<1>4. CASE \E m \in Machines : Run(m) \/ LetGo(m) \/ \E b \in scripts : RunScript(m, b)
  BY <1>4 DEF Run, LetGo, RunScript, hostVars
<1>5. CASE \E m \in Machines, p \in Paths : Keep(m, p)
  BY <1>5 DEF Keep, hostVars
<1>6. CASE \E p \in Paths : Reload(p) \/ Invalidate(p)
  BY <1>6 DEF Reload, Invalidate, hostVars
<1>7. CASE \E text \in Scripts : Load(text)
  BY <1>7 DEF Load
<1>8. QED
  BY <1>1, <1>2, <1>3, <1>4, <1>5, <1>6, <1>7 DEF Next

LEMMA SteadyNamed ==
  ASSUME Steady
  PROVE  NothingFreedIsNamed
<1>1. CASE HasScripts
  BY <1>1, SteadyFacts DEF NothingFreedIsNamed
<1>2. CASE ~HasScripts
  <2> DEFINE first == {program.body[p] : p \in Bodies} \cup program.retired
                        \cup HeldBy(modules, kept) \cup scripts
  <2>1. HeldBy(modules, kept) \subseteq Live(program)
    BY <1>2, SteadyFacts, HeldHolds
  <2>2. first \subseteq Live(program)
    BY <1>2, <2>1, SteadyFacts DEF Bodies, Live, Current
  <2>3. Live(program) \cap program.freed = {}
    <3>1. \A p \in Paths : program.body[p] # None => program.body[p] \notin program.freed
      BY SteadyFacts DEF Whole, Bodied, Owned
    <3>2. QED
      BY <3>1, SteadyFacts DEF Whole, Bodied, Live, Current
  <2>4. None \notin program.freed
    <3>1. program.made \in Seq(Made)
      BY SteadyFacts DEF Programs
    <3>2. None \notin DOMAIN program.made
      BY <3>1, Facts
    <3>3. QED
      BY <3>2, SteadyFacts DEF Whole, Bodied
  <2>5. ASSUME NEW b \in first
        PROVE  Range(program.made[b].table) \subseteq Live(program) \cup {None}
    <3>1. Closed(Live(program)) /\ b \in Live(program)
      BY <2>2, SteadyFacts, LiveClosed
    <3>2. program.made[b] \in Made
      <4>1. program.made \in Seq(Made)
        BY SteadyFacts DEF Programs
      <4>2. QED
        BY <3>1, <4>1 DEF Closed
    <3>3. program.made[b].table \in [Paths -> Nat]
      BY <3>2 DEF Made
    <3>4. QED
      BY <3>1, <3>3 DEF Closed, Range
  <2>6. NothingFreedIsNamed <=>
          (first \cup UNION {Range(program.made[b].table) : b \in first \ program.freed})
             \cap program.freed = {}
    BY DEF NothingFreedIsNamed, Named
  <2> HIDE DEF first
  <2>7. QED
    BY <2>2, <2>3, <2>4, <2>5, <2>6
<1>3. QED
  BY <1>1, <1>2

\* No body is freed that a machine, the program, a script or the unit table
\* of any of these can still come to (program_require.c:917-949), for any
\* number of machines, units, edits and discards.
THEOREM AlwaysNothingFreedIsNamed == Spec /\ ScriptsAlone => []NothingFreedIsNamed
<1>1. Steady => NothingFreedIsNamed
  BY SteadyNamed
<1>2. QED
  BY <1>1, AlwaysSteady, PTL

LEMMA SteadyWorlds ==
  ASSUME Steady, Matched
  PROVE  EachWorldIsWhole
<1>1. /\ Sourced(program) /\ program \in Programs /\ program.body[Script] = None
      /\ program.made \in Seq(Made)
  BY SteadyFacts DEF Whole, Programs
<1> SUFFICES ASSUME NEW b \in DOMAIN program.made \ program.freed,
                    NEW q \in DOMAIN program.made[b].table,
                    program.made[b].table[q] # None
             PROVE  /\ program.made[program.made[b].table[q]].from
                         \subseteq program.made[b].from
                    /\ program.body[program.made[b].unit] = b =>
                         program.body[q] = program.made[b].table[q]
  BY DEF EachWorldIsWhole
<1>2. program.made[b] \in Made /\ b # None
  BY <1>1, Facts
<1>3. q \in Paths /\ program.made[b].unit \in Places
  BY <1>2 DEF Made
<1>4. program.made[program.made[b].table[q]].from \subseteq program.made[b].from
  BY <1>1, <1>3 DEF Sourced
<1>5. ASSUME program.body[program.made[b].unit] = b
      PROVE  program.body[q] = program.made[b].table[q]
  <2>1. program.made[b].unit \in Paths
    BY <1>1, <1>2, <1>3, <1>5 DEF Places
  <2>2. Owned(program, program.made[b].unit)
    BY <1>2, <1>5, <2>1, SteadyFacts DEF Whole, Bodied
  <2>3. QED
    BY <1>3, <1>5, <2>2 DEF Owned
<1>6. QED
  BY <1>4, <1>5

\* The old world stays whole beside the new one (program_require.c:752-775):
\* every body that is not freed reaches only what it was checked against, and
\* the current ones only current ones.  With loaded scripts it holds where no
\* units require each other in a circle.
THEOREM AlwaysEachWorldIsWhole ==
  Spec /\ ScriptsAlone /\ ("scripts" \notin session \/ Acyclic) => []EachWorldIsWhole
<1>1. ("scripts" \notin session \/ Acyclic) => Matched
  BY DEF Matched, HasScripts
<1>2. Matched /\ [Next]_vars => Matched'
  BY SessionStays DEF Matched, HasScripts
<1>3. Steady /\ Matched => EachWorldIsWhole
  BY SteadyWorlds
<1>4. QED
  BY <1>1, <1>2, <1>3, AlwaysSteady, PTL DEF Spec

\* A program made afresh from the same list reads the disk.
LEMMA AfreshHolds ==
  ASSUME DiskTyped, program \in Programs
  PROVE  /\ Checked(Empty, Afresh, {})
         /\ Range(program.units) \subseteq Range(Afresh.units)
<1> DEFINE units == program.units
           upto(i) == {units[j] : j \in 1..i}
           S == [i \in 0..Len(units) |->
                   {h \in Programs : Checked(Empty, h, {}) /\ upto(i) \subseteq Range(h.units)}]
<1>1. /\ units \in Seq(Paths) /\ Len(units) \in Nat
      /\ \A i \in 1..Len(units) : units[i] \in Paths
  BY DEF Programs
<1>2. Empty \in S[0]
  <2>1. Empty \in Programs
    BY EmptyWhole DEF Whole
  <2>2. Checked(Empty, Empty, {})
    BY <2>1, CheckedSelf
  <2>3. QED
    BY <1>1, <2>1, <2>2
<1>3. ASSUME NEW i \in 1..Len(units), NEW h \in S[i - 1]
      PROVE  Checker[h][units[i]] \in S[i]
  <2> DEFINE k == CheckPath(h, units[i])
  <2>1. /\ i - 1 \in 0..Len(units) /\ i \in 0..Len(units) /\ units[i] \in Paths
        /\ h \in Programs /\ Checked(Empty, h, {}) /\ upto(i - 1) \subseteq Range(h.units)
    BY <1>1, <1>3
  <2>2. \A u \in Paths : Empty.state[u] = "absent"
    BY Facts DEF Empty
  <2>3. \A u \in Paths : h.state[u] # "checking"
    BY <2>1, <2>2, CheckingStays, Facts
  <2> HIDE DEF upto
  <2>4. Checked(h, k, {}) /\ k.state[units[i]] \in Known
    BY <2>1, <2>3, PathChecked
  <2> HIDE DEF k
  <2>5. Checked(Empty, k, {})
    BY <2>1, <2>4, CheckedOn
  <2>6. units[i] \in Range(k.units)
    BY <2>1, <2>2, <2>4, <2>5 DEF Checked, Known
  <2>7. upto(i) \subseteq upto(i - 1) \cup {units[i]}
    BY <1>1 DEF upto
  <2>8. upto(i) \subseteq Range(k.units)
    BY <2>1, <2>4, <2>6, <2>7 DEF Checked
  <2>9. k \in S[i]
    BY <2>1, <2>4, <2>5, <2>8 DEF Checked
  <2>10. QED
    BY <2>9 DEF k, CheckPath
<1>4. Folded(Checker, Empty, units) \in S[Len(units)]
  <2> HIDE DEF S
  <2>1. QED
    BY <1>1, <1>2, <1>3, FoldedIn
<1>5. upto(Len(units)) = Range(units)
  BY <1>1 DEF Range
<1>6. QED
  BY <1>1, <1>4, <1>5 DEF Afresh

\* A program made afresh without errors has every unit as the disk has it.
LEMMA AfreshFits ==
  ASSUME DiskTyped, program \in Programs, ~HasErrors(Afresh),
         NEW p \in Range(program.units), p \in Paths
  PROVE  /\ disk[p] \in Texts /\ disk[p] \notin Broken
         /\ \A q \in Range(Requires[disk[p]]) : <<disk[p], disk[q]>> \notin Clashes
<1>1. Checked(Empty, Afresh, {}) /\ p \in Range(Afresh.units)
  BY AfreshHolds
<1>2. Afresh.state[p] = "done" /\ p \notin Afresh.errors
  BY <1>1 DEF HasErrors
<1>3. \A u \in Paths : Empty.state[u] = "absent"
  BY Facts DEF Empty
<1>4. \A u \in Paths : Afresh.state[u] = "done" => New(Empty, Afresh, u)
  BY <1>1, <1>3, Facts DEF Checked, Same
<1>5. /\ Afresh.text[p] = disk[p] /\ disk[p] # NoText
      /\ Answered(Afresh, p, Range(Requires[disk[p]]))
  BY <1>2, <1>4 DEF New
<1>6. disk[p] \in Texts /\ Range(Requires[disk[p]]) \subseteq Paths
  <2>1. disk[p] \in Texts
    BY <1>5 DEF DiskTyped
  <2>2. QED
    BY <2>1, Facts DEF Range
<1>7. /\ disk[p] \notin Broken
      /\ \A q \in Range(Requires[disk[p]]) : /\ Afresh.state[q] = "done"
                                            /\ <<disk[p], Afresh.text[q]>> \notin Clashes
  BY <1>2, <1>5 DEF Answered
<1>8. \A q \in Range(Requires[disk[p]]) : Afresh.text[q] = disk[q]
  BY <1>4, <1>6, <1>7 DEF New
<1>9. QED
  BY <1>6, <1>7, <1>8

LEMMA SteadyFixes ==
  ASSUME Steady, Acyclic
  PROVE  EveryFixTakes
<1> DEFINE said == program.said \ ({"collides"} \X Paths)
           left == [program EXCEPT !.said = said]
<1> SUFFICES ASSUME AllRead, ~HasErrors(Afresh)
             PROVE  ~HasErrors(left)
  BY DEF EveryFixTakes
<1>1. /\ DiskTyped /\ program \in Programs
      /\ Shaped(program) /\ Judged(program) /\ SaidOf(program)
  BY SteadyFacts DEF Whole
<1>2. Range(program.units) \subseteq Paths
  BY <1>1 DEF Programs, Range
<1>3. ASSUME NEW p \in Range(program.units)
      PROVE  program.state[p] = "done" /\ program.text[p] = disk[p]
  <2>1. program.text[p] = disk[p] /\ disk[p] \in Texts
    BY <1>1, <1>2, AfreshFits DEF AllRead
  <2>2. QED
    BY <1>1, <1>2, <2>1, Facts DEF Shaped
<1>4. \A p \in Paths : program.state[p] # "failed"
  BY <1>1, <1>3 DEF Shaped
<1>5. said = {}
  <2> SUFFICES ASSUME NEW d \in program.said, d \notin {"collides"} \X Paths
               PROVE  FALSE
    OBVIOUS
  <2>1. program.said \subseteq {"unread", "cycle", "collides"} \X Paths
    BY <1>1 DEF Programs
  <2>2. d[2] \in Paths /\ d[1] # "collides"
    BY <2>1
  <2>3. program.state[d[2]] = "failed"
    BY <1>1, <2>2 DEF SaidOf
  <2>4. QED
    BY <1>4, <2>2, <2>3
<1>6. ASSUME NEW p \in Range(program.units), p \in program.errors
      PROVE  FALSE
  <2>1. /\ p \in Paths /\ program.text[p] = disk[p] /\ Judgement(program, p)
    BY <1>1, <1>2, <1>3 DEF Judged
  <2>2. /\ disk[p] \in Texts /\ disk[p] \notin Broken
        /\ \A q \in Range(Requires[disk[p]]) : <<disk[p], disk[q]>> \notin Clashes
    BY <1>1, <2>1, AfreshFits
  <2>3. Range(Requires[disk[p]]) \subseteq Paths
    BY <2>2, Facts DEF Range
  <2>4. PICK q \in Range(Requires[disk[p]]) :
          program.state[q] = "failed" \/ <<disk[p], program.text[q]>> \in Clashes
    BY <1>6, <2>1, <2>2 DEF Judgement
  <2>5. program.text[q] \in Texts
    BY <1>4, <2>3, <2>4, Facts
  <2>6. program.state[q] = "done"
    BY <1>1, <2>3, <2>5, Facts DEF Shaped
  <2>7. program.text[q] = disk[q]
    BY <1>1, <1>3, <2>3, <2>6 DEF Shaped
  <2>8. QED
    BY <1>4, <2>2, <2>3, <2>4, <2>7
<1>7. /\ left.said = said /\ left.units = program.units
      /\ left.state = program.state /\ left.errors = program.errors
  <2> HIDE DEF said
  <2>1. QED
    BY <1>1 DEF Programs
<1> HIDE DEF left, said
<1>8. QED
  BY <1>3, <1>5, <1>6, <1>7 DEF HasErrors

\* Once every edit was read, no error but a collision outlives its mending
\* (program_require.c:783-786), where no units require each other in a circle.
THEOREM AlwaysEveryFixTakes == Spec /\ ScriptsAlone /\ Acyclic => []EveryFixTakes
<1>1. Acyclic /\ Steady => EveryFixTakes
  BY SteadyFixes
<1>2. Acyclic /\ [Next]_vars => Acyclic'
  BY DEF Acyclic
<1>3. QED
  BY <1>1, <1>2, AlwaysSteady, PTL DEF Spec
=============================================================================
