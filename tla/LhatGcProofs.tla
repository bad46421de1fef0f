---------------------------- MODULE LhatGcProofs ----------------------------
(* Proofs about LhatGc: types, that nothing the program can read is ever   *)
(* freed, and that a full collection leaves no garbage, for every heap and *)
(* every interleaving of the program with the collector.                   *)
EXTENDS LhatGcProps, TLAPS

(* The programs the theorems are about: none remakes a spare coroutine in  *)
(* mid marking, and none writes through a capture that travels with a      *)
(* suspended coroutine, or lets go of it, before the coroutine goes on.    *)
(* The run gc_carried shows what the others may meet.                      *)
Careful == (MaySuspendCaptured => ~MayTouchCarried) /\ ~MayRemakeMarked

Safe == Alive \ Doomed

(* The coroutines a capture travels with: at most one (Carrying).          *)
Carriers(o) == {c \in Coroutines : o \in carried[c]}

(* What marking an object is answerable for.  A capture that travels has   *)
(* its value in its coroutine's registers and answers for the coroutine.   *)
Must(o) == IF Carriers(o) = {} THEN refs[o] ELSE Carriers(o)

(* What a chunk owns is black and holds nothing, and a script that is      *)
(* still allocated owns all of its constants.                              *)
ChunksApart ==
  /\ chunk \cap heap = {}
  /\ unswept \subseteq heap
  /\ \A o \in chunk : color[o] = BLACK
  /\ \A s \in heap \cap Scripts : Body[s] \subseteq chunk
  /\ \A o \in Scripts \cup Consts : refs[o] = {}

(* Only a coroutine whose registers are saved has captures on its list:    *)
(* no frame runs it and no pool holds it.                                  *)
FramesAgree ==
  /\ disposing \subseteq onFrame
  /\ \A c \in onFrame \ disposing : costate[c] = "RUNNING"
  /\ \A c \in spare \ disposing : costate[c] = "DONE"
  /\ \A c \in Coroutines :
       carried[c] # {} => costate[c] = "SUSPENDED" /\ c \notin onFrame

(* A capture travels with one coroutine, whose registers hold its value,   *)
(* and some register of the machine's holds the capture.                   *)
CarriedApart ==
  /\ ~MaySuspendCaptured => \A c \in Coroutines : carried[c] = {}
  /\ \A c \in Coroutines : \A u \in carried[c] :
       u \in stack \ open /\ refs[u] \subseteq refs[c]
  /\ \A c, d \in Coroutines : c # d => carried[c] \cap carried[d] = {}

Carrying == FramesAgree /\ CarriedApart

RootsSafe == Roots \subseteq Safe /\ weak \subseteq Safe

RefsSafe ==
  /\ \A o \in Kept : refs[o] \subseteq Safe
  /\ \A c \in Coroutines : carried[c] # {} => c \in Kept

AtPause ==
  gcstate = "PAUSE" =>
    /\ gray = {} /\ atomicAt = "off"
    /\ \A o \in heap : color[o] = white

AtPropagate ==
  gcstate = "PROPAGATE" =>
    /\ \A o \in heap : color[o] \in {white, GRAY, BLACK}
    /\ gray = {o \in heap : color[o] = GRAY}
    /\ \A o \in heap : color[o] = BLACK => Whites(color, Must(o)) = {}

AtAtomic ==
  atomicAt # "off" => gcstate = "PROPAGATE" /\ Whites(color, Roots) = {}

AtSweep ==
  gcstate = "SWEEP" =>
    /\ gray = {} /\ atomicAt = "off"
    /\ \A o \in heap \ unswept : color[o] = white

(* The inductive invariant.                                                *)
IInv ==
  /\ TypeOK /\ ChunksApart /\ Carrying
  /\ RootsSafe /\ RefsSafe
  /\ AtPause /\ AtPropagate /\ AtAtomic /\ AtSweep

-----------------------------------------------------------------------------
(* Facts about the constants and about marking.                            *)
LEMMA Kinds ==
  /\ Tables \subseteq Obj /\ Upvalues \subseteq Obj
  /\ Coroutines \subseteq Obj /\ Scripts \subseteq Obj /\ Consts \subseteq Obj
  /\ \A s \in Scripts : Body[s] \subseteq Consts
BY DEF Obj, Consts

LEMMA MarkTypes ==
  ASSUME NEW col \in [Obj -> WHITE0..BLACK], NEW list \in SUBSET Obj,
         NEW S \in SUBSET Obj, Mark(col, list, S)
  PROVE  color' \in [Obj -> WHITE0..BLACK] /\ gray' \in SUBSET Obj
<1>1. Whites(col, S) \in SUBSET Obj
  BY DEF Whites
<1>2. color' \in [Obj -> WHITE0..BLACK]
  BY DEF Mark, WHITE0, GRAY, BLACK
<1>3. \A W \in SUBSET Obj : Pushed(list, W) \subseteq SUBSET Obj
  BY DEF Pushed
<1>4. gray' \in Pushed(list, Whites(col, S))
  BY DEF Mark
<1>5. QED
  BY <1>1, <1>2, <1>3, <1>4

LEMMA BarrierTypes ==
  ASSUME TypeOK, NEW parent \in Obj, NEW S \in SUBSET Obj,
         Barrier(parent, S) \/ BarrierBack(parent, S)
  PROVE  color' \in [Obj -> WHITE0..BLACK] /\ gray' \in SUBSET Obj
<1>1. CASE Barrier(parent, S)
  BY <1>1, MarkTypes DEF Barrier, TypeOK, markVars
<1>2. CASE BarrierBack(parent, S)
  <2>1. color' \in [Obj -> WHITE0..BLACK]
    BY <1>2 DEF BarrierBack, TypeOK, markVars, WHITE0, GRAY, BLACK
  <2>2. gray' \in SUBSET Obj
    BY <1>2 DEF BarrierBack, TypeOK, markVars, Pushed
  <2>3. QED
    BY <2>1, <2>2
<1>3. QED
  BY <1>1, <1>2

(* Every step keeps the types.  The steps that mark are proved by the two  *)
(* lemmas above, the others from the sets their guards draw from.          *)
LEMMA TypeStep == TypeOK /\ [Next]_vars => TypeOK'
<1> SUFFICES ASSUME TypeOK, [Next]_vars
             PROVE  TypeOK'
  OBVIOUS
<1> USE Kinds DEF TypeOK, vars, heapVars, gcVars, markVars, rootVars, coVars
<1>1. ASSUME NEW t \in Tables, NewTable(t) PROVE  TypeOK'
  BY <1>1 DEF NewTable, Allocate, Running, Prepended, Fields, WHITE0, WHITE1, BLACK
<1>2. ASSUME NEW t \in Tables, NEW v \in Obj, TableSet(t, v) PROVE  TypeOK'
  BY <1>2, BarrierTypes DEF TableSet, Running
<1>3. ASSUME NEW t \in Tables, NEW v \in Obj, TableRemove(t, v) PROVE  TypeOK'
  BY <1>3 DEF TableRemove, Running
<1>4. ASSUME NEW v \in Obj, NEW p \in Obj, Load(p, v) PROVE  TypeOK'
  BY <1>4 DEF Load, Running
<1>5. ASSUME NEW v \in Obj, Drop(v) PROVE  TypeOK'
  BY <1>5 DEF Drop, Running
<1>6. ASSUME NEW u \in Upvalues, Capture(u) PROVE  TypeOK'
  BY <1>6 DEF Capture, Allocate, Running, Prepended, Fields, WHITE0, WHITE1, BLACK
<1>7. ASSUME NEW u \in Upvalues, CaptureAgain(u) PROVE  TypeOK'
  BY <1>7 DEF CaptureAgain, Running
<1>8. ASSUME NEW u \in Upvalues, CloseUpvalue(u) PROVE  TypeOK'
  BY <1>8, BarrierTypes DEF CloseUpvalue, Running, Places
<1>9. ASSUME NEW u \in Upvalues, SetUpval(u) PROVE  TypeOK'
  BY <1>9, BarrierTypes DEF SetUpval, Running, Places
<1>10. ASSUME NEW c \in Coroutines, NewCoroutine(c) PROVE  TypeOK'
  BY <1>10 DEF NewCoroutine, Allocate, Running, Prepended, Fields, WHITE0, WHITE1, BLACK
<1>11. ASSUME NEW c \in Coroutines, RemakeSpare(c) PROVE  TypeOK'
  BY <1>11 DEF RemakeSpare, Running, Fields, WHITE0, WHITE1, BLACK
<1>12. ASSUME NEW c \in Coroutines, GiveSpare(c) PROVE  TypeOK'
  BY <1>12 DEF GiveSpare, Running
<1>13. ASSUME NEW c \in Coroutines, Resume(c) PROVE  TypeOK'
  BY <1>13 DEF Resume, Running, EnterFrame
<1>14. ASSUME NEW c \in Coroutines, Yield(c) PROVE  TypeOK'
  BY <1>14 DEF Yield, YieldBarrier, Running, Fields, Places, Pushed, WHITE0, GRAY, BLACK
<1>15. ASSUME NEW c \in Coroutines, Finish(c) PROVE  TypeOK'
  BY <1>15 DEF Finish, Running
<1>16. ASSUME NEW c \in Coroutines, Dispose(c) PROVE  TypeOK'
  BY <1>16 DEF Dispose, Running, EnterFrame
<1>17. ASSUME NEW c \in Coroutines, TakePending(c) PROVE  TypeOK'
  BY <1>17 DEF TakePending, Running, EnterFrame
<1>18. ASSUME NEW v \in Obj, WeakPut(v) PROVE  TypeOK'
  BY <1>18 DEF WeakPut, Running
<1>19. ASSUME NEW v \in Obj, WeakGet(v) PROVE  TypeOK'
  BY <1>19, MarkTypes DEF WeakGet, Running
<1>20. ASSUME NEW v \in Obj, WeakForget(v) PROVE  TypeOK'
  BY <1>20 DEF WeakForget, Running
<1>21. ASSUME NEW s \in Scripts, NewScript(s) PROVE  TypeOK'
  BY <1>21 DEF NewScript, Running, Prepended, WHITE0, WHITE1, BLACK
<1>22. ASSUME CollectCall PROVE  TypeOK'
  BY <1>22 DEF CollectCall, Running
<1>23. ASSUME CollectReturn PROVE  TypeOK'
  BY <1>23 DEF CollectReturn, Running
<1>24. ASSUME StartCycle PROVE  TypeOK'
  BY <1>24, MarkTypes DEF StartCycle, Roots
<1>25. ASSUME NEW o \in Obj, PropagateOne(o) PROVE  TypeOK'
  <2>1. Children(o) \in SUBSET Obj
    BY DEF Children
  <2>2. /\ [color EXCEPT ![o] = BLACK] \in [Obj -> WHITE0..BLACK]
        /\ gray \ {o} \in SUBSET Obj
    BY DEF WHITE0, BLACK
  <2>3. Mark([color EXCEPT ![o] = BLACK], gray \ {o}, Children(o))
    BY <1>25 DEF PropagateOne
  <2>4. color' \in [Obj -> WHITE0..BLACK] /\ gray' \in SUBSET Obj
    BY <2>1, <2>2, <2>3, MarkTypes
  <2>5. QED
    BY <1>25, <2>4 DEF PropagateOne
<1>26. ASSUME AtomicRoots PROVE  TypeOK'
  BY <1>26, MarkTypes DEF AtomicRoots, Roots
<1>27. ASSUME AtomicHold PROVE  TypeOK'
  BY <1>27, MarkTypes DEF AtomicHold, Whites
<1>28. ASSUME AtomicSwap PROVE  TypeOK'
  BY <1>28 DEF AtomicSwap, OtherWhite, WHITE0, WHITE1
<1>29. ASSUME NEW o \in Obj, SweepKeep(o) PROVE  TypeOK'
  BY <1>29 DEF SweepKeep, AfterSweeping, WHITE0, WHITE1, BLACK
<1>30. ASSUME NEW o \in Obj, SweepFree(o) PROVE  TypeOK'
  BY <1>30 DEF SweepFree, AfterSweeping, WHITE0, WHITE1, BLACK, Prepended
<1>31. ASSUME SweepNothing PROVE  TypeOK'
  BY <1>31 DEF SweepNothing, AfterSweeping, WHITE0, WHITE1, BLACK
<1>32. CASE UNCHANGED vars
  BY <1>32
<1>33. QED
  BY <1>1, <1>2, <1>3, <1>4, <1>5, <1>6, <1>7, <1>8, <1>9, <1>10, <1>11, <1>12, <1>13, <1>14, <1>15, <1>16, <1>17, <1>18, <1>19, <1>20, <1>21, <1>22, <1>23, <1>24, <1>25, <1>26, <1>27, <1>28, <1>29, <1>30, <1>31, <1>32 DEF Next, Program, Collector, Sweep,
    ProgramOnTable, ProgramOnUpvalue, ProgramOnCoroutine, ProgramOnValue

(* LhatGc: every variable keeps its type, whatever the program does.       *)
THEOREM TypeCorrect == Spec => []TypeOK
<1>1. Init => TypeOK
  BY Kinds DEF Init, TypeOK, WHITE0, WHITE1, BLACK
<1>2. TypeOK /\ [Next]_vars => TypeOK'
  BY TypeStep
<1>3. QED
  BY <1>1, <1>2, PTL DEF Spec

-----------------------------------------------------------------------------
(* Facts the steps of the safety proof share.                              *)
Movable == Tables \cup Upvalues \cup Coroutines

LEMMA Disjoint ==
  /\ Movable \subseteq Obj
  /\ Movable \cap Consts = {} /\ Scripts \cap Consts = {}
  /\ Movable \cap (Scripts \cup Consts) = {}
BY KindsAssumption DEF Movable, Obj

(* What stays is what was kept, and what chunks own.                       *)
LEMMA SafeSplit ==
  ASSUME TypeOK, ChunksApart
  PROVE  /\ Doomed \subseteq heap
         /\ Safe = Kept \cup chunk
         /\ Safe \subseteq Obj
         /\ Safe \cap (Movable \cup Scripts) \subseteq Kept
         /\ gcstate # "SWEEP" => Safe = Alive /\ Kept = heap
BY Kinds, Disjoint DEF TypeOK, ChunksApart, Doomed, Safe, Kept, Alive

(* Marking the set S: the gray list is again the gray objects, and nothing *)
(* in S is white any more.                                                 *)
LEMMA MarkFacts ==
  ASSUME heap \subseteq Obj, chunk \subseteq Obj,
         NEW col \in [Obj -> WHITE0..BLACK], NEW list,
         NEW S \in SUBSET Alive,
         list = {o \in heap : col[o] = GRAY},
         \A o \in chunk : col[o] = BLACK,
         Mark(col, list, S)
  PROVE  /\ gray' = {o \in heap : color'[o] = GRAY}
         /\ Whites(color', S) = {}
         /\ \A o \in Obj : \/ color'[o] = col[o]
                           \/ o \in S /\ col[o] <= WHITE1 /\ color'[o] = GRAY
<1> DEFINE W == Whites(col, S)
<1>1. W \subseteq heap /\ W \cap list = {} /\ W \subseteq Obj /\ W \subseteq S
  BY DEF Whites, WHITE1, GRAY, BLACK, Alive
<1>2. gray' = list \cup W
  BY <1>1 DEF Mark, Pushed
<1>3. color' = [o \in Obj |-> IF o \in W THEN GRAY ELSE col[o]]
  BY DEF Mark
<1>4. \A o \in Obj : o \in W <=> o \in S /\ col[o] <= WHITE1
  BY DEF Whites, Alive
<1>5. \A o \in Obj : \/ color'[o] = col[o]
                     \/ o \in S /\ col[o] <= WHITE1 /\ color'[o] = GRAY
  BY <1>3, <1>4
<1>6. Whites(color', S) = {}
  BY <1>3, <1>4 DEF Whites, Alive, WHITE1, GRAY
<1>7. gray' = {o \in heap : color'[o] = GRAY}
  BY <1>1, <1>2, <1>3
<1> QED
  BY <1>5, <1>6, <1>7

(* Only a capture travels, so only a capture can answer for a coroutine.   *)
LEMMA MustFacts ==
  ASSUME TypeOK, NEW o \in Obj
  PROVE  /\ Must(o) \subseteq Obj
         /\ Must(o) \subseteq Children(o)
         /\ Children(o) = refs[o] \cup Carriers(o)
         /\ o \notin Upvalues => Must(o) = refs[o] /\ Carriers(o) = {}
<1>1. Carriers(o) # {} => o \in Upvalues
  BY DEF TypeOK, Carriers
<1>2. Carriers(o) \subseteq Obj /\ refs[o] \subseteq Obj
  BY Kinds DEF Carriers, TypeOK
<1>3. Children(o) = refs[o] \cup Carriers(o)
  BY <1>1 DEF Children, Carriers
<1>4. QED
  BY <1>1, <1>2, <1>3 DEF Must

(* A step that moves no coroutine leaves the captures with the coroutines  *)
(* they travel with, if it lets go of none of them and writes through none.*)
LEMMA CarryStep ==
  ASSUME TypeOK, Carrying,
         UNCHANGED <<carried, onFrame, disposing, costate>>, spare' \subseteq spare,
         \A c \in Coroutines : \A u \in carried[c] :
            /\ u \in stack' /\ u \notin open'
            /\ refs'[u] \subseteq refs[u] /\ refs[c] \subseteq refs'[c]
  PROVE  Carrying'
<1>1. FramesAgree'
  BY DEF Carrying, FramesAgree
<1>2. CarriedApart'
  BY DEF Carrying, CarriedApart
<1>3. QED
  BY <1>1, <1>2 DEF Carrying

-----------------------------------------------------------------------------
(* A step of the program that allocates nothing is safe when it puts only  *)
(* kept objects into the roots and into kept objects, and its barrier      *)
(* keeps the marking in order.                                             *)
LEMMA ProgramStep ==
  ASSUME IInv, TypeOK', Carrying', AtPropagate',
         UNCHANGED <<heap, chunk, white, gcstate, atomicAt, unswept>>,
         atomicAt = "off",
         gcstate # "PROPAGATE" => UNCHANGED markVars,
         \A o \in chunk : color'[o] = BLACK,
         \A o \in Scripts \cup Consts : refs'[o] = {},
         Roots' \subseteq Safe, weak' \subseteq Safe,
         \A o \in Kept : refs'[o] \subseteq Safe,
         \A c \in Coroutines : carried'[c] # {} => c \in Kept
  PROVE  IInv'
<1> USE DEF IInv
<1>1. Doomed' = Doomed
  BY DEF Doomed, OtherWhite, AtPropagate, markVars
<1>2. Kept' = Kept /\ Safe' = Safe
  BY <1>1 DEF Kept, Safe, Alive
<1>3. ChunksApart'
  BY DEF ChunksApart
<1>4. RootsSafe' /\ RefsSafe'
  BY <1>2 DEF RootsSafe, RefsSafe
<1>5. AtPause' /\ AtAtomic' /\ AtSweep'
  BY DEF AtPause, AtAtomic, AtSweep, markVars
<1>6. QED
  BY <1>3, <1>4, <1>5

(* Most of them write no object at all.                                    *)
LEMMA RootsStep ==
  ASSUME IInv, TypeOK', Carrying', carried' = carried,
         UNCHANGED <<heapVars, white, gcstate, atomicAt, unswept, markVars>>,
         atomicAt = "off",
         Roots' \subseteq Safe, weak' \subseteq Safe
  PROVE  IInv'
<1>1. AtPropagate'
  BY DEF IInv, AtPropagate, Must, Carriers, Whites, heapVars, markVars
<1>2. /\ \A o \in chunk : color'[o] = BLACK
      /\ \A o \in Scripts \cup Consts : refs'[o] = {}
      /\ \A o \in Kept : refs'[o] \subseteq Safe
      /\ \A c \in Coroutines : carried'[c] # {} => c \in Kept
  BY DEF IInv, ChunksApart, RefsSafe, heapVars, markVars
<1>3. QED
  BY <1>1, <1>2, ProgramStep DEF heapVars

(* A write of some of S into p behind either barrier keeps the marking in  *)
(* order: the forward one reaches S, the backward one p again.             *)
LEMMA WriteBarrier ==
  ASSUME IInv, TypeOK', NEW p \in heap, NEW S \in SUBSET Safe,
         UNCHANGED <<heap, chunk, white, gcstate, carried>>, Carriers(p) = {},
         \A o \in Obj \ {p} : refs'[o] = refs[o],
         refs'[p] \subseteq refs[p] \cup S,
         Barrier(p, S) \/ BarrierBack(p, S)
  PROVE  /\ AtPropagate'
         /\ gcstate # "PROPAGATE" => UNCHANGED markVars
         /\ \A o \in chunk : color'[o] = BLACK
<1> USE DEF IInv
<1>0. /\ p \in Obj /\ Must(p) = refs[p] /\ Must(p)' = refs'[p]
      /\ \A o \in Obj \ {p} : Must(o)' = Must(o)
      /\ \A o \in heap : o \in Obj /\ Must(o) \subseteq Obj
  BY Kinds, MustFacts DEF TypeOK, Must, Carriers
<1>00. \A o \in heap : Must(o)' \subseteq Must(o) \cup S
  BY <1>0
<1>1. CASE UNCHANGED markVars /\ (gcstate = "PROPAGATE" /\ color[p] = BLACK
                                   => Whites(color, S) = {})
  <2>1. ASSUME NEW o \in heap, gcstate = "PROPAGATE", color[o] = BLACK
        PROVE  Whites(color, Must(o)') = {}
    BY <1>0, <1>1, <2>1 DEF AtPropagate, Whites
  <2>2. QED
    BY <1>1, <2>1 DEF AtPropagate, ChunksApart, markVars
<1>2. CASE gcstate = "PROPAGATE" /\ color[p] = BLACK /\ Mark(color, gray, S)
  <2>1. S \subseteq Alive /\ heap \subseteq Obj /\ chunk \subseteq Obj
    BY Kinds DEF Safe, TypeOK
  <2>2. /\ gray' = {o \in heap : color'[o] = GRAY}
        /\ Whites(color', S) = {}
        /\ \A o \in Obj : \/ color'[o] = color[o]
                          \/ o \in S /\ color[o] <= WHITE1 /\ color'[o] = GRAY
    BY <1>2, <2>1, MarkFacts DEF AtPropagate, ChunksApart, TypeOK
  <2>3. \A o \in heap : color'[o] \in {white, GRAY, BLACK}
    BY <1>2, <2>1, <2>2 DEF AtPropagate
  <2>4. ASSUME NEW o \in heap, color'[o] = BLACK
        PROVE  Whites(color', Must(o)') = {}
    <3>1. color[o] = BLACK
      BY <2>1, <2>2, <2>4 DEF GRAY, BLACK
    <3>2. Whites(color, Must(o)) = {}
      BY <1>2, <3>1 DEF AtPropagate
    <3>3. Whites(color', Must(o)) = {}
      BY <1>0, <2>2, <3>2 DEF Whites, TypeOK, WHITE1, GRAY
    <3>4. QED
      BY <1>00, <2>2, <3>3 DEF Whites
  <2>5. \A o \in chunk : color'[o] = BLACK
    BY <2>1, <2>2 DEF ChunksApart, WHITE1, BLACK
  <2>6. QED
    BY <1>2, <2>2, <2>3, <2>4, <2>5 DEF AtPropagate
<1>3. CASE /\ gcstate = "PROPAGATE" /\ color[p] = BLACK
           /\ color' = [color EXCEPT ![p] = GRAY]
           /\ gray' \in Pushed(gray, {p})
  <2>1. gray' = gray \cup {p}
    BY <1>3 DEF AtPropagate, Pushed, GRAY, BLACK
  <2>2. p \in Obj /\ p \notin chunk /\ heap \subseteq Obj /\ chunk \subseteq Obj
    BY Kinds DEF TypeOK, ChunksApart
  <2>3. \A o \in Obj : color'[o] = IF o = p THEN GRAY ELSE color[o]
    BY <1>3 DEF TypeOK
  <2>4. /\ gray' = {o \in heap : color'[o] = GRAY}
        /\ \A o \in heap : color'[o] \in {white, GRAY, BLACK}
        /\ \A o \in chunk : color'[o] = BLACK
    BY <1>3, <2>1, <2>2, <2>3 DEF AtPropagate, ChunksApart
  <2>5. ASSUME NEW o \in heap, color'[o] = BLACK
        PROVE  Whites(color', Must(o)') = {}
    <3>1. o # p /\ color[o] = BLACK /\ Must(o)' = Must(o)
      BY <1>0, <2>2, <2>3, <2>5 DEF GRAY, BLACK
    <3>2. Whites(color, Must(o)) = {} /\ Must(o) \subseteq Obj
      BY <1>0, <1>3, <2>2, <3>1 DEF AtPropagate
    <3>3. QED
      BY <2>3, <3>1, <3>2 DEF Whites, WHITE1, GRAY
  <2>6. QED
    BY <1>3, <2>4, <2>5 DEF AtPropagate
<1>4. QED
  BY <1>1, <1>2, <1>3 DEF Barrier, BarrierBack

(* A new object is white, so no black one may refer to it yet, and it is   *)
(* never one of those the sweep under way is after.                        *)
LEMMA AllocateStep ==
  ASSUME IInv, TypeOK', Carrying', NEW o \in Movable, NEW S \in SUBSET Safe,
         Allocate(o, S), chunk' = chunk,
         carried' = carried, open' \subseteq open \cup {o}
  PROVE  IInv'
<1> USE Disjoint DEF IInv, Allocate, Running
<1>1. /\ o \in Obj /\ o \notin Alive /\ o \notin Scripts \cup Consts
      /\ heap' = heap \cup {o} /\ refs' = [refs EXCEPT ![o] = S]
      /\ color' = [color EXCEPT ![o] = white]
  OBVIOUS
<1>2. /\ \A x \in Obj : color'[x] = IF x = o THEN white ELSE color[x]
      /\ \A x \in Obj : refs'[x] = IF x = o THEN S ELSE refs[x]
      /\ heap \subseteq Obj /\ chunk \subseteq Obj
  BY <1>1, Kinds DEF TypeOK
<1>3. unswept' \in {unswept, unswept \cup {o}} /\ o \notin unswept
  BY <1>1 DEF Prepended, ChunksApart, Alive
<1>4. white # OtherWhite(white)
  BY DEF TypeOK, OtherWhite, WHITE0, WHITE1
<1>5. Doomed' = Doomed
  <2>1. o \notin Doomed /\ o \notin Doomed'
    BY <1>2, <1>3, <1>4 DEF Doomed, OtherWhite
  <2>2. \A x \in Obj \ {o} : x \in Doomed' <=> x \in Doomed
    BY <1>2, <1>3 DEF Doomed, OtherWhite
  <2>3. unswept \subseteq Obj /\ unswept' \subseteq Obj
    BY <1>2, <1>3 DEF ChunksApart
  <2>4. Doomed \subseteq Obj /\ Doomed' \subseteq Obj
    BY <2>3 DEF Doomed
  <2>5. QED
    BY <2>1, <2>2, <2>4, SMTT(20)
<1>6. Kept' = Kept \cup {o} /\ Safe' = Safe \cup {o}
  <2>1. Doomed \subseteq heap
    BY SafeSplit
  <2>2. Alive' = Alive \cup {o} /\ o \notin heap
    BY <1>1 DEF Alive
  <2>3. QED
    BY <1>1, <1>5, <2>1, <2>2 DEF Kept, Safe, Alive
<1>7. ChunksApart'
  <2>1. chunk' \cap heap' = {} /\ unswept' \subseteq heap'
    BY <1>1, <1>3, ZenonT(60) DEF ChunksApart, Alive
  <2>2. \A x \in chunk' : color'[x] = BLACK
    BY <1>1, <1>2 DEF ChunksApart, Alive
  <2>3. \A s \in heap' \cap Scripts : Body[s] \subseteq chunk'
    BY <1>1 DEF ChunksApart
  <2>4. \A x \in Scripts \cup Consts : refs'[x] = {}
    BY <1>1, <1>2, Kinds DEF ChunksApart
  <2>5. QED
    BY <2>1, <2>2, <2>3, <2>4 DEF ChunksApart
<1>8. RootsSafe' /\ RefsSafe'
  <2>1. Roots' \subseteq Roots \cup {o} /\ weak' = weak
    BY DEF Roots
  <2>2. RootsSafe'
    BY <1>6, <2>1 DEF RootsSafe
  <2>3. RefsSafe'
    BY <1>2, <1>6 DEF RefsSafe, Kept
  <2>4. QED
    BY <2>2, <2>3
<1>9. AtPropagate'
  <2> SUFFICES ASSUME gcstate = "PROPAGATE"
               PROVE  AtPropagate'
    BY DEF AtPropagate
  <2>1. Kept = heap /\ Safe = Alive
    BY DEF Kept, Safe, Doomed
  <2>2. \A x \in heap' : color'[x] \in {white', GRAY, BLACK}
    BY <1>1, <1>2 DEF AtPropagate
  <2>3. gray' = {x \in heap' : color'[x] = GRAY}
    BY <1>1, <1>2 DEF AtPropagate, Alive, TypeOK, WHITE0, WHITE1, GRAY
  <2>4. ASSUME NEW x \in heap', color'[x] = BLACK
        PROVE  Whites(color', Must(x)') = {}
    <3>1. x # o /\ x \in heap /\ color[x] = BLACK /\ refs'[x] = refs[x]
      BY <1>1, <1>2, <2>4 DEF TypeOK, WHITE0, WHITE1, BLACK
    <3>2. Must(x)' = Must(x)
      BY <3>1 DEF Must, Carriers
    <3>3. refs[x] \subseteq Alive /\ Carriers(x) \subseteq Alive
      BY <2>1, <3>1 DEF RefsSafe, Carriers, Alive
    <3>4. Whites(color, Must(x)) = {} /\ Must(x) \subseteq Alive
      BY <3>1, <3>3 DEF AtPropagate, Must
    <3>5. QED
      BY <1>1, <1>2, <3>2, <3>4 DEF Whites, Alive
  <2>5. QED
    BY <2>2, <2>3, <2>4 DEF AtPropagate
<1>10. AtPause' /\ AtAtomic' /\ AtSweep'
  BY <1>1, <1>2, <1>3 DEF AtPause, AtAtomic, AtSweep
<1>11. QED
  BY <1>7, <1>8, <1>9, <1>10

-----------------------------------------------------------------------------
(* One marking step of the collector: every black object but those just    *)
(* taken off the list (D, whose references are what is reached) already    *)
(* refers to no white one.                                                 *)
LEMMA MarkStep ==
  ASSUME IInv, TypeOK',
         NEW col \in [Obj -> WHITE0..BLACK], NEW list, NEW S \in SUBSET Alive,
         NEW D \in SUBSET heap,
         Mark(col, list, S),
         UNCHANGED <<heapVars, white, unswept, carried, onFrame, disposing, costate, open>>,
         stack \subseteq stack', spare' \subseteq spare,
         gcstate # "SWEEP", gcstate' = "PROPAGATE",
         \A o \in chunk : col[o] = BLACK,
         \A o \in heap : col[o] \in {white, GRAY, BLACK},
         list = {o \in heap : col[o] = GRAY},
         \A o \in heap \ D : col[o] = BLACK => Whites(col, Must(o)) = {},
         \A o \in D : Must(o) \subseteq S,
         Roots' \subseteq Alive, weak' \subseteq Alive,
         atomicAt' # "off" => Whites(color', Roots' \ S) = {}
  PROVE  IInv' /\ Whites(color', S) = {}
<1> USE DEF IInv, heapVars
<1>1. heap \subseteq Obj /\ chunk \subseteq Obj /\ S \subseteq Obj
  BY Kinds DEF TypeOK, Alive
<1>2. /\ gray' = {o \in heap : color'[o] = GRAY}
      /\ Whites(color', S) = {}
      /\ \A o \in Obj : \/ color'[o] = col[o]
                        \/ o \in S /\ col[o] <= WHITE1 /\ color'[o] = GRAY
  BY <1>1, MarkFacts
<1>3. \A o \in heap : color'[o] \in {white, GRAY, BLACK}
  BY <1>1, <1>2
<1>4. ASSUME NEW o \in heap, color'[o] = BLACK
      PROVE  Whites(color', Must(o)') = {}
  <2>1. col[o] = BLACK
    BY <1>1, <1>2, <1>4 DEF GRAY, BLACK
  <2> Must(o)' = Must(o)
    BY DEF Must, Carriers
  <2>2. CASE o \in D
    BY <1>2, <2>2 DEF Whites
  <2>3. CASE o \notin D
    <3>1. Whites(col, Must(o)) = {} /\ Must(o) \subseteq Obj
      BY <1>1, <2>1, <2>3, MustFacts
    <3>2. QED
      BY <1>2, <3>1 DEF Whites, WHITE1, GRAY
  <2>4. QED
    BY <2>2, <2>3
<1>5. AtPropagate'
  BY <1>2, <1>3, <1>4 DEF AtPropagate
<1>6. Doomed = {} /\ Doomed' = {}
  BY DEF Doomed
<1>7. RootsSafe' /\ RefsSafe'
  BY <1>6 DEF RootsSafe, RefsSafe, Safe, Kept, Alive
<1>8. \A o \in chunk : color'[o] = BLACK
  BY <1>1, <1>2 DEF WHITE1, BLACK
<1>9. ChunksApart' /\ Carrying'
  <2>1. ChunksApart'
    BY <1>8 DEF ChunksApart
  <2>2. \A c \in Coroutines : \A u \in carried[c] : u \in stack' /\ u \notin open'
    BY DEF Carrying, CarriedApart
  <2>3. QED
    BY <2>1, <2>2, CarryStep
<1>10. AtPause' /\ AtSweep'
  BY DEF AtPause, AtSweep
<1>11. AtAtomic'
  BY <1>2 DEF AtAtomic, Whites
<1>12. QED
  BY <1>2, <1>5, <1>7, <1>9, <1>10, <1>11

(* Before the cycle starts everything is white, so marking the roots is a  *)
(* marking step with nothing black on the heap.                            *)
LEMMA StartStep == IInv /\ TypeOK' /\ StartCycle => IInv'
<1> SUFFICES ASSUME IInv, TypeOK', StartCycle
             PROVE  IInv'
  OBVIOUS
<1> USE DEF IInv, StartCycle
<1>1. Roots \subseteq Alive /\ weak \subseteq Alive
  BY DEF RootsSafe, Safe
<1>2. /\ \A o \in heap : color[o] = white
      /\ gray = {o \in heap : color[o] = GRAY}
  BY DEF AtPause, TypeOK, WHITE0, WHITE1, GRAY
<1>3. \A o \in heap : color[o] # BLACK
  BY <1>2 DEF TypeOK, WHITE0, WHITE1, BLACK
<1>4. /\ Roots' = Roots /\ weak' = weak
      /\ UNCHANGED <<carried, onFrame, disposing, costate, open, stack, spare>>
  BY DEF Roots, rootVars, coVars
<1>5. \A o \in chunk : color[o] = BLACK
  BY DEF ChunksApart
<1>6. atomicAt' = "off"
  BY DEF AtPause
<1>7. color \in [Obj -> WHITE0..BLACK]
  BY DEF TypeOK
<1>8. /\ Mark(color, gray, Roots)
      /\ gcstate # "SWEEP" /\ gcstate' = "PROPAGATE"
      /\ UNCHANGED <<heapVars, white, unswept, carried, onFrame, disposing,
                       costate, open, stack, spare>>
  BY <1>4
<1>9. /\ \A o \in heap : color[o] \in {white, GRAY, BLACK}
      /\ \A o \in heap \ {} : color[o] = BLACK => Whites(color, Must(o)) = {}
      /\ \A o \in {} : Must(o) \subseteq Roots
      /\ {} \in SUBSET heap /\ Roots \in SUBSET Alive
      /\ Roots' \subseteq Alive /\ weak' \subseteq Alive
  BY <1>1, <1>2, <1>3, <1>4
<1> HIDE DEF IInv, StartCycle
<1>10. QED
  BY <1>2, <1>5, <1>6, <1>7, <1>8, <1>9, MarkStep

LEMMA PropagateStep ==
  ASSUME IInv, TypeOK', NEW o \in Obj, PropagateOne(o)
  PROVE  IInv'
<1> DEFINE col == [color EXCEPT ![o] = BLACK]
<1> USE DEF IInv, PropagateOne
<1>1. /\ o \in heap /\ o \notin chunk /\ color[o] = GRAY
      /\ heap \subseteq Obj /\ chunk \subseteq Obj
  BY Kinds DEF AtPropagate, ChunksApart, TypeOK
<1>2. \A x \in Obj : col[x] = IF x = o THEN BLACK ELSE color[x]
  BY DEF TypeOK
<1>3. /\ Children(o) \subseteq Alive /\ Must(o) \subseteq Children(o)
      /\ \A x \in heap : Must(x) \subseteq Obj
  <2>1. Kept = heap /\ Safe = Alive
    BY <1>1 DEF Kept, Safe, Doomed
  <2>2. refs[o] \subseteq Alive /\ Carriers(o) \subseteq Alive
    BY <1>1, <2>1 DEF RefsSafe, Carriers, Alive
  <2>3. QED
    BY <1>1, <2>2, MustFacts
<1>4. /\ \A x \in chunk : col[x] = BLACK
      /\ \A x \in heap : col[x] \in {white, GRAY, BLACK}
  BY <1>1, <1>2 DEF ChunksApart, AtPropagate
<1>5. gray \ {o} = {x \in heap : col[x] = GRAY}
  BY <1>1, <1>2 DEF AtPropagate, GRAY, BLACK
<1>6. ASSUME NEW x \in heap \ {o}, col[x] = BLACK
      PROVE  Whites(col, Must(x)) = {}
  <2>1. Whites(color, Must(x)) = {} /\ Must(x) \subseteq Obj
    BY <1>1, <1>2, <1>3, <1>6 DEF AtPropagate
  <2>2. QED
    BY <1>2, <2>1 DEF Whites, WHITE1, BLACK
<1>7. col \in [Obj -> WHITE0..BLACK]
  BY DEF TypeOK, WHITE0, BLACK
<1>8. Roots' = Roots /\ Roots \subseteq Alive /\ weak' \subseteq Alive
  BY DEF Roots, rootVars, RootsSafe, Safe
<1>9. atomicAt' # "off" => Whites(color', Roots' \ Children(o)) = {}
  <2> SUFFICES ASSUME atomicAt # "off"
               PROVE  Whites(color', Roots) = {}
    BY <1>8 DEF gcVars, Whites
  <2>1. Whites(color, Roots) = {} /\ Roots \subseteq Obj
    BY <1>1, <1>8 DEF AtAtomic, Alive
  <2>2. \A x \in Obj : color'[x] = col[x] \/ color'[x] = GRAY
    BY DEF Mark
  <2>3. QED
    BY <1>2, <2>1, <2>2 DEF Whites, WHITE1, GRAY, BLACK
<1>10. /\ Mark(col, gray \ {o}, Children(o)) /\ gcstate' = "PROPAGATE"
       /\ gcstate # "SWEEP"
       /\ UNCHANGED <<heapVars, white, unswept, carried, onFrame, disposing,
                       costate, open, stack, spare>>
  BY DEF gcVars, coVars, rootVars
<1>11. /\ {o} \in SUBSET heap /\ Children(o) \in SUBSET Alive
       /\ \A x \in {o} : Must(x) \subseteq Children(o)
       /\ \A x \in heap \ {o} : col[x] = BLACK => Whites(col, Must(x)) = {}
       /\ Roots' \subseteq Alive
  BY <1>1, <1>3, <1>6, <1>8
<1> HIDE DEF IInv, PropagateOne, col
<1>12. QED
  BY <1>4, <1>5, <1>7, <1>8, <1>9, <1>10, <1>11, MarkStep

(* The roots once more: everything black refers to no white one already.   *)
LEMMA AtomicRootsStep == IInv /\ TypeOK' /\ AtomicRoots => IInv'
<1> SUFFICES ASSUME IInv, TypeOK', AtomicRoots
             PROVE  IInv'
  OBVIOUS
<1> USE DEF IInv, AtomicRoots
<1>1. /\ Roots' = Roots /\ weak' = weak
      /\ UNCHANGED <<carried, onFrame, disposing, costate, open, stack, spare>>
  BY DEF Roots, rootVars, coVars
<1>2. /\ Mark(color, gray, Roots) /\ color \in [Obj -> WHITE0..BLACK]
      /\ gcstate # "SWEEP" /\ gcstate' = "PROPAGATE"
      /\ UNCHANGED <<heapVars, white, unswept, carried, onFrame, disposing,
                       costate, open, stack, spare>>
  BY <1>1 DEF TypeOK
<1>3. /\ \A o \in heap : color[o] \in {white, GRAY, BLACK}
      /\ gray = {o \in heap : color[o] = GRAY}
      /\ \A o \in heap \ {} : color[o] = BLACK => Whites(color, Must(o)) = {}
      /\ \A o \in {} : Must(o) \subseteq Roots
      /\ \A o \in chunk : color[o] = BLACK
  BY DEF AtPropagate, ChunksApart
<1>4. /\ {} \in SUBSET heap /\ Roots \in SUBSET Alive
      /\ Roots' \subseteq Alive /\ weak' \subseteq Alive
  BY <1>1 DEF RootsSafe, Safe
<1>5. Whites(color', Roots' \ Roots) = {}
  BY <1>1 DEF Whites
<1> HIDE DEF IInv, AtomicRoots
<1>6. QED
  BY <1>2, <1>3, <1>4, <1>5, MarkStep

(* The coroutines held back are marked as they join the roots.             *)
LEMMA AtomicHoldStep == IInv /\ TypeOK' /\ AtomicHold => IInv'
<1> SUFFICES ASSUME IInv, TypeOK', AtomicHold
             PROVE  IInv'
  OBVIOUS
<1> USE DEF IInv, AtomicHold
<1> DEFINE held == {c \in Whites(color, heap) \cap Coroutines :
                      costate[c] = "SUSPENDED" /\ c \in owes}
<1>1. /\ Roots' = Roots \cup held /\ weak' = weak
      /\ UNCHANGED <<carried, onFrame, disposing, costate, open, stack, spare>>
  BY DEF Roots, coVars
<1>2. gcstate = "PROPAGATE" /\ Whites(color, Roots) = {} /\ Roots \subseteq Obj
  BY Kinds DEF AtAtomic, Roots, TypeOK
<1>3. /\ Mark(color, gray, held) /\ color \in [Obj -> WHITE0..BLACK]
      /\ gcstate # "SWEEP" /\ gcstate' = "PROPAGATE"
      /\ UNCHANGED <<heapVars, white, unswept, carried, onFrame, disposing,
                       costate, open, stack, spare>>
  BY <1>1, <1>2 DEF TypeOK
<1>4. /\ \A o \in heap : color[o] \in {white, GRAY, BLACK}
      /\ gray = {o \in heap : color[o] = GRAY}
      /\ \A o \in heap \ {} : color[o] = BLACK => Whites(color, Must(o)) = {}
      /\ \A o \in {} : Must(o) \subseteq held
      /\ \A o \in chunk : color[o] = BLACK
  BY <1>2 DEF AtPropagate, ChunksApart
<1>5. held \subseteq Alive
  BY DEF Alive, Whites
<1>6. /\ {} \in SUBSET heap /\ held \in SUBSET Alive
      /\ Roots' \subseteq Alive /\ weak' \subseteq Alive
  BY <1>1, <1>5 DEF RootsSafe, Safe
<1>7. Whites(color', Roots' \ held) = {}
  <2>1. \A o \in Obj : color'[o] = color[o] \/ color'[o] = GRAY
    BY <1>3 DEF Mark
  <2>2. QED
    BY <1>1, <1>2, <2>1 DEF Whites, WHITE1, GRAY
<1> HIDE DEF IInv, AtomicHold, held
<1>8. QED
  BY <1>3, <1>4, <1>6, <1>7, MarkStep

(* The swap: what is doomed is exactly what the marking left white, and no *)
(* root, no black object and no weak reference names any of it.            *)
LEMMA AtomicSwapStep == IInv /\ TypeOK' /\ AtomicSwap => IInv'
<1> SUFFICES ASSUME IInv, TypeOK', AtomicSwap
             PROVE  IInv'
  OBVIOUS
<1> USE DEF IInv, AtomicSwap
<1>1. /\ gcstate = "PROPAGATE" /\ Whites(color, Roots) = {}
      /\ UNCHANGED <<heap, chunk, refs, color, gray, carried, costate>>
      /\ UNCHANGED <<stack, open, onFrame, disposing, spare>> /\ Roots' = Roots
      /\ heap \subseteq Obj /\ chunk \subseteq Obj
  BY Kinds DEF AtAtomic, Roots, heapVars, markVars, rootVars, coVars, TypeOK
<1>2. \A o \in heap : color[o] \in {white, BLACK}
  BY <1>1 DEF AtPropagate
<1>3. Doomed' = {o \in heap : color[o] = white}
  BY <1>1 DEF Doomed, OtherWhite, TypeOK, WHITE0, WHITE1
<1>4. \A o \in Alive : o \in Doomed' <=> color[o] <= WHITE1
  BY <1>1, <1>2, <1>3 DEF Alive, ChunksApart, TypeOK, WHITE0, WHITE1, BLACK
<1>5. Safe = Alive /\ Kept = heap
  BY <1>1 DEF Safe, Kept, Doomed
<1>6. RootsSafe'
  <2>1. Roots \subseteq Alive /\ weak \subseteq Alive
    BY <1>5 DEF RootsSafe
  <2>2. Roots' \cap Doomed' = {} /\ weak' \cap Doomed' = {}
    BY <1>1, <1>4, <2>1 DEF Whites
  <2>3. QED
    BY <1>1, <2>1, <2>2 DEF RootsSafe, Safe, Alive
<1>20. \A c \in Coroutines : carried[c] # {} => c \in heap /\ color[c] > WHITE1
  <2> SUFFICES ASSUME NEW c \in Coroutines, NEW u \in carried[c]
               PROVE  c \in heap /\ color[c] > WHITE1
    OBVIOUS
  <2>1. u \in Roots /\ c \in heap
    BY <1>5 DEF Carrying, CarriedApart, Roots, RefsSafe
  <2>2. u \in Kept
    <3>1. u \in Upvalues
      BY DEF TypeOK
    <3>2. QED
      BY <2>1, <3>1, SafeSplit DEF RootsSafe, Movable
  <2>3. color[u] = BLACK
    BY <1>1, <1>2, <1>5, <2>1, <2>2 DEF Whites, TypeOK, WHITE0, WHITE1
  <2>4. Whites(color, Must(u)) = {} /\ c \in Must(u)
    BY <1>1, <1>5, <2>2, <2>3 DEF AtPropagate, Must, Carriers
  <2>5. QED
    BY <1>1, <2>1, <2>4 DEF Whites, TypeOK, WHITE0, WHITE1, BLACK
<1>21. \A c \in Coroutines : carried[c] # {} => c \in heap /\ c \notin Doomed'
  BY <1>1, <1>4, <1>20, Kinds DEF Alive, TypeOK, WHITE1
<1>7. RefsSafe'
  <2> SUFFICES ASSUME NEW o \in heap, o \notin Doomed'
               PROVE  refs[o] \subseteq Alive /\ refs[o] \cap Doomed' = {}
    BY <1>1, <1>21 DEF RefsSafe, Kept, Safe, Alive
  <2>1. color[o] = BLACK /\ refs[o] \subseteq Alive
    BY <1>2, <1>3, <1>5 DEF RefsSafe
  <2>2. CASE Carriers(o) = {}
    <3>1. Whites(color, refs[o]) = {}
      BY <1>1, <2>1, <2>2 DEF AtPropagate, Must
    <3>2. QED
      BY <1>4, <2>1, <3>1 DEF Whites
  <2>3. CASE Carriers(o) # {}
    <3>1. PICK c \in Coroutines : o \in carried[c]
      BY <2>3 DEF Carriers
    <3>2. c \in heap /\ color[c] = BLACK
      BY <1>2, <1>20, <3>1 DEF TypeOK, WHITE0, WHITE1
    <3>3. Must(c) = refs[c] /\ refs[o] \subseteq refs[c]
      BY <3>1, Kinds, MustFacts, Disjoint, KindsAssumption DEF Carrying, CarriedApart
    <3>4. Whites(color, refs[o]) = {}
      BY <1>1, <3>2, <3>3 DEF AtPropagate, Whites
    <3>5. QED
      BY <1>4, <2>1, <3>4 DEF Whites
  <2>4. QED
    BY <2>2, <2>3
<1>8. ChunksApart' /\ Carrying'
  BY <1>1 DEF ChunksApart, Carrying, FramesAgree, CarriedApart
<1>9. AtPause' /\ AtPropagate' /\ AtAtomic' /\ AtSweep'
  BY <1>1 DEF AtPause, AtPropagate, AtAtomic, AtSweep
<1>10. QED
  BY <1>6, <1>7, <1>8, <1>9

-----------------------------------------------------------------------------
(* The sweep: one object looked at, kept or freed.                         *)
LEMMA SweepKeepStep ==
  ASSUME IInv, TypeOK', NEW o \in Obj, SweepKeep(o)
  PROVE  IInv'
<1> USE DEF IInv, SweepKeep, AfterSweeping
<1>1. /\ gcstate = "SWEEP" /\ o \in unswept /\ o \in heap /\ o \notin chunk
      /\ unswept' = unswept \ {o} /\ white' = white /\ gray = {} /\ gray' = {}
      /\ UNCHANGED <<heap, chunk, refs, atomicAt, carried, costate>>
      /\ UNCHANGED <<stack, open, onFrame, disposing, spare>> /\ Roots' = Roots
      /\ atomicAt = "off" /\ weak' = weak
      /\ gcstate' = IF unswept' = {} THEN "PAUSE" ELSE "SWEEP"
  BY DEF ChunksApart, AtSweep, heapVars, coVars, rootVars, Roots
<1>2. /\ \A x \in Obj : color'[x] = IF x = o THEN white ELSE color[x]
      /\ white # OtherWhite(white) /\ heap \subseteq Obj /\ chunk \subseteq Obj
  BY Kinds DEF TypeOK, OtherWhite, WHITE0, WHITE1
<1>3. Doomed' \subseteq Doomed
  BY <1>1, <1>2 DEF Doomed, ChunksApart, OtherWhite
<1>4. Doomed \subseteq Doomed'
  <2> SUFFICES ASSUME NEW x \in Doomed
               PROVE  x \in Doomed'
    OBVIOUS
  <2>1. x # o /\ x \in unswept' /\ color'[x] = OtherWhite(white)
    BY <1>1, <1>2 DEF Doomed, ChunksApart
  <2>2. QED
    BY <1>1, <2>1 DEF Doomed, OtherWhite
<1>5. RootsSafe' /\ RefsSafe'
  BY <1>1, <1>3, <1>4 DEF RootsSafe, RefsSafe, Safe, Kept, Alive
<1>6. ChunksApart' /\ Carrying'
  BY <1>1, <1>2 DEF ChunksApart, Carrying, FramesAgree, CarriedApart
<1>7. \A x \in heap' \ unswept' : color'[x] = white'
  BY <1>1, <1>2 DEF AtSweep
<1>8. AtPause' /\ AtPropagate' /\ AtAtomic' /\ AtSweep'
  BY <1>1, <1>7 DEF AtPause, AtPropagate, AtAtomic, AtSweep
<1>9. QED
  BY <1>5, <1>6, <1>8

(* What a freed script's chunk owned joins the heap in the living colour.  *)
LEMMA SweepFreeStep ==
  ASSUME IInv, TypeOK', NEW o \in Obj, SweepFree(o)
  PROVE  IInv'
<1> DEFINE given == IF o \in Scripts THEN Body[o] ELSE {}
<1> USE DEF IInv, SweepFree, AfterSweeping
<1>1. /\ gcstate = "SWEEP" /\ o \in unswept /\ o \in heap /\ o \notin chunk
      /\ color[o] = OtherWhite(white) /\ o \in Doomed
      /\ unswept' = Prepended(given) \ {o} /\ white' = white
      /\ gray = {} /\ gray' = {} /\ atomicAt = "off" /\ atomicAt' = "off"
      /\ heap' = (heap \ {o}) \cup given /\ chunk' = chunk \ given
      /\ Roots' = Roots /\ weak' = weak
      /\ gcstate' = IF unswept' = {} THEN "PAUSE" ELSE "SWEEP"
  BY DEF ChunksApart, AtSweep, rootVars, Roots, Doomed
<1>2. /\ given \subseteq chunk /\ given \subseteq Consts /\ o \notin given
      /\ heap \subseteq Obj /\ chunk \subseteq Obj /\ given \subseteq Obj
      /\ given \cap heap = {}
  BY <1>1, Kinds DEF ChunksApart, TypeOK
<1>3. \A x \in Obj : /\ x \in given => color'[x] = white
                     /\ x \notin given /\ x # o => color'[x] = color[x]
                     /\ x # o => refs'[x] = refs[x]
                     /\ x = o => refs'[x] = {}
  BY <1>2 DEF TypeOK
<1>4. white # OtherWhite(white)
  BY DEF TypeOK, OtherWhite, WHITE0, WHITE1
<1>5. /\ unswept \ {o} \subseteq unswept' /\ unswept' \subseteq (unswept \cup given) \ {o}
      /\ unswept' \subseteq heap'
  BY <1>1, <1>2 DEF Prepended, ChunksApart
<1>6. \A x \in Obj : x \in Doomed' <=> x \in Doomed /\ x # o
  <2> TAKE x \in Obj
  <2>1. CASE x \in given
    BY <1>1, <1>2, <1>3, <1>4, <2>1 DEF Doomed, ChunksApart, OtherWhite
  <2>2. CASE x = o
    BY <1>1, <1>5, <2>2 DEF Doomed
  <2>3. CASE x \notin given /\ x # o
    <3>1. color'[x] = color[x] /\ (x \in unswept' <=> x \in unswept)
      BY <1>3, <1>5, <2>3
    <3>2. QED
      BY <1>1, <3>1, <2>3 DEF Doomed, OtherWhite
  <2>4. QED
    BY <2>1, <2>2, <2>3
<1>7. Safe' = Safe /\ Kept' = Kept \cup given
  <2>1. Doomed \subseteq Obj /\ Doomed' \subseteq Obj /\ given \cap Doomed = {}
    BY <1>1, <1>2, <1>5 DEF Doomed, ChunksApart
  <2>2. Alive' = Alive \ {o}
    BY <1>1, <1>2 DEF Alive
  <2>3. QED
    BY <1>1, <1>2, <1>6, <2>1, <2>2 DEF Safe, Kept
<1>20. \A c \in Coroutines : carried[c] # {} => c # o /\ o \notin carried[c]
  <2> SUFFICES ASSUME NEW c \in Coroutines, NEW u \in carried[c]
               PROVE  c # o /\ u # o
    OBVIOUS
  <2>1. c \in Kept /\ u \in stack
    BY DEF RefsSafe, Carrying, CarriedApart
  <2>2. QED
    BY <1>1, <2>1 DEF Kept, RootsSafe, Roots, Safe
<1>21. carried' = carried
  BY <1>20 DEF TypeOK
<1>8. RootsSafe' /\ RefsSafe'
  <2>1. RootsSafe'
    BY <1>1, <1>7 DEF RootsSafe
  <2>2. ASSUME NEW x \in Kept'
        PROVE  refs'[x] \subseteq Safe'
    <3>1. x \in Obj /\ x # o
      BY <1>1, <1>2, <1>7, <2>2 DEF Kept
    <3>2. refs[x] \subseteq Safe
      BY <1>2, <1>7, <2>2 DEF RefsSafe, ChunksApart
    <3>3. QED
      BY <1>3, <1>7, <3>1, <3>2
  <2>3. QED
    BY <1>7, <1>21, <2>1, <2>2 DEF RefsSafe
<1>9. ChunksApart'
  <2>1. chunk' \cap heap' = {} /\ \A x \in chunk' : color'[x] = BLACK
    BY <1>1, <1>2, <1>3 DEF ChunksApart
  <2>2. ASSUME NEW s \in heap' \cap Scripts
        PROVE  Body[s] \subseteq chunk'
    <3>1. s \in heap /\ s # o
      BY <1>1, <1>2, <2>2, Disjoint
    <3>2. Body[s] \subseteq chunk /\ Body[s] \cap given = {}
      BY <3>1, <2>2, KindsAssumption DEF ChunksApart
    <3>3. QED
      BY <1>1, <3>2
  <2>3. \A x \in Scripts \cup Consts : refs'[x] = {}
    BY <1>3, Kinds DEF ChunksApart
  <2>4. QED
    BY <1>5, <2>1, <2>2, <2>3 DEF ChunksApart
<1>10. Carrying'
  <2>1. /\ UNCHANGED <<onFrame, disposing, spare, stack, open>>
        /\ o \notin onFrame
        /\ \A c \in Coroutines : c # o => costate'[c] = costate[c]
        /\ \A c \in Coroutines : c = o => costate'[c] = "DONE"
    BY <1>1 DEF rootVars, RootsSafe, Roots, Safe
  <2>2. FramesAgree'
    BY <1>20, <1>21, <2>1 DEF Carrying, FramesAgree, TypeOK
  <2>3. \A c \in Coroutines : \A u \in carried[c] :
           refs'[u] = refs[u] /\ refs'[c] = refs[c]
    BY <1>3, <1>20, Kinds DEF TypeOK
  <2>4. CarriedApart'
    BY <1>21, <2>1, <2>3 DEF Carrying, CarriedApart
  <2>5. QED
    BY <2>2, <2>4 DEF Carrying
<1>11. \A x \in heap' \ unswept' : color'[x] = white'
  BY <1>1, <1>2, <1>3, <1>5 DEF AtSweep
<1>12. AtPause' /\ AtPropagate' /\ AtAtomic' /\ AtSweep'
  BY <1>1, <1>11 DEF AtPause, AtPropagate, AtAtomic, AtSweep
<1>13. QED
  BY <1>8, <1>9, <1>10, <1>12

LEMMA SweepNothingStep == IInv /\ TypeOK' /\ SweepNothing => IInv'
<1> SUFFICES ASSUME IInv, TypeOK', SweepNothing
             PROVE  IInv'
  OBVIOUS
<1> USE DEF IInv, SweepNothing, AfterSweeping
<1>1. /\ gcstate = "SWEEP" /\ gcstate' = "PAUSE" /\ unswept = {} /\ unswept' = {}
      /\ UNCHANGED <<heap, chunk, refs, color, white, gray, atomicAt, carried, weak>>
      /\ UNCHANGED <<costate, stack, open, onFrame, disposing, spare>>
      /\ Roots' = Roots
  BY DEF heapVars, coVars, rootVars, Roots
<1>2. Doomed = {} /\ Doomed' = {}
  BY <1>1 DEF Doomed
<1>3. RootsSafe' /\ RefsSafe'
  BY <1>1, <1>2 DEF RootsSafe, RefsSafe, Safe, Kept, Alive
<1>4. ChunksApart' /\ Carrying'
  BY <1>1 DEF ChunksApart, Carrying, FramesAgree, CarriedApart
<1>5. AtPause' /\ AtPropagate' /\ AtAtomic' /\ AtSweep'
  BY <1>1 DEF AtPause, AtPropagate, AtAtomic, AtSweep
<1>6. QED
  BY <1>3, <1>4, <1>5

-----------------------------------------------------------------------------
(* The program's steps.                                                    *)
LEMMA TableSetStep ==
  ASSUME IInv, TypeOK', NEW t \in Tables, NEW v \in Obj, TableSet(t, v)
  PROVE  IInv'
<1> USE DEF TableSet
<1>1. /\ t \in Kept /\ t \in heap /\ v \in Safe /\ t \in Obj
      /\ t \notin Scripts \cup Consts /\ t \notin Upvalues \cup Coroutines
  BY SafeSplit, Disjoint, KindsAssumption DEF IInv, RootsSafe, Roots, Movable, Kept
<1>2. /\ \A o \in Obj \ {t} : refs'[o] = refs[o]
      /\ refs'[t] \subseteq refs[t] \cup {v}
  BY <1>1 DEF IInv, TypeOK
<1>3. UNCHANGED <<heap, chunk, white, gcstate, atomicAt, unswept>> /\ atomicAt = "off"
  BY DEF Running, gcVars
<1>30. carried' = carried /\ Carriers(t) = {}
  BY <1>1, MustFacts DEF coVars, IInv
<1>4. /\ AtPropagate' /\ \A o \in chunk : color'[o] = BLACK
      /\ gcstate # "PROPAGATE" => UNCHANGED markVars
  BY <1>1, <1>2, <1>3, <1>30, WriteBarrier
<1>5. Roots' \subseteq Safe /\ weak' \subseteq Safe
  BY DEF IInv, RootsSafe, Roots, rootVars
<1>6. /\ \A o \in Kept : refs'[o] \subseteq Safe
      /\ \A o \in Scripts \cup Consts : refs'[o] = {}
  BY <1>1, <1>2, Kinds DEF IInv, RefsSafe, ChunksApart, TypeOK, Kept
<1>7. Carrying'
  <2>1. \A c \in Coroutines : \A u \in carried[c] :
           /\ u \in stack' /\ u \notin open'
           /\ refs'[u] \subseteq refs[u] /\ refs[c] \subseteq refs'[c]
    BY <1>1, <1>2, Kinds DEF IInv, TypeOK, Carrying, CarriedApart, rootVars
  <2>2. QED
    BY <2>1, CarryStep DEF IInv, rootVars, coVars
<1>8. \A c \in Coroutines : carried'[c] # {} => c \in Kept
  BY <1>30 DEF IInv, RefsSafe
<1>9. QED
  BY <1>3, <1>4, <1>5, <1>6, <1>7, <1>8, ProgramStep

(* A write that only takes references away, or only changes the roots'     *)
(* own objects outside marking, needs no barrier.                          *)
LEMMA ShrinkStep ==
  ASSUME IInv, TypeOK', Carrying', NEW p \in Movable \ Upvalues,
         UNCHANGED <<heap, chunk, white, gcstate, atomicAt, unswept, carried, markVars>>,
         atomicAt = "off",
         \A o \in Obj \ {p} : refs'[o] = refs[o],
         refs'[p] \subseteq refs[p],
         Roots' \subseteq Safe, weak' \subseteq Safe
  PROVE  IInv'
<1>1. p \in Obj /\ p \notin Scripts \cup Consts
  BY Disjoint
<1>2. /\ \A o \in Kept : refs'[o] \subseteq Safe
      /\ \A o \in Scripts \cup Consts : refs'[o] = {}
  BY <1>1, Kinds DEF IInv, RefsSafe, ChunksApart, TypeOK, Kept
<1>3. /\ \A o \in chunk : color'[o] = BLACK
      /\ \A c \in Coroutines : carried'[c] # {} => c \in Kept
  BY DEF IInv, ChunksApart, RefsSafe, markVars
<1>4. AtPropagate'
  <2>1. \A o \in heap : Must(o)' \subseteq Must(o)
    BY <1>1, Kinds, MustFacts DEF IInv, Must, Carriers, TypeOK
  <2>2. QED
    BY <2>1 DEF IInv, AtPropagate, Whites, markVars
<1>5. QED
  BY <1>2, <1>3, <1>4, ProgramStep

LEMMA CloseUpvalueStep ==
  ASSUME IInv, TypeOK', NEW u \in Upvalues, CloseUpvalue(u)
  PROVE  IInv'
<1>1. PICK held \in Places(stack \ owned) :
        refs' = [refs EXCEPT ![u] = held] /\ Barrier(u, held)
  BY DEF CloseUpvalue
<1>2. /\ u \in Kept /\ u \in heap /\ u \in Obj /\ u \notin Scripts \cup Consts
      /\ held \subseteq Safe
  BY SafeSplit, Disjoint DEF CloseUpvalue, IInv, RootsSafe, Roots, Movable, Kept, Places
<1>3. /\ \A o \in Obj \ {u} : refs'[o] = refs[o]
      /\ refs'[u] = held
  BY <1>1, <1>2 DEF IInv, TypeOK
<1>4. UNCHANGED <<heap, chunk, white, gcstate, atomicAt, unswept>> /\ atomicAt = "off"
  BY DEF CloseUpvalue, Running, gcVars
<1>40. carried' = carried /\ Carriers(u) = {}
  BY DEF CloseUpvalue, coVars, Carriers, IInv, Carrying, CarriedApart
<1>5. /\ AtPropagate' /\ \A o \in chunk : color'[o] = BLACK
      /\ gcstate # "PROPAGATE" => UNCHANGED markVars
  BY <1>1, <1>2, <1>3, <1>4, <1>40, WriteBarrier
<1>6. Roots' \subseteq Safe /\ weak' \subseteq Safe
  BY DEF CloseUpvalue, IInv, RootsSafe, Roots
<1>7. /\ \A o \in Kept : refs'[o] \subseteq Safe
      /\ \A o \in Scripts \cup Consts : refs'[o] = {}
  BY <1>2, <1>3, Kinds DEF IInv, RefsSafe, ChunksApart, TypeOK, Kept
<1>8. Carrying'
  <2>1. \A c \in Coroutines : \A x \in carried[c] : x # u /\ c # u
    BY <1>40, KindsAssumption DEF Carriers
  <2>2. \A c \in Coroutines : \A x \in carried[c] :
           /\ x \in stack' /\ x \notin open'
           /\ refs'[x] \subseteq refs[x] /\ refs[c] \subseteq refs'[c]
    BY <1>3, <2>1, Kinds DEF CloseUpvalue, IInv, TypeOK, Carrying, CarriedApart
  <2>3. QED
    BY <2>2, CarryStep DEF CloseUpvalue, IInv, rootVars, coVars
<1>9. \A c \in Coroutines : carried'[c] # {} => c \in Kept
  BY <1>40 DEF IInv, RefsSafe
<1>10. QED
  BY <1>4, <1>5, <1>6, <1>7, <1>8, <1>9, ProgramStep

LEMMA SetUpvalStep ==
  ASSUME Careful, IInv, TypeOK', NEW u \in Upvalues, SetUpval(u)
  PROVE  IInv'
<1>1. PICK held \in Places(stack \ owned) :
        /\ refs' = [refs EXCEPT ![u] = held] /\ Barrier(u, held)
        /\ \A c \in Coroutines : u \notin carried[c]
  BY DEF SetUpval, Careful, IInv, Carrying, CarriedApart
<1>2. /\ u \in Kept /\ u \in heap /\ u \in Obj /\ u \notin Scripts \cup Consts
      /\ held \subseteq Safe
  BY SafeSplit, Disjoint DEF SetUpval, IInv, RootsSafe, Roots, Movable, Kept, Places
<1>3. /\ \A o \in Obj \ {u} : refs'[o] = refs[o]
      /\ refs'[u] = held
  BY <1>1, <1>2 DEF IInv, TypeOK
<1>4. UNCHANGED <<heap, chunk, white, gcstate, atomicAt, unswept>> /\ atomicAt = "off"
  BY DEF SetUpval, Running, gcVars
<1>40. carried' = carried /\ Carriers(u) = {}
  BY <1>1 DEF SetUpval, coVars, Carriers, IInv, Carrying, CarriedApart
<1>5. /\ AtPropagate' /\ \A o \in chunk : color'[o] = BLACK
      /\ gcstate # "PROPAGATE" => UNCHANGED markVars
  BY <1>1, <1>2, <1>3, <1>4, <1>40, WriteBarrier
<1>6. Roots' \subseteq Safe /\ weak' \subseteq Safe
  BY DEF SetUpval, IInv, RootsSafe, Roots, rootVars
<1>7. /\ \A o \in Kept : refs'[o] \subseteq Safe
      /\ \A o \in Scripts \cup Consts : refs'[o] = {}
  BY <1>2, <1>3, Kinds DEF IInv, RefsSafe, ChunksApart, TypeOK, Kept
<1>8. Carrying'
  <2>1. \A c \in Coroutines : \A x \in carried[c] : x # u /\ c # u
    BY <1>40, KindsAssumption DEF Carriers
  <2>2. \A c \in Coroutines : \A x \in carried[c] :
           /\ x \in stack' /\ x \notin open'
           /\ refs'[x] \subseteq refs[x] /\ refs[c] \subseteq refs'[c]
    BY <1>3, <2>1, Kinds DEF SetUpval, IInv, TypeOK, Carrying, CarriedApart, rootVars
  <2>3. QED
    BY <2>2, CarryStep DEF SetUpval, IInv, rootVars, coVars
<1>9. \A c \in Coroutines : carried'[c] # {} => c \in Kept
  BY <1>40 DEF IInv, RefsSafe
<1>10. QED
  BY <1>4, <1>5, <1>6, <1>7, <1>8, <1>9, ProgramStep

(* A yield saves registers and hands captures over.  After it a black      *)
(* coroutine has no white register saved, and no black capture travels     *)
(* with a white coroutine.                                                 *)
LEMMA YieldStep ==
  ASSUME Careful, IInv, TypeOK', NEW c \in Coroutines, Yield(c)
  PROVE  IInv'
<1>1. PICK S \in Fields(stack), U \in SUBSET open :
        /\ U = {} \/ MaySuspendCaptured
        /\ U \subseteq stack \/ MayTouchCarried
        /\ \E held \in [U -> Places(S \ owned)] :
             refs' = [o \in Obj |-> IF o = c THEN S
                                    ELSE IF o \in U THEN held[o] ELSE refs[o]]
        /\ open' = open \ U
        /\ carried' = [carried EXCEPT ![c] = U]
        /\ YieldBarrier(c, S, U)
  BY DEF Yield
<1>2. PICK held \in [U -> Places(S \ owned)] :
        refs' = [o \in Obj |-> IF o = c THEN S
                               ELSE IF o \in U THEN held[o] ELSE refs[o]]
  BY <1>1
<1>3. /\ U \subseteq stack /\ U \subseteq open /\ U \subseteq Upvalues
      /\ ~MaySuspendCaptured => U = {}
  BY <1>1 DEF Careful, IInv, TypeOK
<1>4. /\ c \in Kept /\ c \in heap /\ c \in Obj /\ c \notin Scripts \cup Consts
      /\ c \notin Upvalues /\ c \notin U /\ S \subseteq Safe /\ S \subseteq Obj
  <2>1. c \in Roots /\ S \subseteq Roots
    BY DEF Yield, Roots, Fields
  <2>2. QED
    BY <1>3, <2>1, SafeSplit, Disjoint, KindsAssumption DEF IInv, RootsSafe, Movable, Kept
<1>5. /\ costate[c] = "RUNNING" /\ c \in onFrame /\ c \notin disposing /\ c \notin spare
      /\ carried[c] = {}
  BY DEF Yield, IInv, Carrying, FramesAgree
<1>6. /\ \A o \in Obj \ ({c} \cup U) : refs'[o] = refs[o]
      /\ refs'[c] = S /\ \A u \in U : refs'[u] \subseteq S
  <2>1. \A u \in U : u \in Obj /\ held[u] \subseteq S
    BY <1>3, Kinds DEF Places
  <2>2. QED
    BY <1>2, <1>4, <2>1
<1>7. /\ UNCHANGED <<heap, chunk, white, gcstate, atomicAt, unswept, weak>>
      /\ UNCHANGED <<stack, disposing, spare, pending>> /\ atomicAt = "off"
      /\ onFrame' = onFrame \ {c} /\ costate' = [costate EXCEPT ![c] = "SUSPENDED"]
  BY DEF Yield, Running, gcVars
<1>8. \A d \in Coroutines : carried'[d] = IF d = c THEN U ELSE carried[d]
  BY <1>1 DEF IInv, TypeOK
<1>9. Carrying'
  <2>1. FramesAgree'
    BY <1>5, <1>7, <1>8 DEF IInv, TypeOK, Carrying, FramesAgree
  <2>2. ASSUME NEW d \in Coroutines, NEW u \in carried'[d]
        PROVE  u \in stack' \ open' /\ refs'[u] \subseteq refs'[d]
    <3>1. CASE d = c
      BY <1>1, <1>3, <1>6, <1>7, <1>8, <2>2, <3>1
    <3>2. CASE d # c
      <4>1. u \in carried[d] /\ u \in Upvalues
        BY <1>8, <2>2, <3>2 DEF IInv, TypeOK
      <4>2. u \in stack \ open /\ refs[u] \subseteq refs[d] /\ u # c
        BY <1>4, <4>1 DEF IInv, Carrying, CarriedApart
      <4>3. u \in Obj /\ d \in Obj /\ d \notin U /\ u \notin U
        BY <1>3, <4>1, <4>2, Kinds, KindsAssumption
      <4>4. QED
        BY <1>1, <1>6, <1>7, <3>2, <4>2, <4>3
    <3>3. QED
      BY <3>1, <3>2
  <2>3. \A d, e \in Coroutines : d # e => carried'[d] \cap carried'[e] = {}
    BY <1>3, <1>8 DEF IInv, Carrying, CarriedApart
  <2>4. CarriedApart'
    BY <1>3, <1>8, <2>2, <2>3 DEF IInv, Carrying, CarriedApart
  <2>5. QED
    BY <2>1, <2>4 DEF Carrying
<1>10. /\ Must(c)' = S
       /\ \A u \in U : Must(u)' = {c}
       /\ \A o \in Obj \ ({c} \cup U) : Must(o)' = Must(o)
  <2>1. \A o \in Obj : Carriers(o)' = IF o \in U THEN Carriers(o) \cup {c} ELSE Carriers(o)
    BY <1>5, <1>8 DEF Carriers
  <2>2. \A u \in U : Carriers(u) = {}
    BY <1>3 DEF Carriers, IInv, Carrying, CarriedApart
  <2>3. Carriers(c) = {} /\ \A u \in U : u \in Obj
    BY <1>3, <1>4, Kinds, MustFacts DEF IInv
  <2>4. QED
    BY <1>4, <1>6, <2>1, <2>2, <2>3 DEF Must
<1>11. /\ \A o \in chunk : color'[o] = BLACK
       /\ gcstate # "PROPAGATE" => UNCHANGED markVars
  <2>1. c \notin chunk /\ chunk \subseteq Obj
    BY <1>4, Kinds DEF IInv, ChunksApart, TypeOK
  <2>2. QED
    BY <1>1, <2>1 DEF YieldBarrier, IInv, ChunksApart, TypeOK, markVars
<1>12. AtPropagate'
  <2> SUFFICES ASSUME gcstate = "PROPAGATE"
               PROVE  AtPropagate'
    BY <1>7 DEF AtPropagate
  <2>1. /\ \A o \in heap : color[o] \in {white, GRAY, BLACK}
        /\ gray = {o \in heap : color[o] = GRAY}
        /\ \A o \in heap : color[o] = BLACK => Whites(color, Must(o)) = {}
        /\ \A o \in heap : o \in Obj /\ Must(o) \subseteq Obj
    BY Kinds, MustFacts DEF IInv, AtPropagate, TypeOK
  <2>2. CASE /\ color' = [color EXCEPT ![c] = GRAY] /\ color[c] # GRAY
             /\ gray' \in Pushed(gray, {c})
    <3>1. gray' = gray \cup {c}
      BY <2>1, <2>2 DEF Pushed
    <3>2. \A o \in Obj : color'[o] = IF o = c THEN GRAY ELSE color[o]
      BY <2>2 DEF IInv, TypeOK
    <3>3. ASSUME NEW o \in heap, color'[o] = BLACK
          PROVE  Whites(color', Must(o)') = {}
      <4>1. o # c /\ color[o] = BLACK /\ o \in Obj
        BY <2>1, <3>2, <3>3 DEF GRAY, BLACK
      <4>2. CASE o \in U
        BY <1>4, <1>10, <3>2, <4>2 DEF Whites, WHITE1, GRAY
      <4>3. CASE o \notin U
        BY <1>10, <2>1, <3>2, <4>1, <4>3 DEF Whites, WHITE1, GRAY
      <4>4. QED
        BY <4>2, <4>3
    <3>4. gray' = {o \in heap : color'[o] = GRAY}
      BY <1>4, <2>1, <3>1, <3>2
    <3>5. \A o \in heap : color'[o] \in {white, GRAY, BLACK}
      BY <2>1, <3>2
    <3>6. QED
      BY <1>7, <3>3, <3>4, <3>5 DEF AtPropagate
  <2>3. CASE /\ UNCHANGED <<color, gray>>
             /\ color[c] = BLACK => Whites(color, S) = {}
             /\ (\E u \in U : color[u] = BLACK) => Whites(color, {c}) = {}
    <3>1. ASSUME NEW o \in heap, color[o] = BLACK
          PROVE  Whites(color, Must(o)') = {}
      BY <1>10, <2>1, <2>3, <3>1 DEF Whites
    <3>2. QED
      BY <1>7, <2>1, <2>3, <3>1 DEF AtPropagate
  <2>4. QED
    <3>1. Whites(color, {c}) # {} => color[c] # GRAY
      BY DEF Whites, WHITE1, GRAY
    <3>2. CASE \/ color[c] = BLACK /\ Whites(color, S) # {}
               \/ Whites(color, {c}) # {} /\ \E u \in U : color[u] = BLACK
      <4>1. color' = [color EXCEPT ![c] = GRAY] /\ gray' \in Pushed(gray, {c})
        BY <1>1, <3>2 DEF YieldBarrier
      <4>2. color[c] # GRAY
        BY <3>1, <3>2 DEF GRAY, BLACK
      <4>3. QED
        BY <2>2, <4>1, <4>2
    <3>3. CASE ~(\/ color[c] = BLACK /\ Whites(color, S) # {}
                 \/ Whites(color, {c}) # {} /\ \E u \in U : color[u] = BLACK)
      <4>1. UNCHANGED <<color, gray>>
        BY <1>1, <3>3 DEF YieldBarrier, markVars
      <4>2. QED
        BY <2>3, <3>3, <4>1
    <3>4. QED
      BY <3>2, <3>3
<1>13. Roots' \subseteq Safe /\ weak' \subseteq Safe
  BY <1>1, <1>7 DEF IInv, RootsSafe, Roots
<1>14. /\ \A o \in Kept : refs'[o] \subseteq Safe
       /\ \A d \in Coroutines : carried'[d] # {} => d \in Kept
  <2>1. Kept \subseteq Obj
    BY Kinds DEF Kept, IInv, TypeOK
  <2>2. \A o \in Kept : refs'[o] \subseteq Safe
    BY <1>4, <1>6, <2>1 DEF IInv, RefsSafe
  <2>3. QED
    BY <1>4, <1>8, <2>2 DEF IInv, RefsSafe
<1>15. \A o \in Scripts \cup Consts : refs'[o] = {}
  <2>1. U \cap (Scripts \cup Consts) = {}
    BY <1>3, KindsAssumption
  <2>2. QED
    BY <1>4, <1>6, <2>1, Kinds DEF IInv, ChunksApart
<1>16. QED
  BY <1>7, <1>9, <1>11, <1>12, <1>13, <1>14, <1>15, ProgramStep

(* A spare is remade while nothing is being marked, so its new colour is   *)
(* the one every living object has or is about to have.                    *)
LEMMA RemakeSpareStep ==
  ASSUME Careful, IInv, TypeOK', NEW c \in Coroutines, RemakeSpare(c)
  PROVE  IInv'
<1> USE DEF RemakeSpare
<1>1. PICK S \in Fields(stack \ owned) : refs' = [refs EXCEPT ![c] = S]
  OBVIOUS
<1>2. /\ c \in Kept /\ c \in heap /\ c \in Obj /\ c \notin Scripts \cup Consts
      /\ S \subseteq Safe /\ c \in Safe
  BY <1>1, SafeSplit, Disjoint DEF IInv, RootsSafe, Roots, Movable, Kept, Fields
<1>3. /\ UNCHANGED <<heap, chunk, white, gcstate, atomicAt, unswept, gray, weak>>
      /\ atomicAt = "off" /\ gcstate # "PROPAGATE"
  BY DEF Running, gcVars, Careful
<1>4. /\ \A o \in Obj : refs'[o] = IF o = c THEN S ELSE refs[o]
      /\ \A o \in Obj : color'[o] = IF o = c THEN white ELSE color[o]
      /\ heap \subseteq Obj /\ chunk \subseteq Obj
  BY <1>1, Kinds DEF IInv, TypeOK
<1>5. white # OtherWhite(white)
  BY DEF IInv, TypeOK, OtherWhite, WHITE0, WHITE1
<1>6. Doomed' = Doomed
  <2>1. c \notin Doomed /\ c \notin Doomed'
    BY <1>2, <1>3, <1>4, <1>5 DEF Kept, Doomed, OtherWhite
  <2>2. \A x \in Obj \ {c} : x \in Doomed' <=> x \in Doomed
    BY <1>3, <1>4 DEF Doomed, OtherWhite
  <2>3. Doomed \subseteq Obj /\ Doomed' \subseteq Obj
    BY <1>3, <1>4 DEF Doomed, IInv, ChunksApart
  <2>4. Doomed \subseteq Doomed' /\ Doomed' \subseteq Doomed
    BY <2>1, <2>2, <2>3
  <2>5. QED
    BY <2>4
<1>7. Kept' = Kept /\ Safe' = Safe
  BY <1>3, <1>6 DEF Kept, Safe, Alive
<1>8. RootsSafe'
  <2>1. pending' \subseteq pending \cup {c}
    OBVIOUS
  <2>2. Roots' \subseteq Roots \cup {c}
    BY <2>1 DEF Roots
  <2>3. QED
    BY <1>2, <1>3, <1>7, <2>2 DEF IInv, RootsSafe
<1>20. carried[c] = {} /\ ~(c \in onFrame \ disposing)
  BY DEF IInv, Carrying, FramesAgree
<1>21. carried' = carried
  BY <1>20 DEF IInv, TypeOK
<1>9. RefsSafe'
  BY <1>2, <1>4, <1>7, <1>21 DEF IInv, RefsSafe, Kept
<1>10. ChunksApart' /\ Carrying'
  <2>1. ChunksApart'
    BY <1>2, <1>3, <1>4, Kinds DEF IInv, ChunksApart
  <2>2. FramesAgree'
    BY <1>20, <1>21 DEF IInv, TypeOK, Carrying, FramesAgree
  <2>3. \A d \in Coroutines : \A u \in carried[d] :
           u \in stack' \ open' /\ refs'[u] = refs[u] /\ refs'[d] = refs[d]
    BY <1>4, <1>20, Kinds, KindsAssumption DEF IInv, TypeOK, Carrying, CarriedApart
  <2>4. CarriedApart'
    BY <1>21, <2>3 DEF IInv, Carrying, CarriedApart
  <2>5. QED
    BY <2>1, <2>2, <2>4 DEF Carrying
<1>11. AtPause' /\ AtPropagate' /\ AtAtomic' /\ AtSweep'
  BY <1>2, <1>3, <1>4 DEF IInv, AtPause, AtPropagate, AtAtomic, AtSweep
<1>12. QED
  BY <1>8, <1>9, <1>10, <1>11 DEF IInv

(* Registers that go back on the stack were kept with their coroutine, and *)
(* the captures that travelled with it answer for nothing of their own.    *)
LEMMA EnterFrameStep ==
  ASSUME IInv, TypeOK', NEW c \in Coroutines, Running, EnterFrame(c),
         c \in Roots, pending' \subseteq pending,
         disposing' \in {disposing, disposing \cup {c}},
         c \in spare => c \in disposing'
  PROVE  IInv'
<1>1. /\ c \in Kept /\ c \in Safe /\ c \in Obj /\ refs[c] \subseteq Safe
      /\ carried[c] \subseteq Safe /\ carried[c] \subseteq Upvalues
      /\ c \notin Upvalues
  <2>1. carried[c] \subseteq Roots
    BY DEF IInv, Carrying, CarriedApart, Roots
  <2>2. QED
    BY <2>1, SafeSplit, Kinds, KindsAssumption
       DEF IInv, RootsSafe, RefsSafe, Movable, TypeOK
<1>2. /\ \A d \in Coroutines : carried'[d] = IF d = c THEN {} ELSE carried[d]
      /\ \A o \in Obj : refs'[o] = IF o \in carried[c] THEN {} ELSE refs[o]
      /\ costate' = [costate EXCEPT ![c] = "RUNNING"]
      /\ onFrame' = onFrame \cup {c} /\ spare' = spare
      /\ stack' = stack \cup refs[c] /\ open' = open \cup carried[c]
  BY DEF EnterFrame, IInv, TypeOK
<1>3. /\ UNCHANGED <<heap, chunk, white, gcstate, atomicAt, unswept, color, gray, weak>>
      /\ atomicAt = "off"
  BY DEF EnterFrame, Running, gcVars, markVars
<1>4. Carrying'
  <2>1. FramesAgree'
    BY <1>2 DEF IInv, TypeOK, Carrying, FramesAgree
  <2>2. ASSUME NEW d \in Coroutines, NEW u \in carried'[d]
        PROVE  u \in stack' \ open' /\ refs'[u] \subseteq refs'[d]
    <3>1. d # c /\ u \in carried[d] /\ u \in Obj /\ d \in Obj /\ d \notin Upvalues
      BY <1>2, <2>2, Kinds, KindsAssumption DEF IInv, TypeOK
    <3>2. u \notin carried[c] /\ u \in stack \ open /\ refs[u] \subseteq refs[d]
      BY <3>1 DEF IInv, Carrying, CarriedApart
    <3>3. QED
      BY <1>1, <1>2, <3>1, <3>2
  <2>3. CarriedApart'
    BY <1>2, <2>2 DEF IInv, Carrying, CarriedApart
  <2>4. QED
    BY <2>1, <2>3 DEF Carrying
<1>5. \A o \in heap : Must(o)' \subseteq Must(o)
  <2> TAKE o \in heap
  <2>1. o \in Obj
    BY Kinds DEF IInv, TypeOK
  <2>2. CASE o \in carried[c]
    <3>1. Carriers(o)' = {}
      BY <1>2, <2>2 DEF Carriers, IInv, Carrying, CarriedApart
    <3>2. QED
      BY <1>2, <2>1, <2>2, <3>1 DEF Must
  <2>3. CASE o \notin carried[c]
    <3>1. Carriers(o)' = Carriers(o)
      BY <1>2, <2>3 DEF Carriers
    <3>2. QED
      BY <1>2, <2>1, <2>3, <3>1 DEF Must
  <2>4. QED
    BY <2>2, <2>3
<1>6. AtPropagate'
  BY <1>3, <1>5 DEF IInv, AtPropagate, Whites
<1>7. Roots' \subseteq Safe /\ weak' \subseteq Safe
  BY <1>1, <1>2, <1>3 DEF IInv, RootsSafe, Roots
<1>8. /\ \A o \in chunk : color'[o] = BLACK
      /\ \A o \in Scripts \cup Consts : refs'[o] = {}
      /\ \A o \in Kept : refs'[o] \subseteq Safe
      /\ \A d \in Coroutines : carried'[d] # {} => d \in Kept
  <2>1. \A o \in Obj : refs'[o] \subseteq refs[o]
    BY <1>2
  <2>2. \A o \in Kept : refs'[o] \subseteq Safe
    BY <2>1, Kinds DEF IInv, RefsSafe, Kept, TypeOK
  <2>3. QED
    BY <1>2, <1>3, <2>1, <2>2, Kinds DEF IInv, RefsSafe, ChunksApart
<1>9. QED
  BY <1>3, <1>4, <1>6, <1>7, <1>8, ProgramStep DEF markVars

LEMMA LoadStep ==
  ASSUME IInv, TypeOK', NEW p \in Obj, NEW v \in Obj, Load(p, v)
  PROVE  IInv'
<1>1. p \in Safe
  BY DEF Load, IInv, RootsSafe, Roots
<1>2. v \in Safe
  <2>1. CASE p \in Tables \cup Upvalues /\ v \in refs[p]
    BY <1>1, <2>1, SafeSplit DEF IInv, RefsSafe, Movable
  <2>2. CASE p \in Scripts /\ v \in Body[p]
    BY <1>1, <2>2, SafeSplit DEF IInv, ChunksApart, Kept
  <2>3. QED
    BY <2>1, <2>2 DEF Load
<1>3. Roots' \subseteq Safe /\ weak' \subseteq Safe
  BY <1>2 DEF Load, IInv, RootsSafe, Roots
<1>4. /\ UNCHANGED <<heapVars, white, gcstate, atomicAt, unswept, markVars>>
      /\ atomicAt = "off" /\ carried' = carried
  BY DEF Load, Running, gcVars, coVars
<1>5. Carrying'
  BY CarryStep DEF Load, IInv, Carrying, CarriedApart, heapVars, coVars
<1>6. QED
  BY <1>3, <1>4, <1>5, RootsStep

(* A weak reference is read while the value is still safe, and marked when *)
(* the machine's own cache is asked for it.                                *)
LEMMA WeakGetStep ==
  ASSUME IInv, TypeOK', NEW v \in Obj, WeakGet(v)
  PROVE  IInv'
<1> USE DEF WeakGet
<1>1. v \in Safe /\ atomicAt = "off" /\ Roots \subseteq Safe /\ weak \subseteq Safe
  BY DEF IInv, RootsSafe, Running
<1>2. /\ UNCHANGED <<heapVars, white, gcstate, atomicAt, unswept>>
      /\ carried' = carried /\ weak' = weak
      /\ Roots' \subseteq Safe
  BY <1>1 DEF gcVars, coVars, Roots
<1>20. Carrying'
  BY CarryStep DEF IInv, Carrying, CarriedApart, heapVars, coVars
<1>3. CASE UNCHANGED markVars
  BY <1>1, <1>2, <1>3, <1>20, RootsStep
<1>4. CASE gcstate = "PROPAGATE" /\ Mark(color, gray, {v})
  <2>1. Safe = Alive
    BY <1>4, SafeSplit DEF IInv
  <2>2. /\ {v} \in SUBSET Alive /\ {} \in SUBSET heap
        /\ Roots' \subseteq Alive /\ weak' \subseteq Alive
        /\ color \in [Obj -> WHITE0..BLACK]
        /\ UNCHANGED <<heapVars, white, unswept, carried, onFrame, disposing,
                       costate, open, spare>>
        /\ stack \subseteq stack'
        /\ gcstate # "SWEEP" /\ gcstate' = "PROPAGATE" /\ atomicAt' = "off"
    BY <1>1, <1>2, <1>4, <2>1 DEF IInv, TypeOK, coVars
  <2>3. /\ \A o \in heap : color[o] \in {white, GRAY, BLACK}
        /\ gray = {o \in heap : color[o] = GRAY}
        /\ \A o \in heap \ {} : color[o] = BLACK => Whites(color, Must(o)) = {}
        /\ \A o \in {} : Must(o) \subseteq {v}
        /\ \A o \in chunk : color[o] = BLACK
    BY <1>4 DEF IInv, AtPropagate, ChunksApart
  <2> HIDE DEF WeakGet
  <2>4. QED
    BY <1>4, <2>2, <2>3, MarkStep
<1>5. QED
  BY <1>3, <1>4

LEMMA NewScriptStep ==
  ASSUME IInv, TypeOK', NEW s \in Scripts, NewScript(s)
  PROVE  IInv'
<1> USE DEF NewScript, Running
<1>1. /\ s \in Obj /\ s \notin Alive /\ Body[s] \cap Alive = {} /\ s \notin Body[s]
      /\ Body[s] \subseteq Consts /\ Body[s] \subseteq Obj
      /\ heap \subseteq Obj /\ chunk \subseteq Obj
  BY Kinds, Disjoint DEF IInv, TypeOK
<1>2. /\ heap' = heap \cup {s} /\ chunk' = chunk \cup Body[s] /\ refs' = refs
      /\ UNCHANGED <<white, gcstate, atomicAt, gray, weak, carried>>
      /\ atomicAt = "off" /\ Roots' = Roots \cup {s}
  BY DEF coVars, Roots
<1>3. \A o \in Obj : color'[o] = IF o = s THEN white
                                 ELSE IF o \in Body[s] THEN BLACK ELSE color[o]
  OBVIOUS
<1>4. unswept' \in {unswept, unswept \cup {s}} /\ s \notin unswept
  BY <1>1 DEF Prepended, IInv, ChunksApart, Alive
<1>5. white # OtherWhite(white)
  BY DEF IInv, TypeOK, OtherWhite, WHITE0, WHITE1
<1>6. Doomed \subseteq heap
  BY SafeSplit DEF IInv
<1>7. \A o \in Obj : o \in Doomed' <=> o \in Doomed
  <2> TAKE o \in Obj
  <2>1. CASE o = s
    BY <1>2, <1>3, <1>5, <1>6, <2>1, <1>1 DEF Doomed, OtherWhite, Alive
  <2>2. CASE o # s /\ o \in heap
    <3>1. color'[o] = color[o] /\ (o \in unswept' <=> o \in unswept)
      BY <1>1, <1>3, <1>4, <2>2 DEF Alive
    <3>2. QED
      BY <1>2, <3>1 DEF Doomed, OtherWhite
  <2>3. CASE o # s /\ o \notin heap
    BY <1>4, <2>3 DEF Doomed, IInv, ChunksApart
  <2>4. QED
    BY <2>1, <2>2, <2>3
<1>8. Kept' = Kept \cup {s} /\ Safe' = Safe \cup {s} \cup Body[s]
  <2>1. Doomed' = Doomed
    BY <1>1, <1>4, <1>6, <1>7, ZenonT(60) DEF Doomed, IInv, ChunksApart
  <2>2. s \notin Doomed /\ Body[s] \cap Doomed = {}
    BY <1>1, <1>6 DEF Alive
  <2>3. QED
    BY <1>2, <2>1, <2>2 DEF Kept, Safe, Alive
<1>9. RootsSafe'
  BY <1>2, <1>8 DEF IInv, RootsSafe
<1>10. RefsSafe'
  <2>1. refs[s] = {}
    BY DEF IInv, ChunksApart
  <2>2. QED
    BY <1>2, <1>8, <2>1 DEF IInv, RefsSafe
<1>11. ChunksApart'
  <2>1. chunk' \cap heap' = {} /\ unswept' \subseteq heap'
    <3>1. chunk \cap heap = {} /\ unswept \subseteq heap
      BY DEF IInv, ChunksApart
    <3>2. s \notin chunk /\ Body[s] \cap heap = {}
      BY <1>1 DEF Alive
    <3>3. QED
      BY <1>1, <1>2, <1>4, <3>1, <3>2
  <2>2. \A o \in chunk' : color'[o] = BLACK
    BY <1>1, <1>2, <1>3 DEF IInv, ChunksApart, Alive
  <2>3. /\ \A r \in heap' \cap Scripts : Body[r] \subseteq chunk'
        /\ \A o \in Scripts \cup Consts : refs'[o] = {}
    BY <1>2 DEF IInv, ChunksApart
  <2>4. QED
    BY <2>1, <2>2, <2>3 DEF ChunksApart
<1>12. \A o \in heap : color'[o] = color[o] /\ o # s
  BY <1>1, <1>3 DEF Alive
<1>13. AtPropagate'
  <2> SUFFICES ASSUME gcstate = "PROPAGATE"
               PROVE  AtPropagate'
    BY <1>2 DEF AtPropagate
  <2>1. color'[s] = white /\ white # GRAY /\ white # BLACK
    BY <1>1, <1>3 DEF IInv, TypeOK, WHITE0, WHITE1, GRAY, BLACK
  <2>2. /\ \A o \in heap' : color'[o] \in {white', GRAY, BLACK}
        /\ gray' = {o \in heap' : color'[o] = GRAY}
    BY <1>2, <1>12, <2>1 DEF IInv, AtPropagate
  <2>3. ASSUME NEW o \in heap', color'[o] = BLACK
        PROVE  Whites(color', Must(o)') = {}
    <3>1. o \in heap /\ color[o] = BLACK
      BY <1>2, <1>12, <2>1, <2>3
    <3>2. refs[o] \subseteq Alive /\ Carriers(o) \subseteq Alive
      BY <3>1, SafeSplit DEF IInv, RefsSafe, Carriers, Alive
    <3>20. /\ Whites(color, Must(o)) = {} /\ Must(o) \subseteq Alive
           /\ Must(o)' = Must(o)
      BY <1>2, <3>1, <3>2 DEF IInv, AtPropagate, Must, Carriers
    <3>3. \A x \in Alive : color'[x] = color[x]
      BY <1>1, <1>3 DEF Alive
    <3>4. QED
      BY <3>20, <3>3 DEF Whites
  <2>4. QED
    BY <2>2, <2>3 DEF AtPropagate
<1>14. AtPause' /\ AtAtomic' /\ AtSweep'
  BY <1>1, <1>2, <1>3, <1>4, <1>12 DEF IInv, AtPause, AtAtomic, AtSweep
<1>15. Carrying'
  BY CarryStep DEF IInv, Carrying, CarriedApart, coVars
<1>16. QED
  BY <1>9, <1>10, <1>11, <1>13, <1>14, <1>15 DEF IInv

-----------------------------------------------------------------------------
(* Every step of a careful program, and every step of the collector, keeps    *)
(* the invariant.                                                          *)
LEMMA SafetyStep == Careful /\ IInv /\ [Next]_vars => IInv'
<1> SUFFICES ASSUME Careful, IInv, [Next]_vars
             PROVE  IInv'
  OBVIOUS
<1>1. TypeOK'
  BY TypeStep DEF IInv
<1> USE <1>1
<1>2. TypeOK /\ Carrying /\ Roots \subseteq Safe /\ weak \subseteq Safe
  BY DEF IInv, RootsSafe
<1>3. ASSUME NEW t \in Tables, NewTable(t) PROVE  IInv'
  <2>1. PICK S \in Fields(stack \ owned) : Allocate(t, S)
    BY <1>3 DEF NewTable
  <2>2. S \in SUBSET Safe /\ t \in Movable
    BY <1>2 DEF Fields, Roots, Movable
  <2>3. chunk' = chunk /\ open' = open /\ carried' = carried
    BY <1>3 DEF NewTable, coVars
  <2>30. t \notin Alive /\ t \notin Upvalues \cup Coroutines
    BY <2>1, KindsAssumption DEF Allocate
  <2>31. Carrying'
    <3>1. \A d \in Coroutines : \A u \in carried[d] :
             /\ u \in stack' /\ u \notin open'
             /\ refs'[u] = refs[u] /\ refs'[d] = refs[d]
      BY <1>2, <2>1, <2>3, <2>30, Kinds DEF Allocate, TypeOK, Carrying, CarriedApart
    <3>2. QED
      BY <1>2, <1>3, <2>1, <3>1, CarryStep DEF NewTable, Allocate, coVars
  <2>4. QED
    BY <2>1, <2>2, <2>3, <2>31, AllocateStep
<1>4. ASSUME NEW t \in Tables, NEW v \in Obj, TableSet(t, v) PROVE  IInv'
  BY <1>4, TableSetStep
<1>5. ASSUME NEW t \in Tables, NEW v \in Obj, TableRemove(t, v) PROVE  IInv'
  <2>1. t \in Movable \ Upvalues /\ t \in Obj /\ t \notin Coroutines
    BY Disjoint, KindsAssumption DEF Movable
  <2>2. /\ \A x \in Obj \ {t} : refs'[x] = refs[x]
        /\ refs'[t] \subseteq refs[t]
    BY <1>5, <2>1 DEF TableRemove, IInv, TypeOK
  <2>3. Roots' \subseteq Safe /\ weak' \subseteq Safe
    BY <1>5, <1>2 DEF TableRemove, Roots, rootVars
  <2>4. /\ UNCHANGED <<heap, chunk, white, gcstate, atomicAt, unswept, carried, markVars>>
        /\ atomicAt = "off"
    BY <1>5 DEF TableRemove, Running, gcVars, coVars
  <2>5. \A d \in Coroutines : \A u \in carried[d] :
           /\ u \in stack' /\ u \notin open'
           /\ refs'[u] = refs[u] /\ refs'[d] = refs[d]
    BY <1>2, <1>5, <2>1, <2>2, Kinds DEF TableRemove, TypeOK, Carrying, CarriedApart, rootVars
  <2>6. Carrying'
    BY <1>2, <1>5, <2>5, CarryStep DEF TableRemove, rootVars, coVars
  <2>7. QED
    BY <2>1, <2>2, <2>3, <2>4, <2>6, ShrinkStep
<1>6. ASSUME NEW p \in Obj, NEW v \in Obj, Load(p, v) PROVE  IInv'
  BY <1>6, LoadStep
<1>7. ASSUME NEW v \in Obj, Drop(v) PROVE  IInv'
  <2>1. Roots' \subseteq Safe /\ weak' \subseteq Safe
    BY <1>7, <1>2 DEF Drop, Roots, rootVars
  <2>2. /\ UNCHANGED <<heapVars, white, gcstate, atomicAt, unswept, markVars>>
        /\ atomicAt = "off" /\ carried' = carried
    BY <1>7 DEF Drop, Running, gcVars, coVars, heapVars
  <2>3. Carrying'
    <3>1. \A d \in Coroutines : v \notin carried[d]
      BY <1>7, <1>2 DEF Drop, Careful, Carrying, CarriedApart
    <3>2. QED
      BY <1>7, <1>2, <3>1, CarryStep DEF Drop, Carrying, CarriedApart, heapVars, coVars
  <2>4. QED
    BY <2>1, <2>2, <2>3, RootsStep
<1>8. ASSUME NEW u \in Upvalues, Capture(u) PROVE  IInv'
  <2>1. u \in Movable /\ {} \in SUBSET Safe
    BY DEF Movable
  <2>2. /\ Allocate(u, {}) /\ chunk' = chunk /\ open' = open \cup {u}
        /\ carried' = carried
    BY <1>8 DEF Capture, coVars
  <2>3. u \notin Alive /\ u \notin Coroutines /\ u \notin stack
    BY <1>2, <2>2, KindsAssumption DEF Allocate, Safe, Roots
  <2>4. \A d \in Coroutines : \A x \in carried[d] : x # u
    BY <1>2, <2>3 DEF Carrying, CarriedApart
  <2>5. \A d \in Coroutines : \A x \in carried[d] :
           /\ x \in stack' /\ x \notin open'
           /\ refs'[x] = refs[x] /\ refs'[d] = refs[d]
    BY <1>2, <2>2, <2>3, <2>4, Kinds DEF Allocate, TypeOK, Carrying, CarriedApart
  <2>6. Carrying'
    BY <1>2, <1>8, <2>2, <2>5, CarryStep DEF Capture, Allocate, coVars
  <2>7. QED
    BY <2>1, <2>2, <2>6, AllocateStep
<1>9. ASSUME NEW u \in Upvalues, CaptureAgain(u) PROVE  IInv'
  <2>1. Roots' \subseteq Safe /\ weak' \subseteq Safe
    BY <1>9, <1>2 DEF CaptureAgain, Roots, rootVars
  <2>2. /\ UNCHANGED <<heapVars, white, gcstate, atomicAt, unswept, markVars>>
        /\ atomicAt = "off" /\ carried' = carried
    BY <1>9 DEF CaptureAgain, Running, gcVars, coVars, heapVars
  <2>3. Carrying'
    BY <1>9, <1>2, CarryStep DEF CaptureAgain, Carrying, CarriedApart, heapVars, rootVars, coVars
  <2>4. QED
    BY <2>1, <2>2, <2>3, RootsStep
<1>10. ASSUME NEW u \in Upvalues, CloseUpvalue(u) PROVE  IInv'
  BY <1>10, CloseUpvalueStep
<1>11. ASSUME NEW u \in Upvalues, SetUpval(u) PROVE  IInv'
  BY <1>11, SetUpvalStep
<1>12. ASSUME NEW c \in Coroutines, NewCoroutine(c) PROVE  IInv'
  <2>1. PICK S \in Fields(stack \ owned) : Allocate(c, S)
    BY <1>12 DEF NewCoroutine
  <2>2. S \in SUBSET Safe /\ c \in Movable
    BY <1>2 DEF Fields, Roots, Movable
  <2>3. c \notin Alive /\ c \notin Upvalues
    BY <2>1, KindsAssumption DEF Allocate
  <2>4. /\ carried[c] = {} /\ c \notin onFrame /\ c \notin spare
    BY <1>2, <2>3 DEF IInv, RefsSafe, Kept, Alive, Safe, Roots
  <2>5. chunk' = chunk /\ open' = open /\ carried' = carried
    BY <1>12, <2>4 DEF NewCoroutine, IInv, TypeOK
  <2>6. FramesAgree'
    BY <1>12, <1>2, <2>1, <2>4, <2>5 DEF NewCoroutine, Allocate, TypeOK, Carrying, FramesAgree
  <2>7. \A d \in Coroutines : \A u \in carried[d] :
           u \in stack' \ open' /\ refs'[u] = refs[u] /\ refs'[d] = refs[d]
    BY <1>2, <2>1, <2>3, <2>4, <2>5, Kinds DEF Allocate, TypeOK, Carrying, CarriedApart
  <2>8. CarriedApart'
    BY <1>2, <2>5, <2>7 DEF Carrying, CarriedApart
  <2>9. QED
    BY <2>1, <2>2, <2>5, <2>6, <2>8, AllocateStep DEF Carrying
<1>13. ASSUME NEW c \in Coroutines, RemakeSpare(c) PROVE  IInv'
  BY <1>13, RemakeSpareStep
<1>14. ASSUME NEW c \in Coroutines, GiveSpare(c) PROVE  IInv'
  <2>1. c \in Movable \ Upvalues /\ c \in Obj
    BY Disjoint, KindsAssumption DEF Movable
  <2>2. /\ \A x \in Obj \ {c} : refs'[x] = refs[x]
        /\ refs'[c] \subseteq refs[c]
    BY <1>14, <2>1 DEF GiveSpare, IInv, TypeOK
  <2>3. Roots' \subseteq Safe /\ weak' \subseteq Safe
    BY <1>14, <1>2 DEF GiveSpare, Roots
  <2>4. /\ UNCHANGED <<heap, chunk, white, gcstate, atomicAt, unswept, carried, markVars>>
        /\ atomicAt = "off"
    BY <1>14 DEF GiveSpare, Running, gcVars, coVars
  <2>5. carried[c] = {} /\ ~(c \in onFrame \ disposing)
    BY <1>2, <1>14 DEF GiveSpare, Carrying, FramesAgree
  <2>6. FramesAgree'
    BY <1>2, <1>14, <2>5 DEF GiveSpare, TypeOK, Carrying, FramesAgree
  <2>7. \A d \in Coroutines : \A u \in carried[d] :
           u \in stack' \ open' /\ refs'[u] = refs[u] /\ refs'[d] = refs[d]
    BY <1>2, <1>14, <2>1, <2>2, <2>5, Kinds DEF GiveSpare, TypeOK, Carrying, CarriedApart
  <2>8. CarriedApart'
    BY <1>2, <1>14, <2>7 DEF GiveSpare, Carrying, CarriedApart
  <2>9. QED
    BY <2>1, <2>2, <2>3, <2>4, <2>6, <2>8, ShrinkStep DEF Carrying
<1>15. ASSUME NEW c \in Coroutines, Resume(c) PROVE  IInv'
  <2>1. /\ Running /\ EnterFrame(c) /\ c \in Roots /\ pending' \subseteq pending
        /\ disposing' \in {disposing, disposing \cup {c}}
        /\ c \in spare => c \in disposing'
    BY <1>2, <1>15 DEF Resume, Roots, Carrying, FramesAgree
  <2>2. QED
    BY <2>1, EnterFrameStep
<1>16. ASSUME NEW c \in Coroutines, Yield(c) PROVE  IInv'
  BY <1>16, YieldStep
<1>17. ASSUME NEW c \in Coroutines, Finish(c) PROVE  IInv'
  <2>1. Roots' \subseteq Safe /\ weak' \subseteq Safe
    BY <1>17, <1>2 DEF Finish, Roots, rootVars
  <2>2. /\ UNCHANGED <<heapVars, white, gcstate, atomicAt, unswept, markVars>>
        /\ atomicAt = "off" /\ carried' = carried
    BY <1>17 DEF Finish, Running, gcVars, coVars, heapVars
  <2>3. Carrying'
    <3>1. \A d \in Coroutines : carried[d] # {} => d # c
      BY <1>17, <1>2 DEF Finish, Carrying, FramesAgree
    <3>2. FramesAgree'
      BY <1>17, <1>2, <3>1 DEF Finish, Carrying, FramesAgree, TypeOK
    <3>3. CarriedApart'
      BY <1>17, <1>2 DEF Finish, Carrying, CarriedApart, heapVars
    <3>4. QED
      BY <3>2, <3>3 DEF Carrying
  <2>4. QED
    BY <2>1, <2>2, <2>3, RootsStep
<1>18. ASSUME NEW c \in Coroutines, Dispose(c) PROVE  IInv'
  <2>1. Running /\ c \in Roots
    BY <1>18 DEF Dispose, Roots
  <2>2. CASE /\ EnterFrame(c) /\ UNCHANGED pending
             /\ disposing' = disposing \cup {c}
    BY <2>1, <2>2, EnterFrameStep
  <2>3. CASE /\ UNCHANGED <<heapVars, gcVars, markVars, rootVars, weak, carried>>
             /\ costate[c] = "FRESH" /\ costate' = [costate EXCEPT ![c] = "DONE"]
    <3>1. /\ UNCHANGED <<heapVars, white, gcstate, atomicAt, unswept, markVars>>
          /\ atomicAt = "off" /\ carried' = carried
          /\ Roots' \subseteq Safe /\ weak' \subseteq Safe
      BY <1>2, <2>1, <2>3 DEF Running, gcVars, rootVars, Roots
    <3>2. carried[c] = {} /\ ~(c \in onFrame \ disposing)
      BY <1>2, <2>3 DEF Carrying, FramesAgree
    <3>3. FramesAgree'
      BY <1>2, <2>3, <3>2 DEF TypeOK, Carrying, FramesAgree, rootVars
    <3>4. CarriedApart'
      BY <1>2, <2>3 DEF Carrying, CarriedApart, rootVars, heapVars
    <3>5. QED
      BY <3>1, <3>3, <3>4, RootsStep DEF Carrying
  <2>4. QED
    BY <1>18, <2>2, <2>3 DEF Dispose
<1>19. ASSUME NEW c \in Coroutines, TakePending(c) PROVE  IInv'
  <2>1. /\ Running /\ EnterFrame(c) /\ c \in Roots /\ pending' \subseteq pending
        /\ disposing' = disposing \cup {c}
    BY <1>19 DEF TakePending, Roots
  <2>2. QED
    BY <2>1, EnterFrameStep
<1>20. ASSUME NEW v \in Obj, WeakPut(v) PROVE  IInv'
  <2>1. Roots' \subseteq Safe /\ weak' \subseteq Safe
    BY <1>20, <1>2 DEF WeakPut, Roots, rootVars
  <2>2. /\ UNCHANGED <<heapVars, white, gcstate, atomicAt, unswept, markVars>>
        /\ atomicAt = "off" /\ carried' = carried
    BY <1>20 DEF WeakPut, Running, gcVars, coVars, heapVars
  <2>3. Carrying'
    BY <1>20, <1>2, CarryStep DEF WeakPut, Carrying, CarriedApart, heapVars, rootVars, coVars
  <2>4. QED
    BY <2>1, <2>2, <2>3, RootsStep
<1>21. ASSUME NEW v \in Obj, WeakGet(v) PROVE  IInv'
  BY <1>21, WeakGetStep
<1>22. ASSUME NEW v \in Obj, WeakForget(v) PROVE  IInv'
  <2>1. Roots' \subseteq Safe /\ weak' \subseteq Safe
    BY <1>22, <1>2 DEF WeakForget, Roots, rootVars
  <2>2. /\ UNCHANGED <<heapVars, white, gcstate, atomicAt, unswept, markVars>>
        /\ atomicAt = "off" /\ carried' = carried
    BY <1>22 DEF WeakForget, Running, gcVars, coVars, heapVars
  <2>3. Carrying'
    BY <1>22, <1>2, CarryStep DEF WeakForget, Carrying, CarriedApart, heapVars, rootVars, coVars
  <2>4. QED
    BY <2>1, <2>2, <2>3, RootsStep
<1>23. ASSUME NEW s \in Scripts, NewScript(s) PROVE  IInv'
  BY <1>23, NewScriptStep
<1>24. ASSUME CollectCall PROVE  IInv'
  <2>1. Roots' \subseteq Safe /\ weak' \subseteq Safe
    BY <1>24, <1>2 DEF CollectCall, Roots, rootVars
  <2>2. /\ UNCHANGED <<heapVars, white, gcstate, atomicAt, unswept, markVars>>
        /\ atomicAt = "off" /\ carried' = carried
    BY <1>24 DEF CollectCall, Running, gcVars, coVars, heapVars
  <2>3. Carrying'
    BY <1>24, <1>2, CarryStep DEF CollectCall, Carrying, CarriedApart, heapVars, rootVars, coVars
  <2>4. QED
    BY <2>1, <2>2, <2>3, RootsStep
<1>25. ASSUME CollectReturn PROVE  IInv'
  <2>1. Roots' \subseteq Safe /\ weak' \subseteq Safe
    BY <1>25, <1>2 DEF CollectReturn, Roots, rootVars
  <2>2. /\ UNCHANGED <<heapVars, white, gcstate, atomicAt, unswept, markVars>>
        /\ atomicAt = "off" /\ carried' = carried
    BY <1>25 DEF CollectReturn, coVars, IInv, AtPause
  <2>3. Carrying'
    BY <1>25, <1>2, CarryStep DEF CollectReturn, Carrying, CarriedApart, heapVars, rootVars, coVars
  <2>4. QED
    BY <2>1, <2>2, <2>3, RootsStep
<1>26. ASSUME StartCycle PROVE  IInv'
  BY <1>26, StartStep
<1>27. ASSUME NEW o \in Obj, PropagateOne(o) PROVE  IInv'
  BY <1>27, PropagateStep
<1>28. ASSUME AtomicRoots PROVE  IInv'
  BY <1>28, AtomicRootsStep
<1>29. ASSUME AtomicHold PROVE  IInv'
  BY <1>29, AtomicHoldStep
<1>30. ASSUME AtomicSwap PROVE  IInv'
  BY <1>30, AtomicSwapStep
<1>31. ASSUME NEW o \in Obj, SweepKeep(o) PROVE  IInv'
  BY <1>31, SweepKeepStep
<1>32. ASSUME NEW o \in Obj, SweepFree(o) PROVE  IInv'
  BY <1>32, SweepFreeStep
<1>33. ASSUME SweepNothing PROVE  IInv'
  BY <1>33, SweepNothingStep
<1>34. ASSUME UNCHANGED vars PROVE  IInv'
  BY <1>34 DEF vars, heapVars, gcVars, markVars, rootVars, coVars, IInv, TypeOK,
    ChunksApart, Carrying, FramesAgree, CarriedApart, RootsSafe, RefsSafe, AtPause,
    AtPropagate, AtAtomic, AtSweep, Must, Carriers, Roots, Safe, Kept, Doomed, Alive, Whites, OtherWhite
<1>35. QED
  BY <1>3, <1>4, <1>5, <1>6, <1>7, <1>8, <1>9, <1>10, <1>11, <1>12, <1>13, <1>14, <1>15, <1>16, <1>17, <1>18, <1>19, <1>20, <1>21, <1>22, <1>23, <1>24, <1>25, <1>26, <1>27, <1>28, <1>29, <1>30, <1>31, <1>32, <1>33, <1>34 DEF Next, Program,
    Collector, Sweep, ProgramOnTable, ProgramOnUpvalue, ProgramOnCoroutine,
    ProgramOnValue

LEMMA Start == Init => IInv
<1> SUFFICES ASSUME Init
             PROVE  IInv
  OBVIOUS
<1>1. TypeOK
  BY Kinds DEF Init, TypeOK, WHITE0, WHITE1, BLACK
<1>2. ChunksApart /\ Carrying
  BY Kinds DEF Init, ChunksApart, Carrying, FramesAgree, CarriedApart
<1>3. RootsSafe /\ RefsSafe
  BY DEF Init, RootsSafe, RefsSafe, Roots, Kept
<1>4. AtPause /\ AtPropagate /\ AtAtomic /\ AtSweep
  BY DEF Init, AtPause, AtPropagate, AtAtomic, AtSweep
<1>5. QED
  BY <1>1, <1>2, <1>3, <1>4 DEF IInv

LEMMA Safety == Careful /\ Spec => []IInv
<1> SUFFICES ASSUME Careful
             PROVE  Spec => []IInv
  OBVIOUS
<1>1. Init => IInv
  BY Start
<1>2. IInv /\ [Next]_vars => IInv'
  BY SafetyStep
<1>3. QED
  BY <1>1, <1>2, PTL DEF Spec

LEMMA InvariantImplies ==
  IInv => /\ NoDangling /\ WeakIsLive /\ CarriedIsLive /\ CheckInvariant
          /\ ~MaySuspendCaptured => TriColour
<1> SUFFICES ASSUME IInv
             PROVE  /\ NoDangling /\ WeakIsLive /\ CarriedIsLive /\ CheckInvariant
                    /\ ~MaySuspendCaptured => TriColour
  OBVIOUS
<1>1. NoDangling
  BY SafeSplit DEF IInv, RootsSafe, RefsSafe, ChunksApart, NoDangling, Safe, Kept
<1>2. WeakIsLive
  BY DEF IInv, RootsSafe, WeakIsLive, Safe
<1>3. CarriedIsLive
  <2>1. \A c \in Coroutines : carried[c] \subseteq Roots \cap Upvalues
    BY DEF IInv, TypeOK, Carrying, CarriedApart, Roots
  <2>2. \A u \in Upvalues : u \in Roots => u \in Kept
    BY SafeSplit DEF IInv, RootsSafe, Movable
  <2>3. QED
    BY <2>1, <2>2 DEF CarriedIsLive, Kept
<1>4. CheckInvariant
  <2> SUFFICES ASSUME atomicAt = "held", gray = {},
                      NEW o \in heap, color[o] = BLACK
               PROVE  Whites(color, Children(o)) = {}
    BY DEF CheckInvariant
  <2>1. gcstate = "PROPAGATE" /\ o \in Obj
    BY Kinds DEF IInv, AtAtomic, TypeOK
  <2>2. Whites(color, Must(o)) = {} /\ Children(o) = refs[o] \cup Carriers(o)
    BY <2>1, MustFacts DEF IInv, AtPropagate
  <2>3. CASE Carriers(o) = {}
    BY <2>2, <2>3 DEF Must
  <2>4. CASE Carriers(o) # {}
    <3>1. PICK c \in Coroutines : o \in carried[c]
      BY <2>4 DEF Carriers
    <3>2. Must(o) = Carriers(o) /\ c \in Carriers(o)
      BY <2>4, <3>1 DEF Must, Carriers
    <3>3. c \in heap /\ c \notin Upvalues /\ c \in Obj
      BY <3>1, Kinds, KindsAssumption DEF IInv, RefsSafe, Kept
    <3>4. color[c] \in {white, GRAY, BLACK} /\ ~(color[c] <= WHITE1) /\ color[c] # GRAY
      BY <2>1, <2>2, <3>2, <3>3 DEF Whites, IInv, AtPropagate
    <3>5. color[c] = BLACK
      BY <3>4 DEF IInv, TypeOK, WHITE0, WHITE1
    <3>6. Whites(color, refs[c]) = {}
      BY <2>1, <3>3, <3>5, MustFacts DEF IInv, AtPropagate
    <3>7. refs[o] \subseteq refs[c]
      BY <3>1 DEF IInv, Carrying, CarriedApart
    <3>8. QED
      BY <2>2, <3>2, <3>6, <3>7 DEF Whites
  <2>5. QED
    BY <2>3, <2>4
<1>5. ~MaySuspendCaptured => TriColour
  <2> SUFFICES ASSUME ~MaySuspendCaptured
               PROVE  TriColour
    OBVIOUS
  <2>1. \A o \in heap : o \in Obj /\ Carriers(o) = {}
    BY Kinds DEF IInv, TypeOK, Carrying, CarriedApart, Carriers
  <2>2. \A o \in heap : Children(o) = Must(o)
    BY <2>1, MustFacts DEF IInv, Must
  <2>3. QED
    BY <2>2 DEF IInv, AtPropagate, TriColour
<1>6. QED
  BY <1>1, <1>2, <1>3, <1>4, <1>5

(* gc.c: in a careful program no register, no frame, no kept object and no *)
(* queued coroutine ever names memory the sweep has taken or will take.    *)
THEOREM NothingReadIsFreed == Careful /\ Spec => []NoDangling
<1>1. IInv => NoDangling
  BY InvariantImplies
<1>2. QED
  BY <1>1, Safety, PTL

(* gc.h: while marking, no black object refers to a white one, and the     *)
(* gray list is the set of gray objects: the barriers are all in place.    *)
(* A program that suspends captures is left out: between a yield and the   *)
(* end of the marking a black capture may keep a white value in its cell,  *)
(* which its coroutine answers for (Must).                                 *)
THEOREM MarkingInOrder == Careful /\ ~MaySuspendCaptured /\ Spec => []TriColour
<1>1. IInv /\ ~MaySuspendCaptured => TriColour
  BY InvariantImplies
<1>2. Careful /\ Spec => []IInv
  BY Safety
<1>3. CASE MaySuspendCaptured
  BY <1>3
<1>4. CASE ~MaySuspendCaptured
  <2>1. IInv => TriColour
    BY <1>1, <1>4
  <2>2. QED
    BY <1>2, <2>1, PTL
<1>5. QED
  BY <1>3, <1>4

(* gc.c, check_invariant: what the collector asserts once the marking is   *)
(* over holds of every careful program, the ones that yield^ while a       *)
(* closure shares a local among them.                                      *)
THEOREM MarkingEndsInOrder == Careful /\ Spec => []CheckInvariant
<1>1. IInv => CheckInvariant
  BY InvariantImplies
<1>2. QED
  BY <1>1, Safety, PTL

(* vm.c, reattach_upvalues: the list of captures a resumed coroutine walks *)
(* holds only captures that are allocated and are going to stay.           *)
THEOREM CarriedStaysLive == Careful /\ Spec => []CarriedIsLive
<1>1. IInv => CarriedIsLive
  BY InvariantImplies
<1>2. QED
  BY <1>1, Safety, PTL

(* gc.c, atomic: the weak cache, the shared built-ins and the member       *)
(* caches never answer with an object the sweep frees.                     *)
THEOREM WeakNeverDangles == Careful /\ Spec => []WeakIsLive
<1>1. IInv => WeakIsLive
  BY InvariantImplies
<1>2. QED
  BY <1>1, Safety, PTL

-----------------------------------------------------------------------------
(* What is freed is what the swap doomed.                                  *)
LEMMA FreedWasDoomed ==
  ASSUME IInv, [Next]_vars
  PROVE  heap \ heap' \subseteq Doomed
<1>1. CASE \E o \in Obj : SweepFree(o)
  BY <1>1 DEF SweepFree, Doomed
<1>2. CASE UNCHANGED heap
  BY <1>2
<1>4. CASE \E s \in Scripts : NewScript(s)
  BY <1>4 DEF NewScript
<1>5. CASE \E t \in Tables : NewTable(t)
  BY <1>5 DEF NewTable, Allocate
<1>6. CASE \E u \in Upvalues : Capture(u)
  BY <1>6 DEF Capture, Allocate
<1>7. CASE \E c \in Coroutines : NewCoroutine(c)
  BY <1>7 DEF NewCoroutine, Allocate
<1> USE DEF heapVars
<1>8. CASE \E t \in Tables, v \in Obj : TableSet(t, v) \/ TableRemove(t, v)
  BY <1>8 DEF TableSet, TableRemove
<1>9. CASE \E u \in Upvalues : CaptureAgain(u) \/ CloseUpvalue(u) \/ SetUpval(u)
  BY <1>9 DEF CaptureAgain, CloseUpvalue, SetUpval
<1>10. CASE \E c \in Coroutines :
              \/ RemakeSpare(c) \/ GiveSpare(c) \/ Resume(c) \/ Yield(c)
              \/ Finish(c) \/ Dispose(c) \/ TakePending(c)
  BY <1>10 DEF RemakeSpare, GiveSpare, Resume, Yield, YieldBarrier, Finish, Dispose,
    TakePending, EnterFrame
<1>11. CASE \E v \in Obj : ProgramOnValue(v)
  BY <1>11 DEF ProgramOnValue, Drop, WeakPut, WeakGet, WeakForget, Load
<1>12. CASE \/ CollectCall \/ CollectReturn \/ StartCycle \/ AtomicRoots
            \/ AtomicHold \/ AtomicSwap \/ SweepNothing
            \/ \E o \in Obj : PropagateOne(o) \/ SweepKeep(o)
  BY <1>12 DEF CollectCall, CollectReturn, StartCycle, AtomicRoots, AtomicHold,
    AtomicSwap, SweepNothing, PropagateOne, SweepKeep
<1>13. QED
  BY <1>1, <1>2, <1>4, <1>5, <1>6, <1>7, <1>8, <1>9, <1>10, <1>11, <1>12
     DEF Next, Program, Collector, Sweep, ProgramOnTable, ProgramOnUpvalue,
         ProgramOnCoroutine, vars

(* What is safe is closed under everything the machine can follow, so      *)
(* nothing reachable is outside it.                                        *)
LEMMA ReachableIsSafe ==
  ASSUME IInv
  PROVE  ReachableFrom(Roots) \subseteq Safe
<1> DEFINE edges(o) == Children(o) \cup (IF o \in Scripts THEN Body[o] ELSE {})
           closed(T) == Roots \subseteq T /\ \A o \in T : edges(o) \subseteq T
<1>1. Safe = Kept \cup chunk /\ Safe \in SUBSET Obj /\ Safe \cap Scripts \subseteq Kept
  BY SafeSplit DEF IInv
<1>2. ASSUME NEW o \in Safe
      PROVE  edges(o) \subseteq Safe
  <2>1. Children(o) = refs[o] \cup Carriers(o)
    BY <1>1, MustFacts DEF IInv
  <2>2. refs[o] \subseteq Safe /\ Carriers(o) \subseteq Safe
    BY <1>1, Kinds DEF IInv, RefsSafe, ChunksApart, TypeOK, Carriers
  <2>3. o \in Scripts => Body[o] \subseteq Safe
    BY <1>1 DEF IInv, ChunksApart, Kept
  <2>4. QED
    BY <2>1, <2>2, <2>3
<1>3. closed(Safe)
  BY <1>2 DEF IInv, RootsSafe
<1>4. ReachableFrom(Roots) = {o \in Obj : \A T \in SUBSET Obj : closed(T) => o \in T}
  BY DEF ReachableFrom
<1> HIDE DEF closed
<1>5. QED
  BY <1>1, <1>3, <1>4

(* gc.c, sweep_some: in a careful program the sweep frees nothing the program *)
(* could still reach when it was freed.                                    *)
THEOREM NothingReachableIsFreed == Careful /\ Spec => OnlyGarbageFreed
<1>1. IInv /\ [Next]_vars
        => [\A o \in heap \ heap' : o \notin ReachableFrom(Roots)]_vars
  BY FreedWasDoomed, ReachableIsSafe DEF Safe
<1>2. Careful /\ Spec => []IInv
  BY Safety
<1>3. QED
  BY <1>1, <1>2, PTL DEF Spec, OnlyGarbageFreed

-----------------------------------------------------------------------------
(* Cleanups.  Once the coroutines that owe some have been held back, none  *)
(* that is left white owes any, and so none that is doomed does.           *)
Owing(c) == costate[c] = "SUSPENDED" /\ c \in owes

CleanupsHeld ==
  /\ atomicAt = "held" =>
       \A c \in heap \cap Coroutines : color[c] <= WHITE1 => ~Owing(c)
  /\ \A c \in Doomed \cap Coroutines : ~Owing(c)

(* The program can change neither what is doomed nor what it owes: it      *)
(* reaches none of it, and what it makes is not doomed.                    *)
LEMMA ProgramLeavesDoomed ==
  ASSUME IInv, CleanupsHeld, atomicAt = "off", atomicAt' = "off",
         UNCHANGED <<gcstate, white>>,
         unswept' \subseteq unswept \cup (Obj \ heap),
         \A o \in Obj : color'[o] = color[o] \/ color'[o] = white
                        \/ gcstate = "PROPAGATE" \/ color'[o] = BLACK,
         \A o \in Obj \ heap : color'[o] = white \/ o \notin unswept',
         \A c \in Coroutines \cap Doomed : Owing(c)' => Owing(c)
  PROVE  CleanupsHeld'
<1>1. white # OtherWhite(white) /\ OtherWhite(white) # BLACK
  BY DEF IInv, TypeOK, OtherWhite, WHITE0, WHITE1, BLACK
<1>2. ASSUME NEW o \in Doomed'
      PROVE  o \in Doomed
  <2>1. gcstate = "SWEEP" /\ o \in unswept' /\ color'[o] = OtherWhite(white) /\ o \in Obj
    BY <1>2 DEF Doomed, OtherWhite, IInv, ChunksApart, TypeOK
  <2>2. o \in heap /\ o \in unswept /\ color'[o] = color[o]
    BY <1>1, <2>1
  <2>3. QED
    BY <2>1, <2>2 DEF Doomed
<1>3. QED
  BY <1>2 DEF CleanupsHeld

LEMMA CleanupStep == Careful /\ IInv /\ CleanupsHeld /\ [Next]_vars => CleanupsHeld'
<1> SUFFICES ASSUME Careful, IInv, CleanupsHeld, [Next]_vars
             PROVE  CleanupsHeld'
  OBVIOUS
<1>1. TypeOK'
  BY TypeStep DEF IInv
<1>2. /\ \A c \in Coroutines : c \in Roots => c \notin Doomed
      /\ unswept \subseteq heap /\ Doomed \subseteq heap
      /\ color \in [Obj -> WHITE0..BLACK] /\ Coroutines \subseteq Obj
  BY SafeSplit, Kinds DEF IInv, RootsSafe, Safe, ChunksApart, TypeOK
<1> USE DEF heapVars, gcVars, markVars, rootVars, coVars, Owing
<1>3. ASSUME Running, UNCHANGED <<gcstate, white, atomicAt, unswept>>,
             UNCHANGED color \/ gcstate = "PROPAGATE",
             \A c \in Coroutines \cap Doomed : Owing(c)' => Owing(c)
      PROVE  CleanupsHeld'
  BY <1>2, <1>3, ProgramLeavesDoomed DEF Running
<1>4. ASSUME NEW o \in Obj, NEW S, Allocate(o, S),
             \A c \in Coroutines \ {o} : Owing(c)' => Owing(c)
      PROVE  CleanupsHeld'
  <2>1. o \notin heap /\ o \notin Doomed /\ color' = [color EXCEPT ![o] = white]
        /\ unswept' \in {unswept, unswept \cup {o}}
    BY <1>2, <1>4 DEF Allocate, Alive, Prepended
  <2>2. atomicAt = "off" /\ UNCHANGED <<gcstate, white, atomicAt>>
    BY <1>4 DEF Allocate, Running
  <2>3. /\ \A x \in Obj : color'[x] = IF x = o THEN white ELSE color[x]
        /\ \A c \in Coroutines \cap Doomed : Owing(c)' => Owing(c)
        /\ unswept' \subseteq unswept \cup (Obj \ heap)
        /\ \A x \in Obj \ heap : color'[x] = white \/ x \notin unswept'
    BY <1>2, <1>4, <2>1
  <2>4. QED
    BY <2>2, <2>3, ProgramLeavesDoomed
<1>5. CASE \E t \in Tables : NewTable(t)
  BY <1>4, <1>5, Kinds DEF NewTable
<1>6. CASE \E u \in Upvalues : Capture(u)
  BY <1>4, <1>6, Kinds DEF Capture
<1>7. CASE \E c \in Coroutines : NewCoroutine(c)
  <2>1. PICK c \in Coroutines : NewCoroutine(c)
    BY <1>7
  <2>2. \A d \in Coroutines \ {c} : Owing(d)' => Owing(d)
    BY <2>1 DEF NewCoroutine, IInv, TypeOK
  <2>3. QED
    BY <1>2, <1>4, <2>1, <2>2 DEF NewCoroutine
<1>8. CASE \E t \in Tables, v \in Obj : TableSet(t, v) \/ TableRemove(t, v)
  BY <1>3, <1>8 DEF TableSet, TableRemove, BarrierBack, Running
<1>9. CASE \E u \in Upvalues : CaptureAgain(u) \/ CloseUpvalue(u) \/ SetUpval(u)
  BY <1>3, <1>9 DEF CaptureAgain, CloseUpvalue, SetUpval, Barrier, Running
<1>10. CASE \E v \in Obj : ProgramOnValue(v)
  BY <1>3, <1>10 DEF ProgramOnValue, Drop, WeakPut, WeakGet, WeakForget, Load,
    Running
<1>11. ASSUME NEW c \in Coroutines, RemakeSpare(c)
       PROVE  CleanupsHeld'
  <2>1. c \notin Doomed /\ c \in heap
    <3>1. c \in Roots
      BY <1>11 DEF RemakeSpare, Roots
    <3>2. QED
      BY <1>2, <3>1, SafeSplit DEF IInv, RootsSafe, Movable, Kept
  <2>2. \A d \in Coroutines \cap Doomed : Owing(d)' => Owing(d)
    BY <1>11, <2>1 DEF RemakeSpare, IInv, TypeOK
  <2>3. /\ atomicAt = "off" /\ UNCHANGED <<gcstate, white, atomicAt, unswept>>
        /\ \A x \in Obj : color'[x] = color[x] \/ color'[x] = white
    BY <1>2, <1>11 DEF RemakeSpare, Running
  <2>4. QED
    BY <1>2, <2>2, <2>3, ProgramLeavesDoomed
<1>12. ASSUME NEW c \in Coroutines,
              \/ GiveSpare(c) \/ Resume(c) \/ Yield(c)
              \/ Finish(c) \/ Dispose(c) \/ TakePending(c)
       PROVE  CleanupsHeld'
  <2>1. c \notin Doomed
    <3>1. c \in Roots
      BY <1>12 DEF GiveSpare, Resume, Yield, YieldBarrier, Finish, Dispose, TakePending, Roots
    <3>2. QED
      BY <1>2, <3>1
  <2>2. \A d \in Coroutines \ {c} : Owing(d)' => Owing(d)
    BY <1>12 DEF GiveSpare, Resume, Yield, YieldBarrier, Finish, Dispose, TakePending,
      EnterFrame, IInv, TypeOK
  <2>3. /\ Running /\ UNCHANGED <<gcstate, white, atomicAt, unswept>>
        /\ UNCHANGED color \/ gcstate = "PROPAGATE"
    BY <1>12 DEF GiveSpare, Resume, Yield, YieldBarrier, Finish, Dispose, TakePending,
      EnterFrame, Running
  <2>4. QED
    BY <1>3, <2>1, <2>2, <2>3
<1>13. CASE \E s \in Scripts : NewScript(s)
  <2>1. PICK s \in Scripts : NewScript(s)
    BY <1>13
  <2>2. /\ s \notin heap /\ atomicAt = "off" /\ UNCHANGED <<gcstate, white, atomicAt>>
        /\ unswept' \in {unswept, unswept \cup {s}} /\ s \in Obj
        /\ \A x \in Obj : color'[x] \in {color[x], white, BLACK}
        /\ color'[s] = white
        /\ \A c \in Coroutines : Owing(c)' => Owing(c)
    BY <2>1, Kinds DEF NewScript, Alive, Running, Prepended
  <2>3. QED
    BY <1>2, <2>2, ProgramLeavesDoomed
<1>14. CASE CollectCall \/ CollectReturn \/ UNCHANGED vars
  BY <1>14 DEF CollectCall, CollectReturn, vars, CleanupsHeld, Doomed, OtherWhite
<1>15. CASE StartCycle \/ AtomicRoots
  <2>1. atomicAt' # "held" /\ gcstate' # "SWEEP"
    BY <1>15 DEF StartCycle, AtomicRoots, IInv, AtPause
  <2>2. QED
    BY <2>1 DEF CleanupsHeld, Doomed
<1>16. ASSUME NEW o \in Obj, PropagateOne(o)
       PROVE  CleanupsHeld'
  <2>1. /\ gcstate' = "PROPAGATE" /\ atomicAt' = atomicAt
        /\ UNCHANGED <<heap, costate, owes>>
    BY <1>16 DEF PropagateOne
  <2>2. \A x \in Obj : color'[x] <= WHITE1 => color[x] <= WHITE1
    BY <1>2, <1>16 DEF PropagateOne, Mark, WHITE1, GRAY, BLACK
  <2>3. QED
    BY <1>2, <2>1, <2>2 DEF CleanupsHeld, Doomed
<1>17. CASE AtomicHold
  <2> DEFINE held == {c \in Whites(color, heap) \cap Coroutines :
                        costate[c] = "SUSPENDED" /\ c \in owes}
  <2>1. /\ gcstate' # "SWEEP" /\ UNCHANGED <<heap, costate, owes>>
        /\ Mark(color, gray, held)
    BY <1>17 DEF AtomicHold, IInv, AtAtomic
  <2>2. ASSUME NEW c \in heap \cap Coroutines, color'[c] <= WHITE1
        PROVE  ~Owing(c)
    BY <1>2, <2>1, <2>2 DEF Mark, Whites, WHITE1, GRAY
  <2>3. QED
    BY <2>1, <2>2 DEF CleanupsHeld, Doomed
<1>18. CASE AtomicSwap
  <2>1. /\ Doomed' \subseteq heap /\ \A o \in Doomed' : color[o] <= WHITE1
        /\ UNCHANGED <<costate, owes>> /\ atomicAt' = "off" /\ atomicAt = "held"
    BY <1>1, <1>18 DEF AtomicSwap, Doomed, OtherWhite, TypeOK, WHITE0, WHITE1
  <2>2. QED
    BY <2>1 DEF CleanupsHeld
<1>19. ASSUME NEW o \in Obj, SweepKeep(o) \/ SweepFree(o)
       PROVE  CleanupsHeld'
  <2>1. /\ atomicAt' = "off" /\ white' = white /\ gcstate = "SWEEP"
        /\ \A c \in Coroutines : Owing(c)' => Owing(c)
    BY <1>19 DEF SweepKeep, SweepFree, AfterSweeping, IInv, AtSweep, TypeOK
  <2>2. Doomed' \subseteq Doomed
    <3>1. white # OtherWhite(white)
      BY DEF IInv, TypeOK, OtherWhite, WHITE0, WHITE1
    <3>2. ASSUME NEW x \in Doomed'
          PROVE  x \in Doomed
      <4>1. x \in unswept' /\ color'[x] = OtherWhite(white) /\ x \in Obj
        BY <1>1, <2>1, <3>2 DEF Doomed, OtherWhite, TypeOK
      <4>2. CASE SweepKeep(o)
        BY <1>2, <2>1, <3>1, <4>1, <4>2 DEF SweepKeep, AfterSweeping, Doomed
      <4>3. CASE SweepFree(o)
        <5> DEFINE given == IF o \in Scripts THEN Body[o] ELSE {}
        <5>1. x \in (unswept \cup given) \ {o}
          BY <4>1, <4>3 DEF SweepFree, AfterSweeping, Prepended
        <5>2. color'[x] = IF x \in given THEN white ELSE color[x]
          BY <4>1, <4>3, <5>1 DEF SweepFree
        <5>3. QED
          BY <2>1, <3>1, <4>1, <5>1, <5>2 DEF Doomed
      <4>4. QED
        BY <1>19, <4>2, <4>3
    <3>3. QED
      BY <3>2
  <2>3. QED
    BY <2>1, <2>2 DEF CleanupsHeld
<1>20. CASE SweepNothing
  BY <1>20 DEF SweepNothing, AfterSweeping, CleanupsHeld, Doomed, IInv, AtSweep
<1>21. QED
  BY <1>5, <1>6, <1>7, <1>8, <1>9, <1>10, <1>11, <1>12, <1>13, <1>14, <1>15,
     <1>16, <1>17, <1>18, <1>19, <1>20
     DEF Next, Program, Collector, Sweep, ProgramOnTable, ProgramOnUpvalue,
         ProgramOnCoroutine

(* gc.c, hold_pending_disposals: in a careful program no coroutine is freed   *)
(* while it is suspended and still owes cleanups.                          *)
THEOREM EveryCleanupIsHeld == Careful /\ Spec => NoCleanupLost
<1> SUFFICES ASSUME Careful
             PROVE  Spec => NoCleanupLost
  OBVIOUS
<1>1. Init => CleanupsHeld
  BY DEF Init, CleanupsHeld, Doomed
<1>2. IInv /\ CleanupsHeld /\ [Next]_vars => CleanupsHeld'
  BY CleanupStep
<1>3. IInv /\ CleanupsHeld /\ [Next]_vars
        => [\A c \in (heap \ heap') \cap Coroutines :
              ~(costate[c] = "SUSPENDED" /\ c \in owes)]_vars
  BY FreedWasDoomed DEF CleanupsHeld, Owing
<1>4. Spec => []IInv
  BY Safety
<1>5. QED
  BY <1>1, <1>2, <1>3, <1>4, PTL DEF Spec, NoCleanupLost
-----------------------------------------------------------------------------
(* Completeness.  What the program can get to, and by which steps.         *)
Edges(o) == Children(o) \cup (IF o \in Scripts THEN Body[o] ELSE {})

Reached == ReachableFrom(Roots)

(* Once the second cycle of a full collection has started, what is marked  *)
(* is what the program can get to, and so, from the swap on, is what is    *)
(* kept.  The constants of a script that is freed on the way are the       *)
(* exception: they come to the heap in the colour of the living.           *)
Gathered ==
  collecting = 2 =>
    IF gcstate = "PROPAGATE"
    THEN \A o \in heap : color[o] \in {GRAY, BLACK} => o \in Reached
    ELSE Kept \ Consts \subseteq Reached

(* The least set around the roots that is closed under the edges.          *)
LEMMA ReachedFacts ==
  ASSUME TypeOK
  PROVE  /\ Reached \subseteq Obj
         /\ Roots \subseteq Reached
         /\ \A x \in Reached : Edges(x) \subseteq Reached
         /\ \A T \in SUBSET Obj :
              Roots \subseteq T /\ (\A x \in T : Edges(x) \subseteq T) => Reached \subseteq T
<1> DEFINE closed(T) == Roots \subseteq T /\ \A x \in T : Edges(x) \subseteq T
<1>1. Reached = {o \in Obj : \A T \in SUBSET Obj : closed(T) => o \in T}
  BY DEF Reached, ReachableFrom, Edges
<1>2. Roots \subseteq Obj
  BY Kinds DEF Roots, TypeOK
<1>3. \A x \in Obj : Edges(x) \subseteq Obj
  BY Kinds DEF Edges, Children, TypeOK
<1>4. Roots \subseteq Reached
  BY <1>1, <1>2
<1>5. ASSUME NEW x \in Reached
      PROVE  Edges(x) \subseteq Reached
  <2> SUFFICES ASSUME NEW y \in Edges(x), NEW T \in SUBSET Obj, closed(T)
               PROVE  y \in T
    BY <1>1, <1>3
  <2>1. x \in T
    BY <1>1
  <2>2. QED
    BY <2>1
<1>6. \A T \in SUBSET Obj : closed(T) => Reached \subseteq T
  <2> HIDE DEF closed
  <2>1. QED
    BY <1>1
<1>7. QED
  BY <1>1, <1>4, <1>5, <1>6

(* A step that takes no root away, and changes nothing that can be got to, *)
(* leaves everything that can be got to as it is.                          *)
LEMMA StillReached ==
  ASSUME TypeOK, TypeOK', Roots \subseteq Roots',
         \A x \in Reached : Edges(x)' = Edges(x)
  PROVE  Reached \subseteq Reached' /\ Roots' \subseteq Reached'
<1> DEFINE closed(T) == Roots' \subseteq T /\ \A x \in T : Edges(x)' \subseteq T
<1>1. Reached' = {o \in Obj : \A T \in SUBSET Obj : closed(T) => o \in T}
  BY DEF Reached, ReachableFrom, Edges
<1>2. ASSUME NEW T \in SUBSET Obj, closed(T)
      PROVE  Reached \subseteq T
  <2> DEFINE both == T \cap Reached
  <2>1. both \in SUBSET Obj /\ Roots \subseteq both
    BY <1>2, ReachedFacts
  <2>2. ASSUME NEW x \in both
        PROVE  Edges(x) \subseteq both
    BY <1>2, ReachedFacts
  <2>3. Reached \subseteq both
    <3> HIDE DEF both
    <3>1. QED
      BY <2>1, <2>2, ReachedFacts
  <2>4. QED
    BY <2>3
<1>3. Reached \subseteq Obj
  BY ReachedFacts
<1>4. Roots' \subseteq Obj
  BY Kinds DEF Roots, TypeOK
<1>5. Roots' \subseteq Reached'
  BY <1>1, <1>4
<1> HIDE DEF closed
<1>6. QED
  BY <1>1, <1>2, <1>3, <1>5

(* Marking from what can be got to reaches only what can be got to.        *)
LEMMA MarkedIsReached ==
  ASSUME NEW col \in [Obj -> WHITE0..BLACK], NEW list, NEW S \in SUBSET Obj,
         Mark(col, list, S), TypeOK, heap' = heap, gcstate' = "PROPAGATE",
         S \subseteq Reached',
         \A o \in heap : col[o] \in {GRAY, BLACK} => o \in Reached'
  PROVE  Gathered'
<1>1. \A o \in heap : color'[o] = col[o] \/ o \in S
  BY Kinds DEF Mark, Whites, TypeOK
<1>2. QED
  BY <1>1 DEF Gathered

LEMMA GatheredStep == Careful /\ IInv /\ Gathered /\ [Next]_vars => Gathered'
<1> SUFFICES ASSUME Careful, IInv, Gathered, [Next]_vars
             PROVE  Gathered'
  OBVIOUS
<1>1. TypeOK /\ TypeOK'
  BY TypeStep DEF IInv
<1>2. IInv'
  BY SafetyStep
<1>3. CASE Program
  <2> SUFFICES collecting' # 2
    BY DEF Gathered
  <2>1. ASSUME NEW o \in Obj, NEW S, Allocate(o, S)
        PROVE  collecting' # 2
    BY <2>1 DEF Allocate, Running
  <2>2. CASE \/ \E t \in Tables : NewTable(t)
             \/ \E u \in Upvalues : Capture(u)
             \/ \E c \in Coroutines : NewCoroutine(c)
    BY <2>1, <2>2, Kinds DEF NewTable, Capture, NewCoroutine
  <2>3. CASE \E t \in Tables, v \in Obj : TableSet(t, v) \/ TableRemove(t, v)
    BY <2>3 DEF TableSet, TableRemove, Running, gcVars
  <2>4. CASE \E u \in Upvalues : CaptureAgain(u) \/ CloseUpvalue(u) \/ SetUpval(u)
    BY <2>4 DEF CaptureAgain, CloseUpvalue, SetUpval, Running, gcVars
  <2>5. CASE \E c \in Coroutines :
               \/ RemakeSpare(c) \/ GiveSpare(c) \/ Resume(c) \/ Yield(c)
               \/ Finish(c) \/ Dispose(c) \/ TakePending(c)
    BY <2>5 DEF RemakeSpare, GiveSpare, Resume, Yield, Finish, Dispose, TakePending,
      EnterFrame, Running, gcVars
  <2>6. CASE \E v \in Obj : ProgramOnValue(v)
    BY <2>6 DEF ProgramOnValue, Drop, WeakPut, WeakGet, WeakForget, Load, Running, gcVars
  <2>7. CASE CollectCall
    BY <2>7 DEF CollectCall
  <2>8. ASSUME NEW s \in Scripts, NewScript(s)
        PROVE  collecting' # 2
    <3>1. collecting' = collecting /\ collecting = 0
      BY <2>8 DEF NewScript, Running
    <3>2. QED
      BY <3>1
  <2>9. QED
    BY <1>3, <2>2, <2>3, <2>4, <2>5, <2>6, <2>7, <2>8
       DEF Program, ProgramOnTable, ProgramOnUpvalue, ProgramOnCoroutine
<1>4. ASSUME UNCHANGED <<refs, carried>>, Roots \subseteq Roots'
      PROVE  Reached \subseteq Reached' /\ Roots' \subseteq Reached'
  <2>1. \A x \in Reached : Edges(x)' = Edges(x)
    BY <1>4 DEF Edges, Children
  <2>2. QED
    BY <1>1, <1>4, <2>1, StillReached
<1>5. /\ heap \subseteq Obj /\ chunk \subseteq Obj /\ unswept \subseteq heap
      /\ color \in [Obj -> WHITE0..BLACK] /\ white # OtherWhite(white)
      /\ Roots \subseteq Obj
  BY <1>1, Kinds DEF TypeOK, IInv, ChunksApart, OtherWhite, WHITE0, WHITE1, Roots
<1>6. CASE StartCycle
  <2>1. Roots' = Roots /\ UNCHANGED <<refs, carried>>
    BY <1>6 DEF StartCycle, Roots, rootVars, heapVars, coVars
  <2>2. Roots \subseteq Reached'
    BY <1>4, <2>1
  <2>3. \A o \in heap : color[o] \notin {GRAY, BLACK}
    BY <1>1, <1>6 DEF StartCycle, IInv, AtPause, TypeOK, WHITE0, WHITE1, GRAY, BLACK
  <2>4. Mark(color, gray, Roots) /\ heap' = heap /\ gcstate' = "PROPAGATE"
    BY <1>6 DEF StartCycle, heapVars
  <2>5. QED
    BY <1>1, <1>5, <2>2, <2>3, <2>4, MarkedIsReached
<1>7. SUFFICES ASSUME collecting = 2
               PROVE  Gathered'
  <2>1. CASE collecting' # 2
    BY <2>1 DEF Gathered
  <2>2. CASE collecting # 2 /\ ~StartCycle /\ ~Program
    <3>1. collecting' = collecting
      BY <2>2 DEF Next, Collector, AtomicRoots, AtomicHold, AtomicSwap, Sweep,
        SweepNothing, SweepKeep, SweepFree, AfterSweeping, PropagateOne,
        CollectReturn, gcVars, vars
    <3>2. QED
      BY <2>2, <3>1 DEF Gathered
  <2>3. QED
    BY <1>3, <1>6, <1>7, <2>1, <2>2
<1>8. ASSUME NEW o \in Obj, PropagateOne(o)
      PROVE  Gathered'
  <2> DEFINE col == [color EXCEPT ![o] = BLACK]
  <2>1. /\ Roots' = Roots /\ UNCHANGED <<refs, carried>> /\ heap' = heap
        /\ gcstate = "PROPAGATE" /\ gcstate' = "PROPAGATE"
        /\ Mark(col, gray \ {o}, Children(o))
    BY <1>8 DEF PropagateOne, Roots, rootVars, heapVars, coVars, gcVars
  <2>2. o \in heap /\ color[o] = GRAY
    BY <1>8, <2>1 DEF PropagateOne, IInv, AtPropagate
  <2>3. o \in Reached /\ \A x \in heap : color[x] \in {GRAY, BLACK} => x \in Reached
    BY <1>7, <2>1, <2>2 DEF Gathered
  <2>4. Children(o) \subseteq Reached /\ Children(o) \in SUBSET Obj
    BY <1>1, <2>3, ReachedFacts DEF Edges
  <2>5. Reached \subseteq Reached'
    BY <1>4, <2>1
  <2>6. \A x \in heap : col[x] \in {GRAY, BLACK} => x \in Reached'
    BY <1>5, <2>2, <2>3, <2>5
  <2>7. col \in [Obj -> WHITE0..BLACK]
    BY <1>5 DEF WHITE0, BLACK
  <2> HIDE DEF col
  <2>8. QED
    BY <1>1, <2>1, <2>4, <2>5, <2>6, <2>7, MarkedIsReached
<1>9. CASE AtomicRoots
  <2>1. /\ Roots' = Roots /\ UNCHANGED <<refs, carried>> /\ heap' = heap
        /\ gcstate = "PROPAGATE" /\ gcstate' = "PROPAGATE"
        /\ Mark(color, gray, Roots)
    BY <1>9 DEF AtomicRoots, Roots, rootVars, heapVars, coVars
  <2>2. Reached \subseteq Reached' /\ Roots \subseteq Reached'
    BY <1>4, <2>1
  <2>3. \A x \in heap : color[x] \in {GRAY, BLACK} => x \in Reached'
    BY <1>7, <2>1, <2>2 DEF Gathered
  <2>4. QED
    BY <1>1, <1>5, <2>1, <2>2, <2>3, MarkedIsReached
<1>10. CASE AtomicHold
  <2> DEFINE held == {c \in Whites(color, heap) \cap Coroutines :
                        costate[c] = "SUSPENDED" /\ c \in owes}
  <2>1. /\ Roots' = Roots \cup held /\ UNCHANGED <<refs, carried>> /\ heap' = heap
        /\ gcstate = "PROPAGATE" /\ gcstate' = "PROPAGATE"
        /\ Mark(color, gray, held) /\ held \in SUBSET Obj
    BY <1>10, Kinds DEF AtomicHold, Roots, heapVars, coVars, IInv, AtAtomic
  <2>2. Reached \subseteq Reached' /\ held \subseteq Reached'
    BY <1>4, <2>1
  <2>3. \A x \in heap : color[x] \in {GRAY, BLACK} => x \in Reached'
    BY <1>7, <2>1, <2>2 DEF Gathered
  <2> HIDE DEF held
  <2>4. QED
    BY <1>1, <1>5, <2>1, <2>2, <2>3, MarkedIsReached
<1>11. CASE AtomicSwap
  <2>1. /\ Roots' = Roots /\ UNCHANGED <<refs, carried, heap, color>>
        /\ gcstate = "PROPAGATE" /\ gcstate' = "SWEEP" /\ gray = {}
        /\ unswept' = heap /\ white' = OtherWhite(white)
    BY <1>11 DEF AtomicSwap, Roots, rootVars, heapVars, markVars, coVars, IInv, AtAtomic
  <2>2. \A o \in heap : color[o] \in {white, BLACK}
    BY <2>1 DEF IInv, AtPropagate
  <2>3. \A o \in Kept' : o \in heap /\ color[o] = BLACK
    BY <1>1, <2>1, <2>2 DEF Kept, Doomed, OtherWhite, TypeOK, WHITE0, WHITE1
  <2>4. Kept' \subseteq Reached
    BY <1>7, <2>1, <2>3 DEF Gathered
  <2>5. QED
    BY <1>4, <2>1, <2>4 DEF Gathered
<1>12. ASSUME Roots' = Roots, UNCHANGED <<refs, carried>>,
              Kept' \subseteq Kept, gcstate # "PROPAGATE", gcstate' # "PROPAGATE"
       PROVE  Gathered'
  BY <1>4, <1>7, <1>12 DEF Gathered
<1>13. ASSUME NEW o \in Obj, SweepKeep(o)
       PROVE  Gathered'
  <2>1. /\ Roots' = Roots /\ UNCHANGED <<refs, carried, heap, white>>
        /\ gcstate = "SWEEP" /\ unswept' = unswept \ {o}
        /\ color[o] # OtherWhite(white)
        /\ gcstate' = IF unswept' = {} THEN "PAUSE" ELSE "SWEEP"
    BY <1>13 DEF SweepKeep, AfterSweeping, Roots, rootVars, heapVars, coVars
  <2>2. \A x \in Obj : x # o => color'[x] = color[x]
    BY <1>5, <1>13 DEF SweepKeep
  <2>3. ASSUME NEW x \in Doomed
        PROVE  x \in Doomed'
    <3>1. x # o /\ x \in unswept' /\ color'[x] = OtherWhite(white)
      BY <1>5, <2>1, <2>2, <2>3 DEF Doomed
    <3>2. QED
      BY <2>1, <3>1 DEF Doomed, OtherWhite
  <2>4. Kept' \subseteq Kept
    BY <2>1, <2>3 DEF Kept
  <2>5. QED
    BY <1>12, <2>1, <2>4
<1>14. ASSUME NEW o \in Obj, SweepFree(o)
       PROVE  Gathered'
  <2> DEFINE given == IF o \in Scripts THEN Body[o] ELSE {}
  <2>1. /\ Roots' = Roots /\ white' = white /\ o \in unswept
        /\ gcstate = "SWEEP" /\ unswept' = Prepended(given) \ {o}
        /\ color[o] = OtherWhite(white) /\ heap' = (heap \ {o}) \cup given
        /\ gcstate' = IF unswept' = {} THEN "PAUSE" ELSE "SWEEP"
    BY <1>14 DEF SweepFree, AfterSweeping, Roots, rootVars
  <2>2. o \in Doomed /\ o \in heap /\ given \subseteq Consts /\ given \cap heap = {}
    BY <1>5, <2>1, Kinds DEF Doomed, IInv, ChunksApart
  <2>3. o \notin Reached
    BY <2>2, ReachableIsSafe DEF Reached, Safe
  <2>4. carried' = carried
    <3>1. o \in Coroutines => carried[o] = {}
      BY <2>2 DEF IInv, RefsSafe, Kept
    <3>2. QED
      BY <1>1, <1>14, <3>1 DEF SweepFree, TypeOK
  <2>5. \A x \in Reached : Edges(x)' = Edges(x)
    <3>1. \A x \in Reached : refs'[x] = refs[x]
      BY <1>1, <1>14, <2>3, ReachedFacts DEF SweepFree, TypeOK
    <3>2. QED
      BY <2>4, <3>1 DEF Edges, Children
  <2>6. Reached \subseteq Reached'
    BY <1>1, <2>1, <2>5, StillReached
  <2>7. ASSUME NEW x \in Kept', x \notin Consts
        PROVE  x \in Kept
    <3>1. x \in heap /\ x # o /\ x \notin given
      BY <2>1, <2>2, <2>7 DEF Kept
    <3>2. ASSUME x \in Doomed PROVE FALSE
      <4>1. x \in unswept' /\ gcstate' = "SWEEP"
        BY <2>1, <3>1, <3>2 DEF Prepended, Doomed
      <4>2. color'[x] = color[x]
        BY <1>5, <1>14, <3>1 DEF SweepFree
      <4>3. x \in Doomed'
        BY <2>1, <3>2, <4>1, <4>2 DEF Doomed, OtherWhite
      <4>4. QED
        BY <2>7, <4>3 DEF Kept
    <3>3. QED
      BY <3>1, <3>2 DEF Kept
  <2>8. Kept \ Consts \subseteq Reached
    BY <1>7, <2>1 DEF Gathered
  <2>9. Kept' \ Consts \subseteq Reached'
    BY <2>6, <2>7, <2>8
  <2>10. QED
    BY <2>1, <2>9 DEF Gathered
<1>15. CASE SweepNothing
  <2>1. /\ Roots' = Roots /\ UNCHANGED <<refs, carried, heap>>
        /\ gcstate = "SWEEP" /\ gcstate' = "PAUSE" /\ unswept = {}
    BY <1>15 DEF SweepNothing, AfterSweeping, Roots, rootVars, heapVars, coVars
  <2>2. Kept' \subseteq Kept
    BY <2>1 DEF Kept, Doomed
  <2>3. QED
    BY <1>12, <2>1, <2>2
<1>16. CASE CollectReturn
  BY <1>16 DEF CollectReturn, Gathered
<1>17. CASE UNCHANGED vars
  <2>1. /\ Roots' = Roots /\ UNCHANGED <<refs, carried>>
        /\ UNCHANGED <<heap, unswept, color, white, gcstate, collecting>>
    BY <1>17 DEF vars, heapVars, gcVars, markVars, rootVars, coVars, Roots
  <2>2. Kept' = Kept
    BY <2>1 DEF Kept, Doomed, OtherWhite
  <2>3. Reached \subseteq Reached'
    BY <1>4, <2>1
  <2>4. QED
    BY <1>7, <2>1, <2>2, <2>3 DEF Gathered
<1>18. QED
  BY <1>3, <1>6, <1>8, <1>9, <1>10, <1>11, <1>13, <1>14, <1>15, <1>16, <1>17
     DEF Next, Collector, Sweep

(* gc.h, lhat_gc_collect: when it answers, every object but the constants  *)
(* of scripts that are gone is one the program can still get to.           *)
THEOREM FullCollectionIsComplete == Careful /\ Spec => []CollectIsComplete
<1> SUFFICES ASSUME Careful
             PROVE  Spec => []CollectIsComplete
  OBVIOUS
<1>1. Init => Gathered
  BY DEF Init, Gathered
<1>2. IInv /\ Gathered /\ [Next]_vars => Gathered'
  BY GatheredStep
<1>3. Gathered => CollectIsComplete
  BY DEF Gathered, CollectIsComplete, Kept, Doomed, Reached
<1>4. Spec => []IInv
  BY Safety
<1>5. QED
  BY <1>1, <1>2, <1>3, <1>4, PTL DEF Spec

=============================================================================
