------------------------------- MODULE LhatGc -------------------------------
(***************************************************************************)
(* The incremental collector of one machine (src/src/gc.c) together with   *)
(* everything a running program may do to its heap between two steps of    *)
(* it: table writes, captures, coroutines, the weak cache, loaded scripts. *)
(*                                                                         *)
(* One step of the module is one `single_step` of the collector, one       *)
(* object of a sweep, or one instruction (host call) of the program.  The  *)
(* program runs only at instruction boundaries, never inside `atomic` and  *)
(* never inside a full collection.                                         *)
(*                                                                         *)
(* Left out: sizes and thresholds (when a step is due is chosen freely),   *)
(* strings, closures other than the place they capture or the body they    *)
(* hold, and the order of the lists threaded through the heap.             *)
(***************************************************************************)
EXTENDS Naturals, FiniteSets

CONSTANTS
  Tables,             \* addresses a table may be allocated at
  Upvalues,           \* ... a captured place
  Coroutines,         \* ... a coroutine
  Scripts,            \* ... the body of a loaded script
  Body,               \* the constants each script's chunk owns
  Interned,           \* bound: what the weak references may name
  MaxFields,          \* bound: references one object holds
  SpareRoom,          \* LHAT_SPARE_COROUTINES
  MaySuspendCaptured, \* programs that yield^ while a closure shares a local
  MayTouchCarried,    \* ... and write through it, or drop it, before resuming
  MayRemakeMarked     \* programs that remake a spare in mid marking

Consts == UNION {Body[s] : s \in Scripts}
Obj == Tables \cup Upvalues \cup Coroutines \cup Scripts \cup Consts

(* The kinds are disjoint and finite, and no constant has two owners.      *)
ASSUME KindsAssumption ==
  /\ IsFiniteSet(Obj)
  /\ Tables \cap (Upvalues \cup Coroutines \cup Scripts \cup Consts) = {}
  /\ Upvalues \cap (Coroutines \cup Scripts \cup Consts) = {}
  /\ Coroutines \cap (Scripts \cup Consts) = {}
  /\ Scripts \cap Consts = {}
  /\ \A s, r \in Scripts : s # r => Body[s] \cap Body[r] = {}

ASSUME BoundsAssumption ==
  /\ Interned \subseteq Obj
  /\ MaxFields \in Nat
  /\ SpareRoom \in Nat
  /\ MaySuspendCaptured \in BOOLEAN
  /\ MayTouchCarried \in BOOLEAN
  /\ MayRemakeMarked \in BOOLEAN

WHITE0 == 0
WHITE1 == 1
GRAY == 2
BLACK == 3

VARIABLES
  \* the heap
  heap,       \* objects on m->objects, allocated and owned by the machine
  chunk,      \* objects a script's chunk owns: born black, never swept
  refs,       \* what each object refers to
  color,      \* header.color
  white,      \* m->objects.white, the colour of what is born
  \* the collector
  gcstate,    \* m->gcstate
  atomicAt,   \* "off", or how far `atomic` has got
  gray,       \* the objects threaded on m->gray
  unswept,    \* what m->sweep has still to visit
  collecting, \* 0, or which of the two cycles of lhat_gc_collect is running
  \* the machine: roots and weak references
  stack,      \* objects some register, frame answer or host root holds
  open,       \* m->open, captures of live stack slots
  onFrame,    \* coroutines whose body has a frame
  disposing,  \* those of them whose frame only runs cleanups
  pending,    \* m->pending_dispose
  spare,      \* m->spare_coroutines
  weak,       \* weak cache values, shared built-ins, member-cache targets
  \* coroutines
  costate,    \* frame.state
  owes,       \* those whose saved cleanup_count is not zero
  owned,      \* those a for^ loop made and handed to nothing else
  carried     \* co->open: captures that travel with the saved registers

heapVars == <<heap, chunk, refs>>
gcVars == <<white, gcstate, atomicAt, unswept, collecting>>
markVars == <<color, gray>>
rootVars == <<stack, open, onFrame, disposing, pending, spare>>
coVars == <<costate, owes, owned, carried>>
vars == <<heapVars, gcVars, markVars, rootVars, weak, coVars>>

Alive == heap \cup chunk
Roots == stack \cup open \cup onFrame \cup pending \cup spare

OtherWhite(w) == WHITE1 - w
Whites(col, S) == {o \in S : col[o] <= WHITE1}

(* What lhat_gc_children reaches.  An open capture's value is a stack slot *)
(* and so a root already: refs of it is empty until it is closed.          *)
Children(o) ==
  refs[o] \cup (IF o \in Upvalues THEN {c \in Coroutines : o \in carried[c]}
                                  ELSE {})

-----------------------------------------------------------------------------
(* Marking.  The gray list is threaded through the objects, so pushing one *)
(* that is already on it closes the list into a ring and what stood behind *)
(* its old place is never visited: any part of the list may be lost.       *)
Pushed(list, W) ==
  IF W \cap list = {} THEN {list \cup W} ELSE {kept \cup W : kept \in SUBSET list}

Mark(col, list, S) ==
  /\ color' = [o \in Obj |-> IF o \in Whites(col, S) THEN GRAY ELSE col[o]]
  /\ gray' \in Pushed(list, Whites(col, S))

NoBarrier(parent, S) == UNCHANGED markVars    \* a mutant of both barriers

(* lhat_gc_barrier: the value is reached now.                              *)
Barrier(parent, S) ==
  IF gcstate = "PROPAGATE" /\ color[parent] = BLACK
  THEN Mark(color, gray, S)
  ELSE UNCHANGED markVars

(* lhat_gc_barrier_back: the parent goes back to be looked at again.       *)
BarrierBack(parent, S) ==
  IF gcstate = "PROPAGATE" /\ color[parent] = BLACK /\ Whites(color, S) # {}
  THEN /\ color' = [color EXCEPT ![parent] = GRAY]
       /\ gray' \in Pushed(gray, {parent})
  ELSE UNCHANGED markVars

(* The two barriers of a yield^: one backward for all the registers saved  *)
(* in c, and a forward one for each capture handed over to c.              *)
RegistersOnly(c, S, U) == BarrierBack(c, S)       \* a mutant of YieldBarrier

YieldBarrier(c, S, U) ==
  IF /\ gcstate = "PROPAGATE"
     /\ \/ color[c] = BLACK /\ Whites(color, S) # {}
        \/ Whites(color, {c}) # {} /\ \E u \in U : color[u] = BLACK
  THEN /\ color' = [color EXCEPT ![c] = GRAY]
       /\ gray' \in Pushed(gray, {c})
  ELSE UNCHANGED markVars

-----------------------------------------------------------------------------
(* The program.                                                            *)
Running == atomicAt = "off" /\ collecting = 0

(* A new object goes to the head of the list, in front of m->sweep: the    *)
(* sweep meets it only while it has kept nothing yet.                      *)
Prepended(S) ==
  IF gcstate = "SWEEP" /\ unswept = heap THEN unswept \cup S ELSE unswept

Fields(S) == {T \in SUBSET S : Cardinality(T) <= MaxFields}

Allocate(o, S) ==
  /\ Running
  /\ o \notin Alive
  /\ heap' = heap \cup {o}
  /\ unswept' = Prepended({o})
  /\ color' = [color EXCEPT ![o] = white]
  /\ refs' = [refs EXCEPT ![o] = S]
  /\ stack' = stack \cup {o}
  /\ UNCHANGED <<white, gcstate, atomicAt, collecting, gray, onFrame,
                 disposing, pending, spare, weak>>

NewTable(t) ==
  /\ \E S \in Fields(stack \ owned) : Allocate(t, S)
  /\ UNCHANGED <<chunk, open, coVars>>

TableSet(t, v) ==
  /\ Running
  /\ t \in stack /\ v \in stack \ owned
  /\ refs[t] \cup {v} \in Fields(Obj)
  /\ refs' = [refs EXCEPT ![t] = @ \cup {v}]
  /\ BarrierBack(t, {v})
  /\ UNCHANGED <<heap, chunk, gcVars, rootVars, weak, coVars>>

TableRemove(t, v) ==
  /\ Running
  /\ t \in stack /\ v \in refs[t]
  /\ refs' = [refs EXCEPT ![t] = @ \ {v}]
  /\ UNCHANGED <<heap, chunk, gcVars, markVars, rootVars, weak, coVars>>

(* A register takes a value out of an object it can see into.              *)
Load(p, v) ==
  /\ Running
  /\ p \in stack /\ v \notin stack
  /\ \/ p \in Tables \cup Upvalues /\ v \in refs[p]
     \/ p \in Scripts /\ v \in Body[p]
  /\ stack' = stack \cup {v}
  /\ UNCHANGED <<heapVars, gcVars, markVars, open, onFrame, disposing,
                 pending, spare, weak, coVars>>

Drop(v) ==
  /\ Running
  /\ v \in stack
  /\ MayTouchCarried \/ \A c \in Coroutines : v \notin carried[c]
  /\ stack' = stack \ {v}
  /\ UNCHANGED <<heapVars, gcVars, markVars, open, onFrame, disposing,
                 pending, spare, weak, coVars>>

(* vm_capture: a closure being made captures a live local, sharing the     *)
(* place where one is open already.                                        *)
Capture(u) ==
  /\ Allocate(u, {})
  /\ open' = open \cup {u}
  /\ UNCHANGED <<chunk, coVars>>

CaptureAgain(u) ==
  /\ Running
  /\ u \in open
  /\ stack' = stack \cup {u}
  /\ UNCHANGED <<heapVars, gcVars, markVars, open, onFrame, disposing,
                 pending, spare, weak, coVars>>

Places(S) == {{}} \cup {{v} : v \in S}

(* close_into_cell: the frame goes and the value moves into the capture.   *)
CloseUpvalue(u) ==
  /\ Running
  /\ u \in open
  /\ \E held \in Places(stack \ owned) :
       /\ refs' = [refs EXCEPT ![u] = held]
       /\ Barrier(u, held)
  /\ open' = open \ {u}
  /\ UNCHANGED <<heap, chunk, gcVars, stack, onFrame, disposing, pending,
                 spare, weak, coVars>>

(* SETUPVAL through a closed capture writes the cell; through one that     *)
(* travels with a suspended coroutine it writes that coroutine's register. *)
(* Either way the barrier asks about the capture alone.                    *)
SetUpval(u) ==
  /\ Running
  /\ u \in stack /\ u \notin open
  /\ \E held \in Places(stack \ owned) :
       /\ \/ /\ \A c \in Coroutines : u \notin carried[c]
             /\ refs' = [refs EXCEPT ![u] = held]
          \/ \E c \in Coroutines :
               /\ u \in carried[c] /\ MayTouchCarried
               /\ refs' = [refs EXCEPT ![u] = held,
                                       ![c] = (@ \ refs[u]) \cup held]
       /\ Barrier(u, held)
  /\ UNCHANGED <<heap, chunk, gcVars, rootVars, weak, coVars>>

(* A yieldable procedure is called: a new coroutine, its arguments in it.  *)
NewCoroutine(c) ==
  /\ \E S \in Fields(stack \ owned) : Allocate(c, S)
  /\ \E loop \in BOOLEAN : owned' = IF loop THEN owned \cup {c} ELSE owned \ {c}
  /\ costate' = [costate EXCEPT ![c] = "FRESH"]
  /\ owes' = owes \ {c}
  /\ carried' = [carried EXCEPT ![c] = {}]
  /\ UNCHANGED <<chunk, open>>

(* ... or one of the spares, born again the colour of anything born now.   *)
RemakeSpare(c) ==
  /\ Running
  /\ c \in spare
  /\ MayRemakeMarked \/ gcstate # "PROPAGATE"
  /\ \E S \in Fields(stack \ owned) : refs' = [refs EXCEPT ![c] = S]
  /\ \E loop \in BOOLEAN : owned' = IF loop THEN owned \cup {c} ELSE owned \ {c}
  /\ spare' = spare \ {c}
  /\ color' = [color EXCEPT ![c] = white]
  /\ costate' = [costate EXCEPT ![c] = "FRESH"]
  /\ owes' = owes \ {c}
  /\ carried' = [carried EXCEPT ![c] = {}]
  /\ pending' \in IF c \in pending THEN {{c} \cup rest : rest \in SUBSET pending}
                                    ELSE {pending}
  /\ stack' = stack \cup {c}
  /\ UNCHANGED <<heap, chunk, gcVars, gray, open, onFrame, disposing, weak>>

(* ISDONE on a loop's own coroutine gives it back to be made again.  The   *)
(* loop's two registers held it and no other frame does.                   *)
GiveSpare(c) ==
  /\ Running
  /\ c \in stack \cap owned /\ costate[c] = "DONE"
  /\ \A d \in Coroutines : costate[d] = "SUSPENDED" => c \notin refs[d]
  /\ Cardinality(spare) < SpareRoom
  /\ spare' = spare \cup {c}
  /\ stack' = stack \ {c}
  /\ owned' = owned \ {c}
  /\ refs' = [refs EXCEPT ![c] = {}]
  /\ UNCHANGED <<heap, chunk, gcVars, markVars, open, onFrame, disposing,
                 pending, weak, costate, owes, carried>>

(* The saved registers go back on the stack, and the captures that         *)
(* travelled with them (reattach_upvalues) back to the machine's list.     *)
EnterFrame(c) ==
  /\ stack' = stack \cup refs[c]
  /\ open' = open \cup carried[c]
  /\ onFrame' = onFrame \cup {c}
  /\ carried' = [carried EXCEPT ![c] = {}]
  /\ refs' = [o \in Obj |-> IF o \in carried[c] THEN {} ELSE refs[o]]
  /\ costate' = [costate EXCEPT ![c] = "RUNNING"]
  /\ UNCHANGED <<heap, chunk, gcVars, markVars, spare, weak, owes, owned>>

Resume(c) ==
  /\ Running
  /\ c \in stack
  /\ costate[c] \in {"FRESH", "SUSPENDED"}
  /\ EnterFrame(c)
  /\ UNCHANGED <<disposing, pending>>

(* YIELD: the frame's registers are copied into the coroutine behind one   *)
(* backward barrier, its captures handed over behind a forward one.        *)
Yield(c) ==
  /\ Running
  /\ c \in onFrame \ disposing
  /\ \E S \in Fields(stack), U \in SUBSET open :
       /\ U = {} \/ MaySuspendCaptured
       /\ U \subseteq stack \/ MayTouchCarried
       /\ \E held \in [U -> Places(S \ owned)] :
            refs' = [o \in Obj |-> IF o = c THEN S
                                   ELSE IF o \in U THEN held[o] ELSE refs[o]]
       /\ open' = open \ U
       /\ carried' = [carried EXCEPT ![c] = U]
       /\ YieldBarrier(c, S, U)
  /\ \E more \in BOOLEAN : owes' = IF more THEN owes \cup {c} ELSE owes \ {c}
  /\ costate' = [costate EXCEPT ![c] = "SUSPENDED"]
  /\ onFrame' = onFrame \ {c}
  /\ UNCHANGED <<heap, chunk, gcVars, stack, disposing, pending, spare, weak,
                 owned>>

(* The body is over, or its last cleanup has run.                          *)
Finish(c) ==
  /\ Running
  /\ c \in onFrame
  /\ onFrame' = onFrame \ {c}
  /\ disposing' = disposing \ {c}
  /\ costate' = [costate EXCEPT ![c] = "DONE"]
  /\ owes' = owes \ {c}
  /\ UNCHANGED <<heapVars, gcVars, markVars, stack, open, pending, spare,
                 weak, owned, carried>>

Dispose(c) ==
  /\ Running
  /\ c \in stack
  /\ \/ /\ costate[c] = "FRESH"
        /\ costate' = [costate EXCEPT ![c] = "DONE"]
        /\ UNCHANGED <<heapVars, gcVars, markVars, rootVars, weak, owes,
                       owned, carried>>
     \/ /\ costate[c] = "SUSPENDED"
        /\ EnterFrame(c)
        /\ disposing' = disposing \cup {c}
        /\ UNCHANGED pending

(* lhat_gc_take_pending and vm_enter_disposal_frame, at a boundary.        *)
TakePending(c) ==
  /\ Running
  /\ c \in pending
  /\ pending' = pending \ {c}
  /\ EnterFrame(c)
  /\ disposing' = disposing \cup {c}

WeakPut(v) ==
  /\ Running
  /\ v \in (stack \ owned) \cap Interned
  /\ weak' = weak \cup {v}
  /\ UNCHANGED <<heapVars, gcVars, markVars, rootVars, coVars>>

(* Asking for a cached value reaches it; a shared built-in or a cached     *)
(* member is read as it is.                                                *)
WeakGet(v) ==
  /\ Running
  /\ v \in weak
  /\ stack' = stack \cup {v}
  /\ \/ UNCHANGED markVars
     \/ IF gcstate = "PROPAGATE" THEN Mark(color, gray, {v})
                                 ELSE UNCHANGED markVars
  /\ UNCHANGED <<heapVars, gcVars, open, onFrame, disposing, pending, spare,
                 weak, coVars>>

WeakForget(v) ==
  /\ Running
  /\ v \in weak
  /\ weak' = weak \ {v}
  /\ UNCHANGED <<heapVars, gcVars, markVars, rootVars, coVars>>

(* std.load: a body whose chunk owns its constants.                        *)
NewScript(s) ==
  /\ Running
  /\ ({s} \cup Body[s]) \cap Alive = {}
  /\ heap' = heap \cup {s}
  /\ chunk' = chunk \cup Body[s]
  /\ unswept' = Prepended({s})
  /\ color' = [o \in Obj |-> IF o = s THEN white
                             ELSE IF o \in Body[s] THEN BLACK ELSE color[o]]
  /\ stack' = stack \cup {s}
  /\ UNCHANGED <<refs, white, gcstate, atomicAt, collecting, gray, open,
                 onFrame, disposing, pending, spare, weak, coVars>>

OneCycleOnly ==                           \* a mutant of CollectCall
  /\ Running
  /\ collecting' = 2
  /\ UNCHANGED <<heapVars, markVars, white, gcstate, atomicAt, unswept,
                 rootVars, weak, coVars>>

(* lhat_gc_collect: finish what is under way, then one cycle from a        *)
(* standing start.  The program waits for it.                              *)
CollectCall ==
  /\ Running
  /\ collecting' = 1
  /\ UNCHANGED <<heapVars, markVars, white, gcstate, atomicAt, unswept,
                 rootVars, weak, coVars>>

CollectReturn ==
  /\ collecting = 2 /\ gcstate = "PAUSE"
  /\ collecting' = 0
  /\ UNCHANGED <<heapVars, markVars, white, gcstate, atomicAt, unswept,
                 rootVars, weak, coVars>>

-----------------------------------------------------------------------------
(* The collector.                                                          *)
StartUncounted ==                         \* a mutant of StartCycle
  /\ gcstate = "PAUSE" /\ collecting # 2
  /\ Mark(color, gray, Roots)
  /\ gcstate' = "PROPAGATE"
  /\ UNCHANGED <<heapVars, white, atomicAt, unswept, collecting, rootVars,
                 weak, coVars>>

StartCycle ==
  /\ gcstate = "PAUSE" /\ collecting # 2
  /\ Mark(color, gray, Roots)
  /\ gcstate' = "PROPAGATE"
  /\ collecting' = IF collecting = 1 THEN 2 ELSE collecting
  /\ UNCHANGED <<heapVars, white, atomicAt, unswept, rootVars, weak, coVars>>

PropagateOne(o) ==
  /\ gcstate = "PROPAGATE"
  /\ o \in gray
  /\ Mark([color EXCEPT ![o] = BLACK], gray \ {o}, Children(o))
  /\ UNCHANGED <<heapVars, gcVars, rootVars, weak, coVars>>

RootsAsTheyWere ==                        \* a mutant of AtomicRoots
  /\ gcstate = "PROPAGATE" /\ gray = {} /\ atomicAt = "off"
  /\ atomicAt' = "roots"
  /\ UNCHANGED <<heapVars, markVars, white, gcstate, unswept, collecting,
                 rootVars, weak, coVars>>

(* atomic: the roots once more, from scratch ...                           *)
AtomicRoots ==
  /\ gcstate = "PROPAGATE" /\ gray = {} /\ atomicAt = "off"
  /\ Mark(color, gray, Roots)
  /\ atomicAt' = "roots"
  /\ UNCHANGED <<heapVars, white, gcstate, unswept, collecting, rootVars,
                 weak, coVars>>

HoldNothing ==                            \* a mutant of AtomicHold
  /\ atomicAt = "roots" /\ gray = {}
  /\ atomicAt' = "held"
  /\ UNCHANGED <<heapVars, markVars, white, gcstate, unswept, collecting,
                 rootVars, weak, coVars>>

(* ... hold_pending_disposals, once what the roots reach is black ...      *)
AtomicHold ==
  /\ atomicAt = "roots" /\ gray = {}
  /\ LET held == {c \in Whites(color, heap) \cap Coroutines :
                    costate[c] = "SUSPENDED" /\ c \in owes}
     IN /\ Mark(color, gray, held)
        /\ pending' = pending \cup held
  /\ atomicAt' = "held"
  /\ UNCHANGED <<heapVars, white, gcstate, unswept, collecting, stack, open,
                 onFrame, disposing, spare, weak, coVars>>

SwapOnly ==                               \* a mutant of AtomicSwap
  /\ atomicAt = "held" /\ gray = {}
  /\ white' = OtherWhite(white)
  /\ unswept' = heap
  /\ gcstate' = "SWEEP"
  /\ atomicAt' = "off"
  /\ UNCHANGED <<heapVars, markVars, collecting, rootVars, weak, coVars>>

(* ... and the weak references emptied, the whites swapped.                *)
AtomicSwap ==
  /\ atomicAt = "held" /\ gray = {}
  /\ weak' = weak \ Whites(color, weak)
  /\ white' = OtherWhite(white)
  /\ unswept' = heap
  /\ gcstate' = "SWEEP"
  /\ atomicAt' = "off"
  /\ UNCHANGED <<heapVars, markVars, collecting, rootVars, coVars>>

AfterSweeping(rest) ==
  /\ unswept' = rest
  /\ gcstate' = IF rest = {} THEN "PAUSE" ELSE "SWEEP"
  /\ UNCHANGED <<white, atomicAt, collecting, gray, rootVars, weak>>

KeepUnpainted(o) ==                       \* a mutant of SweepKeep
  /\ gcstate = "SWEEP"
  /\ o \in unswept /\ color[o] # OtherWhite(white)
  /\ AfterSweeping(unswept \ {o})
  /\ UNCHANGED <<heapVars, color, coVars>>

SweepKeep(o) ==
  /\ gcstate = "SWEEP"
  /\ o \in unswept /\ color[o] # OtherWhite(white)
  /\ color' = [color EXCEPT ![o] = white]
  /\ AfterSweeping(unswept \ {o})
  /\ UNCHANGED <<heapVars, coVars>>

FreeWithConstants(o) ==                   \* a mutant of SweepFree
  /\ gcstate = "SWEEP"
  /\ o \in unswept /\ color[o] = OtherWhite(white)
  /\ heap' = heap \ {o}
  /\ chunk' = chunk \ (IF o \in Scripts THEN Body[o] ELSE {})
  /\ color' = [color EXCEPT ![o] = WHITE0]
  /\ AfterSweeping(unswept \ {o})
  /\ refs' = [refs EXCEPT ![o] = {}]
  /\ UNCHANGED coVars

(* Freeing: what the object held is gone with it.  A script's constants    *)
(* go to the machine, the colour of the living.                            *)
SweepFree(o) ==
  /\ gcstate = "SWEEP"
  /\ o \in unswept /\ color[o] = OtherWhite(white)
  /\ LET given == IF o \in Scripts THEN Body[o] ELSE {}
     IN /\ heap' = (heap \ {o}) \cup given
        /\ chunk' = chunk \ given
        /\ color' = [x \in Obj |-> IF x \in given THEN white
                                   ELSE IF x = o THEN WHITE0 ELSE color[x]]
        /\ AfterSweeping(Prepended(given) \ {o})
  /\ refs' = [refs EXCEPT ![o] = {}]
  /\ costate' = [c \in Coroutines |-> IF c = o THEN "DONE" ELSE costate[c]]
  /\ carried' = [c \in Coroutines |-> IF c = o THEN {} ELSE carried[c]]
  /\ owes' = owes \ {o}
  /\ owned' = owned \ {o}

SweepNothing ==
  /\ gcstate = "SWEEP" /\ unswept = {}
  /\ AfterSweeping({})
  /\ UNCHANGED <<heapVars, color, coVars>>

-----------------------------------------------------------------------------
Init ==
  /\ heap = {} /\ chunk = {} /\ stack = {} /\ open = {} /\ onFrame = {}
  /\ disposing = {} /\ pending = {} /\ spare = {} /\ weak = {}
  /\ owes = {} /\ owned = {} /\ gray = {} /\ unswept = {}
  /\ refs = [o \in Obj |-> {}]
  /\ color = [o \in Obj |-> WHITE0]
  /\ white = WHITE0
  /\ gcstate = "PAUSE" /\ atomicAt = "off" /\ collecting = 0
  /\ costate = [c \in Coroutines |-> "DONE"]
  /\ carried = [c \in Coroutines |-> {}]

ProgramOnTable(t) ==
  \/ NewTable(t)
  \/ \E v \in Obj : TableSet(t, v) \/ TableRemove(t, v)

ProgramOnUpvalue(u) ==
  Capture(u) \/ CaptureAgain(u) \/ CloseUpvalue(u) \/ SetUpval(u)

ProgramOnCoroutine(c) ==
  \/ NewCoroutine(c) \/ RemakeSpare(c) \/ GiveSpare(c)
  \/ Resume(c) \/ Yield(c) \/ Finish(c) \/ Dispose(c) \/ TakePending(c)

ProgramOnValue(v) ==
  \/ Drop(v) \/ WeakPut(v) \/ WeakGet(v) \/ WeakForget(v)
  \/ \E p \in Obj : Load(p, v)

Program ==
  \/ \E t \in Tables : ProgramOnTable(t)
  \/ \E u \in Upvalues : ProgramOnUpvalue(u)
  \/ \E c \in Coroutines : ProgramOnCoroutine(c)
  \/ \E v \in Obj : ProgramOnValue(v)
  \/ \E s \in Scripts : NewScript(s)
  \/ CollectCall

Sweep == SweepNothing \/ \E o \in Obj : SweepKeep(o) \/ SweepFree(o)

Collector ==
  \/ StartCycle \/ AtomicRoots \/ AtomicHold \/ AtomicSwap \/ Sweep
  \/ \E o \in Obj : PropagateOne(o)
  \/ CollectReturn

Next == Program \/ Collector

Spec == Init /\ [][Next]_vars

(* A full collection is one C loop: once called, it goes on to its return. *)
FairSpec == Spec /\ WF_vars(collecting # 0 /\ Collector)
=============================================================================
