---------------------------- MODULE LhatGcProps ----------------------------
(* What the collector promises, stated over LhatGc.                        *)
EXTENDS LhatGc

(* LhatGc: every variable has its type.                                    *)
TypeOK ==
  /\ heap \subseteq Obj /\ chunk \subseteq Consts
  /\ refs \in [Obj -> SUBSET Obj]
  /\ color \in [Obj -> WHITE0..BLACK]
  /\ white \in {WHITE0, WHITE1}
  /\ gcstate \in {"PAUSE", "PROPAGATE", "SWEEP"}
  /\ atomicAt \in {"off", "roots", "held"}
  /\ gray \subseteq Obj /\ unswept \subseteq Obj
  /\ collecting \in 0..2
  /\ stack \subseteq Obj /\ open \subseteq Upvalues
  /\ onFrame \subseteq Coroutines /\ disposing \subseteq Coroutines
  /\ pending \subseteq Coroutines /\ spare \subseteq Coroutines
  /\ weak \subseteq Obj
  /\ costate \in [Coroutines -> {"FRESH", "SUSPENDED", "RUNNING", "DONE"}]
  /\ owes \subseteq Coroutines /\ owned \subseteq Coroutines
  /\ carried \in [Coroutines -> SUBSET Upvalues]

(* What the sweep under way is going to free.                              *)
Doomed ==
  IF gcstate = "SWEEP"
  THEN {o \in unswept : color[o] = OtherWhite(white)} ELSE {}

Kept == heap \ Doomed

(* No root is a freed object or one about to be freed, and no object that  *)
(* stays refers to one: a register read, a table read or a resume never    *)
(* reaches memory the sweep has taken.                                     *)
NoDangling ==
  /\ Roots \subseteq Alive \ Doomed
  /\ \A o \in Kept : refs[o] \subseteq Alive \ Doomed
  /\ \A s \in Kept \cap Scripts : Body[s] \subseteq Alive \ Doomed

(* gc.h: while marking, no black object refers to a white one, and what is *)
(* gray is exactly what is on the gray list.                               *)
TriColour ==
  gcstate = "PROPAGATE" =>
    /\ gray = {o \in heap : color[o] = GRAY}
    /\ \A o \in heap : color[o] = BLACK => Whites(color, Children(o)) = {}

(* gc.c, check_invariant: asked once the marking is over and before the    *)
(* weak references and the sweep act on it.                                *)
CheckInvariant ==
  atomicAt = "held" /\ gray = {} =>
    \A o \in heap : color[o] = BLACK => Whites(color, Children(o)) = {}

(* A weak reference never names an object the sweep frees: from the swap   *)
(* on, a get answers nil^ for everything the marking decided against.      *)
WeakIsLive == weak \subseteq Alive \ Doomed

(* The captures on a kept coroutine's list are allocated: resuming it      *)
(* walks the list (reattach_upvalues).                                     *)
CarriedIsLive == \A c \in Kept \cap Coroutines : carried[c] \subseteq heap \ Doomed

(* The least set that holds S and everything the machine can get to from   *)
(* it.                                                                     *)
ReachableFrom(S) ==
  LET edges(o) == Children(o) \cup (IF o \in Scripts THEN Body[o] ELSE {})
      closed(T) == S \subseteq T /\ \A o \in T : edges(o) \subseteq T
  IN {o \in Obj : \A T \in SUBSET Obj : closed(T) => o \in T}

(* A sweep step frees nothing the program can still reach.                 *)
OnlyGarbageFreed ==
  [][\A o \in heap \ heap' : o \notin ReachableFrom(Roots)]_vars

(* gc.h, lhat_gc_collect: what the program could not reach when it was     *)
(* called has been freed when it answers.  Constants a dead script left    *)
(* are judged by the next cycle.                                           *)
CollectIsComplete ==
  collecting = 2 /\ gcstate = "PAUSE"
    => heap \ Consts \subseteq ReachableFrom(Roots)

(* A full collection comes back to its caller.                             *)
CollectReturns == collecting = 1 ~> collecting = 0

(* A coroutine that still owes its cleanups is never freed.                *)
NoCleanupLost ==
  [][\A c \in (heap \ heap') \cap Coroutines :
        ~(costate[c] = "SUSPENDED" /\ c \in owes)]_vars
=============================================================================
