-------------------------- MODULE LhatFramesProps --------------------------
(* What the frame stack promises, stated over LhatFrames.                  *)
EXTENDS LhatFrames

(* LhatFrames: every variable has its type.                                *)
TypeOK ==
  /\ depth \in 0..FrameCapacity
  /\ ctl \in {"boundary", "drain", "host"}
  /\ outcome \in {"none", "ok", "fault"}
  /\ \A i \in 1..depth :
       /\ frames[i].proto \in Protos
       /\ frames[i].pc \in 1..Len(code[frames[i].proto])
       /\ ToSet(frames[i].cleanups) \subseteq 1..Len(code[frames[i].proto])
       /\ frames[i].co \in Coroutines \cup {NoCoroutine}
  /\ costate \in [Coroutines ->
                    {"NONE", "FRESH", "SUSPENDED", "RUNNING", "DONE"}]
  /\ {holds, stale} \subseteq [Owners -> SUBSET Coroutines]
  /\ pending \in Seq(Coroutines)
  /\ carriers \in Nat /\ waiting \in Nat /\ collects \in 0..MaxCollects
  /\ (ctl = "host") = (runs = <<>>)

(* machine.h, cleanup_carriers: how many suspended coroutines are carrying *)
(* cleanups.  The end of a run reads zero as "nothing is owed".            *)
CarriersAgree == carriers = Cardinality({c \in Coroutines : Owes(c)})

(* vm.c, [syntax.finally.coroutine]: disposal never runs the same cleanup  *)
(* twice.                                                                  *)
NeverTwice ==
  \A o \in Owners : \A k \in DOMAIN ran[o] : ran[o][k] <= entered[o][k]

(* [syntax.finally.every-exit]: whichever way a coroutine's body was left  *)
(* -- its end, a return^, dispose(), being dropped -- every block it had   *)
(* entered has run its finally^.                                           *)
EveryExit ==
  \A c \in Coroutines :
    costate[c] = "DONE" => ran[c] = entered[c]

(* The blocks written in the body of the one whose finally^ is at there.   *)
CodeOf(o) == code[IF o \in Coroutines THEN BodyOf[o] ELSE o]
Within(o, there) ==
  LET program == CodeOf(o)
      pushes == {k \in 1..Len(program) : program[k][1] = "PUSH"}
      inner == {k \in pushes : \E outer \in pushes :
                  /\ outer + program[outer][2] = there
                  /\ outer < k /\ k < there}
  IN {k + program[k][2] : k \in inner}

(* [syntax.finally.impl] and [syntax.finally.coroutine]: cleanups run from *)
(* the inside out, by return^, by dispose() and by a drop alike.  Once the *)
(* finally^ of a block has run, so has that of every block entered in it.  *)
InnerFirst ==
  \A o \in Owners : \A there \in DOMAIN ran[o] :
    ran[o][there] = entered[o][there] =>
      \A k \in Within(o, there) : ran[o][k] = entered[o][k]

(* vm.c, the run loop: the queue is never taken from on top of a disposal  *)
(* already under way.  Not so: README, section 11.                         *)
NeverOnTop ==
  [][(pending # <<>> /\ pending' = Tail(pending))
       => \A i \in 1..depth : ~frames[i].disposing]_vars

(* What the program can still name, dead slots aside.                      *)
InUse ==
  LET start == UNION {holds[Owner(frames[i])] \cup {frames[i].co} : i \in 1..depth}
      closed(T) == start \subseteq T /\ \A c \in T \cap Coroutines : holds[c] \subseteq T
  IN {c \in Coroutines :
        \A T \in SUBSET (Coroutines \cup {NoCoroutine}) : closed(T) => c \in T}

(* vm.c, the drain: whether a dropped coroutine's finally^ runs does not   *)
(* come down to whether the heap happened to fill up in time.  The last    *)
(* frame of a run leaves nothing dropped that still owes a cleanup.        *)
DroppedIsRun ==
  [][(ctl # "host" /\ ctl' = "host" /\ outcome' = "ok" /\ ~runs[1].disposal)
       => \A c \in Coroutines \ InUse : ~Owes(c)]_vars

(* machine.h, derive: an ordering that reached for op^<=> is the one frame *)
(* whose answer is read against zero.                                      *)
DerivedIsOrdinary ==
  \A i \in 1..depth : frames[i].derive => frames[i].co = NoCoroutine

(* 02-syntax.md, [syntax.finally.coroutine]: yield^ is forbidden inside a  *)
(* finally^.  A suspended body stands inside no cleanup it is running.     *)
InFinally(program, p, pc) ==
  \E k \in 1..Len(program[p]) :
    /\ program[p][k][1] = "PUSH"
    /\ LET first == k + program[p][k][2]
           past == first - 1 + program[p][first - 1][2]
       IN pc \in first..past - 1
InCleanup(p, pc) == InFinally(code, p, pc)
NoYieldInCleanup ==
  \A c \in Coroutines :
    costate[c] = "SUSPENDED" => ~InCleanup(BodyOf[c], saved[c].pc - 1)

(* compile.c, compile_cleanup: what the compiler lays out.  An instruction *)
(* goes on to one of its own body, and control comes into a finally^ by    *)
(* the drain alone.  That no finally^ yields is asked of the program       *)
(* (02-syntax.md), and not looked at.                                      *)
Lands(program, p, k, to) ==
  /\ to \in 1..Len(program[p])
  /\ InFinally(program, p, to) => InFinally(program, p, k)

WellLaid(program) ==
  \A p \in Protos :
    /\ Len(program[p]) \in Nat \ {0} /\ ~InFinally(program, p, 1)
    /\ \A k \in 1..Len(program[p]) :
         LET op == program[p][k][1] arg == program[p][k][2] IN
         /\ op \notin {"JUMP", "RETURN", "PANIC", "END"} =>
              Lands(program, p, k, k + 1)
         /\ op = "JUMP" => Lands(program, p, k, k + arg)
         /\ op = "PUSH" => k + arg \in 1..Len(program[p])
         /\ op = "POP" => arg \in Nat
         /\ op \in {"CALL", "TAILCALL", "COMPARE", "CALLBACK"} => arg \in Protos
         /\ op = "NEW" => arg \in Coroutines
         /\ op = "END" => InFinally(program, p, k)
         /\ op = "YIELD" => ~InFinally(program, p, k)

(* What the count of carriers rests on: load() is asked of a coroutine     *)
(* only while no frame runs it.                                            *)
LoadsOffStack == [][Load => \A i \in 1..depth : frames[i].co # Arg]_vars

(* What each cleanup running once rests on: the queue is served for no     *)
(* coroutine that has been resumed since it was dropped, and nothing is    *)
(* loaded.                                                                 *)
TakesDropped ==
  [][/\ ~Load
     /\ pending # <<>> /\ (TakePending \/ HostDispose)
          => costate[Head(pending)] # "RUNNING"]_vars

(* vm.c, LHAT_SLICE_POLL: a run that neither loops nor calls ends by its   *)
(* own length -- and so does every run of these programs, none of which    *)
(* loops.                                                                  *)
RunEnds == ctl # "host" ~> ctl = "host"
=============================================================================
