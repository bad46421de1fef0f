----------------------------- MODULE LhatFrames -----------------------------
(***************************************************************************)
(* The frame stack of one machine: blocks with a finally^ and how a frame  *)
(* drains them, coroutines and how they suspend and are disposed of, the   *)
(* queue of dropped coroutines the collector holds back, and the end of a  *)
(* run (src/src/vm.c, run_frames_loop, and src/src/vm_call.c).             *)
(*                                                                         *)
(* Programs are small bytecode programs: an instruction is <<op>> or       *)
(* <<op, argument>>, with the opcodes that touch frames and cleanups.  A   *)
(* jump or a cleanup is a distance from the instruction that names it.     *)
(* Registers are abstracted to the coroutines they name (`holds`), the     *)
(* collector to the moment it holds dropped coroutines back (LhatGc has    *)
(* the rest of it).                                                        *)
(***************************************************************************)
EXTENDS Naturals, Sequences, SequencesExt, FiniteSets

CONSTANTS
  Coroutines,     \* coroutines the program makes, each once
  Protos,         \* subroutines
  Main,           \* the one the host runs
  BodyOf,         \* the yieldable subroutine each coroutine is a call of
  Programs,       \* the programs considered: [Protos -> Seq(instruction)]
  NoCoroutine,    \* an ordinary call's frame->coroutine
  FrameCapacity,  \* m->frame_capacity
  MaxCleanups,    \* LHAT_MAX_CLEANUPS, of a frame and of a coroutine alike
  WideCallers,    \* callers' windows reach over what a popped frame held
  MaxCount,       \* bound: where the history counters stop counting
  MaxCollects     \* bound: collections the host asks for after the run

ASSUME FramesAssumption ==
  /\ IsFiniteSet(Coroutines)
  /\ NoCoroutine \notin Coroutines
  /\ Coroutines \cap Protos = {}
  /\ Main \in Protos
  /\ BodyOf \in [Coroutines -> Protos]
  /\ FrameCapacity \in Nat \ {0} /\ MaxCleanups \in Nat
  /\ WideCallers \in BOOLEAN /\ MaxCount \in Nat /\ MaxCollects \in Nat

VARIABLES
  code,       \* the program being run
  frames,     \* m->frames: the array, what a popped frame left included
  depth,      \* m->frame_count
  runs,       \* the activations of run_frames_loop, outermost first
  ctl,        \* where the loop is: "boundary", its label "drain", or "host"
  outcome,    \* what the last run answered: "none", "ok", "fault"
  costate,    \* co->frame.state, "NONE" before it is made
  saved,      \* co->frame: pc and cleanups
  costates,   \* what save() kept of each coroutine: <<>> or <<state, frame>>
  holds,      \* the coroutines the registers of a frame or a coroutine name
  stale,      \* ... and those the dead slots of its window still do
  pending,    \* m->pending_dispose
  carriers,   \* m->cleanup_carriers
  waiting,    \* lhat_machine_gc_collect: disposals still to run
  ranAny,     \* ... and whether one has
  collects,   \* collections the host has begun
  entered,    \* history: times each cleanup was remembered, by who owns it
  ran         \* history: times each was run

hostVars == <<waiting, ranAny, collects>>
coVars == <<costate, saved, costates>>
regVars == <<holds, stale>>
seenVars == <<entered, ran>>
vars == <<code, frames, depth, runs, ctl, outcome, coVars, regVars, pending,
          carriers, hostVars, seenVars>>

-----------------------------------------------------------------------------
(* The compiler's side: a block with a finally^, at cleanup depth `entry`  *)
(* (compile_cleanup).                                                      *)
Block(entry, body, final) ==
  <<<<"PUSH", Len(body) + 3>>>> \o body
    \o <<<<"POP", entry>>, <<"JUMP", Len(final) + 2>>>>
    \o final \o <<<<"END">>>>

-----------------------------------------------------------------------------
Top == frames[depth]
Run == Last(runs)
Counted(n) == IF n < MaxCount THEN n + 1 ELSE n
Owner(f) == IF f.co = NoCoroutine THEN f.proto ELSE f.co

Names(o) == holds[o] \cup stale[o]
Owes(c) == costate[c] = "SUSPENDED" /\ saved[c].cleanups # <<>>

(* What a collection reaches: what the frames' registers name, the frames' *)
(* own coroutines, what is queued already, and what those hold in turn.    *)
Roots ==
  UNION {Names(Owner(frames[i])) : i \in 1..depth}
    \cup {c \in Coroutines : \E i \in 1..depth : frames[i].co = c}
    \cup ToSet(pending)

ReachableFrom(S) ==
  LET closed(T) == S \subseteq T /\ \A c \in T : Names(c) \subseteq T
  IN {c \in Coroutines : \A T \in SUBSET Coroutines : closed(T) => c \in T}

(* hold_pending_disposals: what is dropped and still owes its cleanups.    *)
(* An incremental cycle also leaves what it had blackened before the drop. *)
Dropped(blackened) ==
  {c \in Coroutines \ ReachableFrom(Roots \cup blackened) : Owes(c)}

HoldBack(blackened) ==
  \E queue \in SetToSeqs(Dropped(blackened)) : pending' = queue \o pending

-----------------------------------------------------------------------------
(* Entering and leaving frames.  What a push does not write stays as the   *)
(* frame that had this place before left it.                               *)
FreshFrame(f, p) ==
  [f EXCEPT !.proto = p, !.pc = 1, !.cleanups = <<>>, !.returning = FALSE,
            !.co = NoCoroutine, !.disposing = FALSE, !.derive = FALSE]

ResumedFrame(f, c) ==
  [f EXCEPT !.proto = BodyOf[c], !.pc = saved[c].pc,
            !.cleanups = saved[c].cleanups, !.returning = FALSE, !.co = c,
            !.disposing = FALSE, !.derive = FALSE]

(* Mutant: drain_target stays the last frame's.                            *)
StaleTarget(f, c) ==
  [f EXCEPT !.proto = BodyOf[c], !.pc = saved[c].pc,
            !.cleanups = saved[c].cleanups, !.returning = TRUE, !.co = c,
            !.disposing = TRUE]

DisposalFrame(f, c) ==
  [f EXCEPT !.proto = BodyOf[c], !.pc = saved[c].pc,
            !.cleanups = saved[c].cleanups, !.returning = TRUE, !.co = c,
            !.disposing = TRUE, !.target = 0]

Enter(f) ==
  /\ frames' = [frames EXCEPT ![depth + 1] = f]
  /\ depth' = depth + 1

RunAt(base, disposal) ==
  [base |-> base, ending |-> FALSE, swept |-> FALSE, disposal |-> disposal]

(* vm_finish with a fault: nothing unwinds.  A disposal the host asked for *)
(* is abandoned and the host asks for no more of them (run_one_disposal).  *)
Fault ==
  /\ outcome' = "fault"
  /\ ctl' = "host"
  /\ runs' = <<>>
  /\ depth' = IF runs[1].disposal THEN runs[1].base ELSE depth
  /\ waiting' = 0
  /\ UNCHANGED <<code, frames, coVars, regVars, pending, carriers, ranAny,
                 collects, seenVars>>

(* The restored cleanups are the frame's now, and no carrier's.            *)
Restore(c) ==
  /\ costate' = [costate EXCEPT ![c] = "RUNNING"]
  /\ carriers' = IF Owes(c) THEN carriers - 1 ELSE carriers
  /\ UNCHANGED <<saved, costates>>

EnterDisposal(c) ==
  /\ Enter(DisposalFrame(frames[depth + 1], c))
  /\ Restore(c)
  /\ ctl' = "drain"

-----------------------------------------------------------------------------
(* The head of the loop, between two instructions: a step of the collector *)
(* first, then the queue, then the end of the run, then the instruction.   *)
Takes == pending # <<>> /\ ~Top.disposing
Leaves == ~Takes /\ Run.ending /\ depth = Run.base + 1

CollectorStep ==
  /\ ctl = "boundary"
  /\ \E blackened \in SUBSET Coroutines :
       Dropped(blackened) # {} /\ HoldBack(blackened)
  /\ UNCHANGED <<code, frames, depth, runs, ctl, outcome, coVars, regVars,
                 carriers, hostVars, seenVars>>

TakePending ==
  /\ ctl = "boundary" /\ Takes
  /\ IF depth = FrameCapacity
     THEN Fault
     ELSE /\ EnterDisposal(Head(pending))
          /\ pending' = Tail(pending)
          /\ UNCHANGED <<code, runs, outcome, regVars, hostVars, seenVars>>

LeaveEnding ==
  /\ ctl = "boundary" /\ Leaves
  /\ ctl' = "drain"
  /\ UNCHANGED <<code, frames, depth, runs, outcome, coVars, regVars, pending,
                 carriers, hostVars, seenVars>>

(* The instruction at the top frame, and the top frame past it.            *)
Instruction == code[Top.proto][Top.pc]
At(op) == ctl = "boundary" /\ ~Takes /\ ~Leaves /\ Instruction[1] = op
Arg == Instruction[2]
Past == [frames EXCEPT ![depth].pc = @ + 1]

PushCleanup ==
  /\ At("PUSH")
  /\ IF Len(Top.cleanups) >= MaxCleanups
     THEN Fault
     ELSE LET there == Top.pc + Arg IN
          /\ entered' = [entered EXCEPT ![Owner(Top)][there] = Counted(@)]
          /\ frames' = [frames EXCEPT ![depth].pc = @ + 1,
                                      ![depth].cleanups = Append(@, there)]
          /\ UNCHANGED <<code, depth, runs, ctl, outcome, coVars, regVars,
                         pending, carriers, hostVars, ran>>

(* Mutant: every cleanup of the frame, not those of the blocks left.       *)
PopToBottom ==
  /\ At("POP")
  /\ frames' = [frames EXCEPT ![depth].target = 0,
                              ![depth].resume = Top.pc + 1,
                              ![depth].returning = FALSE]
  /\ ctl' = "drain"
  /\ UNCHANGED <<code, depth, runs, outcome, coVars, regVars, pending, carriers,
                 hostVars, seenVars>>

PopCleanup ==
  /\ At("POP")
  /\ frames' = [frames EXCEPT ![depth].target = Arg,
                              ![depth].resume = Top.pc + 1,
                              ![depth].returning = FALSE]
  /\ ctl' = "drain"
  /\ UNCHANGED <<code, depth, runs, outcome, coVars, regVars, pending, carriers,
                 hostVars, seenVars>>

EndCleanup ==
  /\ At("END")
  /\ ctl' = "drain"
  /\ UNCHANGED <<code, frames, depth, runs, outcome, coVars, regVars, pending,
                 carriers, hostVars, seenVars>>

Return ==
  /\ At("RETURN")
  /\ frames' = [frames EXCEPT ![depth].target = 0, ![depth].returning = TRUE]
  /\ ctl' = "drain"
  /\ UNCHANGED <<code, depth, runs, outcome, coVars, regVars, pending, carriers,
                 hostVars, seenVars>>

Jump ==
  /\ At("JUMP")
  /\ frames' = [frames EXCEPT ![depth].pc = @ + Arg]
  /\ UNCHANGED <<code, depth, runs, ctl, outcome, coVars, regVars, pending,
                 carriers, hostVars, seenVars>>

Panic == At("PANIC") /\ Fault

(* The slots of a frame that goes are not emptied, and those that lie in   *)
(* its caller's window stay roots of the caller's until written over.      *)
LeaveNames(names) ==
  IF WideCallers /\ depth > Run.base + 1
  THEN LET caller == Owner(frames[depth - 1])
       IN \E left \in SUBSET (stale[caller] \cup names) :
            stale' = [stale EXCEPT ![caller] = left]
  ELSE UNCHANGED stale

(* Calls: an ordinary one, one a comparison makes for its op^<=>, and one  *)
(* a host function makes back into the machine, a run of its own.          *)
Called(f, itsRuns) ==
  IF depth = FrameCapacity
  THEN Fault
  ELSE /\ runs' = itsRuns
       /\ frames' = [Past EXCEPT ![depth + 1] = f]
       /\ depth' = depth + 1
       /\ UNCHANGED <<code, ctl, outcome, coVars, regVars, pending, carriers,
                      hostVars, seenVars>>

Call == At("CALL") /\ Called(FreshFrame(frames[depth + 1], Arg), runs)

(* A tail call takes the frame over where nothing of it is left to do.     *)
TailCall ==
  /\ At("TAILCALL")
  /\ IF Top.cleanups # <<>> \/ Top.co # NoCoroutine
     THEN Called(FreshFrame(frames[depth + 1], Arg), runs)
     ELSE /\ frames' = [frames EXCEPT ![depth].proto = Arg, ![depth].pc = 1,
                                      ![depth].returning = FALSE]
          /\ LeaveNames(Names(Top.proto))
          /\ holds' = [holds EXCEPT ![Top.proto] = {}]
          /\ UNCHANGED <<code, depth, runs, ctl, outcome, coVars, pending,
                         carriers, hostVars, seenVars>>

Compare ==
  /\ At("COMPARE")
  /\ Called([FreshFrame(frames[depth + 1], Arg) EXCEPT !.derive = TRUE], runs)

Callback ==
  /\ At("CALLBACK")
  /\ Called(FreshFrame(frames[depth + 1], Arg), Append(runs, RunAt(depth, FALSE)))

-----------------------------------------------------------------------------
(* Coroutines.                                                             *)
Named(c) == c \in holds[Owner(Top)]

Make ==
  /\ At("NEW")
  /\ costate[Arg] = "NONE"
  /\ costate' = [costate EXCEPT ![Arg] = "FRESH"]
  /\ holds' = [holds EXCEPT ![Owner(Top)] = @ \cup {Arg}]
  /\ frames' = Past
  /\ UNCHANGED <<code, depth, runs, ctl, outcome, saved, costates, stale,
                 pending, carriers, hostVars, seenVars>>

Drop ==
  /\ At("DROP")
  /\ holds' = [holds EXCEPT ![Owner(Top)] = @ \ {Arg}]
  /\ frames' = Past
  /\ UNCHANGED <<code, depth, runs, ctl, outcome, coVars, stale, pending,
                 carriers, hostVars, seenVars>>

(* start() and resume(), told apart by the state they need.                *)
Resume ==
  /\ At("RESUME")
  /\ IF \/ ~Named(Arg) \/ costate[Arg] \notin {"FRESH", "SUSPENDED"}
        \/ depth = FrameCapacity
     THEN Fault
     ELSE /\ frames' = [Past EXCEPT ![depth + 1] =
                          ResumedFrame(frames[depth + 1], Arg)]
          /\ depth' = depth + 1
          /\ Restore(Arg)
          /\ UNCHANGED <<code, runs, ctl, outcome, regVars, pending, hostVars,
                         seenVars>>

Dispose ==
  /\ At("DISPOSE")
  /\ \/ /\ \/ ~Named(Arg) \/ costate[Arg] = "RUNNING"
           \/ costate[Arg] = "SUSPENDED" /\ depth = FrameCapacity
        /\ Fault
     \/ /\ Named(Arg) /\ costate[Arg] \in {"FRESH", "DONE"}
        /\ costate' = [costate EXCEPT ![Arg] = "DONE"]
        /\ frames' = Past
        /\ UNCHANGED <<code, depth, runs, ctl, outcome, saved, costates, regVars,
                       pending, carriers, hostVars, seenVars>>
     \/ /\ Named(Arg) /\ costate[Arg] = "SUSPENDED" /\ depth < FrameCapacity
        /\ frames' = [Past EXCEPT ![depth + 1] =
                        DisposalFrame(frames[depth + 1], Arg)]
        /\ depth' = depth + 1
        /\ Restore(Arg)
        /\ ctl' = "drain"
        /\ UNCHANGED <<code, runs, outcome, regVars, pending, hostVars, seenVars>>

(* Mutant: every suspended coroutine is a carrier.                         *)
AlwaysCarries(c, f) ==
  /\ costate' = [costate EXCEPT ![c] = "SUSPENDED"]
  /\ saved' = [saved EXCEPT ![c] = [pc |-> f.pc + 1, cleanups |-> f.cleanups]]
  /\ carriers' = carriers + 1

Suspended(c, f) ==
  /\ costate' = [costate EXCEPT ![c] = "SUSPENDED"]
  /\ saved' = [saved EXCEPT ![c] = [pc |-> f.pc + 1, cleanups |-> f.cleanups]]
  /\ carriers' = IF f.cleanups # <<>> THEN carriers + 1 ELSE carriers

Yield ==
  /\ At("YIELD")
  /\ IF Top.co = NoCoroutine \/ Top.disposing
     THEN Fault
     ELSE /\ Suspended(Top.co, Top)
          /\ LeaveNames(Names(Top.co))
          /\ depth' = depth - 1
          /\ UNCHANGED <<code, frames, runs, ctl, outcome, costates, holds,
                         pending, hostVars, seenVars>>

(* save() and load(): only where the frame is in the coroutine.            *)
Save ==
  /\ At("SAVE")
  /\ IF ~Named(Arg) \/ costate[Arg] = "RUNNING"
     THEN Fault
     ELSE /\ costates' = [costates EXCEPT ![Arg] = <<costate[Arg], saved[Arg]>>]
          /\ frames' = Past
          /\ UNCHANGED <<code, depth, runs, ctl, outcome, costate, saved, regVars,
                         pending, carriers, hostVars, seenVars>>

Load ==
  /\ At("LOAD")
  /\ IF ~Named(Arg) \/ costates[Arg] = <<>> \/ costate[Arg] = "RUNNING"
     THEN Fault
     ELSE /\ costate' = [costate EXCEPT ![Arg] = costates[Arg][1]]
          /\ saved' = [saved EXCEPT ![Arg] = costates[Arg][2]]
          /\ carriers' =
               LET owed == IF Owes(Arg) THEN 1 ELSE 0
                   owes == IF /\ costates[Arg][1] = "SUSPENDED"
                              /\ costates[Arg][2].cleanups # <<>>
                           THEN 1 ELSE 0
               IN (carriers - owed) + owes
          /\ frames' = Past
          /\ UNCHANGED <<code, depth, runs, ctl, outcome, costates, regVars,
                         pending, hostVars, seenVars>>

(* L^.gc.collect(): the queue waits for the next boundary.                 *)
Collect ==
  /\ At("COLLECT")
  /\ HoldBack({})
  /\ frames' = Past
  /\ UNCHANGED <<code, depth, runs, ctl, outcome, coVars, regVars, carriers,
                 hostVars, seenVars>>

-----------------------------------------------------------------------------
(* The label `drain`.                                                      *)
Draining == ctl = "drain"

(* Mutant: the cleanup stays on the frame's list.                          *)
RunStanding ==
  /\ Draining
  /\ Len(Top.cleanups) > Top.target
  /\ LET there == Last(Top.cleanups) IN
       /\ frames' = [frames EXCEPT ![depth].pc = there]
       /\ ran' = [ran EXCEPT ![Owner(Top)][there] = Counted(@)]
  /\ ctl' = "boundary"
  /\ UNCHANGED <<code, depth, runs, outcome, coVars, regVars, pending, carriers,
                 hostVars, entered>>

RunCleanup ==
  /\ Draining
  /\ Len(Top.cleanups) > Top.target
  /\ LET there == Last(Top.cleanups) IN
       /\ frames' = [frames EXCEPT ![depth].pc = there,
                                   ![depth].cleanups = Front(@)]
       /\ ran' = [ran EXCEPT ![Owner(Top)][there] = Counted(@)]
  /\ ctl' = "boundary"
  /\ UNCHANGED <<code, depth, runs, outcome, coVars, regVars, pending, carriers,
                 hostVars, entered>>

GoOn ==
  /\ Draining
  /\ Len(Top.cleanups) <= Top.target /\ ~Top.returning
  /\ frames' = [frames EXCEPT ![depth].pc = Top.resume]
  /\ ctl' = "boundary"
  /\ UNCHANGED <<code, depth, runs, outcome, coVars, regVars, pending, carriers,
                 hostVars, seenVars>>

(* The frame goes.  Its coroutine is done with; the last frame of a run    *)
(* waits once for what a last collection finds dropped.                    *)
Over(c) ==
  IF c = NoCoroutine
  THEN UNCHANGED <<costate, saved>>
  ELSE /\ costate' = [costate EXCEPT ![c] = "DONE"]
       /\ saved' = [saved EXCEPT ![c].cleanups = <<>>]

Gone == Len(Top.cleanups) <= Top.target /\ Top.returning
(* Mutants: an off-by-one, and no end_swept.                               *)
SweepsForTwo == depth = Run.base + 1 /\ ~Run.swept /\ carriers > 1
SweepsAgain == depth = Run.base + 1 /\ carriers # 0

Sweeps == depth = Run.base + 1 /\ ~Run.swept /\ carriers # 0

SweepAtEnd ==
  /\ Draining /\ Gone /\ Sweeps
  /\ Over(Top.co)
  /\ HoldBack({})
  /\ runs' = [runs EXCEPT ![Len(runs)].swept = TRUE,
                          ![Len(runs)].ending = pending' # <<>>]
  /\ ctl' = IF pending' # <<>> THEN "boundary" ELSE "drain"
  /\ UNCHANGED <<code, frames, depth, outcome, costates, regVars, carriers,
                 hostVars, seenVars>>

(* The slots of what goes are emptied while a carrier exists, and only     *)
(* then.                                                                   *)
LeftInSlots == IF carriers # 0 THEN {} ELSE Names(Owner(Top))

(* A comparison's answer is read against zero; a disposal's is nil^, which *)
(* cannot be.                                                              *)
PopFrame ==
  /\ Draining /\ Gone /\ ~Sweeps
  /\ Over(Top.co)
  /\ holds' = IF Top.co = NoCoroutine
              THEN [holds EXCEPT ![Top.proto] = {}] ELSE holds
  /\ LeaveNames(LeftInSlots)
  /\ \/ /\ depth = Run.base + 1
        /\ depth' = depth - 1
        /\ runs' = Front(runs)
        /\ ctl' = IF Len(runs) = 1 THEN "host" ELSE "boundary"
        /\ outcome' = IF Len(runs) = 1 THEN "ok" ELSE outcome
        /\ UNCHANGED waiting
     \/ /\ depth > Run.base + 1 /\ ~(Top.derive /\ Top.disposing)
        /\ depth' = depth - 1
        /\ ctl' = "boundary"
        /\ UNCHANGED <<runs, outcome, waiting>>
     \/ /\ depth > Run.base + 1 /\ Top.derive /\ Top.disposing
        /\ depth' = IF runs[1].disposal THEN runs[1].base ELSE depth - 1
        /\ outcome' = "fault" /\ ctl' = "host" /\ runs' = <<>> /\ waiting' = 0
  /\ UNCHANGED <<code, frames, costates, pending, carriers, ranAny, collects,
                 seenVars>>

-----------------------------------------------------------------------------
(* The host.                                                               *)
HostRun ==
  /\ ctl = "host" /\ outcome = "none"
  /\ frames' = [frames EXCEPT ![1] = FreshFrame(@, Main)]
  /\ depth' = 1
  /\ runs' = <<RunAt(0, FALSE)>>
  /\ ctl' = "boundary"
  /\ UNCHANGED <<code, outcome, coVars, regVars, pending, carriers, hostVars,
                 seenVars>>

(* lhat_machine_gc_collect: only what is queued now is run, and nothing    *)
(* where a fault left a disposal standing ...                              *)
HostCollect ==
  /\ ctl = "host" /\ outcome # "none" /\ waiting = 0 /\ ~ranAny
  /\ collects < MaxCollects
  /\ HoldBack({})
  /\ waiting' = IF depth > 0 /\ Top.disposing THEN 0 ELSE Len(pending')
  /\ collects' = collects + 1
  /\ UNCHANGED <<code, frames, depth, runs, ctl, outcome, coVars, regVars,
                 carriers, ranAny, seenVars>>

(* ... run_one_disposal, until they have run or one has faulted ...        *)
HostDispose ==
  /\ ctl = "host" /\ waiting > 0
  /\ IF pending = <<>> \/ depth = FrameCapacity
     THEN /\ waiting' = 0
          /\ UNCHANGED <<frames, depth, runs, ctl, coVars, pending, carriers,
                         ranAny>>
     ELSE /\ waiting' = waiting - 1
          /\ ranAny' = TRUE
          /\ EnterDisposal(Head(pending))
          /\ pending' = Tail(pending)
          /\ runs' = <<RunAt(depth, TRUE)>>
  /\ UNCHANGED <<code, outcome, regVars, collects, seenVars>>

(* ... and the cycle that reclaims them.                                   *)
HostReclaim ==
  /\ ctl = "host" /\ waiting = 0 /\ ranAny
  /\ HoldBack({})
  /\ ranAny' = FALSE
  /\ UNCHANGED <<code, frames, depth, runs, ctl, outcome, coVars, regVars,
                 carriers, waiting, collects, seenVars>>

-----------------------------------------------------------------------------
Owners == Coroutines \cup Protos
Places(program) == 1..Max({Len(program[p]) : p \in Protos} \cup {0})

Init ==
  /\ code \in Programs
  /\ frames = [i \in 1..FrameCapacity + 1 |->
                 [proto |-> Main, pc |-> 1, cleanups |-> <<>>, target |-> 0,
                  resume |-> 1, returning |-> FALSE, disposing |-> FALSE,
                  derive |-> FALSE, co |-> NoCoroutine]]
  /\ depth = 0 /\ runs = <<>> /\ ctl = "host" /\ outcome = "none"
  /\ costate = [c \in Coroutines |-> "NONE"]
  /\ saved = [c \in Coroutines |-> [pc |-> 1, cleanups |-> <<>>]]
  /\ costates = [c \in Coroutines |-> <<>>]
  /\ holds = [o \in Owners |-> {}] /\ stale = [o \in Owners |-> {}]
  /\ pending = <<>> /\ carriers = 0
  /\ waiting = 0 /\ ranAny = FALSE /\ collects = 0
  /\ entered = [o \in Owners |-> [k \in Places(code) |-> 0]]
  /\ ran = [o \in Owners |-> [k \in Places(code) |-> 0]]

Execute ==
  \/ PushCleanup \/ PopCleanup \/ EndCleanup \/ Return \/ Jump \/ Panic
  \/ Call \/ TailCall \/ Compare \/ Callback
  \/ Make \/ Drop \/ Resume \/ Dispose \/ Yield \/ Save \/ Load \/ Collect

Loop ==
  \/ TakePending \/ LeaveEnding \/ Execute
  \/ RunCleanup \/ GoOn \/ SweepAtEnd \/ PopFrame

Host == HostRun \/ HostCollect \/ HostDispose \/ HostReclaim

Next == CollectorStep \/ Loop \/ Host

Spec == Init /\ [][Next]_vars

(* The loop is one thread of C: it goes on to the next instruction.        *)
FairSpec == Spec /\ WF_vars(Loop)
=============================================================================
