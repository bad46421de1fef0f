-------------------------- MODULE LhatFramesProofs --------------------------
(***************************************************************************)
(* Proofs about LhatFrames, for every set of programs a compiler may make, *)
(* any number of coroutines and any depth: types, that the count of        *)
(* carriers is right, and that each cleanup runs once.                     *)
(***************************************************************************)
EXTENDS LhatFramesProps, FiniteSetTheorems, SequenceTheorems, TLAPS

(* The program being run is laid out well.                                 *)
LaidOut == WellLaid(code)

Spots(p) == 1..Len(code[p])
LandsAt(p, k, to) ==
  to \in Spots(p) /\ (InCleanup(p, to) => InCleanup(p, k))

-----------------------------------------------------------------------------
States == {"NONE", "FRESH", "SUSPENDED", "RUNNING", "DONE"}
FrameType ==
  [proto : Protos, pc : Nat, cleanups : Seq(Nat), target : Nat, resume : Nat,
   returning : BOOLEAN, disposing : BOOLEAN, derive : BOOLEAN,
   co : Coroutines \cup {NoCoroutine}]
SavedType == [pc : Nat, cleanups : Seq(Nat)]
RunType ==
  [base : 0..FrameCapacity, ending : BOOLEAN, swept : BOOLEAN, disposal : BOOLEAN]

Types ==
  /\ frames \in [1..FrameCapacity + 1 -> FrameType]
  /\ depth \in 0..FrameCapacity
  /\ runs \in Seq(RunType)
  /\ ctl \in {"boundary", "drain", "host"}
  /\ outcome \in {"none", "ok", "fault"}
  /\ costate \in [Coroutines -> States]
  /\ saved \in [Coroutines -> SavedType]
  /\ costates \in [Coroutines -> {<<>>} \cup (States \X SavedType)]
  /\ holds \in [Owners -> SUBSET Coroutines]
  /\ stale \in [Owners -> SUBSET Coroutines]
  /\ pending \in Seq(Coroutines)
  /\ waiting \in Nat /\ collects \in 0..MaxCollects

(* What a list of cleanups names.                                          *)
InBody(list, p) ==
  Len(list) <= MaxCleanups /\ \A n \in 1..Len(list) : list[n] \in Spots(p)

CanGoOn(f) == f.returning \/ f.resume \in Spots(f.proto)

FrameOK(f) ==
  /\ f.pc \in Spots(f.proto)
  /\ InBody(f.cleanups, f.proto)
  /\ f.co \in Coroutines => f.proto = BodyOf[f.co]
  /\ InCleanup(f.proto, f.pc) => CanGoOn(f)
  /\ f.returning => f.target = 0

SavedOK(c, s) ==
  /\ s.pc \in Spots(BodyOf[c])
  /\ InBody(s.cleanups, BodyOf[c])
  /\ ~InCleanup(BodyOf[c], s.pc)

(* A run ends at its own first frame, which never suspends, and once it    *)
(* ends that frame has returned.                                           *)
RunOK(r) ==
  /\ r.base < depth
  /\ LET f == frames[r.base + 1] IN
       /\ f.co = NoCoroutine \/ f.disposing
       /\ r.ending => f.returning

StackInv ==
  /\ \A i \in 1..depth : FrameOK(frames[i])
  /\ \A c \in Coroutines :
       /\ SavedOK(c, saved[c])
       /\ costates[c] # <<>> => SavedOK(c, costates[c][2])
  /\ \A k \in 1..Len(runs) : RunOK(runs[k])
  /\ \A j, k \in 1..Len(runs) : j < k => runs[j].base < runs[k].base
  /\ ctl = "host" <=> runs = <<>>
  /\ ctl = "drain" => CanGoOn(Top)

(* A coroutine a frame runs is not suspended, and a frame on top of it for *)
(* the same one is a disposal, which never suspends.                       *)
CoInv ==
  /\ \A i \in 1..depth :
       frames[i].co \in Coroutines => costate[frames[i].co] \in {"RUNNING", "DONE"}
  /\ \A i, k \in 1..depth :
       i < k /\ frames[i].co \in Coroutines /\ frames[i].co = frames[k].co
         => frames[k].disposing

IInv == LaidOut /\ Types /\ StackInv /\ CoInv /\ CarriersAgree

-----------------------------------------------------------------------------
(* Whoever is in a run has a frame and a run.                              *)
LEMMA HereFacts ==
  ASSUME Types, StackInv, ctl # "host"
  PROVE  /\ depth \in 1..FrameCapacity
         /\ Len(runs) \in Nat \ {0} /\ Run = runs[Len(runs)] /\ runs # <<>>
         /\ Run \in RunType /\ RunOK(Run)
         /\ Top = frames[depth] /\ Top \in FrameType /\ FrameOK(Top)
<1>1. runs # <<>> /\ runs \in Seq(RunType)
  BY DEF StackInv, Types
<1>2. Len(runs) \in Nat \ {0} /\ Run = runs[Len(runs)]
  BY <1>1 DEF Run, Last
<1>3. Run \in RunType /\ RunOK(Run)
  BY <1>1, <1>2 DEF StackInv
<1>4. depth \in 1..FrameCapacity
  BY <1>3, FramesAssumption DEF RunOK, RunType, Types, FramesAssumption
<1>5. Top = frames[depth] /\ Top \in FrameType /\ FrameOK(Top)
  BY <1>4, FramesAssumption DEF Top, Types, StackInv, FramesAssumption
<1>6. QED
  BY <1>1, <1>2, <1>3, <1>4, <1>5

LEMMA OwnerType ==
  ASSUME NEW f \in FrameType
  PROVE  Owner(f) \in Owners
BY DEF Owner, Owners, FrameType

(* What hold_pending_disposals puts on the queue is coroutines.            *)
LEMMA HoldBackType ==
  ASSUME Types, NEW blackened, HoldBack(blackened)
  PROVE  pending' \in Seq(Coroutines)
<1>1. PICK queue \in SetToSeqs(Dropped(blackened)) : pending' = queue \o pending
  BY DEF HoldBack
<1>2. Dropped(blackened) \subseteq Coroutines
  BY DEF Dropped
<1>3. Cardinality(Dropped(blackened)) \in Nat
  BY <1>2, FS_Subset, FS_CardinalityType, FramesAssumption DEF FramesAssumption
<1>4. queue \in [1..Cardinality(Dropped(blackened)) -> Dropped(blackened)]
  BY DEF SetToSeqs
<1>5. queue \in Seq(Coroutines)
  BY <1>2, <1>3, <1>4
<1>6. QED
  BY <1>1, <1>5 DEF Types

LEMMA FrontType ==
  ASSUME NEW S, NEW s \in Seq(S), s # <<>>
  PROVE  /\ Front(s) \in Seq(S) /\ Len(Front(s)) = Len(s) - 1
         /\ \A n \in 1..Len(s) - 1 : Front(s)[n] = s[n]
         /\ Len(s) \in Nat \ {0} /\ Last(s) = s[Len(s)] /\ Last(s) \in S
<1>1. Len(s) \in Nat \ {0}
  OBVIOUS
<1>2. Front(s) = SubSeq(s, 1, Len(s) - 1) /\ Last(s) = s[Len(s)]
  BY DEF Front, Last
<1>3. Last(s) \in S
  BY <1>1, <1>2
<1>4. ASSUME NEW n \in Nat, n = Len(s) - 1
      PROVE  /\ SubSeq(s, 1, n) \in Seq(S) /\ Len(SubSeq(s, 1, n)) = n
             /\ \A i \in 1..n : SubSeq(s, 1, n)[i] = s[i]
  BY <1>1, <1>4
<1>5. Len(s) - 1 \in Nat
  BY <1>1
<1>6. QED
  BY <1>1, <1>2, <1>3, <1>4, <1>5

(* What the instruction at the top frame may be.                           *)
LEMMA InstructionFacts ==
  ASSUME LaidOut, Types, StackInv, NEW op, At(op)
  PROVE  /\ ctl = "boundary"
         /\ LET p == Top.proto  k == Top.pc IN
              /\ p \in Protos /\ k \in Spots(p) /\ Len(code[p]) \in Nat
              /\ op \notin {"JUMP", "RETURN", "PANIC", "END"} => LandsAt(p, k, k + 1)
              /\ op = "JUMP" => LandsAt(p, k, k + Arg)
              /\ op = "PUSH" => k + Arg \in Spots(p)
              /\ op = "POP" => Arg \in Nat
              /\ op \in {"CALL", "TAILCALL", "COMPARE", "CALLBACK"} => Arg \in Protos
              /\ op = "NEW" => Arg \in Coroutines
              /\ op = "END" => InCleanup(p, k)
              /\ op = "YIELD" => ~InCleanup(p, k)
<1>1. ctl = "boundary" /\ Instruction = code[Top.proto][Top.pc] /\ Instruction[1] = op
  BY DEF At, Instruction
<1>2. Top.proto \in Protos /\ Top.pc \in Spots(Top.proto)
  BY <1>1, HereFacts DEF FrameType, FrameOK
<1>3. QED
  BY <1>1, <1>2 DEF LaidOut, WellLaid, Lands, LandsAt, Spots, InCleanup, Arg

(* Frames as they are entered.                                             *)
LEMMA FreshFacts ==
  ASSUME NEW f \in FrameType, NEW p \in Protos
  PROVE  LET g == FreshFrame(f, p) IN
         /\ g \in FrameType
         /\ g.proto = p /\ g.pc = 1 /\ g.cleanups = <<>> /\ ~g.returning
         /\ g.co = NoCoroutine /\ ~g.disposing
<1>1. <<>> \in Seq(Nat)
  OBVIOUS
<1>2. ASSUME NEW q \in Seq(Nat), q = <<>>
      PROVE  LET g == FreshFrame(f, p) IN
             /\ g \in FrameType
             /\ g.proto = p /\ g.pc = 1 /\ g.cleanups = q /\ ~g.returning
             /\ g.co = NoCoroutine /\ ~g.disposing
  <2> DEFINE h == [f EXCEPT !.proto = p, !.pc = 1, !.cleanups = q, !.returning = FALSE,
                            !.co = NoCoroutine, !.disposing = FALSE, !.derive = FALSE]
  <2>1. FreshFrame(f, p) = h
    BY <1>2 DEF FreshFrame
  <2>2. /\ h \in FrameType
        /\ h.proto = p /\ h.pc = 1 /\ h.cleanups = q /\ ~h.returning
        /\ h.co = NoCoroutine /\ ~h.disposing
    BY DEF FrameType
  <2> HIDE DEF h
  <2>3. QED
    BY <2>1, <2>2
<1>3. QED
  BY <1>1, <1>2

LEMMA ResumedFacts ==
  ASSUME Types, NEW f \in FrameType, NEW c \in Coroutines, NEW g,
         g = ResumedFrame(f, c)
  PROVE  /\ g \in FrameType
         /\ g.proto = BodyOf[c] /\ g.pc = saved[c].pc
         /\ g.cleanups = saved[c].cleanups /\ ~g.returning /\ g.co = c /\ ~g.disposing
<1>1. saved[c].pc \in Nat /\ saved[c].cleanups \in Seq(Nat)
  BY DEF SavedType, Types
<1>2. BodyOf[c] \in Protos
  BY FramesAssumption DEF FramesAssumption
<1>3. QED
  BY <1>1, <1>2 DEF ResumedFrame, FrameType

LEMMA DisposalFacts ==
  ASSUME Types, NEW f \in FrameType, NEW c \in Coroutines, NEW g,
         g = DisposalFrame(f, c)
  PROVE  /\ g \in FrameType
         /\ g.proto = BodyOf[c] /\ g.pc = saved[c].pc
         /\ g.cleanups = saved[c].cleanups /\ g.returning /\ g.co = c /\ g.disposing
         /\ g.target = 0
<1>1. saved[c].pc \in Nat /\ saved[c].cleanups \in Seq(Nat)
  BY DEF SavedType, Types
<1>2. BodyOf[c] \in Protos
  BY FramesAssumption DEF FramesAssumption
<1>3. QED
  BY <1>1, <1>2 DEF DisposalFrame, FrameType

-----------------------------------------------------------------------------
(* How a step may treat the array of frames: the top frame changed in      *)
(* place, or a frame put on top.                                           *)
LEMMA PastTypes ==
  ASSUME Types, StackInv, ctl # "host"
  PROVE  /\ Past \in [1..FrameCapacity + 1 -> FrameType]
         /\ LET g == Past[depth] IN
              /\ g.pc = Top.pc + 1 /\ g.cleanups = Top.cleanups /\ g.proto = Top.proto
              /\ g.co = Top.co /\ g.target = Top.target /\ g.resume = Top.resume
              /\ g.returning = Top.returning /\ g.disposing = Top.disposing
         /\ \A i \in 1..FrameCapacity + 1 : i # depth => Past[i] = frames[i]
<1>1. depth \in 1..FrameCapacity + 1 /\ Top = frames[depth] /\ Top \in FrameType
  BY HereFacts, FramesAssumption DEF FramesAssumption
<1>2. frames[depth].pc + 1 \in Nat /\ frames \in [1..FrameCapacity + 1 -> FrameType]
  BY <1>1 DEF FrameType, Types
<1>3. QED
  BY <1>1, <1>2 DEF Past, FrameType

LEMMA FaultTypes ==
  ASSUME Types, runs # <<>>, Fault
  PROVE  Types'
<1>1. runs[1] \in RunType
  BY DEF Types
<1>2. depth' \in 0..FrameCapacity
  BY <1>1 DEF Fault, RunType, Types
<1>3. QED
  BY <1>2 DEF Fault, Types, coVars, regVars

LEMMA CalledTypes ==
  ASSUME Types, StackInv, ctl # "host", NEW f \in FrameType, NEW rs \in Seq(RunType),
         Called(f, rs)
  PROVE  Types'
<1>1. CASE depth = FrameCapacity
  BY <1>1, FaultTypes, HereFacts DEF Called
<1>2. CASE depth # FrameCapacity
  <2>1. /\ runs' = rs /\ frames' = [Past EXCEPT ![depth + 1] = f] /\ depth' = depth + 1
        /\ UNCHANGED <<code, ctl, outcome, coVars, regVars, pending, carriers,
                       hostVars, seenVars>>
    BY <1>2 DEF Called
  <2>2. frames' \in [1..FrameCapacity + 1 -> FrameType]
    <3>1. Past \in [1..FrameCapacity + 1 -> FrameType]
      BY PastTypes
    <3>2. QED
      BY <2>1, <3>1
  <2>3. depth' \in 0..FrameCapacity
    BY <1>2, <2>1, HereFacts, FramesAssumption DEF FramesAssumption
  <2>4. QED
    BY <2>1, <2>2, <2>3 DEF Types, coVars, regVars, hostVars
<1>3. QED
  BY <1>1, <1>2

(* A coroutine's frame is put on the stack and its cleanups are the        *)
(* frame's.                                                                *)
LEMMA RestoreTypes ==
  ASSUME Types, NEW c \in Coroutines, Restore(c)
  PROVE  /\ costate' \in [Coroutines -> States]
         /\ saved' = saved /\ costates' = costates
BY DEF Restore, Types, States

LEMMA EnterDisposalTypes ==
  ASSUME Types, depth # FrameCapacity, NEW c \in Coroutines, EnterDisposal(c)
  PROVE  /\ frames' = [frames EXCEPT ![depth + 1] = DisposalFrame(frames[depth + 1], c)]
         /\ frames' \in [1..FrameCapacity + 1 -> FrameType]
         /\ depth' = depth + 1 /\ depth' \in 1..FrameCapacity
         /\ ctl' = "drain" /\ Restore(c)
         /\ costate' \in [Coroutines -> States]
         /\ saved' = saved /\ costates' = costates
<1>1. depth + 1 \in 1..FrameCapacity
  BY FramesAssumption DEF FramesAssumption, Types
<1>2. frames[depth + 1] \in FrameType
  BY <1>1, FramesAssumption DEF FramesAssumption, Types
<1>3. DisposalFrame(frames[depth + 1], c) \in FrameType
  BY <1>2, DisposalFacts
<1>4. QED
  BY <1>1, <1>3, RestoreTypes DEF EnterDisposal, Enter, Types

LEMMA LeaveNamesTypes ==
  ASSUME Types, StackInv, ctl # "host", NEW names \in SUBSET Coroutines,
         LeaveNames(names)
  PROVE  stale' \in [Owners -> SUBSET Coroutines]
<1>1. CASE WideCallers /\ depth > Run.base + 1
  <2> DEFINE caller == Owner(frames[depth - 1])
  <2>1. PICK left \in SUBSET (stale[caller] \cup names) :
           stale' = [stale EXCEPT ![caller] = left]
    BY <1>1 DEF LeaveNames
  <2>2. depth - 1 \in 1..FrameCapacity + 1
    BY <1>1, HereFacts, FramesAssumption DEF RunType, FramesAssumption
  <2>3. caller \in Owners
    <3>1. frames[depth - 1] \in FrameType
      BY <2>2 DEF Types
    <3>2. QED
      BY <3>1, OwnerType
  <2> HIDE DEF caller
  <2>4. left \in SUBSET Coroutines /\ stale \in [Owners -> SUBSET Coroutines]
    BY <2>1, <2>3 DEF Types
  <2>5. QED
    BY <2>1, <2>3, <2>4
<1>2. CASE ~(WideCallers /\ depth > Run.base + 1)
  BY <1>2 DEF LeaveNames, Types
<1>3. QED
  BY <1>1, <1>2

LEMMA NamesType ==
  ASSUME Types, NEW f \in FrameType
  PROVE  Names(Owner(f)) \in SUBSET Coroutines
BY OwnerType DEF Names, Types

LEMMA OverTypes ==
  ASSUME Types, NEW c \in Coroutines \cup {NoCoroutine}, Over(c)
  PROVE  costate' \in [Coroutines -> States] /\ saved' \in [Coroutines -> SavedType]
<1>1. CASE c = NoCoroutine
  BY <1>1 DEF Over, Types
<1>2. CASE c # NoCoroutine
  <2>1. c \in Coroutines
    BY <1>2
  <2>2. /\ costate' = [costate EXCEPT ![c] = "DONE"]
        /\ saved' = [saved EXCEPT ![c].cleanups = <<>>]
    BY <1>2 DEF Over
  <2>3. ASSUME NEW q \in Seq(Nat), q = <<>>
        PROVE  saved' \in [Coroutines -> SavedType]
    BY <2>1, <2>2, <2>3 DEF Types, SavedType
  <2>4. <<>> \in Seq(Nat)
    OBVIOUS
  <2>5. QED
    BY <2>1, <2>2, <2>3, <2>4 DEF Types, States
<1>3. QED
  BY <1>1, <1>2

(* Every step keeps the types.                                             *)
LEMMA TypesStep ==
  ASSUME LaidOut, Types, StackInv, [Next]_vars
  PROVE  Types'
<1> USE DEF coVars, regVars, hostVars, seenVars
<1>1. CASE CollectorStep
  <2>1. PICK blackened \in SUBSET Coroutines : HoldBack(blackened)
    BY <1>1 DEF CollectorStep
  <2>2. QED
    BY <1>1, <2>1, HoldBackType DEF CollectorStep, Types
<1>2. CASE TakePending
  <2>1. CASE depth = FrameCapacity
    BY <1>2, <2>1, FaultTypes, HereFacts DEF TakePending
  <2>2. CASE depth # FrameCapacity
    <3>1. Head(pending) \in Coroutines /\ Tail(pending) \in Seq(Coroutines)
      BY <1>2 DEF TakePending, Takes, Types
    <3>2. /\ EnterDisposal(Head(pending)) /\ pending' = Tail(pending)
          /\ UNCHANGED <<code, runs, outcome, regVars, hostVars, seenVars>>
      BY <1>2, <2>2 DEF TakePending
    <3>3. QED
      BY <2>2, <3>1, <3>2, EnterDisposalTypes DEF Types
  <2>3. QED
    BY <2>1, <2>2
<1>3. CASE LeaveEnding \/ EndCleanup
  BY <1>3 DEF LeaveEnding, EndCleanup, Types
<1>4. CASE PushCleanup
  <2>1. CASE Len(Top.cleanups) >= MaxCleanups
    BY <1>4, <2>1, FaultTypes, InstructionFacts, HereFacts DEF PushCleanup
  <2>2. CASE ~(Len(Top.cleanups) >= MaxCleanups)
    <3>1. /\ Top = frames[depth] /\ Top \in FrameType /\ depth \in 1..FrameCapacity + 1
          /\ Top.pc + Arg \in Nat
      BY <1>4, HereFacts, InstructionFacts, FramesAssumption
         DEF PushCleanup, Spots, FramesAssumption
    <3>2. /\ Append(Top.cleanups, Top.pc + Arg) \in Seq(Nat) /\ Top.pc + 1 \in Nat
      BY <3>1 DEF FrameType
    <3>3. /\ frames' = [frames EXCEPT ![depth].pc = @ + 1,
                          ![depth].cleanups = Append(@, Top.pc + Arg)]
          /\ UNCHANGED <<code, depth, runs, ctl, outcome, coVars, regVars,
                         pending, carriers, hostVars, ran>>
      BY <1>4, <2>2 DEF PushCleanup
    <3>4. frames' \in [1..FrameCapacity + 1 -> FrameType]
      BY <3>1, <3>2, <3>3 DEF Types, FrameType
    <3>5. QED
      BY <3>3, <3>4 DEF Types
  <2>3. QED
    BY <2>1, <2>2
<1>5. CASE PopCleanup \/ Return \/ Jump
  <2>1. /\ Top = frames[depth] /\ Top \in FrameType /\ depth \in 1..FrameCapacity + 1
    BY <1>5, HereFacts, FramesAssumption
       DEF PopCleanup, Return, Jump, At, FramesAssumption
  <2>2. frames' \in [1..FrameCapacity + 1 -> FrameType]
    <3>1. CASE PopCleanup
      <4>1. Arg \in Nat /\ Top.pc + 1 \in Nat
        BY <2>1, <3>1, InstructionFacts DEF PopCleanup, FrameType
      <4>2. QED
        BY <2>1, <3>1, <4>1 DEF PopCleanup, Types, FrameType
    <3>2. CASE Return
      BY <2>1, <3>2 DEF Return, Types, FrameType
    <3>3. CASE Jump
      <4>1. Top.pc + Arg \in Nat
        BY <2>1, <3>3, InstructionFacts DEF Jump, LandsAt, Spots
      <4>2. QED
        BY <2>1, <3>3, <4>1 DEF Jump, Types, FrameType
    <3>4. QED
      BY <1>5, <3>1, <3>2, <3>3
  <2>3. QED
    BY <1>5, <2>2 DEF PopCleanup, Return, Jump, Types
<1>6. CASE Panic
  BY <1>6, FaultTypes, InstructionFacts, HereFacts DEF Panic
<1>7. CASE Call \/ TailCall \/ Compare \/ Callback
  <2>1. /\ ctl # "host" /\ depth \in 1..FrameCapacity /\ runs \in Seq(RunType)
        /\ Arg \in Protos /\ Top = frames[depth] /\ Top \in FrameType
    BY <1>7, HereFacts, InstructionFacts
       DEF Call, TailCall, Compare, Callback, At, Types
  <2>2. frames[depth + 1] \in FrameType
    BY <2>1, FramesAssumption DEF Types, FramesAssumption
  <2> DEFINE f == FreshFrame(frames[depth + 1], Arg)
  <2>3. f \in FrameType /\ [f EXCEPT !.derive = TRUE] \in FrameType
    <3>1. f \in FrameType
      BY <2>1, <2>2, FreshFacts
    <3> HIDE DEF f
    <3>2. QED
      BY <3>1 DEF FrameType
  <2>4. Append(runs, RunAt(depth, FALSE)) \in Seq(RunType)
    <3>1. RunAt(depth, FALSE) \in RunType
      BY <2>1 DEF RunAt, RunType
    <3>2. QED
      BY <2>1, <3>1, AppendProperties
  <2>5. CASE Call \/ Compare \/ Callback
    <3>1. \/ Called(f, runs) \/ Called([f EXCEPT !.derive = TRUE], runs)
          \/ Called(f, Append(runs, RunAt(depth, FALSE)))
      BY <2>5 DEF Call, Compare, Callback
    <3> HIDE DEF f
    <3>2. QED
      BY <2>1, <2>3, <2>4, <3>1, CalledTypes
  <2>6. CASE TailCall
    <3>1. CASE Called(f, runs)
      <4> HIDE DEF f
      <4>1. QED
        BY <2>1, <2>3, <3>1, CalledTypes
    <3>2. CASE ~(Top.cleanups # <<>> \/ Top.co # NoCoroutine)
      <4>1. /\ frames' = [frames EXCEPT ![depth].proto = Arg, ![depth].pc = 1,
                                         ![depth].returning = FALSE]
            /\ LeaveNames(Names(Top.proto))
            /\ holds' = [holds EXCEPT ![Top.proto] = {}]
            /\ UNCHANGED <<code, depth, runs, ctl, outcome, coVars, pending,
                           carriers, hostVars, seenVars>>
        BY <2>6, <3>2 DEF TailCall
      <4>2. frames' \in [1..FrameCapacity + 1 -> FrameType]
        <5>1. depth \in 1..FrameCapacity + 1
          BY <2>1, FramesAssumption DEF FramesAssumption
        <5>2. QED
          BY <2>1, <4>1, <5>1 DEF Types, FrameType
      <4>3. Names(Top.proto) \in SUBSET Coroutines /\ Top.proto = Owner(Top)
        BY <2>1, <3>2, NamesType DEF Owner
      <4>4. stale' \in [Owners -> SUBSET Coroutines]
        BY <2>1, <4>1, <4>3, LeaveNamesTypes
      <4>5. QED
        BY <4>1, <4>2, <4>4 DEF Types
    <3>3. QED
      BY <2>6, <3>1, <3>2 DEF TailCall
  <2>7. QED
    BY <1>7, <2>5, <2>6
<1>8. CASE Make \/ Drop \/ Collect
  <2>1. ctl # "host"
    BY <1>8 DEF Make, Drop, Collect, At
  <2>2. Owner(Top) \in Owners /\ frames' \in [1..FrameCapacity + 1 -> FrameType]
    BY <1>8, <2>1, PastTypes, HereFacts, OwnerType DEF Make, Drop, Collect
  <2>3. pending' \in Seq(Coroutines)
    BY <1>8, HoldBackType DEF Make, Drop, Collect, Types
  <2>4. costate' \in [Coroutines -> States]
    BY <1>8 DEF Make, Drop, Collect, Types, States
  <2>5. holds' \in [Owners -> SUBSET Coroutines]
    <3>1. Make => Arg \in Coroutines
      BY InstructionFacts DEF Make
    <3>2. QED
      <4> HIDE DEF Arg
      <4>1. CASE Make
        BY <2>2, <3>1, <4>1 DEF Make, Types
      <4>2. CASE Drop \/ Collect
        BY <2>2, <4>2 DEF Drop, Collect, Types
      <4>3. QED
        BY <1>8, <4>1, <4>2
  <2>6. QED
    BY <1>8, <2>2, <2>3, <2>4, <2>5 DEF Make, Drop, Collect, Types
<1>9. CASE Resume \/ Dispose \/ Save \/ Load
  <2>1. CASE Fault
    BY <1>9, <2>1, FaultTypes, HereFacts DEF Resume, Dispose, Save, Load, At
  <2>2. CASE ~Fault
    <3>1. /\ ctl # "host" /\ Named(Arg) /\ Top \in FrameType
      BY <1>9, <2>2, HereFacts DEF Resume, Dispose, Save, Load, At
    <3>2. Arg \in Coroutines
      BY <3>1, OwnerType DEF Named, Types
    <3>3. depth \in 1..FrameCapacity
      BY <3>1, HereFacts
    <3> HIDE DEF Arg
    <3>4. CASE Resume
      <4>1. /\ frames' = [Past EXCEPT ![depth + 1] = ResumedFrame(frames[depth + 1], Arg)]
            /\ depth' = depth + 1 /\ depth # FrameCapacity /\ Restore(Arg)
            /\ UNCHANGED <<code, runs, ctl, outcome, regVars, pending, hostVars, seenVars>>
        BY <2>2, <3>4 DEF Resume
      <4>2. ResumedFrame(frames[depth + 1], Arg) \in FrameType
        BY <3>2, <3>3, ResumedFacts, FramesAssumption DEF Types, FramesAssumption
      <4>3. frames' \in [1..FrameCapacity + 1 -> FrameType]
        BY <3>1, <4>1, <4>2, PastTypes
      <4>4. QED
        <5>1. depth' \in 0..FrameCapacity
          BY <3>3, <4>1, FramesAssumption DEF FramesAssumption
        <5>2. QED
          BY <3>2, <4>1, <4>3, <5>1, RestoreTypes DEF Types
    <3>5. CASE Dispose
      <4>1. CASE costate[Arg] \in {"FRESH", "DONE"}
        <5>1. frames' \in [1..FrameCapacity + 1 -> FrameType]
          BY <2>2, <3>1, <3>5, <4>1, PastTypes DEF Dispose
        <5>2. costate' \in [Coroutines -> States]
          BY <2>2, <3>2, <3>5, <4>1 DEF Dispose, Types, States
        <5>3. QED
          BY <2>2, <3>5, <4>1, <5>1, <5>2 DEF Dispose, Types
      <4>2. CASE costate[Arg] \notin {"FRESH", "DONE"}
        <5>1. /\ frames' = [Past EXCEPT ![depth + 1] = DisposalFrame(frames[depth + 1], Arg)]
              /\ depth' = depth + 1 /\ depth < FrameCapacity /\ Restore(Arg)
              /\ ctl' = "drain"
              /\ UNCHANGED <<code, runs, outcome, regVars, pending, hostVars, seenVars>>
          BY <2>2, <3>5, <4>2 DEF Dispose
        <5>2. DisposalFrame(frames[depth + 1], Arg) \in FrameType
          BY <3>2, <3>3, DisposalFacts, FramesAssumption DEF Types, FramesAssumption
        <5>3. frames' \in [1..FrameCapacity + 1 -> FrameType]
          BY <3>1, <5>1, <5>2, PastTypes
        <5>4. QED
          <6>1. depth' \in 0..FrameCapacity
            BY <3>3, <5>1, FramesAssumption DEF FramesAssumption
          <6>2. QED
            BY <3>2, <5>1, <5>3, <6>1, RestoreTypes DEF Types
      <4>3. QED
        BY <4>1, <4>2
    <3>6. CASE Save \/ Load
      <4>1. frames' \in [1..FrameCapacity + 1 -> FrameType]
        BY <2>2, <3>1, <3>6, PastTypes DEF Save, Load
      <4>2. costates' \in [Coroutines -> {<<>>} \cup (States \X SavedType)]
        BY <2>2, <3>2, <3>6 DEF Save, Load, Types
      <4>3. costate' \in [Coroutines -> States] /\ saved' \in [Coroutines -> SavedType]
        <5>1. CASE Save
          BY <2>2, <5>1 DEF Save, Types
        <5>2. CASE Load
          <6>1. costates[Arg] \in States \X SavedType
            BY <2>2, <3>2, <5>2 DEF Load, Types
          <6>2. costates[Arg][1] \in States /\ costates[Arg][2] \in SavedType
            BY <6>1
          <6>3. QED
            BY <2>2, <3>2, <5>2, <6>2 DEF Load, Types
        <5>3. QED
          BY <3>6, <5>1, <5>2
      <4>4. QED
        BY <2>2, <3>6, <4>1, <4>2, <4>3 DEF Save, Load, Types
    <3>7. QED
      BY <1>9, <3>4, <3>5, <3>6
  <2>3. QED
    BY <2>1, <2>2
<1>10. CASE Yield
  <2>1. ctl # "host" /\ depth \in 1..FrameCapacity /\ Top \in FrameType
    BY <1>10, HereFacts DEF Yield, At
  <2>2. CASE Fault
    BY <2>1, <2>2, FaultTypes, HereFacts
  <2>3. CASE ~Fault
    <3>1. /\ Top.co # NoCoroutine /\ Suspended(Top.co, Top) /\ LeaveNames(Names(Top.co))
          /\ depth' = depth - 1
          /\ UNCHANGED <<code, frames, runs, ctl, outcome, costates, holds,
                         pending, hostVars, seenVars>>
      BY <1>10, <2>3 DEF Yield
    <3>2. Top.co \in Coroutines /\ Top.co = Owner(Top)
      BY <2>1, <3>1 DEF FrameType, Owner
    <3>3. stale' \in [Owners -> SUBSET Coroutines]
      BY <2>1, <3>1, <3>2, NamesType, LeaveNamesTypes
    <3>4. [pc |-> Top.pc + 1, cleanups |-> Top.cleanups] \in SavedType
      BY <2>1 DEF FrameType, SavedType
    <3>5. costate' \in [Coroutines -> States] /\ saved' \in [Coroutines -> SavedType]
      BY <3>1, <3>2, <3>4 DEF Suspended, Types, States
    <3>6. depth' \in 0..FrameCapacity
      BY <2>1, <3>1, FramesAssumption DEF FramesAssumption
    <3>7. QED
      BY <3>1, <3>3, <3>5, <3>6 DEF Types
  <2>4. QED
    BY <2>2, <2>3
<1>11. CASE RunCleanup \/ GoOn
  <2>1. /\ ctl # "host" /\ Top = frames[depth] /\ Top \in FrameType
        /\ depth \in 1..FrameCapacity + 1
    BY <1>11, HereFacts, FramesAssumption DEF RunCleanup, GoOn, Draining, FramesAssumption
  <2>2. frames' \in [1..FrameCapacity + 1 -> FrameType]
    <3>1. CASE RunCleanup
      <4>1. Top.cleanups \in Seq(Nat) /\ Top.cleanups # <<>>
        BY <2>1, <3>1 DEF RunCleanup, FrameType
      <4>2. Last(Top.cleanups) \in Nat /\ Front(Top.cleanups) \in Seq(Nat)
        BY <4>1, FrontType
      <4>3. frames' = [frames EXCEPT ![depth].pc = Last(Top.cleanups),
                                     ![depth].cleanups = Front(Top.cleanups)]
        BY <2>1, <3>1 DEF RunCleanup
      <4>4. QED
        BY <2>1, <4>2, <4>3 DEF Types, FrameType
    <3>2. CASE GoOn
      <4>1. Top.resume \in Nat
        BY <2>1 DEF FrameType
      <4>2. QED
        BY <2>1, <3>2, <4>1 DEF GoOn, Types, FrameType
    <3>3. QED
      BY <1>11, <3>1, <3>2
  <2>3. QED
    BY <1>11, <2>2 DEF RunCleanup, GoOn, Types
<1>12. CASE SweepAtEnd \/ PopFrame
  <2>1. /\ ctl # "host" /\ Top \in FrameType /\ depth \in 1..FrameCapacity
        /\ Run \in RunType /\ Len(runs) \in Nat \ {0} /\ runs # <<>>
        /\ runs \in Seq(RunType)
    BY <1>12, HereFacts DEF SweepAtEnd, PopFrame, Draining, Types
  <2>2. Top.co \in Coroutines \cup {NoCoroutine}
    BY <2>1 DEF FrameType
  <2>3. costate' \in [Coroutines -> States] /\ saved' \in [Coroutines -> SavedType]
    BY <1>12, <2>2, OverTypes DEF SweepAtEnd, PopFrame
  <2>4. CASE SweepAtEnd
    <3>1. pending' \in Seq(Coroutines)
      BY <2>4, HoldBackType DEF SweepAtEnd
    <3>2. runs' = [runs EXCEPT ![Len(runs)].swept = TRUE,
                               ![Len(runs)].ending = pending' # <<>>]
      BY <2>4 DEF SweepAtEnd
    <3>3. runs' \in Seq(RunType)
      <4>1. /\ runs \in [1..Len(runs) -> RunType] /\ Len(runs) \in 1..Len(runs)
            /\ Len(runs) \in Nat
        BY <2>1
      <4>2. runs' \in [1..Len(runs) -> RunType]
        BY <3>2, <4>1 DEF RunType
      <4>3. QED
        BY <4>1, <4>2
    <3>4. QED
      BY <2>3, <2>4, <3>1, <3>3 DEF SweepAtEnd, Types
  <2>5. CASE PopFrame
    <3>1. holds' \in [Owners -> SUBSET Coroutines]
      BY <2>5 DEF PopFrame, Types
    <3>2. LeftInSlots \in SUBSET Coroutines
      BY <2>1, NamesType DEF LeftInSlots
    <3>3. stale' \in [Owners -> SUBSET Coroutines]
      BY <2>1, <2>5, <3>2, LeaveNamesTypes DEF PopFrame
    <3>4. runs' \in Seq(RunType)
      <4>1. runs' \in {runs, Front(runs), <<>>}
        BY <2>5 DEF PopFrame
      <4>2. Front(runs) \in Seq(RunType) /\ <<>> \in Seq(RunType)
        BY <2>1, FrontType
      <4>3. QED
        BY <2>1, <4>1, <4>2
    <3>5. depth' \in 0..FrameCapacity
      <4>1. runs[1].base \in 0..FrameCapacity
        <5>1. runs[1] \in RunType
          BY <2>1
        <5>2. QED
          BY <5>1 DEF RunType
      <4>2. depth' \in {depth - 1, runs[1].base}
        BY <2>5 DEF PopFrame
      <4>3. QED
        BY <2>1, <4>1, <4>2, FramesAssumption DEF FramesAssumption
    <3>6. /\ ctl' \in {"boundary", "drain", "host"}
          /\ outcome' \in {"none", "ok", "fault"} /\ waiting' \in Nat
      BY <2>5 DEF PopFrame, Types
    <3>7. UNCHANGED <<code, frames, costates, pending, carriers, ranAny, collects,
                      seenVars>>
      BY <2>5 DEF PopFrame
    <3>8. QED
      BY <2>3, <3>1, <3>3, <3>4, <3>5, <3>6, <3>7 DEF Types
  <2>6. QED
    BY <1>12, <2>4, <2>5
<1>13. CASE HostRun
  <2>1. /\ 1 \in 1..FrameCapacity + 1 /\ 1 \in 0..FrameCapacity /\ 0 \in 0..FrameCapacity
        /\ Main \in Protos
    BY FramesAssumption DEF FramesAssumption
  <2>2. FreshFrame(frames[1], Main) \in FrameType
    BY <2>1, FreshFacts DEF Types
  <2>3. frames' \in [1..FrameCapacity + 1 -> FrameType]
    BY <1>13, <2>1, <2>2 DEF HostRun, Types
  <2>4. <<RunAt(0, FALSE)>> \in Seq(RunType)
    BY <2>1 DEF RunAt, RunType
  <2>5. QED
    BY <1>13, <2>1, <2>3, <2>4 DEF HostRun, Types
<1>14. CASE HostCollect \/ HostReclaim
  <2>1. pending' \in Seq(Coroutines)
    BY <1>14, HoldBackType DEF HostCollect, HostReclaim
  <2>2. Len(pending') \in Nat
    BY <2>1
  <2>3. waiting' \in Nat /\ collects' \in 0..MaxCollects
    BY <1>14, <2>2, FramesAssumption DEF HostCollect, HostReclaim, Types, FramesAssumption
  <2>4. QED
    BY <1>14, <2>1, <2>3 DEF HostCollect, HostReclaim, Types
<1>15. CASE HostDispose
  <2>1. CASE pending = <<>> \/ depth = FrameCapacity
    <3>1. /\ waiting' = 0
          /\ UNCHANGED <<code, frames, depth, runs, ctl, outcome, coVars, regVars,
                         pending, carriers, ranAny, collects, seenVars>>
      BY <1>15, <2>1 DEF HostDispose
    <3>2. QED
      BY <3>1 DEF Types
  <2>2. CASE ~(pending = <<>> \/ depth = FrameCapacity)
    <3>1. Head(pending) \in Coroutines /\ Tail(pending) \in Seq(Coroutines)
      BY <2>2 DEF Types
    <3>2. /\ EnterDisposal(Head(pending)) /\ pending' = Tail(pending)
          /\ waiting' = waiting - 1 /\ waiting > 0 /\ runs' = <<RunAt(depth, TRUE)>>
          /\ UNCHANGED <<code, outcome, regVars, collects, seenVars>>
      BY <1>15, <2>2 DEF HostDispose
    <3>3. <<RunAt(depth, TRUE)>> \in Seq(RunType)
      <4>1. RunAt(depth, TRUE) \in RunType
        BY DEF RunAt, RunType, Types
      <4>2. \A r \in RunType : <<r>> \in Seq(RunType)
        OBVIOUS
      <4>3. QED
        BY <4>1, <4>2, Zenon
    <3>4. waiting' \in Nat
      BY <3>2 DEF Types
    <3>5. depth' \in 0..FrameCapacity
      BY <2>2, <3>1, <3>2, EnterDisposalTypes
    <3>6. QED
      BY <2>2, <3>1, <3>2, <3>3, <3>4, <3>5, EnterDisposalTypes DEF Types
  <2>3. QED
    BY <2>1, <2>2
<1>16. CASE UNCHANGED vars
  BY <1>16 DEF vars, Types
<1>17. QED
  BY <1>1, <1>2, <1>3, <1>4, <1>5, <1>6, <1>7, <1>8, <1>9, <1>10, <1>11, <1>12,
     <1>13, <1>14, <1>15, <1>16 DEF Next, Loop, Execute, Host

(* No step changes the program.                                            *)
LEMMA CodeStep ==
  ASSUME [Next]_vars, LaidOut
  PROVE  code' = code /\ LaidOut'
<1>1. code' = code
  <2>1. CASE CollectorStep \/ Host \/ UNCHANGED vars
    BY <2>1 DEF CollectorStep, Host, HostRun, HostCollect, HostDispose, HostReclaim, vars
  <2>2. CASE TakePending \/ LeaveEnding \/ RunCleanup \/ GoOn \/ SweepAtEnd \/ PopFrame
    BY <2>2 DEF TakePending, Fault, LeaveEnding, RunCleanup, GoOn, SweepAtEnd, PopFrame
  <2>3. CASE PushCleanup \/ PopCleanup \/ EndCleanup \/ Return \/ Jump \/ Panic
    BY <2>3 DEF PushCleanup, PopCleanup, EndCleanup, Return, Jump, Panic, Fault
  <2>4. CASE Call \/ TailCall \/ Compare \/ Callback
    BY <2>4 DEF Call, TailCall, Compare, Callback, Called, Fault
  <2>5. CASE Make \/ Drop \/ Resume \/ Dispose \/ Yield \/ Save \/ Load \/ Collect
    BY <2>5 DEF Make, Drop, Resume, Dispose, Yield, Save, Load, Collect, Fault
  <2>6. QED
    BY <2>1, <2>2, <2>3, <2>4, <2>5 DEF Next, Loop, Execute
<1>2. QED
  BY <1>1 DEF LaidOut

(* What StackInv asks of the next state, said with this state's program.   *)
StackAfter ==
  /\ \A i \in 1..depth' : FrameOK(frames'[i])
  /\ \A c \in Coroutines :
       /\ SavedOK(c, saved'[c])
       /\ costates'[c] # <<>> => SavedOK(c, costates'[c][2])
  /\ \A k \in 1..Len(runs') :
       /\ runs'[k].base < depth'
       /\ LET f == frames'[runs'[k].base + 1] IN
            /\ f.co = NoCoroutine \/ f.disposing
            /\ runs'[k].ending => f.returning
  /\ \A j, k \in 1..Len(runs') : j < k => runs'[j].base < runs'[k].base
  /\ ctl' = "host" <=> runs' = <<>>
  /\ ctl' = "drain" => CanGoOn(frames'[depth'])

(* The frames are still frames of the same coroutines.                     *)
CoKept ==
  \A i \in 1..depth : /\ frames'[i].co = frames[i].co
                      /\ frames'[i].disposing = frames[i].disposing

LEMMA StackPrime ==
  ASSUME code' = code, StackAfter
  PROVE  StackInv'
<1>1. \A i \in 1..depth' : FrameOK(frames[i])'
  BY DEF StackAfter, FrameOK, InBody, Spots, CanGoOn, InCleanup, InFinally
<1>2. \A c \in Coroutines :
        /\ SavedOK(c, saved[c])'
        /\ costates'[c] # <<>> => SavedOK(c, costates[c][2])'
  BY DEF StackAfter, SavedOK, InBody, Spots, InCleanup, InFinally
<1>3. \A k \in 1..Len(runs') : RunOK(runs[k])'
  BY DEF StackAfter, RunOK
<1>4. ctl' = "drain" => CanGoOn(Top)'
  BY DEF StackAfter, CanGoOn, Spots, Top
<1>5. QED
  BY <1>1, <1>2, <1>3, <1>4 DEF StackInv, StackAfter

(* The runs below the last stand below its first frame.                    *)
LEMMA RunsBelow ==
  ASSUME Types, StackInv, ctl # "host"
  PROVE  \A k \in 1..Len(runs) :
           /\ runs[k].base \in Nat /\ runs[k].base <= Run.base
           /\ k # Len(runs) => runs[k].base < Run.base
<1>1. Run = runs[Len(runs)] /\ Len(runs) \in Nat \ {0} /\ runs \in Seq(RunType)
  BY HereFacts DEF Types
<1>2. \A k \in 1..Len(runs) : runs[k] \in RunType
  BY <1>1
<1>3. \A k \in 1..Len(runs) : runs[k].base \in Nat
  BY <1>2, FramesAssumption DEF RunType, FramesAssumption
<1>4. QED
  BY <1>1, <1>3 DEF StackInv

(* Kinds of step: the stack as it was ...                                  *)
LEMMA StackSame ==
  ASSUME Types, StackInv, UNCHANGED <<frames, depth, runs, saved, costates>>,
         ctl' = "host" <=> ctl = "host", ctl' = "drain" => CanGoOn(Top)
  PROVE  StackAfter
BY DEF StackAfter, StackInv, RunOK, Top

(* ... a fault, which leaves the frames of a run of the program's ...      *)
LEMMA StackFault ==
  ASSUME Types, StackInv, ctl # "host", Fault
  PROVE  StackAfter /\ CoKept
<1>1. runs[1] \in RunType /\ runs[1].base \in Nat /\ runs[1].base <= depth
  <2>1. runs[1] \in RunType /\ RunOK(runs[1])
    BY HereFacts DEF StackInv, Types
  <2>2. QED
    BY <2>1, FramesAssumption DEF RunType, RunOK, FramesAssumption, Types
<1>2. depth' \in Nat /\ depth' <= depth
  BY <1>1 DEF Fault, Types
<1>3. /\ UNCHANGED <<frames, saved, costates>> /\ ctl' = "host" /\ runs' = <<>>
  BY DEF Fault, coVars
<1>4. QED
  BY <1>2, <1>3 DEF StackAfter, StackInv, Types, CoKept

(* ... the top frame changed in place ...                                  *)
LEMMA StackTopAndSaved ==
  ASSUME Types, StackInv, ctl # "host", NEW g,
         \A i \in 1..depth : frames'[i] = IF i = depth THEN g ELSE frames[i],
         UNCHANGED <<depth, runs>>,
         \A c \in Coroutines :
           /\ SavedOK(c, saved'[c])
           /\ costates'[c] # <<>> => SavedOK(c, costates'[c][2]),
         FrameOK(g), g.co = Top.co, g.disposing = Top.disposing,
         Run.ending /\ depth = Run.base + 1 => g.returning,
         ctl' = "boundary" \/ (ctl' = "drain" /\ CanGoOn(g))
  PROVE  StackAfter /\ CoKept
<1>1. /\ depth \in 1..FrameCapacity /\ FrameCapacity \in Nat /\ Top = frames[depth]
      /\ Run \in RunType /\ Run.base < depth /\ runs # <<>> /\ Run = runs[Len(runs)]
  BY HereFacts, FramesAssumption DEF RunOK, FramesAssumption
<1>2. \A i \in 1..depth' : FrameOK(frames'[i])
  BY DEF StackInv
<1>3. ASSUME NEW k \in 1..Len(runs')
      PROVE  /\ runs'[k].base < depth'
             /\ LET f == frames'[runs'[k].base + 1] IN
                  /\ f.co = NoCoroutine \/ f.disposing
                  /\ runs'[k].ending => f.returning
  <2>1. RunOK(runs[k]) /\ runs[k].base \in Nat /\ runs'[k] = runs[k]
    BY <1>3, RunsBelow DEF StackInv
  <2>2. runs[k].base + 1 \in 1..depth
    BY <1>1, <2>1 DEF RunOK
  <2>3. CASE runs[k].base + 1 # depth
    BY <2>1, <2>2, <2>3 DEF RunOK
  <2>4. CASE runs[k].base + 1 = depth
    <3>1. k = Len(runs)
      BY <1>1, <1>3, <2>1, <2>4, RunsBelow, FramesAssumption DEF RunType, FramesAssumption
    <3>2. runs[k] = Run
      BY <1>1, <3>1
    <3>3. QED
      BY <1>1, <2>1, <2>2, <2>4, <3>2 DEF RunOK
  <2>5. QED
    BY <2>3, <2>4
<1>4. ctl' = "drain" => CanGoOn(frames'[depth'])
  BY <1>1
<1>5. CoKept
  BY <1>1 DEF CoKept
<1>6. QED
  BY <1>1, <1>2, <1>3, <1>4, <1>5 DEF StackAfter, StackInv

LEMMA StackTop ==
  ASSUME Types, StackInv, ctl # "host", NEW g,
         \A i \in 1..depth : frames'[i] = IF i = depth THEN g ELSE frames[i],
         UNCHANGED <<depth, runs, saved, costates>>,
         FrameOK(g), g.co = Top.co, g.disposing = Top.disposing,
         Run.ending /\ depth = Run.base + 1 => g.returning,
         ctl' = "boundary" \/ (ctl' = "drain" /\ CanGoOn(g))
  PROVE  StackAfter /\ CoKept
<1>1. \A c \in Coroutines :
        /\ SavedOK(c, saved'[c])
        /\ costates'[c] # <<>> => SavedOK(c, costates'[c][2])
  BY DEF StackInv
<1>2. QED
  BY <1>1, StackTopAndSaved

(* ... a frame put on top, in the run there was or in one of its own ...   *)
LEMMA StackPush ==
  ASSUME Types, StackInv, ctl # "host", NEW e, NEW g,
         \A i \in 1..depth : frames'[i] = IF i = depth THEN e ELSE frames[i],
         frames'[depth + 1] = g, depth' = depth + 1,
         UNCHANGED <<saved, costates>>,
         FrameOK(e), e.co = Top.co, e.disposing = Top.disposing,
         e.returning = Top.returning,
         FrameOK(g),
         \/ runs' = runs
         \/ /\ runs' = Append(runs, RunAt(depth, FALSE))
            /\ g.co = NoCoroutine \/ g.disposing,
         ctl' = "boundary" \/ (ctl' = "drain" /\ CanGoOn(g))
  PROVE  StackAfter
<1>1. /\ depth \in 1..FrameCapacity /\ FrameCapacity \in Nat /\ Top = frames[depth]
      /\ Run \in RunType /\ Run.base < depth /\ runs # <<>> /\ Run = runs[Len(runs)]
      /\ Len(runs) \in Nat \ {0} /\ runs \in Seq(RunType)
  BY HereFacts, FramesAssumption DEF RunOK, FramesAssumption, Types
<1>2. frames'[depth + 1] = g /\ frames'[depth] = e
  BY <1>1
<1>3. \A i \in 1..depth' : FrameOK(frames'[i])
  <2>1. \A i \in 1..depth : FrameOK(frames'[i])
    BY DEF StackInv
  <2>2. \A i \in 1..depth' : i = depth + 1 \/ i \in 1..depth
    BY <1>1
  <2>3. QED
    BY <1>2, <2>1, <2>2
<1>4. ASSUME NEW k \in 1..Len(runs)
      PROVE  /\ runs[k].base < depth'
             /\ LET f == frames'[runs[k].base + 1] IN
                  /\ f.co = NoCoroutine \/ f.disposing
                  /\ runs[k].ending => f.returning
  <2>1. RunOK(runs[k]) /\ runs[k].base \in Nat
    BY RunsBelow DEF StackInv
  <2>2. runs[k].base + 1 \in 1..depth
    BY <1>1, <2>1 DEF RunOK
  <2>3. CASE runs[k].base + 1 # depth
    BY <1>1, <2>1, <2>2, <2>3 DEF RunOK
  <2>4. CASE runs[k].base + 1 = depth
    BY <1>1, <1>2, <2>1, <2>2, <2>4 DEF RunOK
  <2>5. QED
    BY <2>3, <2>4
<1>5. CASE runs' = runs
  BY <1>1, <1>2, <1>3, <1>4, <1>5 DEF StackAfter, StackInv
<1>6. CASE /\ runs' = Append(runs, RunAt(depth, FALSE))
           /\ g.co = NoCoroutine \/ g.disposing
  <2>1. /\ Len(runs') = Len(runs) + 1
        /\ \A k \in 1..Len(runs) : runs'[k] = runs[k]
        /\ runs'[Len(runs) + 1] = RunAt(depth, FALSE)
    <3>1. RunAt(depth, FALSE) \in RunType
      BY <1>1 DEF RunAt, RunType
    <3>2. ASSUME NEW r \in RunType
          PROVE  /\ Len(Append(runs, r)) = Len(runs) + 1
                 /\ \A k \in 1..Len(runs) : Append(runs, r)[k] = runs[k]
                 /\ Append(runs, r)[Len(runs) + 1] = r
      BY <1>1, AppendProperties
    <3>3. QED
      BY <1>6, <3>1, <3>2, Zenon
  <2>2. \A k \in 1..Len(runs') : k = Len(runs) + 1 \/ k \in 1..Len(runs)
    BY <1>1, <2>1
  <2>3. RunAt(depth, FALSE).base = depth /\ RunAt(depth, FALSE).ending = FALSE
    BY DEF RunAt
  <2>4. ASSUME NEW k \in 1..Len(runs')
        PROVE  /\ runs'[k].base < depth'
               /\ LET f == frames'[runs'[k].base + 1] IN
                    /\ f.co = NoCoroutine \/ f.disposing
                    /\ runs'[k].ending => f.returning
    <3>1. CASE k \in 1..Len(runs)
      BY <1>4, <2>1, <3>1
    <3>2. CASE k = Len(runs) + 1
      <4>1. runs'[k].base = depth /\ runs'[k].ending = FALSE
        BY <2>1, <2>3, <3>2
      <4>2. depth < depth' /\ frames'[depth + 1] = g
        BY <1>1, <1>2
      <4>3. QED
        BY <1>6, <4>1, <4>2, Zenon
    <3>3. QED
      BY <2>2, <3>1, <3>2
  <2>5. ASSUME NEW j \in 1..Len(runs'), NEW k \in 1..Len(runs'), j < k
        PROVE  runs'[j].base < runs'[k].base
    <3>1. j \in 1..Len(runs)
      BY <1>1, <2>1, <2>5
    <3>2. CASE k \in 1..Len(runs)
      BY <2>1, <2>5, <3>1, <3>2 DEF StackInv
    <3>3. CASE k = Len(runs) + 1
      BY <2>1, <2>3, <3>1, <3>3 DEF StackInv, RunOK
    <3>4. QED
      BY <2>2, <3>2, <3>3
  <2>6. runs' # <<>> /\ ctl' # "host"
    BY <1>1, <2>1
  <2>7. QED
    BY <1>2, <1>3, <2>4, <2>5, <2>6 DEF StackAfter, StackInv
<1>7. QED
  BY <1>5, <1>6

(* ... and the top frame gone, its run with it or not.                     *)
LEMMA StackPop ==
  ASSUME Types, StackInv, ctl # "host",
         UNCHANGED <<frames, costates>>, depth' = depth - 1,
         \A c \in Coroutines : SavedOK(c, saved'[c]),
         \/ /\ depth = Run.base + 1 /\ runs' = Front(runs)
            /\ ctl' = IF Len(runs) = 1 THEN "host" ELSE "boundary"
         \/ depth # Run.base + 1 /\ runs' = runs /\ ctl' = "boundary"
  PROVE  StackAfter
<1>1. /\ depth \in 1..FrameCapacity /\ FrameCapacity \in Nat
      /\ Run.base \in Nat /\ Run.base < depth
      /\ runs # <<>> /\ Run = runs[Len(runs)]
      /\ Len(runs) \in Nat \ {0} /\ runs \in Seq(RunType)
  BY HereFacts, RunsBelow, FramesAssumption DEF RunOK, FramesAssumption, Types
<1>2. /\ Len(runs') \in Nat /\ Len(runs') <= Len(runs)
      /\ \A k \in 1..Len(runs') : runs'[k] = runs[k] /\ runs[k].base < depth - 1
  <2>1. CASE runs' = runs /\ depth # Run.base + 1
    <3>1. \A k \in 1..Len(runs) : runs[k].base \in Nat /\ runs[k].base <= Run.base
      BY RunsBelow
    <3>2. QED
      BY <1>1, <2>1, <3>1
  <2>2. CASE runs' = Front(runs) /\ depth = Run.base + 1
    <3>1. /\ Len(runs') = Len(runs) - 1
          /\ \A k \in 1..Len(runs) - 1 : runs'[k] = runs[k]
      BY <1>1, <2>2, FrontType
    <3>2. \A k \in 1..Len(runs) - 1 : runs[k].base \in Nat /\ runs[k].base < Run.base
      BY <1>1, RunsBelow
    <3>3. QED
      BY <1>1, <2>2, <3>1, <3>2
  <2>3. QED
    BY <2>1, <2>2
<1>3. ctl' = "host" <=> runs' = <<>>
  <2>1. CASE runs' = runs /\ ctl' = "boundary"
    BY <1>1, <2>1
  <2>2. CASE runs' = Front(runs) /\ ctl' = IF Len(runs) = 1 THEN "host" ELSE "boundary"
    <3>1. runs' \in Seq(RunType) /\ Len(runs') = Len(runs) - 1
      BY <1>1, <2>2, FrontType
    <3>2. QED
      BY <1>1, <2>2, <3>1
  <2>3. QED
    BY <2>1, <2>2
<1>4. ASSUME NEW k \in 1..Len(runs')
      PROVE  /\ runs'[k].base < depth'
             /\ LET f == frames'[runs'[k].base + 1] IN
                  /\ f.co = NoCoroutine \/ f.disposing
                  /\ runs'[k].ending => f.returning
  BY <1>1, <1>2 DEF StackInv, RunOK
<1>5. \A j, k \in 1..Len(runs') : j < k => runs'[j].base < runs'[k].base
  <2>1. \A j, k \in 1..Len(runs) : j < k => runs[j].base < runs[k].base
    BY DEF StackInv
  <2>2. \A k \in 1..Len(runs') : k \in 1..Len(runs) /\ runs'[k] = runs[k]
    BY <1>1, <1>2
  <2>3. QED
    BY <2>1, <2>2
<1>6. \A i \in 1..depth' : FrameOK(frames'[i])
  BY <1>1 DEF StackInv
<1>7. QED
  BY <1>1, <1>3, <1>4, <1>5, <1>6 DEF StackAfter, StackInv

(* The frames that are put on, and the top frame past an instruction.      *)
LEMMA FreshOK ==
  ASSUME LaidOut, NEW f \in FrameType, NEW p \in Protos, NEW g \in FrameType,
         g = FreshFrame(f, p) \/ g = [FreshFrame(f, p) EXCEPT !.derive = TRUE]
  PROVE  FrameOK(g) /\ g.co = NoCoroutine /\ ~g.disposing /\ ~g.returning
<1>1. /\ g.proto = p /\ g.pc = 1 /\ g.cleanups = <<>> /\ ~g.returning
      /\ g.co = NoCoroutine /\ ~g.disposing
  <2> DEFINE h == FreshFrame(f, p)
  <2>1. /\ h \in FrameType
        /\ h.proto = p /\ h.pc = 1 /\ h.cleanups = <<>> /\ ~h.returning
        /\ h.co = NoCoroutine /\ ~h.disposing
    BY FreshFacts
  <2>2. g = h \/ g = [h EXCEPT !.derive = TRUE]
    OBVIOUS
  <2> HIDE DEF h
  <2>3. QED
    BY <2>1, <2>2 DEF FrameType
<1>2. 1 \in Spots(p) /\ ~InCleanup(p, 1)
  BY DEF LaidOut, WellLaid, InCleanup, Spots
<1>3. InBody(g.cleanups, p)
  BY <1>1, FramesAssumption DEF InBody, FramesAssumption
<1>4. NoCoroutine \notin Coroutines
  BY FramesAssumption DEF FramesAssumption
<1>5. QED
  BY <1>1, <1>2, <1>3, <1>4 DEF FrameOK

LEMMA ResumedOK ==
  ASSUME Types, StackInv, NEW f \in FrameType, NEW c \in Coroutines, NEW g,
         g = ResumedFrame(f, c)
  PROVE  g \in FrameType /\ FrameOK(g) /\ g.co = c
<1>1. SavedOK(c, saved[c])
  BY DEF StackInv
<1>2. QED
  BY <1>1, ResumedFacts DEF SavedOK, FrameOK

LEMMA DisposalOK ==
  ASSUME Types, StackInv, NEW f \in FrameType, NEW c \in Coroutines, NEW g,
         g = DisposalFrame(f, c)
  PROVE  g \in FrameType /\ FrameOK(g) /\ CanGoOn(g) /\ g.co = c /\ g.disposing
<1>1. SavedOK(c, saved[c])
  BY DEF StackInv
<1>2. QED
  BY <1>1, DisposalFacts DEF SavedOK, FrameOK, CanGoOn

LEMMA PastOK ==
  ASSUME LaidOut, Types, StackInv, NEW op, At(op),
         op \notin {"JUMP", "RETURN", "PANIC", "END"}
  PROVE  FrameOK(Past[depth])
<1>1. FrameOK(Top) /\ LandsAt(Top.proto, Top.pc, Top.pc + 1) /\ ctl # "host"
  BY HereFacts, InstructionFacts DEF At
<1>2. QED
  BY <1>1, PastTypes DEF FrameOK, LandsAt, CanGoOn

(* No instruction of a frame that ends its run is taken.                   *)
LEMMA NotEnding ==
  ASSUME NEW op, At(op)
  PROVE  ctl = "boundary" /\ ctl # "host" /\ ~(Run.ending /\ depth = Run.base + 1)
BY DEF At, Leaves

(* A call of any kind.                                                     *)
LEMMA StackCalled ==
  ASSUME LaidOut, Types, StackInv, NEW op, At(op),
         op \notin {"JUMP", "RETURN", "PANIC", "END"},
         NEW g \in FrameType, FrameOK(g), NEW rs, Called(g, rs),
         \/ rs = runs
         \/ rs = Append(runs, RunAt(depth, FALSE)) /\ g.co = NoCoroutine
  PROVE  StackAfter
<1>1. ctl = "boundary" /\ ctl # "host"
  BY NotEnding
<1>2. CASE depth = FrameCapacity
  BY <1>1, <1>2, StackFault DEF Called
<1>3. CASE depth # FrameCapacity
  <2>1. /\ runs' = rs /\ frames' = [Past EXCEPT ![depth + 1] = g]
        /\ depth' = depth + 1 /\ UNCHANGED <<saved, costates>>
    BY <1>3 DEF Called, coVars
  <2>2. FrameOK(Past[depth])
    BY PastOK
  <2>3. /\ \A i \in 1..depth :
             frames'[i] = IF i = depth THEN Past[depth] ELSE frames[i]
        /\ frames'[depth + 1] = g
    <3>1. /\ depth \in 1..FrameCapacity /\ FrameCapacity \in Nat
          /\ Past \in [1..FrameCapacity + 1 -> FrameType]
          /\ \A i \in 1..FrameCapacity + 1 : i # depth => Past[i] = frames[i]
      BY <1>1, PastTypes, HereFacts, FramesAssumption DEF FramesAssumption
    <3>2. QED
      BY <2>1, <3>1
  <2>4. /\ Past[depth].co = Top.co /\ Past[depth].disposing = Top.disposing
        /\ Past[depth].returning = Top.returning
    BY <1>1, PastTypes
  <2>5. /\ \/ runs' = runs
           \/ /\ runs' = Append(runs, RunAt(depth, FALSE))
              /\ g.co = NoCoroutine \/ g.disposing
        /\ ctl' = "boundary"
    BY <1>1, <1>3, <2>1 DEF Called
  <2>6. QED
    BY <1>1, <2>1, <2>2, <2>3, <2>4, <2>5, StackPush
<1>4. QED
  BY <1>2, <1>3

(* A disposal put on top: a dispose(), or one from the queue.              *)
LEMMA StackDisposal ==
  ASSUME Types, StackInv, depth # FrameCapacity, NEW c \in Coroutines,
         EnterDisposal(c),
         \/ ctl # "host" /\ runs' = runs
         \/ ctl = "host" /\ runs' = <<RunAt(depth, TRUE)>>
  PROVE  StackAfter
<1> DEFINE g == DisposalFrame(frames[depth + 1], c)
<1>1. /\ depth \in 0..FrameCapacity /\ FrameCapacity \in Nat
      /\ depth + 1 \in 1..FrameCapacity
      /\ frames \in [1..FrameCapacity + 1 -> FrameType]
  BY FramesAssumption DEF FramesAssumption, Types
<1>2. FrameOK(g) /\ CanGoOn(g) /\ g.disposing
  BY <1>1, DisposalOK
<1>3. /\ frames' = [frames EXCEPT ![depth + 1] = g] /\ depth' = depth + 1
      /\ ctl' = "drain" /\ UNCHANGED <<saved, costates>>
  BY EnterDisposalTypes
<1> HIDE DEF g
<1>4. frames'[depth + 1] = g /\ \A i \in 1..depth : frames'[i] = frames[i]
  BY <1>1, <1>3
<1>5. CASE ctl # "host" /\ runs' = runs
  <2>1. Top = frames[depth] /\ FrameOK(Top)
    BY <1>5, HereFacts
  <2>2. \A i \in 1..depth : frames'[i] = IF i = depth THEN Top ELSE frames[i]
    BY <1>4, <2>1
  <2>3. QED
    BY <1>2, <1>3, <1>4, <1>5, <2>1, <2>2, StackPush
<1>6. CASE ctl = "host" /\ runs' = <<RunAt(depth, TRUE)>>
  <2>1. /\ Len(runs') = 1 /\ runs'[1].base = depth /\ runs'[1].ending = FALSE
        /\ runs' # <<>>
    BY <1>6 DEF RunAt
  <2>2. \A i \in 1..depth' : FrameOK(frames'[i])
    <3>1. \A i \in 1..depth' : i = depth + 1 \/ i \in 1..depth
      BY <1>1, <1>3
    <3>2. QED
      BY <1>2, <1>4, <3>1 DEF StackInv
  <2>3. ASSUME NEW k \in 1..Len(runs')
        PROVE  /\ runs'[k].base < depth'
               /\ LET f == frames'[runs'[k].base + 1] IN
                    /\ f.co = NoCoroutine \/ f.disposing
                    /\ runs'[k].ending => f.returning
    <3>1. k = 1
      BY <2>1
    <3>2. QED
      BY <1>1, <1>2, <1>3, <1>4, <2>1, <3>1
  <2>4. \A j, k \in 1..Len(runs') : j < k => runs'[j].base < runs'[k].base
    BY <2>1
  <2>5. ctl' = "drain" => CanGoOn(frames'[depth'])
    BY <1>2, <1>3, <1>4
  <2>6. QED
    BY <1>3, <2>1, <2>2, <2>3, <2>4, <2>5 DEF StackAfter, StackInv
<1>7. QED
  BY <1>5, <1>6

(* What is saved of a coroutine is a place of its body, outside finally^.  *)
LEMMA SavedOver ==
  ASSUME Types, StackInv, NEW c \in Coroutines \cup {NoCoroutine}, Over(c)
  PROVE  \A d \in Coroutines : SavedOK(d, saved'[d])
<1>1. CASE c = NoCoroutine
  BY <1>1 DEF Over, StackInv
<1>2. CASE c # NoCoroutine
  <2>1. c \in Coroutines /\ saved' = [saved EXCEPT ![c].cleanups = <<>>]
    BY <1>2 DEF Over
  <2>2. ASSUME NEW d \in Coroutines
        PROVE  SavedOK(d, saved'[d])
    <3>1. SavedOK(d, saved[d]) /\ saved[d] \in SavedType
      BY DEF StackInv, Types
    <3>2. CASE d # c
      BY <2>1, <3>1, <3>2 DEF Types
    <3>3. CASE d = c
      <4>1. saved'[d] = [saved[d] EXCEPT !.cleanups = <<>>]
        BY <2>1, <3>3 DEF Types
      <4>2. saved'[d].pc = saved[d].pc /\ saved'[d].cleanups = <<>>
        BY <3>1, <4>1 DEF SavedType
      <4>3. InBody(<<>>, BodyOf[d])
        BY FramesAssumption DEF InBody, FramesAssumption
      <4>4. QED
        BY <3>1, <4>2, <4>3 DEF SavedOK
    <3>4. QED
      BY <3>2, <3>3
  <2>3. QED
    BY <2>2
<1>3. QED
  BY <1>1, <1>2

(* The instructions that change the top frame in place.                    *)
LEMMA StackInPlace ==
  ASSUME LaidOut, Types, StackInv,
         \/ PushCleanup \/ PopCleanup \/ Return \/ Jump
         \/ TailCall /\ Top.cleanups = <<>> /\ Top.co = NoCoroutine
         \/ RunCleanup \/ GoOn
  PROVE  StackAfter /\ CoKept
<1> USE DEF coVars
<1>1. /\ ctl # "host" /\ Top = frames[depth] /\ Top \in FrameType /\ FrameOK(Top)
      /\ depth \in 1..FrameCapacity /\ FrameCapacity \in Nat
      /\ frames \in [1..FrameCapacity + 1 -> FrameType]
  BY HereFacts, FramesAssumption
     DEF PushCleanup, PopCleanup, Return, Jump, TailCall, At, RunCleanup, GoOn,
         Draining, Types, FramesAssumption
<1>2. depth \in 1..FrameCapacity + 1
  BY <1>1
<1>3. CASE PushCleanup
  <2>1. CASE Len(Top.cleanups) >= MaxCleanups
    BY <1>1, <1>3, <2>1, StackFault DEF PushCleanup
  <2>2. CASE ~(Len(Top.cleanups) >= MaxCleanups)
    <3> DEFINE there == Top.pc + Arg
               g == [Top EXCEPT !.pc = @ + 1, !.cleanups = Append(@, there)]
    <3>1. frames' = [frames EXCEPT ![depth] = g] /\ UNCHANGED <<depth, runs, ctl, saved, costates>>
      BY <1>1, <1>3, <2>2 DEF PushCleanup
    <3>2. /\ there \in Spots(Top.proto) /\ LandsAt(Top.proto, Top.pc, Top.pc + 1)
          /\ ctl = "boundary" /\ ~(Run.ending /\ depth = Run.base + 1)
      BY <1>3, InstructionFacts, NotEnding DEF PushCleanup
    <3>3. /\ g.pc = Top.pc + 1 /\ g.cleanups = Append(Top.cleanups, there)
          /\ g.proto = Top.proto /\ g.co = Top.co /\ g.target = Top.target
          /\ g.resume = Top.resume /\ g.returning = Top.returning
          /\ g.disposing = Top.disposing
      BY <1>1 DEF FrameType
    <3>4. InBody(g.cleanups, Top.proto)
      <4> HIDE DEF there, g
      <4>1. Top.cleanups \in Seq(Nat) /\ there \in Nat
        BY <1>1, <3>2 DEF FrameType, Spots
      <4>2. /\ Len(g.cleanups) = Len(Top.cleanups) + 1
            /\ \A n \in 1..Len(Top.cleanups) : g.cleanups[n] = Top.cleanups[n]
            /\ g.cleanups[Len(Top.cleanups) + 1] = there
        BY <3>3, <4>1, AppendProperties
      <4>3. InBody(Top.cleanups, Top.proto) /\ Len(Top.cleanups) \in Nat
        BY <1>1, <4>1 DEF FrameOK
      <4>4. Len(g.cleanups) <= MaxCleanups
        BY <2>2, <4>2, <4>3, FramesAssumption DEF FramesAssumption
      <4>5. ASSUME NEW n \in 1..Len(g.cleanups)
            PROVE  g.cleanups[n] \in Spots(Top.proto)
        <5>1. n \in 1..Len(Top.cleanups) \/ n = Len(Top.cleanups) + 1
          BY <4>2, <4>3
        <5>2. QED
          BY <3>2, <4>2, <4>3, <5>1 DEF InBody
      <4>6. QED
        BY <4>4, <4>5 DEF InBody
    <3> HIDE DEF there, g
    <3>5. FrameOK(g)
      BY <1>1, <3>2, <3>3, <3>4 DEF FrameOK, LandsAt, CanGoOn
    <3>6. \A i \in 1..depth : frames'[i] = IF i = depth THEN g ELSE frames[i]
      BY <1>1, <3>1
    <3>7. QED
      BY <1>1, <3>1, <3>2, <3>3, <3>5, <3>6, StackTop
  <2>3. QED
    BY <2>1, <2>2
<1>4. CASE PopCleanup \/ Return
  <2> DEFINE g == IF PopCleanup
                  THEN [Top EXCEPT !.target = Arg, !.resume = Top.pc + 1,
                                   !.returning = FALSE]
                  ELSE [Top EXCEPT !.target = 0, !.returning = TRUE]
  <2>1. /\ frames' = [frames EXCEPT ![depth] = g] /\ ctl' = "drain"
        /\ UNCHANGED <<depth, runs, saved, costates>>
    BY <1>1, <1>4 DEF PopCleanup, Return
  <2>2. /\ PopCleanup => Top.pc + 1 \in Spots(Top.proto)
        /\ ~(Run.ending /\ depth = Run.base + 1)
    BY <1>4, InstructionFacts, NotEnding DEF PopCleanup, Return, LandsAt
  <2>3. /\ g.proto = Top.proto /\ g.pc = Top.pc /\ g.cleanups = Top.cleanups
        /\ g.co = Top.co /\ g.disposing = Top.disposing
        /\ \/ g.returning /\ g.target = 0
           \/ ~g.returning /\ g.resume \in Spots(Top.proto)
    BY <1>1, <2>2 DEF FrameType
  <2> HIDE DEF g
  <2>4. FrameOK(g) /\ CanGoOn(g)
    BY <1>1, <2>3 DEF FrameOK, CanGoOn
  <2>5. \A i \in 1..depth : frames'[i] = IF i = depth THEN g ELSE frames[i]
    BY <1>1, <2>1
  <2>6. QED
    BY <1>1, <2>1, <2>2, <2>3, <2>4, <2>5, StackTop
<1>5. CASE Jump
  <2> DEFINE g == [Top EXCEPT !.pc = @ + Arg]
  <2>1. /\ frames' = [frames EXCEPT ![depth] = g]
        /\ UNCHANGED <<depth, runs, ctl, saved, costates>>
    BY <1>1, <1>5 DEF Jump
  <2>2. /\ LandsAt(Top.proto, Top.pc, Top.pc + Arg)
        /\ ctl = "boundary" /\ ~(Run.ending /\ depth = Run.base + 1)
    BY <1>5, InstructionFacts, NotEnding DEF Jump
  <2>3. /\ g.proto = Top.proto /\ g.pc = Top.pc + Arg /\ g.cleanups = Top.cleanups
        /\ g.co = Top.co /\ g.disposing = Top.disposing /\ g.target = Top.target
        /\ g.returning = Top.returning /\ g.resume = Top.resume
    BY <1>1 DEF FrameType
  <2> HIDE DEF g
  <2>4. FrameOK(g)
    BY <1>1, <2>2, <2>3 DEF FrameOK, CanGoOn, LandsAt
  <2>5. \A i \in 1..depth : frames'[i] = IF i = depth THEN g ELSE frames[i]
    BY <1>1, <2>1
  <2>6. QED
    BY <1>1, <2>1, <2>2, <2>3, <2>4, <2>5, StackTop
<1>6. CASE TailCall /\ Top.cleanups = <<>> /\ Top.co = NoCoroutine
  <2> DEFINE g == [Top EXCEPT !.proto = Arg, !.pc = 1, !.returning = FALSE]
  <2>1. /\ frames' = [frames EXCEPT ![depth] = g]
        /\ UNCHANGED <<depth, runs, ctl, saved, costates>>
    BY <1>1, <1>6 DEF TailCall
  <2>2. /\ Arg \in Protos /\ ctl = "boundary"
        /\ ~(Run.ending /\ depth = Run.base + 1)
    BY <1>6, InstructionFacts, NotEnding DEF TailCall
  <2>3. /\ g.proto = Arg /\ g.pc = 1 /\ g.cleanups = <<>>
        /\ g.co = Top.co /\ g.disposing = Top.disposing /\ ~g.returning
    BY <1>1, <1>6 DEF FrameType
  <2> HIDE DEF g
  <2>4. FrameOK(g)
    <3>1. 1 \in Spots(Arg) /\ ~InCleanup(Arg, 1)
      BY <2>2 DEF LaidOut, WellLaid, InCleanup, Spots
    <3>2. InBody(<<>>, Arg) /\ NoCoroutine \notin Coroutines
      BY FramesAssumption DEF InBody, FramesAssumption
    <3>3. QED
      BY <1>6, <2>3, <3>1, <3>2 DEF FrameOK
  <2>5. \A i \in 1..depth : frames'[i] = IF i = depth THEN g ELSE frames[i]
    BY <1>1, <2>1
  <2>6. QED
    BY <1>1, <2>1, <2>2, <2>3, <2>4, <2>5, StackTop
<1>7. CASE RunCleanup
  <2> DEFINE there == Last(Top.cleanups)
             g == [Top EXCEPT !.pc = there, !.cleanups = Front(@)]
  <2>1. /\ frames' = [frames EXCEPT ![depth] = g] /\ ctl' = "boundary"
        /\ UNCHANGED <<depth, runs, saved, costates>>
    BY <1>1, <1>7 DEF RunCleanup
  <2>2. /\ g.proto = Top.proto /\ g.pc = there /\ g.cleanups = Front(Top.cleanups)
        /\ g.co = Top.co /\ g.disposing = Top.disposing /\ g.target = Top.target
        /\ g.returning = Top.returning /\ g.resume = Top.resume
    BY <1>1 DEF FrameType
  <2>3. CanGoOn(Top)
    BY <1>7 DEF RunCleanup, Draining, StackInv
  <2>4. /\ Len(Front(Top.cleanups)) = Len(Top.cleanups) - 1
        /\ \A n \in 1..Len(Top.cleanups) - 1 : Front(Top.cleanups)[n] = Top.cleanups[n]
        /\ there = Top.cleanups[Len(Top.cleanups)] /\ Len(Top.cleanups) \in Nat \ {0}
    <3>1. Top.cleanups \in Seq(Nat) /\ Top.cleanups # <<>>
      BY <1>1, <1>7 DEF FrameType, RunCleanup
    <3>2. QED
      BY <3>1, FrontType
  <2>5. InBody(Front(Top.cleanups), Top.proto) /\ there \in Spots(Top.proto)
    <3> HIDE DEF there, g
    <3>1. QED
      BY <1>1, <2>4, FramesAssumption DEF FrameOK, InBody, FramesAssumption
  <2>6. Run.ending /\ depth = Run.base + 1 => Top.returning
    BY <1>1, HereFacts DEF RunOK
  <2> HIDE DEF there, g
  <2>7. FrameOK(g)
    BY <1>1, <2>2, <2>3, <2>5 DEF FrameOK, CanGoOn
  <2>8. \A i \in 1..depth : frames'[i] = IF i = depth THEN g ELSE frames[i]
    BY <1>1, <2>1
  <2>9. QED
    BY <1>1, <2>1, <2>2, <2>6, <2>7, <2>8, StackTop
<1>8. CASE GoOn
  <2> DEFINE g == [Top EXCEPT !.pc = Top.resume]
  <2>1. /\ frames' = [frames EXCEPT ![depth] = g] /\ ctl' = "boundary"
        /\ UNCHANGED <<depth, runs, saved, costates>>
    BY <1>1, <1>8 DEF GoOn
  <2>2. /\ g.proto = Top.proto /\ g.pc = Top.resume /\ g.cleanups = Top.cleanups
        /\ g.co = Top.co /\ g.disposing = Top.disposing /\ g.target = Top.target
        /\ g.returning = Top.returning /\ g.resume = Top.resume
    BY <1>1 DEF FrameType
  <2>3. Top.resume \in Spots(Top.proto)
    BY <1>8 DEF GoOn, Draining, StackInv, CanGoOn
  <2>4. Run.ending /\ depth = Run.base + 1 => Top.returning
    BY <1>1, HereFacts DEF RunOK
  <2> HIDE DEF g
  <2>5. FrameOK(g)
    BY <1>1, <2>2, <2>3 DEF FrameOK, CanGoOn
  <2>6. \A i \in 1..depth : frames'[i] = IF i = depth THEN g ELSE frames[i]
    BY <1>1, <2>1
  <2>7. QED
    BY <1>1, <2>1, <2>2, <2>4, <2>5, <2>6, StackTop
<1>9. QED
  BY <1>3, <1>4, <1>5, <1>6, <1>7, <1>8

(* The instructions that put a frame on, and those that leave the stack.   *)
LEMMA StackCalls ==
  ASSUME LaidOut, Types, StackInv,
         \/ Call \/ Compare \/ Callback
         \/ TailCall /\ ~(Top.cleanups = <<>> /\ Top.co = NoCoroutine)
  PROVE  StackAfter
<1>1. PICK op \in {"CALL", "TAILCALL", "COMPARE", "CALLBACK"} : At(op)
  BY DEF Call, TailCall, Compare, Callback
<1>2. op \notin {"JUMP", "RETURN", "PANIC", "END"}
  BY <1>1
<1>3. Arg \in Protos /\ frames[depth + 1] \in FrameType
  <2>1. depth + 1 \in 1..FrameCapacity + 1
    BY <1>1, HereFacts, FramesAssumption DEF At, FramesAssumption
  <2>2. QED
    BY <1>1, <2>1, InstructionFacts DEF Types
<1> DEFINE f == FreshFrame(frames[depth + 1], Arg)
           h == [f EXCEPT !.derive = TRUE]
<1>4. f \in FrameType /\ h \in FrameType
  <2>1. f \in FrameType
    BY <1>3, FreshFacts
  <2> HIDE DEF f
  <2>2. QED
    BY <2>1 DEF FrameType
<1>5. FrameOK(f) /\ FrameOK(h) /\ f.co = NoCoroutine
  BY <1>3, <1>4, FreshOK
<1>6. \/ Called(f, runs) \/ Called(h, runs)
      \/ Called(f, Append(runs, RunAt(depth, FALSE)))
  BY DEF Call, TailCall, Compare, Callback
<1> HIDE DEF f, h
<1>7. QED
  BY <1>1, <1>2, <1>4, <1>5, <1>6, StackCalled

LEMMA StackCoroutines ==
  ASSUME LaidOut, Types, StackInv,
         Make \/ Drop \/ Resume \/ Dispose \/ Save \/ Load \/ Collect
  PROVE  StackAfter
<1> USE DEF coVars
<1>1. PICK op \in {"NEW", "DROP", "RESUME", "DISPOSE", "SAVE", "LOAD", "COLLECT"} : At(op)
  BY DEF Make, Drop, Resume, Dispose, Save, Load, Collect
<1>2. op \notin {"JUMP", "RETURN", "PANIC", "END"}
  BY <1>1
<1>3. /\ ctl = "boundary" /\ ctl # "host" /\ ~(Run.ending /\ depth = Run.base + 1)
      /\ depth \in 1..FrameCapacity /\ FrameCapacity \in Nat /\ Top = frames[depth]
      /\ Top \in FrameType
  BY <1>1, NotEnding, HereFacts, FramesAssumption DEF FramesAssumption
<1>4. /\ Past \in [1..FrameCapacity + 1 -> FrameType]
      /\ Past[depth].co = Top.co /\ Past[depth].disposing = Top.disposing
      /\ Past[depth].returning = Top.returning
      /\ \A i \in 1..depth : Past[i] = IF i = depth THEN Past[depth] ELSE frames[i]
  <2>1. 1..depth \subseteq 1..FrameCapacity + 1
    BY <1>3
  <2>2. QED
    BY <1>3, <2>1, PastTypes
<1>5. FrameOK(Past[depth])
  BY <1>1, <1>2, PastOK
<1>6. CASE Fault
  BY <1>3, <1>6, StackFault
<1>7. CASE /\ ~Fault
           /\ \/ Make \/ Drop \/ Collect \/ Save
              \/ Dispose /\ costate[Arg] \in {"FRESH", "DONE"}
  <2>1. /\ frames' = Past /\ UNCHANGED <<depth, runs, ctl, saved>>
        /\ Save \/ costates' = costates
    BY <1>7 DEF Make, Drop, Collect, Save, Dispose
  <2>2. CASE costates' = costates
    BY <1>3, <1>4, <1>5, <2>1, <2>2, StackTop
  <2>3. CASE Save
    <3>1. Arg \in Coroutines
      BY <1>3, <1>7, <2>3, OwnerType DEF Save, Named, Types
    <3> HIDE DEF Arg
    <3>2. costates' = [costates EXCEPT ![Arg] = <<costate[Arg], saved[Arg]>>]
      BY <1>7, <2>3 DEF Save
    <3>3. \A c \in Coroutines : costates'[c] # <<>> => SavedOK(c, costates'[c][2])
      <4>1. ASSUME NEW c \in Coroutines, costates'[c] # <<>>
            PROVE  SavedOK(c, costates'[c][2])
        <5>1. CASE c = Arg
          BY <3>2, <5>1 DEF StackInv, Types
        <5>2. CASE c # Arg
          BY <3>2, <4>1, <5>2 DEF StackInv, Types
        <5>3. QED
          BY <5>1, <5>2
      <4>2. QED
        BY <4>1
    <3>4. \A c \in Coroutines : SavedOK(c, saved'[c])
      BY <2>1 DEF StackInv
    <3>5. QED
      BY <1>3, <1>4, <1>5, <2>1, <3>3, <3>4, StackTopAndSaved
  <2>4. QED
    BY <2>1, <2>2, <2>3
<1>8. CASE ~Fault /\ Load
  <2>1. Arg \in Coroutines
    BY <1>3, <1>8, OwnerType DEF Load, Named, Types
  <2> HIDE DEF Arg
  <2>2. /\ frames' = Past /\ UNCHANGED <<depth, runs, ctl, costates>>
        /\ costates[Arg] # <<>>
        /\ saved' = [saved EXCEPT ![Arg] = costates[Arg][2]]
    BY <1>8 DEF Load
  <2>3. \A c \in Coroutines : SavedOK(c, saved'[c])
    BY <2>1, <2>2 DEF StackInv, Types
  <2>4. \A c \in Coroutines : costates'[c] # <<>> => SavedOK(c, costates'[c][2])
    BY <2>2 DEF StackInv
  <2>5. QED
    BY <1>3, <1>4, <1>5, <2>2, <2>3, <2>4, StackTopAndSaved
<1>9. CASE ~Fault /\ (Resume \/ (Dispose /\ costate[Arg] \notin {"FRESH", "DONE"}))
  <2>1. Arg \in Coroutines
    BY <1>3, <1>9, OwnerType DEF Resume, Dispose, Named, Types
  <2> DEFINE g == IF Resume THEN ResumedFrame(frames[depth + 1], Arg)
                  ELSE DisposalFrame(frames[depth + 1], Arg)
  <2>2. /\ frames' = [Past EXCEPT ![depth + 1] = g] /\ depth' = depth + 1
        /\ depth # FrameCapacity /\ UNCHANGED <<runs, saved, costates>>
        /\ ctl' = "boundary" \/ (ctl' = "drain" /\ ~Resume)
    <3>1. CASE Resume
      BY <1>3, <1>9, <3>1 DEF Resume, Restore
    <3>2. CASE ~Resume
      BY <1>3, <1>9, <3>2 DEF Dispose, Restore
    <3>3. QED
      BY <3>1, <3>2
  <2>3. depth + 1 \in 1..FrameCapacity + 1 /\ frames[depth + 1] \in FrameType
    BY <1>3 DEF Types
  <2>4. g \in FrameType /\ FrameOK(g) /\ (~Resume => CanGoOn(g))
    BY <2>1, <2>3, ResumedOK, DisposalOK
  <2> HIDE DEF g, Arg
  <2>5. /\ \A i \in 1..depth :
             frames'[i] = IF i = depth THEN Past[depth] ELSE frames[i]
        /\ frames'[depth + 1] = g
    BY <1>3, <1>4, <2>2, <2>3
  <2>6. ctl' = "boundary" \/ (ctl' = "drain" /\ CanGoOn(g))
    BY <2>2, <2>4
  <2>7. QED
    BY <1>3, <1>4, <1>5, <2>2, <2>4, <2>5, <2>6, StackPush
<1>10. QED
  BY <1>6, <1>7, <1>8, <1>9

LEMMA StackLeaves ==
  ASSUME LaidOut, Types, StackInv, Yield \/ SweepAtEnd \/ PopFrame
  PROVE  StackAfter
<1> USE DEF coVars
<1>1. /\ ctl # "host" /\ Top \in FrameType /\ Top = frames[depth] /\ FrameOK(Top)
      /\ depth \in 1..FrameCapacity /\ Run = runs[Len(runs)] /\ RunOK(Run)
      /\ Run.base \in Nat /\ runs \in Seq(RunType) /\ Len(runs) \in Nat \ {0}
      /\ Run \in RunType
  <2>1. ctl # "host"
    BY DEF Yield, SweepAtEnd, PopFrame, At, Draining
  <2>2. Run \in RunType => Run.base \in Nat
    BY FramesAssumption DEF RunType, FramesAssumption
  <2>3. QED
    BY <2>1, <2>2, HereFacts DEF Types
<1>2. Top.co \in Coroutines \cup {NoCoroutine}
  BY <1>1 DEF FrameType
<1>3. CASE Yield
  <2>1. CASE Fault
    BY <1>1, <2>1, StackFault
  <2>2. CASE ~Fault
    <3>1. /\ Top.co # NoCoroutine /\ ~Top.disposing /\ Suspended(Top.co, Top)
          /\ depth' = depth - 1 /\ UNCHANGED <<frames, runs, ctl, costates>>
      BY <1>3, <2>2 DEF Yield
    <3>2. /\ LandsAt(Top.proto, Top.pc, Top.pc + 1) /\ ~InCleanup(Top.proto, Top.pc)
          /\ ctl = "boundary"
      BY <1>3, InstructionFacts DEF Yield
    <3>3. depth # Run.base + 1
      BY <1>1, <3>1 DEF RunOK
    <3> DEFINE s == [pc |-> Top.pc + 1, cleanups |-> Top.cleanups]
    <3>4. Top.co \in Coroutines /\ SavedOK(Top.co, s)
      BY <1>1, <1>2, <3>1, <3>2 DEF FrameOK, SavedOK, LandsAt
    <3>5. saved' = [saved EXCEPT ![Top.co] = s]
      BY <3>1 DEF Suspended
    <3> HIDE DEF s
    <3>6. \A c \in Coroutines : SavedOK(c, saved'[c])
      BY <3>4, <3>5 DEF StackInv, Types
    <3>7. QED
      BY <1>1, <3>1, <3>2, <3>3, <3>6, StackPop
  <2>3. QED
    BY <2>1, <2>2
<1>4. CASE SweepAtEnd
  <2>1. /\ Top.returning /\ Over(Top.co) /\ depth = Run.base + 1
        /\ UNCHANGED <<frames, depth, costates>>
        /\ runs' = [runs EXCEPT ![Len(runs)].swept = TRUE,
                                ![Len(runs)].ending = pending' # <<>>]
        /\ ctl' \in {"boundary", "drain"}
    BY <1>4 DEF SweepAtEnd, Gone, Sweeps
  <2>2. \A c \in Coroutines : SavedOK(c, saved'[c])
    BY <1>2, <2>1, SavedOver
  <2>3. /\ Len(runs') = Len(runs) /\ runs' # <<>>
        /\ \A k \in 1..Len(runs) : /\ runs'[k].base = runs[k].base
                                   /\ k # Len(runs) => runs'[k] = runs[k]
    <3>1. Len(runs') = Len(runs) /\ DOMAIN runs = 1..Len(runs)
      BY <1>1, <2>1
    <3>2. ASSUME NEW k \in 1..Len(runs)
          PROVE  /\ runs'[k].base = runs[k].base
                 /\ k # Len(runs) => runs'[k] = runs[k]
      <4>1. runs[k] \in RunType
        BY <1>1
      <4>2. QED
        BY <1>1, <2>1, <3>1, <4>1 DEF RunType
    <3>3. QED
      BY <1>1, <3>1, <3>2
  <2>4. ASSUME NEW k \in 1..Len(runs')
        PROVE  /\ runs'[k].base < depth'
               /\ LET f == frames'[runs'[k].base + 1] IN
                    /\ f.co = NoCoroutine \/ f.disposing
                    /\ runs'[k].ending => f.returning
    <3>1. RunOK(runs[k])
      BY <2>3 DEF StackInv
    <3>2. CASE k # Len(runs)
      BY <2>1, <2>3, <3>1, <3>2 DEF RunOK
    <3>3. CASE k = Len(runs)
      <4>1. runs'[k].base = Run.base /\ Run.base + 1 = depth
        BY <1>1, <2>1, <2>3, <3>3
      <4>2. QED
        BY <1>1, <2>1, <4>1 DEF RunOK
    <3>4. QED
      BY <3>2, <3>3
  <2>5. \A j, k \in 1..Len(runs') : j < k => runs'[j].base < runs'[k].base
    BY <2>3 DEF StackInv
  <2>6. CanGoOn(frames'[depth'])
    BY <1>1, <2>1 DEF CanGoOn
  <2>7. QED
    BY <2>1, <2>2, <2>3, <2>4, <2>5, <2>6 DEF StackAfter, StackInv
<1>5. CASE PopFrame
  <2>1. \A c \in Coroutines : SavedOK(c, saved'[c])
    BY <1>2, <1>5, SavedOver DEF PopFrame
  <2>2. CASE depth > Run.base + 1 /\ Top.derive /\ Top.disposing
    <3>1. /\ depth' = IF runs[1].disposal THEN runs[1].base ELSE depth - 1
          /\ ctl' = "host" /\ runs' = <<>> /\ UNCHANGED <<frames, costates>>
      BY <1>1, <1>5, <2>2 DEF PopFrame
    <3>2. runs[1].base \in Nat /\ runs[1].base < depth
      <4>1. 1 \in 1..Len(runs) /\ runs[1].base \in Nat
        BY <1>1, RunsBelow
      <4>2. RunOK(runs[1])
        BY <4>1 DEF StackInv
      <4>3. QED
        BY <4>1, <4>2 DEF RunOK
    <3>3. depth' <= depth /\ depth' \in Nat
      BY <1>1, <3>1, <3>2
    <3>4. QED
      BY <1>1, <2>1, <3>1, <3>3 DEF StackAfter, StackInv
  <2>3. CASE ~(depth > Run.base + 1 /\ Top.derive /\ Top.disposing)
    <3>1. /\ depth' = depth - 1 /\ UNCHANGED <<frames, costates>>
          /\ \/ /\ depth = Run.base + 1 /\ runs' = Front(runs)
                /\ ctl' = IF Len(runs) = 1 THEN "host" ELSE "boundary"
             \/ depth # Run.base + 1 /\ runs' = runs /\ ctl' = "boundary"
      BY <1>1, <1>5, <2>3 DEF PopFrame
    <3>2. QED
      BY <1>1, <2>1, <3>1, StackPop
  <2>4. QED
    BY <2>2, <2>3
<1>6. QED
  BY <1>3, <1>4, <1>5

(* Every step keeps the shape of the stack.                                *)
LEMMA StackStep ==
  ASSUME LaidOut, Types, StackInv, [Next]_vars
  PROVE  StackInv'
<1> USE DEF coVars
<1>1. code' = code
  BY CodeStep
<1>2. SUFFICES StackAfter
  BY <1>1, StackPrime
<1>3. CASE CollectorStep \/ HostCollect \/ HostReclaim \/ UNCHANGED vars
  BY <1>3, StackSame
     DEF CollectorStep, HostCollect, HostReclaim, vars, StackInv
<1>4. CASE LeaveEnding \/ EndCleanup
  <2>1. CanGoOn(Top) /\ ctl # "host" /\ ctl' = "drain"
    <3>1. CASE LeaveEnding
      <4>1. /\ Run.ending /\ depth = Run.base + 1 /\ ctl # "host" /\ ctl' = "drain"
        BY <3>1 DEF LeaveEnding, Leaves
      <4>2. QED
        BY <4>1, HereFacts DEF RunOK, CanGoOn
    <3>2. CASE EndCleanup
      <4>1. InCleanup(Top.proto, Top.pc) /\ ctl # "host" /\ ctl' = "drain"
        BY <3>2, InstructionFacts, NotEnding DEF EndCleanup
      <4>2. QED
        BY <4>1, HereFacts DEF FrameOK
    <3>3. QED
      BY <1>4, <3>1, <3>2
  <2>2. UNCHANGED <<frames, depth, runs, saved, costates>>
    BY <1>4 DEF LeaveEnding, EndCleanup
  <2>3. QED
    BY <2>1, <2>2, StackSame
<1>5. CASE Panic
  BY <1>5, NotEnding, StackFault DEF Panic
<1>6. CASE TakePending
  <2>1. ctl # "host" /\ pending # <<>>
    BY <1>6 DEF TakePending, Takes
  <2>2. CASE depth = FrameCapacity
    BY <1>6, <2>1, <2>2, StackFault DEF TakePending
  <2>3. CASE depth # FrameCapacity
    <3>1. Head(pending) \in Coroutines
      BY <2>1 DEF Types
    <3>2. EnterDisposal(Head(pending)) /\ runs' = runs
      BY <1>6, <2>3 DEF TakePending
    <3>3. QED
      BY <2>1, <2>3, <3>1, <3>2, StackDisposal
  <2>4. QED
    BY <2>2, <2>3
<1>7. CASE HostDispose
  <2>1. CASE pending = <<>> \/ depth = FrameCapacity
    <3>1. UNCHANGED <<frames, depth, runs, ctl, saved, costates>>
      BY <1>7, <2>1 DEF HostDispose
    <3>2. ctl = "host"
      BY <1>7 DEF HostDispose
    <3>3. QED
      BY <3>1, <3>2, StackSame
  <2>2. CASE ~(pending = <<>> \/ depth = FrameCapacity)
    <3>1. Head(pending) \in Coroutines
      BY <2>2 DEF Types
    <3>2. /\ EnterDisposal(Head(pending)) /\ ctl = "host"
          /\ runs' = <<RunAt(depth, TRUE)>>
      BY <1>7, <2>2 DEF HostDispose
    <3>3. QED
      BY <2>2, <3>1, <3>2, StackDisposal
  <2>3. QED
    BY <2>1, <2>2
<1>8. CASE HostRun
  <2> DEFINE g == FreshFrame(frames[1], Main)
  <2>1. 1 \in 1..FrameCapacity + 1 /\ Main \in Protos
    BY FramesAssumption DEF FramesAssumption
  <2>2. g \in FrameType
    BY <2>1, FreshFacts DEF Types
  <2>3. FrameOK(g) /\ g.co = NoCoroutine
    BY <2>1, <2>2, FreshOK DEF Types
  <2>4. /\ frames' = [frames EXCEPT ![1] = g] /\ depth' = 1
        /\ runs' = <<RunAt(0, FALSE)>> /\ ctl' = "boundary"
        /\ UNCHANGED <<saved, costates>>
    BY <1>8 DEF HostRun
  <2> HIDE DEF g
  <2>5. frames'[1] = g
    BY <2>1, <2>4 DEF Types
  <2>6. /\ Len(runs') = 1 /\ runs'[1].base = 0 /\ runs'[1].ending = FALSE
        /\ runs' # <<>>
    BY <2>4 DEF RunAt
  <2>7. ASSUME NEW k \in 1..Len(runs')
        PROVE  /\ runs'[k].base < depth'
               /\ LET f == frames'[runs'[k].base + 1] IN
                    /\ f.co = NoCoroutine \/ f.disposing
                    /\ runs'[k].ending => f.returning
    <3>1. k = 1
      BY <2>6
    <3>2. runs'[k].base = 0 /\ runs'[k].ending = FALSE
      BY <2>6, <3>1
    <3>3. runs'[k].base + 1 = 1 /\ runs'[k].base < depth'
      BY <2>4, <3>2
    <3>4. QED
      BY <2>3, <2>5, <3>2, <3>3, Zenon
  <2>8. \A j, k \in 1..Len(runs') : j < k => runs'[j].base < runs'[k].base
    BY <2>6
  <2>9. \A i \in 1..depth' : FrameOK(frames'[i])
    BY <2>3, <2>4, <2>5
  <2>10. ctl' = "boundary" /\ runs' # <<>> /\ UNCHANGED <<saved, costates>>
    BY <2>4, <2>6
  <2>11. QED
    BY <2>7, <2>8, <2>9, <2>10 DEF StackAfter, StackInv
<1>9. CASE \/ PushCleanup \/ PopCleanup \/ Return \/ Jump \/ RunCleanup \/ GoOn
           \/ TailCall /\ Top.cleanups = <<>> /\ Top.co = NoCoroutine
  BY <1>9, StackInPlace
<1>10. CASE \/ Call \/ Compare \/ Callback
            \/ TailCall /\ ~(Top.cleanups = <<>> /\ Top.co = NoCoroutine)
  BY <1>10, StackCalls
<1>11. CASE Make \/ Drop \/ Resume \/ Dispose \/ Save \/ Load \/ Collect
  BY <1>11, StackCoroutines
<1>12. CASE Yield \/ SweepAtEnd \/ PopFrame
  BY <1>12, StackLeaves
<1>13. QED
  BY <1>3, <1>4, <1>5, <1>6, <1>7, <1>8, <1>9, <1>10, <1>11, <1>12
     DEF Next, Loop, Execute, Host

-----------------------------------------------------------------------------
(* Which coroutines the stack runs, as a step leaves it.                   *)
LEMMA CoSame ==
  ASSUME CoInv, NEW d \in Nat, d <= depth, depth' \in Nat, depth \in Nat, depth' = d,
         \A i \in 1..depth : /\ frames'[i].co = frames[i].co
                             /\ frames'[i].disposing = frames[i].disposing,
         \A i \in 1..d : frames[i].co \in Coroutines =>
                           costate'[frames[i].co] \in {"RUNNING", "DONE"}
  PROVE  CoInv'
<1>1. \A i \in 1..depth' : i \in 1..depth
  OBVIOUS
<1>2. QED
  BY <1>1 DEF CoInv

LEMMA CoPush ==
  ASSUME CoInv, depth \in Nat, depth' = depth + 1, NEW g, frames'[depth + 1] = g,
         \A i \in 1..depth : /\ frames'[i].co = frames[i].co
                             /\ frames'[i].disposing = frames[i].disposing,
         \A i \in 1..depth : frames[i].co \in Coroutines =>
                               costate'[frames[i].co] \in {"RUNNING", "DONE"},
         g.co \in Coroutines =>
           /\ costate'[g.co] \in {"RUNNING", "DONE"}
           /\ g.disposing \/ \A i \in 1..depth : frames[i].co # g.co
  PROVE  CoInv'
<1>1. \A i \in 1..depth' : i = depth + 1 \/ i \in 1..depth
  OBVIOUS
<1>2. ASSUME NEW i \in 1..depth', frames'[i].co \in Coroutines
      PROVE  costate'[frames'[i].co] \in {"RUNNING", "DONE"}
  BY <1>1, <1>2
<1>3. ASSUME NEW i \in 1..depth', NEW k \in 1..depth', i < k,
             frames'[i].co \in Coroutines, frames'[i].co = frames'[k].co
      PROVE  frames'[k].disposing
  <2>1. i \in 1..depth
    BY <1>1, <1>3
  <2>2. CASE k = depth + 1
    BY <1>3, <2>1, <2>2
  <2>3. CASE k \in 1..depth
    BY <1>3, <2>1, <2>3 DEF CoInv
  <2>4. QED
    BY <1>1, <2>2, <2>3
<1>4. QED
  BY <1>2, <1>3 DEF CoInv

(* What a coroutine's state becomes when its frame goes.                   *)
LEMMA OverStates ==
  ASSUME Types, NEW c \in Coroutines \cup {NoCoroutine}, Over(c)
  PROVE  \A d \in Coroutines :
           \/ costate'[d] = costate[d] /\ saved'[d] = saved[d]
           \/ d = c /\ costate'[d] = "DONE"
<1>1. CASE c = NoCoroutine
  BY <1>1 DEF Over
<1>2. CASE c # NoCoroutine
  <2>1. /\ c \in Coroutines /\ costate' = [costate EXCEPT ![c] = "DONE"]
        /\ saved' = [saved EXCEPT ![c].cleanups = <<>>]
    BY <1>2 DEF Over
  <2>2. ASSUME NEW d \in Coroutines, d # c
        PROVE  saved'[d] = saved[d]
    BY <2>1, <2>2 DEF Types
  <2>3. QED
    BY <2>1, <2>2 DEF Types
<1>3. QED
  BY <1>1, <1>2

LEMMA CoStep ==
  ASSUME LaidOut, Types, StackInv, CoInv, [Next]_vars,
         Load => \A i \in 1..depth : frames[i].co # Arg
  PROVE  CoInv'
<1> USE DEF coVars
<1>1. /\ depth \in 0..FrameCapacity /\ FrameCapacity \in Nat
      /\ depth' \in 0..FrameCapacity /\ depth \in Nat /\ depth' \in Nat
      /\ 1..depth \subseteq 1..FrameCapacity + 1
  <2>1. depth \in 0..FrameCapacity /\ FrameCapacity \in Nat /\ depth' \in 0..FrameCapacity
    BY TypesStep, FramesAssumption DEF Types, FramesAssumption
  <2>2. QED
    BY <2>1
<1>2. /\ frames \in [1..FrameCapacity + 1 -> FrameType]
      /\ costate \in [Coroutines -> States] /\ NoCoroutine \notin Coroutines
  BY FramesAssumption DEF Types, FramesAssumption
<1>3. ctl # "host" => /\ Top = frames[depth] /\ Top \in FrameType /\ depth \in 1..depth
                      /\ \A i \in 1..depth : /\ Past[i].co = frames[i].co
                                             /\ Past[i].disposing = frames[i].disposing
                      /\ Past \in [1..FrameCapacity + 1 -> FrameType]
  <2>1. SUFFICES ASSUME ctl # "host"
                 PROVE  /\ Top = frames[depth] /\ Top \in FrameType /\ depth \in 1..depth
                        /\ \A i \in 1..depth : /\ Past[i].co = frames[i].co
                                               /\ Past[i].disposing = frames[i].disposing
                        /\ Past \in [1..FrameCapacity + 1 -> FrameType]
    OBVIOUS
  <2>2. /\ Top = frames[depth] /\ Top \in FrameType /\ depth \in 1..depth
        /\ Past \in [1..FrameCapacity + 1 -> FrameType]
    BY <1>1, <2>1, HereFacts, PastTypes
  <2>3. \A i \in 1..depth : /\ Past[i].co = frames[i].co
                            /\ Past[i].disposing = frames[i].disposing
    <3>1. ASSUME NEW i \in 1..depth
          PROVE  Past[i].co = frames[i].co /\ Past[i].disposing = frames[i].disposing
      <4>1. i \in 1..FrameCapacity + 1
        BY <1>1
      <4>2. QED
        BY <2>1, <2>2, <4>1, PastTypes
    <3>2. QED
      BY <3>1
  <2>4. QED
    BY <2>2, <2>3
(* The stack as it was, or shorter, and no state changed.                  *)
<1>4. CASE Fault /\ ctl # "host"
  <2>1. runs[1].base \in Nat /\ runs[1].base < depth
    BY <1>4, RunsBelow, HereFacts DEF StackInv, RunOK
  <2>2. UNCHANGED <<frames, costate>> /\ depth' <= depth
    BY <1>1, <1>4, <2>1 DEF Fault
  <2>3. QED
    BY <1>1, <2>2, CoSame DEF CoInv
<1>5. CASE \/ CollectorStep \/ LeaveEnding \/ EndCleanup \/ HostCollect \/ HostReclaim
           \/ UNCHANGED vars
  <2>1. UNCHANGED <<frames, depth, costate>>
    BY <1>5 DEF CollectorStep, LeaveEnding, EndCleanup, HostCollect, HostReclaim, vars
  <2>2. QED
    BY <2>1 DEF CoInv
(* The top frame changed in place.                                         *)
<1>6. CASE ~Fault /\ (PushCleanup \/ PopCleanup \/ Return \/ Jump \/ RunCleanup \/ GoOn)
  <2>1. ctl # "host" /\ UNCHANGED <<depth, costate>>
    BY <1>6 DEF PushCleanup, PopCleanup, Return, Jump, RunCleanup, GoOn, At, Draining
  <2>2. CoKept
    BY <1>6, StackInPlace
  <2>3. QED
    BY <1>1, <2>1, <2>2, CoSame DEF CoInv, CoKept
<1>7. CASE ~Fault /\ TailCall /\ Top.cleanups = <<>> /\ Top.co = NoCoroutine
  <2>1. UNCHANGED <<depth, costate>>
    BY <1>7 DEF TailCall
  <2>2. CoKept
    BY <1>7, StackInPlace
  <2>3. QED
    BY <1>1, <2>1, <2>2, CoSame DEF CoInv, CoKept
(* An ordinary frame put on.                                               *)
<1>8. CASE ~Fault /\ (\/ Call \/ Compare \/ Callback
                      \/ (TailCall /\ ~(Top.cleanups = <<>> /\ Top.co = NoCoroutine)))
  <2>1. ctl # "host" /\ depth + 1 \in 1..FrameCapacity + 1 /\ Arg \in Protos
    <3>1. PICK op \in {"CALL", "TAILCALL", "COMPARE", "CALLBACK"} : At(op)
      BY <1>8 DEF Call, TailCall, Compare, Callback
    <3>2. Arg \in Protos /\ ctl # "host"
      BY <3>1, InstructionFacts, NotEnding
    <3>3. QED
      BY <1>1, <3>2
  <2> DEFINE f == FreshFrame(frames[depth + 1], Arg)
             h == [f EXCEPT !.derive = TRUE]
  <2>2. f \in FrameType /\ f.co = NoCoroutine
    BY <1>2, <2>1, FreshFacts
  <2>3. h.co = NoCoroutine
    <3> HIDE DEF f
    <3>1. QED
      BY <2>2 DEF FrameType
  <2>4. PICK g \in {f, h} :
          /\ frames' = [Past EXCEPT ![depth + 1] = g] /\ depth' = depth + 1
          /\ costate' = costate
    BY <1>8 DEF Call, Compare, Callback, TailCall, Called
  <2>5. g.co = NoCoroutine
    BY <2>2, <2>3, <2>4
  <2> HIDE DEF f, h
  <2>6. /\ frames'[depth + 1] = g
        /\ \A i \in 1..depth : frames'[i] = Past[i]
    BY <1>1, <1>3, <2>1, <2>4
  <2>7. QED
    BY <1>1, <1>2, <1>3, <2>1, <2>4, <2>5, <2>6, CoPush DEF CoInv
<1>9. CASE HostRun
  <2>1. /\ 1 \in 1..FrameCapacity + 1 /\ Main \in Protos
    BY FramesAssumption DEF FramesAssumption
  <2>2. FreshFrame(frames[1], Main).co = NoCoroutine
    BY <1>2, <2>1, FreshFacts
  <2>3. frames'[1].co = NoCoroutine /\ depth' = 1
    BY <1>2, <1>9, <2>1, <2>2 DEF HostRun
  <2>4. \A i \in 1..depth' : i = 1
    BY <2>3
  <2>5. QED
    BY <1>2, <2>3, <2>4 DEF CoInv
(* The instructions about coroutines.                                      *)
<1>10. CASE /\ ~Fault
            /\ \/ Make \/ Drop \/ Save \/ Load \/ Collect
               \/ Dispose /\ costate[Arg] \in {"FRESH", "DONE"}
  <2>1. ctl # "host" /\ frames' = Past /\ depth' = depth
    BY <1>10 DEF Make, Drop, Save, Load, Collect, Dispose, At
  <2>2. ASSUME NEW i \in 1..depth, frames[i].co \in Coroutines
        PROVE  costate'[frames[i].co] \in {"RUNNING", "DONE"}
    <3> DEFINE c == frames[i].co
    <3>1. costate[c] \in {"RUNNING", "DONE"}
      BY <2>2 DEF CoInv
    <3>2. CASE Load
      <4>1. Arg # c /\ costate' = [costate EXCEPT ![Arg] = costates[Arg][1]]
        BY <1>10, <3>2 DEF Load
      <4>2. QED
        BY <1>2, <2>2, <3>1, <4>1
    <3>3. CASE ~Load
      <4>1. \/ costate' = costate
            \/ costate' = [costate EXCEPT ![Arg] = "DONE"]
            \/ costate[Arg] = "NONE" /\ costate' = [costate EXCEPT ![Arg] = "FRESH"]
        BY <1>10, <3>3 DEF Make, Drop, Save, Collect, Dispose
      <4> HIDE DEF Arg, c
      <4>2. c \in Coroutines /\ c = frames[i].co
        BY <2>2 DEF c
      <4>3. CASE Arg = c
        BY <1>2, <3>1, <4>1, <4>2, <4>3
      <4>4. CASE Arg # c
        BY <1>2, <3>1, <4>1, <4>2, <4>4
      <4>5. QED
        BY <4>3, <4>4
    <3>4. QED
      BY <3>2, <3>3
  <2>3. QED
    BY <1>1, <1>3, <2>1, <2>2, CoSame
<1>11. CASE ~Fault /\ (Resume \/ (Dispose /\ costate[Arg] \notin {"FRESH", "DONE"}))
  <2>1. ctl # "host" /\ depth + 1 \in 1..FrameCapacity + 1
    BY <1>1, <1>11 DEF Resume, Dispose, At
  <2>2. Arg \in Coroutines
    BY <1>3, <1>11, <2>1, OwnerType DEF Resume, Dispose, Named, Types
  <2> DEFINE g == IF Resume THEN ResumedFrame(frames[depth + 1], Arg)
                  ELSE DisposalFrame(frames[depth + 1], Arg)
  <2>3. g.co = Arg
    BY <1>2, <2>1, <2>2, ResumedFacts, DisposalFacts
  <2>4. /\ frames' = [Past EXCEPT ![depth + 1] = g] /\ depth' = depth + 1
        /\ costate[Arg] \in {"FRESH", "SUSPENDED"}
        /\ costate' = [costate EXCEPT ![Arg] = "RUNNING"]
    <3>1. CASE Resume
      BY <1>11, <3>1 DEF Resume, Restore
    <3>2. CASE ~Resume
      BY <1>11, <3>2 DEF Dispose, Restore
    <3>3. QED
      BY <3>1, <3>2
  <2> HIDE DEF g, Arg
  <2>5. /\ frames'[depth + 1] = g
        /\ \A i \in 1..depth : frames'[i] = Past[i]
    BY <1>1, <1>3, <2>1, <2>4
  <2>6. \A i \in 1..depth : frames[i].co # Arg
    BY <2>2, <2>4 DEF CoInv
  <2>7. /\ costate'[Arg] = "RUNNING"
        /\ \A i \in 1..depth : frames[i].co \in Coroutines =>
             costate'[frames[i].co] \in {"RUNNING", "DONE"}
    BY <1>2, <2>2, <2>4, <2>6 DEF CoInv
  <2>8. QED
    BY <1>1, <1>3, <2>1, <2>3, <2>4, <2>5, <2>6, <2>7, CoPush
<1>12. CASE ~Fault /\ Yield
  <2>1. /\ ctl # "host" /\ ~Top.disposing /\ Top.co # NoCoroutine
        /\ UNCHANGED frames /\ depth' = depth - 1
        /\ costate' = [costate EXCEPT ![Top.co] = "SUSPENDED"]
    BY <1>12 DEF Yield, Suspended, At
  <2>2. \A i \in 1..depth' : i \in 1..depth /\ i < depth
    BY <1>1, <2>1
  <2>3. ASSUME NEW i \in 1..depth', frames[i].co \in Coroutines
        PROVE  costate'[frames[i].co] \in {"RUNNING", "DONE"}
    <3>1. frames[i].co # Top.co
      BY <1>3, <2>1, <2>2, <2>3 DEF CoInv
    <3>2. QED
      BY <1>2, <2>1, <2>2, <2>3, <3>1 DEF CoInv
  <2>4. QED
    BY <1>1, <2>1, <2>3, CoSame
(* A disposal from the queue, and a frame that goes.                       *)
<1>13. CASE ~Fault /\ (TakePending \/ HostDispose)
  <2>1. CASE UNCHANGED <<frames, depth, costate>>
    BY <2>1 DEF CoInv
  <2>2. CASE ~UNCHANGED <<frames, depth, costate>>
    <3>1. EnterDisposal(Head(pending)) /\ depth # FrameCapacity /\ pending # <<>>
      BY <1>13, <2>2 DEF TakePending, HostDispose, Takes
    <3>2. Head(pending) \in Coroutines
      BY <3>1 DEF Types
    <3> DEFINE c == Head(pending)
               g == DisposalFrame(frames[depth + 1], c)
    <3>3. depth + 1 \in 1..FrameCapacity + 1
      BY <1>1
    <3>4. g.co = c /\ g.disposing
      BY <1>2, <3>2, <3>3, DisposalFacts
    <3>5. /\ frames' = [frames EXCEPT ![depth + 1] = g] /\ depth' = depth + 1
          /\ costate' = [costate EXCEPT ![c] = "RUNNING"]
      BY <3>1 DEF EnterDisposal, Enter, Restore
    <3> HIDE DEF g, c
    <3>6. /\ frames'[depth + 1] = g
          /\ \A i \in 1..depth : frames'[i] = frames[i]
      BY <1>1, <1>2, <3>3, <3>5
    <3>7. \A d \in Coroutines : costate[d] \in {"RUNNING", "DONE"} =>
                                  costate'[d] \in {"RUNNING", "DONE"}
      BY <1>2, <3>5
    <3>8. costate'[g.co] = "RUNNING"
      BY <1>2, <3>2, <3>4, <3>5 DEF c
    <3>9. QED
      BY <1>1, <3>4, <3>5, <3>6, <3>7, <3>8, CoPush DEF CoInv
  <2>3. QED
    BY <2>1, <2>2
<1>14. CASE SweepAtEnd \/ PopFrame
  <2>1. /\ ctl # "host" /\ UNCHANGED frames /\ Over(Top.co)
        /\ \/ depth' = depth \/ depth' = depth - 1
           \/ depth' = runs[1].base
    BY <1>14 DEF SweepAtEnd, PopFrame, Draining
  <2>2. runs[1].base \in Nat /\ runs[1].base < depth
    BY <2>1, RunsBelow, HereFacts DEF StackInv, RunOK
  <2>3. depth' <= depth
    BY <1>1, <2>1, <2>2
  <2>4. \A d \in Coroutines : costate'[d] = costate[d] \/ costate'[d] = "DONE"
    <3>1. Top.co \in Coroutines \cup {NoCoroutine}
      BY <1>3, <2>1 DEF FrameType
    <3>2. QED
      BY <2>1, <3>1, OverStates
  <2>5. QED
    BY <1>1, <2>1, <2>3, <2>4, CoSame DEF CoInv
<1>15. CASE Panic
  BY <1>4, <1>15, NotEnding DEF Panic
<1>16. ASSUME ~(Fault /\ ctl # "host")
       PROVE  Fault => ~(Loop /\ ~SweepAtEnd /\ ~PopFrame)
  <2>1. (TakePending \/ LeaveEnding \/ RunCleanup \/ GoOn) => ctl # "host"
    BY DEF TakePending, LeaveEnding, RunCleanup, GoOn, Draining
  <2>2. Execute => ctl # "host"
    BY DEF Execute, PushCleanup, PopCleanup, EndCleanup, Return, Jump, Panic, Call,
           TailCall, Compare, Callback, Make, Drop, Resume, Dispose, Yield, Save,
           Load, Collect, At
  <2>3. QED
    BY <1>16, <2>1, <2>2 DEF Loop
<1>17. CASE Fault /\ HostDispose
  <2>1. UNCHANGED <<frames, depth, costate>>
    BY <1>17 DEF Fault, HostDispose, EnterDisposal
  <2>2. QED
    BY <2>1 DEF CoInv
<1>18. QED
  BY <1>4, <1>5, <1>6, <1>7, <1>8, <1>9, <1>10, <1>11, <1>12, <1>13, <1>14, <1>15,
     <1>16, <1>17 DEF Next, Loop, Execute, Host

-----------------------------------------------------------------------------
(* The count of carriers follows who owes cleanups.                        *)
LEMMA CarriersSame ==
  ASSUME CarriersAgree, carriers' = carriers,
         \A c \in Coroutines : Owes(c)' <=> Owes(c)
  PROVE  CarriersAgree'
<1>1. {c \in Coroutines : Owes(c)}' = {c \in Coroutines : Owes(c)}
  OBVIOUS
<1>2. QED
  BY <1>1 DEF CarriersAgree

LEMMA CarriersLess ==
  ASSUME CarriersAgree, NEW x \in Coroutines, Owes(x), carriers' = carriers - 1,
         ~Owes(x)',
         \A c \in Coroutines : c # x => (Owes(c)' <=> Owes(c))
  PROVE  CarriersAgree'
<1> DEFINE S == {c \in Coroutines : Owes(c)}
           T == {c \in Coroutines : Owes(c)'}
<1>1. IsFiniteSet(S) /\ x \in S
  BY FS_Subset, FramesAssumption DEF FramesAssumption
<1>2. T = S \ {x}
  OBVIOUS
<1>3. Cardinality(S \ {x}) = Cardinality(S) - 1
  <2> HIDE DEF S
  <2>1. QED
    BY <1>1, FS_RemoveElement
<1>4. carriers = Cardinality(S)
  BY DEF CarriersAgree
<1>5. carriers' = Cardinality(T)
  <2> HIDE DEF S, T
  <2>1. QED
    BY <1>2, <1>3, <1>4
<1>6. QED
  BY <1>5 DEF CarriersAgree

LEMMA CarriersMore ==
  ASSUME CarriersAgree, NEW x \in Coroutines, ~Owes(x), carriers' = carriers + 1,
         Owes(x)',
         \A c \in Coroutines : c # x => (Owes(c)' <=> Owes(c))
  PROVE  CarriersAgree'
<1> DEFINE S == {c \in Coroutines : Owes(c)}
           T == {c \in Coroutines : Owes(c)'}
<1>1. IsFiniteSet(S) /\ x \notin S
  BY FS_Subset, FramesAssumption DEF FramesAssumption
<1>2. T = S \cup {x}
  OBVIOUS
<1>3. Cardinality(S \cup {x}) = Cardinality(S) + 1
  <2> HIDE DEF S
  <2>1. QED
    BY <1>1, FS_AddElement
<1>4. carriers = Cardinality(S)
  BY DEF CarriersAgree
<1>5. carriers' = Cardinality(T)
  <2> HIDE DEF S, T
  <2>1. QED
    BY <1>2, <1>3, <1>4
<1>6. QED
  BY <1>5 DEF CarriersAgree

(* A coroutine a frame takes over owes nothing itself.                     *)
LEMMA CarriersRestored ==
  ASSUME Types, CarriersAgree, NEW c \in Coroutines, Restore(c)
  PROVE  CarriersAgree'
<1>1. /\ costate' = [costate EXCEPT ![c] = "RUNNING"] /\ saved' = saved
      /\ carriers' = IF Owes(c) THEN carriers - 1 ELSE carriers
  BY DEF Restore
<1>2. ~Owes(c)' /\ \A d \in Coroutines : d # c => (Owes(d)' <=> Owes(d))
  BY <1>1 DEF Owes, Types
<1>3. QED
  BY <1>1, <1>2, CarriersSame, CarriersLess

LEMMA CarriersStep ==
  ASSUME LaidOut, Types, StackInv, CoInv, CarriersAgree, [Next]_vars
  PROVE  CarriersAgree'
<1> USE DEF coVars
<1>1. CASE UNCHANGED <<costate, saved, carriers>>
  BY <1>1, CarriersSame DEF Owes
<1>2. CASE Fault
  BY <1>1, <1>2 DEF Fault
<1>3. CASE \E c \in Coroutines : Restore(c)
  BY <1>3, CarriersRestored
<1>4. CASE \/ CollectorStep \/ LeaveEnding \/ EndCleanup \/ HostRun \/ HostCollect
           \/ HostReclaim \/ UNCHANGED vars
  BY <1>1, <1>4 DEF CollectorStep, LeaveEnding, EndCleanup, HostRun, HostCollect,
     HostReclaim, vars
<1>5. CASE PushCleanup \/ PopCleanup \/ Return \/ Jump \/ Panic \/ RunCleanup \/ GoOn
  BY <1>1, <1>2, <1>5 DEF PushCleanup, PopCleanup, Return, Jump, Panic, RunCleanup, GoOn
<1>6. CASE Call \/ TailCall \/ Compare \/ Callback
  BY <1>1, <1>2, <1>6 DEF Call, TailCall, Compare, Callback, Called
<1>7. CASE Drop \/ Save \/ Collect
  BY <1>1, <1>2, <1>7 DEF Drop, Save, Collect
<1>8. CASE TakePending \/ HostDispose
  <2>1. CASE pending # <<>> /\ EnterDisposal(Head(pending))
    <3>1. Head(pending) \in Coroutines
      BY <2>1 DEF Types
    <3>2. QED
      BY <1>3, <2>1, <3>1 DEF EnterDisposal
  <2>2. QED
    BY <1>1, <1>2, <1>8, <2>1 DEF TakePending, HostDispose, Takes
<1>9. CASE Resume \/ (Dispose /\ costate[Arg] \notin {"FRESH", "DONE"})
  <2>1. CASE ~Fault
    <3>1. Restore(Arg) /\ Named(Arg) /\ ctl # "host"
      BY <1>9, <2>1 DEF Resume, Dispose, At
    <3>2. Arg \in Coroutines
      BY <3>1, HereFacts, OwnerType DEF Named, Types
    <3>3. QED
      BY <1>3, <3>1, <3>2
  <2>2. QED
    BY <1>2, <2>1
<1>10. CASE ~Fault /\ (Make \/ (Dispose /\ costate[Arg] \in {"FRESH", "DONE"}))
  <2>1. /\ UNCHANGED <<saved, carriers>> /\ costate[Arg] # "SUSPENDED"
        /\ \/ costate' = [costate EXCEPT ![Arg] = "FRESH"]
           \/ costate' = [costate EXCEPT ![Arg] = "DONE"]
    BY <1>10 DEF Make, Dispose
  <2> HIDE DEF Arg
  <2>2. \A c \in Coroutines : Owes(c)' <=> Owes(c)
    BY <2>1 DEF Owes, Types
  <2>3. QED
    BY <2>1, <2>2, CarriersSame
<1>11. CASE ~Fault /\ Yield
  <2>1. Top.co # NoCoroutine /\ Suspended(Top.co, Top) /\ ctl # "host"
    BY <1>11 DEF Yield, At
  <2>2. Top.co \in Coroutines /\ Top = frames[depth] /\ depth \in 1..depth
    BY <2>1, HereFacts, FramesAssumption DEF FrameType, FramesAssumption
  <2>3. ~Owes(Top.co)
    BY <2>2 DEF CoInv, Owes
  <2>4. PICK x \in Coroutines : x = Top.co
    BY <2>2
  <2>5. PICK q : q = Top.cleanups
    OBVIOUS
  <2>6. /\ costate' = [costate EXCEPT ![x] = "SUSPENDED"]
        /\ saved' = [saved EXCEPT ![x] = [pc |-> Top.pc + 1, cleanups |-> q]]
        /\ carriers' = IF q # <<>> THEN carriers + 1 ELSE carriers
    BY <2>1, <2>4, <2>5 DEF Suspended
  <2>7. /\ Owes(x)' <=> q # <<>>
        /\ \A c \in Coroutines : c # x => (Owes(c)' <=> Owes(c))
    BY <2>6 DEF Owes, Types
  <2>8. ~Owes(x)
    BY <2>3, <2>4
  <2>9. CASE q # <<>>
    BY <2>6, <2>7, <2>8, <2>9, CarriersMore
  <2>10. CASE q = <<>>
    BY <2>6, <2>7, <2>8, <2>10, CarriersSame
  <2>11. QED
    BY <2>9, <2>10
<1>12. CASE ~Fault /\ Load
  <2>1. /\ Named(Arg) /\ ctl # "host" /\ costates[Arg] # <<>>
        /\ costate' = [costate EXCEPT ![Arg] = costates[Arg][1]]
        /\ saved' = [saved EXCEPT ![Arg] = costates[Arg][2]]
        /\ carriers' = (carriers - (IF Owes(Arg) THEN 1 ELSE 0))
                         + (IF /\ costates[Arg][1] = "SUSPENDED"
                               /\ costates[Arg][2].cleanups # <<>> THEN 1 ELSE 0)
    BY <1>12 DEF Load, At
  <2>2. Arg \in Coroutines
    BY <2>1, HereFacts, OwnerType DEF Named, Types
  <2>3. PICK x \in Coroutines : x = Arg
    BY <2>2
  <2> HIDE DEF Arg
  <2>4. /\ Owes(x)' <=> /\ costates[x][1] = "SUSPENDED"
                        /\ costates[x][2].cleanups # <<>>
        /\ \A c \in Coroutines : c # x => (Owes(c)' <=> Owes(c))
    BY <2>1, <2>3 DEF Owes, Types
  <2>5. carriers \in Nat
    <3>1. IsFiniteSet({c \in Coroutines : Owes(c)})
      BY FS_Subset, FramesAssumption DEF FramesAssumption
    <3>2. QED
      BY <3>1, FS_CardinalityType DEF CarriersAgree
  <2>6. carriers' = (carriers - (IF Owes(x) THEN 1 ELSE 0))
                      + (IF Owes(x)' THEN 1 ELSE 0)
    BY <2>1, <2>3, <2>4
  <2>7. CASE Owes(x)' <=> Owes(x)
    <3>1. carriers' = carriers /\ \A c \in Coroutines : Owes(c)' <=> Owes(c)
      BY <2>4, <2>5, <2>6, <2>7
    <3>2. QED
      BY <3>1, CarriersSame
  <2>8. CASE Owes(x) /\ ~Owes(x)'
    BY <2>4, <2>5, <2>6, <2>8, CarriersLess
  <2>9. CASE ~Owes(x) /\ Owes(x)'
    BY <2>4, <2>5, <2>6, <2>9, CarriersMore
  <2>10. QED
    BY <2>7, <2>8, <2>9
<1>13. CASE SweepAtEnd \/ PopFrame
  <2>1. /\ ctl # "host" /\ Over(Top.co) /\ carriers' = carriers
    BY <1>13 DEF SweepAtEnd, PopFrame, Draining
  <2>2. /\ Top.co \in Coroutines \cup {NoCoroutine} /\ Top = frames[depth]
        /\ depth \in 1..depth
    BY <2>1, HereFacts, FramesAssumption DEF FrameType, FramesAssumption
  <2>3. \A c \in Coroutines : Owes(c)' <=> Owes(c)
    <3>1. ASSUME NEW c \in Coroutines
          PROVE  Owes(c)' <=> Owes(c)
      <4>1. CASE costate'[c] = costate[c] /\ saved'[c] = saved[c]
        BY <4>1 DEF Owes
      <4>2. CASE c = Top.co /\ costate'[c] = "DONE"
        BY <2>2, <4>2 DEF Owes, CoInv
      <4>3. QED
        BY <2>1, <2>2, <4>1, <4>2, OverStates
    <3>2. QED
      BY <3>1
  <2>4. QED
    BY <2>1, <2>3, CarriersSame
<1>14. QED
  BY <1>1, <1>2, <1>3, <1>4, <1>5, <1>6, <1>7, <1>8, <1>9, <1>10, <1>11, <1>12, <1>13
     DEF Next, Loop, Execute, Host

-----------------------------------------------------------------------------
LEMMA InitHolds ==
  ASSUME \A program \in Programs : WellLaid(program), Init
  PROVE  IInv
<1>1. code \in Programs /\ LaidOut
  BY DEF Init, LaidOut
<1>2. /\ Main \in Protos /\ BodyOf \in [Coroutines -> Protos]
      /\ FrameCapacity \in Nat \ {0} /\ MaxCleanups \in Nat /\ MaxCollects \in Nat
  BY FramesAssumption DEF FramesAssumption
<1>3. <<>> \in Seq(Nat) /\ <<>> \in Seq(RunType) /\ <<>> \in Seq(Coroutines)
  OBVIOUS
<1>4. Types
  <2>1. frames \in [1..FrameCapacity + 1 -> FrameType]
    <3>1. [proto |-> Main, pc |-> 1, cleanups |-> <<>>, target |-> 0,
           resume |-> 1, returning |-> FALSE, disposing |-> FALSE,
           derive |-> FALSE, co |-> NoCoroutine] \in FrameType
      BY <1>2, <1>3 DEF FrameType
    <3>2. QED
      BY <3>1 DEF Init
  <2>2. saved \in [Coroutines -> SavedType]
    <3>1. [pc |-> 1, cleanups |-> <<>>] \in SavedType
      BY <1>3 DEF SavedType
    <3>2. QED
      BY <3>1 DEF Init
  <2>3. /\ costate \in [Coroutines -> States]
        /\ costates \in [Coroutines -> {<<>>} \cup (States \X SavedType)]
        /\ holds \in [Owners -> SUBSET Coroutines]
        /\ stale \in [Owners -> SUBSET Coroutines]
    BY DEF Init, States
  <2>4. /\ depth \in 0..FrameCapacity /\ runs \in Seq(RunType)
        /\ ctl \in {"boundary", "drain", "host"}
        /\ outcome \in {"none", "ok", "fault"}
        /\ pending \in Seq(Coroutines) /\ waiting \in Nat
        /\ collects \in 0..MaxCollects
    BY <1>2, <1>3 DEF Init
  <2>5. QED
    BY <2>1, <2>2, <2>3, <2>4 DEF Types
<1>5. StackInv
  <2>1. \A c \in Coroutines : SavedOK(c, saved[c]) /\ costates[c] = <<>>
    <3>1. ASSUME NEW c \in Coroutines
          PROVE  SavedOK(c, saved[c]) /\ costates[c] = <<>>
      <4>1. saved[c].pc = 1 /\ saved[c].cleanups = <<>> /\ costates[c] = <<>>
        BY DEF Init
      <4>2. BodyOf[c] \in Protos
        BY <1>2
      <4>3. 1 \in Spots(BodyOf[c]) /\ ~InCleanup(BodyOf[c], 1)
        BY <1>1, <4>2 DEF LaidOut, WellLaid, Spots, InCleanup
      <4>4. InBody(<<>>, BodyOf[c])
        BY <1>2 DEF InBody
      <4>5. QED
        BY <4>1, <4>3, <4>4 DEF SavedOK
    <3>2. QED
      BY <3>1
  <2>2. depth = 0 /\ runs = <<>> /\ ctl = "host"
    BY DEF Init
  <2>3. QED
    BY <2>1, <2>2 DEF StackInv
<1>6. CoInv
  BY DEF Init, CoInv
<1>7. CarriersAgree
  <2>1. {c \in Coroutines : Owes(c)} = {}
    BY DEF Init, Owes
  <2>2. carriers = 0
    BY DEF Init
  <2>3. QED
    BY <2>1, <2>2, FS_EmptySet DEF CarriersAgree
<1>8. QED
  BY <1>1, <1>4, <1>5, <1>6, <1>7 DEF IInv

LEMMA InvHolds ==
  ASSUME \A program \in Programs : WellLaid(program)
  PROVE  Spec /\ LoadsOffStack => []IInv
<1>1. Init => IInv
  BY InitHolds
<1>2. IInv /\ [Next]_vars /\ [Load => \A i \in 1..depth : frames[i].co # Arg]_vars
        => IInv'
  <2> SUFFICES ASSUME IInv, [Next]_vars,
                      [Load => \A i \in 1..depth : frames[i].co # Arg]_vars
               PROVE  IInv'
    OBVIOUS
  <2>1. /\ LaidOut /\ Types /\ StackInv /\ CoInv /\ CarriersAgree
    BY DEF IInv
  <2>2. LaidOut' /\ Types' /\ StackInv' /\ CarriersAgree'
    BY <2>1, CodeStep, TypesStep, StackStep, CarriersStep
  <2>3. CASE Load => \A i \in 1..depth : frames[i].co # Arg
    BY <2>1, <2>2, <2>3, CoStep DEF IInv
  <2>4. CASE UNCHANGED vars
    <3>1. CoInv'
      BY <2>1, <2>4 DEF CoInv, vars, coVars
    <3>2. QED
      BY <2>2, <3>1 DEF IInv
  <2>5. QED
    BY <2>3, <2>4
<1>3. QED
  BY <1>1, <1>2, PTL DEF Spec, LoadsOffStack

(* machine.h, cleanup_carriers: whatever the program and however deep it   *)
(* goes, the count is how many suspended coroutines carry cleanups, where  *)
(* no load() is asked of a coroutine that a frame runs.                    *)
THEOREM CarriersAreCounted ==
  ASSUME \A program \in Programs : WellLaid(program)
  PROVE  Spec /\ LoadsOffStack => []CarriersAgree
<1>1. IInv => CarriersAgree
  BY DEF IInv
<1>2. QED
  BY <1>1, InvHolds, PTL

(* LhatFrames: every variable has its type, every place a frame names is   *)
(* one of its body.                                                        *)
THEOREM FramesAreTyped ==
  ASSUME \A program \in Programs : WellLaid(program)
  PROVE  Spec /\ LoadsOffStack => []TypeOK
<1>1. IInv => TypeOK
  <2> SUFFICES ASSUME IInv
               PROVE  TypeOK
    OBVIOUS
  <2>1. Types /\ StackInv /\ CarriersAgree
    BY DEF IInv
  <2>2. ASSUME NEW i \in 1..depth
        PROVE  /\ frames[i].proto \in Protos
               /\ frames[i].pc \in 1..Len(code[frames[i].proto])
               /\ ToSet(frames[i].cleanups) \subseteq 1..Len(code[frames[i].proto])
               /\ frames[i].co \in Coroutines \cup {NoCoroutine}
    <3>1. frames[i] \in FrameType /\ FrameOK(frames[i])
      <4>1. i \in 1..FrameCapacity + 1
        BY <2>1, FramesAssumption DEF Types, FramesAssumption
      <4>2. QED
        BY <2>1, <4>1 DEF Types, StackInv
    <3>2. frames[i].cleanups \in Seq(Nat)
      BY <3>1 DEF FrameType
    <3>3. ToSet(frames[i].cleanups) \subseteq 1..Len(code[frames[i].proto])
      BY <3>1, <3>2 DEF ToSet, FrameOK, InBody, Spots
    <3>4. QED
      BY <3>1, <3>3 DEF FrameType, FrameOK, Spots
  <2>3. carriers \in Nat
    <3>1. IsFiniteSet({c \in Coroutines : Owes(c)})
      BY FS_Subset, FramesAssumption DEF FramesAssumption
    <3>2. QED
      BY <2>1, <3>1, FS_CardinalityType DEF CarriersAgree
  <2>4. (ctl = "host") = (runs = <<>>)
    BY <2>1 DEF StackInv
  <2>5. QED
    BY <2>1, <2>2, <2>3, <2>4 DEF TypeOK, Types, States
<1>2. QED
  BY <1>1, InvHolds, PTL

-----------------------------------------------------------------------------
(* Each cleanup once.  Where nothing is loaded and the queue is served for *)
(* no coroutine that runs, a coroutine has one frame, and it is done with  *)
(* on the stack only while the last frame of a disposal's run leaves.      *)
Leaving ==
  /\ ctl # "host" /\ depth = Run.base + 1 /\ Top.disposing /\ Gone /\ Run.swept
  /\ ctl = "drain" \/ Run.ending

Once ==
  /\ \A i, k \in 1..depth :
       i < k /\ frames[i].co \in Coroutines => frames[i].co # frames[k].co
  /\ \A i \in 1..depth :
       frames[i].co \in Coroutines /\ costate[frames[i].co] # "RUNNING" =>
         costate[frames[i].co] = "DONE" /\ i = depth /\ Leaving

(* A cleanup was remembered as often as it was run and still stands, as    *)
(* far as the counters go.                                                 *)
Times(list, k) == Cardinality({n \in 1..Len(list) : list[n] = k})

Square(e, r, n) ==
  IF r + n < MaxCount THEN e = r + n ELSE e = MaxCount

Squared(c, list) ==
  \A k \in Places(code) : Square(entered[c][k], ran[c][k], Times(list, k))

CoTally ==
  /\ \A c \in Coroutines :
       /\ costate[c] # "RUNNING" => Squared(c, saved[c].cleanups)
       /\ costate[c] \in {"NONE", "FRESH", "DONE"} => saved[c].cleanups = <<>>
       /\ \A k \in Places(code) : ran[c][k] <= entered[c][k]
  /\ \A i \in 1..depth :
       frames[i].co \in Coroutines /\ costate[frames[i].co] = "RUNNING" =>
         Squared(frames[i].co, frames[i].cleanups)

(* A subroutine may have many frames, and a fault may leave some behind.   *)
Standing(p, k) ==
  {x \in (1..depth) \X (1..MaxCleanups) :
     LET f == frames[x[1]] IN
       /\ f.co = NoCoroutine /\ f.proto = p
       /\ x[2] <= Len(f.cleanups) /\ f.cleanups[x[2]] = k}

ProtoTally ==
  \A p \in Protos : \A k \in Places(code) :
    entered[p][k] = MaxCount \/ ran[p][k] + Cardinality(Standing(p, k)) <= entered[p][k]

Counts ==
  /\ entered \in [Owners -> [Places(code) -> 0..MaxCount]]
  /\ ran \in [Owners -> [Places(code) -> 0..MaxCount]]

TakesOne ==
  /\ ~Load
  /\ pending # <<>> /\ (TakePending \/ HostDispose)
       => costate[Head(pending)] # "RUNNING"

(* Whatever is done on top of the stack, all of it runs.                   *)
AllRunning ==
  \A i \in 1..depth :
    frames[i].co \in Coroutines => costate[frames[i].co] = "RUNNING"

LEMMA OnceRunning ==
  ASSUME Once, ~Leaving
  PROVE  AllRunning
BY DEF Once, AllRunning

LEMMA NotLeaving ==
  ASSUME \/ \E op : At(op)
         \/ ctl = "boundary" /\ Takes
         \/ ctl = "host"
         \/ ctl = "drain" /\ ~Gone
         \/ ctl = "drain" /\ Sweeps
  PROVE  ~Leaving
BY DEF Leaving, At, Leaves, Takes, Sweeps

(* The kinds of step again: the frames are those there were, or fewer ...  *)
LEMMA OnceSame ==
  ASSUME Once, depth \in Nat, depth' \in Nat, depth' <= depth, CoKept,
         \A i \in 1..depth' : frames[i].co \in Coroutines =>
                                costate'[frames[i].co] = "RUNNING"
  PROVE  Once'
<1>1. \A i \in 1..depth' : i \in 1..depth
  OBVIOUS
<1>2. QED
  BY <1>1 DEF Once, CoKept

(* ... or one more.                                                        *)
LEMMA OncePush ==
  ASSUME Once, depth \in Nat, depth' = depth + 1, CoKept,
         NEW g, frames'[depth + 1] = g,
         \A i \in 1..depth : frames[i].co \in Coroutines =>
                               costate'[frames[i].co] = "RUNNING",
         g.co \in Coroutines =>
           /\ costate'[g.co] = "RUNNING"
           /\ \A i \in 1..depth : frames[i].co # g.co
  PROVE  Once'
<1>1. \A i \in 1..depth' : i = depth + 1 \/ i \in 1..depth
  OBVIOUS
<1>2. ASSUME NEW i \in 1..depth', frames'[i].co \in Coroutines
      PROVE  costate'[frames'[i].co] = "RUNNING"
  BY <1>1, <1>2 DEF CoKept
<1>3. ASSUME NEW i \in 1..depth', NEW k \in 1..depth', i < k,
             frames'[i].co \in Coroutines
      PROVE  frames'[i].co # frames'[k].co
  <2>1. i \in 1..depth
    BY <1>1, <1>3
  <2>2. CASE k = depth + 1
    BY <1>3, <2>1, <2>2 DEF CoKept
  <2>3. CASE k \in 1..depth
    BY <1>3, <2>1, <2>3 DEF Once, CoKept
  <2>4. QED
    BY <1>1, <2>2, <2>3
<1>4. QED
  BY <1>2, <1>3 DEF Once

(* What a push of a frame leaves below it.                                 *)
LEMMA PushKeeps ==
  ASSUME Types, StackInv, ctl # "host", NEW g, depth # FrameCapacity,
         frames' = [Past EXCEPT ![depth + 1] = g]
  PROVE  /\ frames'[depth + 1] = g /\ CoKept
         /\ \A i \in 1..depth : /\ frames'[i].proto = frames[i].proto
                                /\ frames'[i].cleanups = frames[i].cleanups
<1>1. /\ depth \in 1..FrameCapacity /\ FrameCapacity \in Nat
      /\ Past \in [1..FrameCapacity + 1 -> FrameType] /\ Top = frames[depth]
  BY PastTypes, HereFacts, FramesAssumption DEF FramesAssumption
<1>2. ASSUME NEW i \in 1..depth
      PROVE  /\ Past[i].co = frames[i].co /\ Past[i].disposing = frames[i].disposing
             /\ Past[i].proto = frames[i].proto /\ Past[i].cleanups = frames[i].cleanups
  <2>1. i \in 1..FrameCapacity + 1
    BY <1>1
  <2>2. QED
    BY <1>1, <2>1, PastTypes
<1>3. frames'[depth + 1] = g /\ \A i \in 1..depth : frames'[i] = Past[i]
  BY <1>1
<1>4. QED
  BY <1>2, <1>3 DEF CoKept

(* Every step is of one of these kinds, as far as frames, cleanups and the *)
(* states of coroutines go.                                                *)
CountsAt(h, g, o, t) == g = [h EXCEPT ![o][t] = Counted(@)]

BodiesKept ==
  \A i \in 1..depth : /\ frames'[i].proto = frames[i].proto
                      /\ frames'[i].cleanups = frames[i].cleanups

StaysStill ==
  /\ UNCHANGED <<frames, depth, runs, coVars, seenVars>>
  /\ ctl' = ctl \/ ctl' = "drain"

Faults ==
  /\ ~Leaving /\ depth' <= depth
  /\ UNCHANGED <<frames, coVars, seenVars>>

ChangesTop ==
  /\ ~Leaving /\ depth' = depth /\ CoKept
  /\ UNCHANGED <<saved, seenVars>>
  /\ \A c \in Coroutines :
       \/ costate'[c] = costate[c]
       \/ costate[c] \in {"NONE", "FRESH", "DONE"} /\ costate'[c] \in {"FRESH", "DONE"}
  /\ \A i \in 1..depth :
       /\ frames'[i].cleanups = frames[i].cleanups
       /\ frames'[i].proto = frames[i].proto \/ frames[i].cleanups = <<>>

Remembers ==
  /\ ctl # "host" /\ ~Leaving /\ depth' = depth /\ CoKept
  /\ UNCHANGED <<costate, saved, ran>>
  /\ \E there \in Nat :
       /\ CountsAt(entered, entered', Owner(Top), there)
       /\ Len(Top.cleanups) < MaxCleanups
       /\ frames'[depth].cleanups = Append(Top.cleanups, there)
       /\ \A i \in 1..depth :
            /\ frames'[i].proto = frames[i].proto
            /\ i # depth => frames'[i].cleanups = frames[i].cleanups

Runs ==
  /\ ctl # "host" /\ ~Leaving /\ depth' = depth /\ CoKept
  /\ UNCHANGED <<costate, saved, entered>>
  /\ Top.cleanups # <<>>
  /\ CountsAt(ran, ran', Owner(Top), Last(Top.cleanups))
  /\ frames'[depth].cleanups = Front(Top.cleanups)
  /\ \A i \in 1..depth :
       /\ frames'[i].proto = frames[i].proto
       /\ i # depth => frames'[i].cleanups = frames[i].cleanups

Enters ==
  /\ ~Leaving /\ depth' = depth + 1 /\ CoKept /\ BodiesKept
  /\ UNCHANGED <<saved, seenVars>>
  /\ LET g == frames'[depth + 1] IN
       \/ g.co = NoCoroutine /\ g.cleanups = <<>> /\ costate' = costate
       \/ /\ g.co \in Coroutines /\ costate[g.co] # "RUNNING"
          /\ costate' = [costate EXCEPT ![g.co] = "RUNNING"]
          /\ g.cleanups = saved[g.co].cleanups

Starts ==
  /\ depth' = 1 /\ frames'[1].co = NoCoroutine /\ frames'[1].cleanups = <<>>
  /\ UNCHANGED <<costate, saved, seenVars>>

Suspends ==
  /\ ctl # "host" /\ ~Leaving /\ depth' = depth - 1 /\ Top.co \in Coroutines
  /\ UNCHANGED <<frames, seenVars>>
  /\ costate' = [costate EXCEPT ![Top.co] = "SUSPENDED"]
  /\ saved' = [saved EXCEPT ![Top.co] =
                 [pc |-> Top.pc + 1, cleanups |-> Top.cleanups]]

Goes ==
  /\ ctl # "host" /\ Gone /\ Over(Top.co)
  /\ UNCHANGED <<frames, seenVars>>
  /\ \/ depth' < depth
     \/ depth' = depth /\ ~Leaving /\ (Top.co \in Coroutines => Leaving')

LEMMA ExecuteKinds ==
  ASSUME LaidOut, Types, StackInv, Execute, ~Load
  PROVE  StaysStill \/ Faults \/ ChangesTop \/ Remembers \/ Enters \/ Suspends
<1> USE DEF coVars, seenVars
<1>1. /\ \E op : At(op)
      /\ ctl # "host" /\ ~Leaving
  <2>1. \E op : At(op)
    BY DEF Execute, PushCleanup, PopCleanup, EndCleanup, Return, Jump, Panic, Call,
           TailCall, Compare, Callback, Make, Drop, Resume, Dispose, Yield, Save,
           Load, Collect
  <2>2. QED
    BY <2>1, NotLeaving, NotEnding
<1>2. /\ depth \in 1..FrameCapacity /\ FrameCapacity \in Nat /\ Top = frames[depth]
      /\ Top \in FrameType /\ frames \in [1..FrameCapacity + 1 -> FrameType]
      /\ 1..depth \subseteq 1..FrameCapacity + 1
  <2>1. depth \in 1..FrameCapacity /\ FrameCapacity \in Nat
    BY <1>1, HereFacts, FramesAssumption DEF FramesAssumption
  <2>2. QED
    BY <1>1, <2>1, HereFacts DEF Types
<1>3. CASE Fault
  <2>1. depth' <= depth
    <3>1. runs[1].base \in Nat /\ runs[1].base < depth
      BY <1>1, RunsBelow, HereFacts DEF StackInv, RunOK
    <3>2. QED
      BY <1>2, <1>3, <3>1 DEF Fault
  <2>2. QED
    BY <1>1, <1>3, <2>1 DEF Fault, Faults
<1>4. CASE EndCleanup
  BY <1>4 DEF EndCleanup, StaysStill
<1>5. CASE ~Fault /\ (PopCleanup \/ Return \/ Jump)
  <2>1. CoKept
    BY <1>5, StackInPlace
  <2>2. ASSUME NEW i \in 1..depth
        PROVE  /\ frames'[i].cleanups = frames[i].cleanups
               /\ frames'[i].proto = frames[i].proto
    <3>1. i \in 1..FrameCapacity + 1 /\ frames[i] \in FrameType
      BY <1>2
    <3>2. CASE PopCleanup
      BY <1>2, <3>1, <3>2 DEF PopCleanup, FrameType
    <3>3. CASE Return
      BY <1>2, <3>1, <3>3 DEF Return, FrameType
    <3>4. CASE Jump
      BY <1>2, <3>1, <3>4 DEF Jump, FrameType
    <3>5. QED
      BY <1>5, <3>2, <3>3, <3>4
  <2>3. QED
    BY <1>1, <1>5, <2>1, <2>2 DEF PopCleanup, Return, Jump, ChangesTop
<1>6. CASE ~Fault /\ PushCleanup
  <2>1. CoKept
    BY <1>6, StackInPlace
  <2> DEFINE there == Top.pc + Arg
  <2>2. there \in Nat
    BY <1>6, InstructionFacts DEF PushCleanup, Spots
  <2>3. /\ frames' = [frames EXCEPT ![depth].pc = @ + 1,
                                    ![depth].cleanups = Append(@, there)]
        /\ entered' = [entered EXCEPT ![Owner(Top)][there] = Counted(@)]
        /\ Len(Top.cleanups) < MaxCleanups
        /\ depth' = depth /\ UNCHANGED <<costate, saved, ran>>
    <3>1. Len(Top.cleanups) \in Nat /\ MaxCleanups \in Nat
      BY <1>2, FramesAssumption DEF FrameType, FramesAssumption
    <3>2. QED
      BY <1>6, <3>1 DEF PushCleanup
  <2> HIDE DEF there
  <2>4. frames'[depth].cleanups = Append(Top.cleanups, there)
    BY <1>2, <2>3 DEF FrameType
  <2>5. \A i \in 1..depth : /\ frames'[i].proto = frames[i].proto
                            /\ i # depth => frames'[i].cleanups = frames[i].cleanups
    BY <1>2, <2>3 DEF FrameType
  <2>6. QED
    BY <1>1, <2>1, <2>2, <2>3, <2>4, <2>5 DEF Remembers, CountsAt
<1>7. CASE ~Fault /\ TailCall /\ Top.cleanups = <<>> /\ Top.co = NoCoroutine
  <2>1. CoKept
    BY <1>7, StackInPlace
  <2>2. /\ frames' = [frames EXCEPT ![depth].proto = Arg, ![depth].pc = 1,
                                    ![depth].returning = FALSE]
        /\ depth' = depth /\ UNCHANGED <<costate, saved, seenVars>>
    BY <1>7 DEF TailCall
  <2>3. ASSUME NEW i \in 1..depth
        PROVE  /\ frames'[i].cleanups = frames[i].cleanups
               /\ frames'[i].proto = frames[i].proto \/ frames[i].cleanups = <<>>
    <3>1. i \in 1..FrameCapacity + 1 /\ frames[i] \in FrameType
      BY <1>2
    <3>2. QED
      BY <1>2, <1>7, <2>2, <3>1 DEF FrameType
  <2>4. QED
    BY <1>1, <2>1, <2>2, <2>3 DEF ChangesTop
<1>8. ASSUME ~Fault,
             \/ Call \/ Compare \/ Callback
             \/ TailCall /\ ~(Top.cleanups = <<>> /\ Top.co = NoCoroutine)
      PROVE  Enters
  <2>1. depth + 1 \in 1..FrameCapacity + 1 /\ Arg \in Protos
    <3>1. PICK op \in {"CALL", "TAILCALL", "COMPARE", "CALLBACK"} : At(op)
      BY <1>8 DEF Call, TailCall, Compare, Callback
    <3>2. Arg \in Protos
      BY <3>1, InstructionFacts
    <3>3. QED
      BY <1>2, <3>2
  <2> DEFINE f == FreshFrame(frames[depth + 1], Arg)
             h == [f EXCEPT !.derive = TRUE]
  <2>2. f \in FrameType /\ f.co = NoCoroutine /\ f.cleanups = <<>>
    BY <1>2, <2>1, FreshFacts
  <2>3. h.co = NoCoroutine /\ h.cleanups = <<>>
    <3> HIDE DEF f
    <3>1. QED
      BY <2>2 DEF FrameType
  <2>4. PICK g \in {f, h} :
          /\ frames' = [Past EXCEPT ![depth + 1] = g] /\ depth' = depth + 1
          /\ depth # FrameCapacity /\ UNCHANGED <<costate, saved, seenVars>>
    BY <1>8 DEF Call, Compare, Callback, TailCall, Called
  <2>5. g.co = NoCoroutine /\ g.cleanups = <<>>
    BY <2>2, <2>3, <2>4
  <2> HIDE DEF f, h
  <2>6. frames'[depth + 1] = g /\ CoKept /\ BodiesKept
    BY <1>1, <2>4, PushKeeps DEF BodiesKept
  <2>7. QED
    BY <1>1, <2>4, <2>5, <2>6 DEF Enters
<1>9. ASSUME ~Fault,
             \/ Make \/ Drop \/ Save \/ Collect
             \/ Dispose /\ costate[Arg] \in {"FRESH", "DONE"}
      PROVE  ChangesTop
  <2>1. /\ frames' = Past /\ depth' = depth /\ UNCHANGED <<saved, seenVars>>
        /\ \/ costate' = costate
           \/ costate[Arg] \in {"FRESH", "DONE"} /\ costate' = [costate EXCEPT ![Arg] = "DONE"]
           \/ costate[Arg] = "NONE" /\ costate' = [costate EXCEPT ![Arg] = "FRESH"]
    BY <1>9 DEF Make, Drop, Save, Collect, Dispose
  <2>2. ASSUME NEW i \in 1..depth
        PROVE  /\ frames'[i].co = frames[i].co /\ frames'[i].disposing = frames[i].disposing
               /\ frames'[i].cleanups = frames[i].cleanups
               /\ frames'[i].proto = frames[i].proto
    <3>1. i \in 1..FrameCapacity + 1
      BY <1>2
    <3>2. QED
      BY <1>1, <1>2, <2>1, <3>1, PastTypes
  <2> HIDE DEF Arg
  <2>3. \A c \in Coroutines :
          \/ costate'[c] = costate[c]
          \/ costate[c] \in {"NONE", "FRESH", "DONE"} /\ costate'[c] \in {"FRESH", "DONE"}
    BY <2>1 DEF Types
  <2>4. QED
    BY <1>1, <2>1, <2>2, <2>3 DEF ChangesTop, CoKept
<1>10. ASSUME ~Fault, Resume \/ (Dispose /\ costate[Arg] \notin {"FRESH", "DONE"})
       PROVE  Enters
  <2>1. depth + 1 \in 1..FrameCapacity + 1
    BY <1>2
  <2>2. Arg \in Coroutines
    BY <1>2, <1>10, OwnerType DEF Resume, Dispose, Named, Types
  <2> DEFINE g == IF Resume THEN ResumedFrame(frames[depth + 1], Arg)
                  ELSE DisposalFrame(frames[depth + 1], Arg)
  <2>3. g.co = Arg /\ g.cleanups = saved[Arg].cleanups
    BY <1>2, <2>1, <2>2, ResumedFacts, DisposalFacts
  <2>4. /\ frames' = [Past EXCEPT ![depth + 1] = g] /\ depth' = depth + 1
        /\ depth # FrameCapacity /\ costate[Arg] # "RUNNING"
        /\ costate' = [costate EXCEPT ![Arg] = "RUNNING"]
        /\ UNCHANGED <<saved, seenVars>>
    <3>1. CASE Resume
      BY <1>10, <3>1 DEF Resume, Restore
    <3>2. CASE ~Resume
      BY <1>2, <1>10, <3>2 DEF Dispose, Restore
    <3>3. QED
      BY <3>1, <3>2
  <2> HIDE DEF g, Arg
  <2>5. frames'[depth + 1] = g /\ CoKept /\ BodiesKept
    BY <1>1, <2>4, PushKeeps DEF BodiesKept
  <2>6. QED
    BY <1>1, <2>2, <2>3, <2>4, <2>5 DEF Enters
<1>11. ASSUME ~Fault, Yield
       PROVE  Suspends
  <2>1. /\ Top.co # NoCoroutine /\ Suspended(Top.co, Top) /\ depth' = depth - 1
        /\ UNCHANGED <<frames, seenVars>>
    BY <1>11 DEF Yield
  <2>2. Top.co \in Coroutines
    BY <1>2, <2>1 DEF FrameType
  <2>3. QED
    BY <1>1, <2>1, <2>2 DEF Suspends, Suspended
<1>12. QED
  BY <1>3, <1>4, <1>5, <1>6, <1>7, <1>8, <1>9, <1>10, <1>11 DEF Execute, Panic

(* A disposal from the queue enters as any other frame does.               *)
LEMMA TakenEnters ==
  ASSUME Types, depth # FrameCapacity, ~Leaving, pending # <<>>,
         EnterDisposal(Head(pending)), costate[Head(pending)] # "RUNNING",
         UNCHANGED seenVars
  PROVE  Enters
<1> DEFINE c == Head(pending)
           g == DisposalFrame(frames[depth + 1], c)
<1>1. depth \in 0..FrameCapacity /\ FrameCapacity \in Nat /\ c \in Coroutines
  BY FramesAssumption DEF Types, FramesAssumption
<1>2. depth + 1 \in 1..FrameCapacity + 1 /\ frames \in [1..FrameCapacity + 1 -> FrameType]
  BY <1>1 DEF Types
<1>3. g.co = c /\ g.cleanups = saved[c].cleanups
  BY <1>1, <1>2, DisposalFacts
<1>4. /\ frames' = [frames EXCEPT ![depth + 1] = g] /\ depth' = depth + 1
      /\ costate' = [costate EXCEPT ![c] = "RUNNING"] /\ saved' = saved
      /\ costate[c] # "RUNNING"
  BY DEF EnterDisposal, Enter, Restore
<1> HIDE DEF g, c
<1>5. frames'[depth + 1] = g /\ \A i \in 1..depth : frames'[i] = frames[i]
  BY <1>1, <1>2, <1>4
<1>6. QED
  BY <1>1, <1>3, <1>4, <1>5 DEF Enters, CoKept, BodiesKept, seenVars

LEMMA StepKinds ==
  ASSUME LaidOut, Types, StackInv, TakesOne, [Next]_vars
  PROVE  \/ StaysStill \/ Faults \/ ChangesTop \/ Remembers \/ Runs \/ Enters
         \/ Starts \/ Suspends \/ Goes
<1> USE DEF coVars, seenVars
<1>1. CASE Execute
  BY <1>1, ExecuteKinds DEF TakesOne
<1>2. CASE CollectorStep \/ LeaveEnding \/ HostCollect \/ HostReclaim \/ UNCHANGED vars
  BY <1>2 DEF CollectorStep, LeaveEnding, HostCollect, HostReclaim, vars, StaysStill
<1>3. CASE TakePending
  <2>1. ~Leaving /\ ctl # "host" /\ pending # <<>> /\ costate[Head(pending)] # "RUNNING"
    BY <1>3, NotLeaving DEF TakePending, Takes, TakesOne
  <2>2. CASE depth = FrameCapacity
    <3>1. runs[1].base \in Nat /\ runs[1].base < depth
      BY <2>1, RunsBelow, HereFacts DEF StackInv, RunOK
    <3>2. Fault /\ depth \in Nat
      BY <1>3, <2>2, FramesAssumption DEF TakePending, FramesAssumption
    <3>3. depth' <= depth
      BY <3>1, <3>2 DEF Fault
    <3>4. QED
      BY <2>1, <3>2, <3>3 DEF Fault, Faults
  <2>3. CASE depth # FrameCapacity
    BY <1>3, <2>1, <2>3, TakenEnters DEF TakePending
  <2>4. QED
    BY <2>2, <2>3
<1>4. CASE HostDispose
  <2>1. CASE pending = <<>> \/ depth = FrameCapacity
    BY <1>4, <2>1 DEF HostDispose, StaysStill
  <2>2. CASE ~(pending = <<>> \/ depth = FrameCapacity)
    <3>1. ~Leaving /\ costate[Head(pending)] # "RUNNING"
      BY <1>4, <2>2, NotLeaving DEF HostDispose, TakesOne
    <3>2. QED
      BY <1>4, <2>2, <3>1, TakenEnters DEF HostDispose
  <2>3. QED
    BY <2>1, <2>2
<1>5. CASE HostRun
  <2>1. /\ 1 \in 1..FrameCapacity + 1 /\ Main \in Protos
        /\ frames \in [1..FrameCapacity + 1 -> FrameType]
    BY FramesAssumption DEF Types, FramesAssumption
  <2> DEFINE g == FreshFrame(frames[1], Main)
  <2>2. g.co = NoCoroutine /\ g.cleanups = <<>>
    BY <2>1, FreshFacts
  <2>3. /\ frames' = [frames EXCEPT ![1] = g] /\ depth' = 1
        /\ UNCHANGED <<costate, saved, seenVars>>
    BY <1>5 DEF HostRun
  <2> HIDE DEF g
  <2>4. frames'[1] = g
    BY <2>1, <2>3
  <2>5. QED
    BY <2>2, <2>3, <2>4 DEF Starts
<1>6. CASE RunCleanup \/ GoOn
  <2>1. /\ ctl = "drain" /\ Top = frames[depth] /\ Top \in FrameType
        /\ depth \in 1..FrameCapacity /\ FrameCapacity \in Nat
        /\ frames \in [1..FrameCapacity + 1 -> FrameType]
    BY <1>6, HereFacts, FramesAssumption
       DEF RunCleanup, GoOn, Draining, Types, FramesAssumption
  <2>2. ~Leaving
    <3>1. Len(Top.cleanups) \in Nat /\ Top.target \in Nat
      BY <2>1 DEF FrameType
    <3>2. ~Gone
      BY <1>6, <3>1 DEF RunCleanup, GoOn, Gone
    <3>3. QED
      BY <2>1, <3>2, NotLeaving
  <2>3. CoKept
    BY <1>6, StackInPlace
  <2>4. 1..depth \subseteq 1..FrameCapacity + 1
    BY <2>1
  <2>5. CASE RunCleanup
    <3>1. /\ frames' = [frames EXCEPT ![depth].pc = Last(Top.cleanups),
                                      ![depth].cleanups = Front(@)]
          /\ ran' = [ran EXCEPT ![Owner(Top)][Last(Top.cleanups)] = Counted(@)]
          /\ UNCHANGED <<depth, costate, saved, entered>>
      BY <2>5 DEF RunCleanup
    <3>2. Top.cleanups # <<>>
      <4>1. Len(Top.cleanups) > Top.target /\ Top.target \in Nat
        BY <2>1, <2>5 DEF RunCleanup, FrameType
      <4>2. QED
        BY <4>1
    <3>3. frames'[depth].cleanups = Front(Top.cleanups)
      BY <2>1, <2>4, <3>1 DEF FrameType
    <3>4. \A i \in 1..depth : /\ frames'[i].proto = frames[i].proto
                              /\ i # depth => frames'[i].cleanups = frames[i].cleanups
      BY <2>1, <2>4, <3>1 DEF FrameType
    <3>5. QED
      BY <2>1, <2>2, <2>3, <3>1, <3>2, <3>3, <3>4 DEF Runs, CountsAt
  <2>6. CASE GoOn
    <3>1. /\ frames' = [frames EXCEPT ![depth].pc = Top.resume]
          /\ UNCHANGED <<depth, coVars, seenVars>>
      BY <2>6 DEF GoOn
    <3>2. \A i \in 1..depth : /\ frames'[i].proto = frames[i].proto
                              /\ frames'[i].cleanups = frames[i].cleanups
      BY <2>1, <2>4, <3>1 DEF FrameType
    <3>3. QED
      BY <2>2, <2>3, <3>1, <3>2 DEF ChangesTop
  <2>7. QED
    BY <1>6, <2>5, <2>6
<1>7. CASE SweepAtEnd
  <2>1. /\ ctl = "drain" /\ Gone /\ Sweeps /\ Over(Top.co) /\ UNCHANGED <<frames, depth, seenVars>>
        /\ runs' = [runs EXCEPT ![Len(runs)].swept = TRUE,
                                ![Len(runs)].ending = pending' # <<>>]
        /\ ctl' = IF pending' # <<>> THEN "boundary" ELSE "drain"
    BY <1>7 DEF SweepAtEnd, Draining
  <2>2. ~Leaving
    BY <2>1, NotLeaving
  <2>3. ASSUME Top.co \in Coroutines
        PROVE  Leaving'
    <3>1. /\ Run = runs[Len(runs)] /\ Len(runs) \in Nat \ {0} /\ RunOK(Run) /\ Run \in RunType
          /\ runs \in Seq(RunType) /\ depth = Run.base + 1 /\ Top = frames[depth]
      BY <2>1, HereFacts DEF Types, Sweeps
    <3>2. Top.disposing
      BY <2>3, <3>1, FramesAssumption DEF RunOK, FramesAssumption
    <3> DEFINE queued == pending' # <<>>
    <3>3. runs' = [runs EXCEPT ![Len(runs)].swept = TRUE, ![Len(runs)].ending = queued]
      BY <2>1
    <3>4. /\ Len(runs') = Len(runs) /\ runs'[Len(runs)].base = Run.base
          /\ runs'[Len(runs)].swept /\ (queued => runs'[Len(runs)].ending)
      <4>1. queued \in BOOLEAN
        OBVIOUS
      <4> HIDE DEF queued
      <4>2. DOMAIN runs = 1..Len(runs) /\ Len(runs) \in DOMAIN runs
        BY <3>1
      <4>3. Len(runs') = Len(runs)
        BY <3>1, <3>3
      <4>4. /\ runs'[Len(runs)].base = Run.base /\ runs'[Len(runs)].swept = TRUE
            /\ runs'[Len(runs)].ending = queued
        BY <3>1, <3>3, <4>2 DEF RunType
      <4>5. QED
        BY <4>3, <4>4
    <3>5. Run' = runs'[Len(runs)]
      BY <3>4 DEF Run, Last
    <3>6. Top' = Top
      BY <2>1 DEF Top
    <3>7. Gone'
      BY <2>1, <3>6 DEF Gone
    <3>8. QED
      BY <2>1, <3>1, <3>2, <3>4, <3>5, <3>6, <3>7 DEF Leaving
  <2>4. QED
    BY <2>1, <2>2, <2>3 DEF Goes
<1>8. CASE PopFrame
  <2>1. /\ ctl = "drain" /\ Gone /\ Over(Top.co) /\ UNCHANGED <<frames, seenVars>>
        /\ depth' = depth - 1 \/ depth' = runs[1].base
    BY <1>8 DEF PopFrame, Draining
  <2>2. runs[1].base \in Nat /\ runs[1].base < depth /\ depth \in Nat
    BY <2>1, RunsBelow, HereFacts DEF StackInv, RunOK
  <2>3. depth' < depth
    BY <2>1, <2>2
  <2>4. QED
    BY <2>1, <2>3 DEF Goes
<1>9. QED
  BY <1>1, <1>2, <1>3, <1>4, <1>5, <1>6, <1>7, <1>8 DEF Next, Loop, Host

-----------------------------------------------------------------------------
(* The counters, and how often a list has a place.                         *)
LEMMA CountedIn ==
  ASSUME NEW h \in [Owners -> [Places(code) -> 0..MaxCount]], NEW o \in Owners, NEW t,
         NEW g, CountsAt(h, g, o, t)
  PROVE  /\ g \in [Owners -> [Places(code) -> 0..MaxCount]]
         /\ \A q \in Owners : \A k \in Places(code) :
              g[q][k] = IF q = o /\ k = t THEN Counted(h[q][k]) ELSE h[q][k]
<1>1. MaxCount \in Nat
  BY FramesAssumption DEF FramesAssumption
<1>2. \A n \in 0..MaxCount : Counted(n) \in 0..MaxCount
  BY <1>1 DEF Counted
<1>3. \A q \in Owners : \A k \in Places(code) :
        g[q][k] = IF q = o /\ k = t THEN Counted(h[q][k]) ELSE h[q][k]
  BY DEF CountsAt
<1>4. g = [q \in Owners |-> IF q = o THEN [h[o] EXCEPT ![t] = Counted(@)] ELSE h[q]]
  BY DEF CountsAt
<1>5. [h[o] EXCEPT ![t] = Counted(@)] \in [Places(code) -> 0..MaxCount]
  <2>1. h[o] \in [Places(code) -> 0..MaxCount]
    OBVIOUS
  <2>2. CASE t \in Places(code)
    BY <1>2, <2>1, <2>2
  <2>3. CASE t \notin Places(code)
    <3>1. [h[o] EXCEPT ![t] = Counted(@)] = h[o]
      BY <2>1, <2>3
    <3>2. QED
      BY <2>1, <3>1
  <2>4. QED
    BY <2>2, <2>3
<1>6. QED
  BY <1>3, <1>4, <1>5

LEMMA SquareSteps ==
  ASSUME NEW e \in 0..MaxCount, NEW r \in 0..MaxCount, NEW n \in Nat, Square(e, r, n)
  PROVE  /\ Square(Counted(e), r, n + 1)
         /\ r <= e
         /\ n > 0 => Square(e, Counted(r), n - 1)
         /\ n = 0 => r = e
<1>1. MaxCount \in Nat
  BY FramesAssumption DEF FramesAssumption
<1>2. QED
  BY <1>1 DEF Square, Counted

LEMMA TimesEmpty ==
  ASSUME NEW list, list = <<>>, NEW k
  PROVE  Times(list, k) = 0
<1>1. {n \in 1..Len(list) : list[n] = k} = {}
  <2>1. Len(list) = 0
    OBVIOUS
  <2>2. 1..0 = {}
    OBVIOUS
  <2>3. QED
    BY <2>1, <2>2
<1>2. QED
  BY <1>1, FS_EmptySet DEF Times

LEMMA TimesLonger ==
  ASSUME NEW list \in Seq(Nat), NEW longer \in Seq(Nat), NEW k,
         Len(longer) = Len(list) + 1, \A n \in 1..Len(list) : longer[n] = list[n]
  PROVE  /\ Times(list, k) \in Nat
         /\ Times(longer, k) =
              IF longer[Len(longer)] = k THEN Times(list, k) + 1 ELSE Times(list, k)
<1> DEFINE S == {n \in 1..Len(list) : list[n] = k}
           T == {n \in 1..Len(longer) : longer[n] = k}
           m == Len(list)
<1>1. m \in Nat /\ Len(longer) = m + 1 /\ m + 1 \notin S
  OBVIOUS
<1>2. IsFiniteSet(S)
  <2>1. IsFiniteSet(1..m) /\ S \subseteq 1..m
    BY <1>1, FS_Interval
  <2>2. QED
    BY <2>1, FS_Subset
<1>3. T = IF longer[m + 1] = k THEN S \cup {m + 1} ELSE S
  <2>1. 1..m + 1 = (1..m) \cup {m + 1}
    BY <1>1
  <2>2. QED
    BY <1>1, <2>1
<1>4. Times(list, k) = Cardinality(S) /\ Times(longer, k) = Cardinality(T)
  BY DEF Times
<1>5. Cardinality(S \cup {m + 1}) = Cardinality(S) + 1 /\ Cardinality(S) \in Nat
  BY <1>1, <1>2, FS_AddElement, FS_CardinalityType
<1> HIDE DEF S, T, m
<1>6. QED
  BY <1>1, <1>3, <1>4, <1>5

-----------------------------------------------------------------------------
(* Each kind of step keeps a coroutine to one frame.                       *)
LEMMA OnceStep ==
  ASSUME LaidOut, Types, StackInv, Once, TakesOne, [Next]_vars
  PROVE  Once'
<1>1. depth \in Nat /\ depth' \in Nat /\ costate \in [Coroutines -> States]
  <2>1. Types' /\ FrameCapacity \in Nat
    BY TypesStep, FramesAssumption DEF FramesAssumption
  <2>2. QED
    BY <2>1 DEF Types
<1>2. NoCoroutine \notin Coroutines
  BY FramesAssumption DEF FramesAssumption
<1>3. CASE StaysStill
  <2>1. UNCHANGED <<frames, depth, costate, Top, Run, Gone>>
    BY <1>3 DEF StaysStill, coVars, Top, Run, Gone
  <2>2. Leaving => Leaving'
    BY <1>3, <2>1 DEF StaysStill, Leaving
  <2>3. QED
    BY <2>1, <2>2 DEF Once
<1>4. CASE Faults
  <2>1. AllRunning /\ depth' <= depth /\ CoKept /\ costate' = costate
    BY <1>4, OnceRunning DEF Faults, coVars, CoKept
  <2>2. QED
    BY <1>1, <2>1, OnceSame DEF AllRunning
<1>5. CASE ChangesTop
  <2>1. AllRunning /\ depth' = depth /\ CoKept
    BY <1>5, OnceRunning DEF ChangesTop
  <2>2. \A i \in 1..depth' : frames[i].co \in Coroutines => costate'[frames[i].co] = "RUNNING"
    BY <1>5, <2>1 DEF ChangesTop, AllRunning
  <2>3. QED
    BY <1>1, <2>1, <2>2, OnceSame
<1>6. CASE Remembers \/ Runs
  <2>1. AllRunning /\ depth' = depth /\ CoKept /\ costate' = costate
    BY <1>6, OnceRunning DEF Remembers, Runs
  <2>2. QED
    BY <1>1, <2>1, OnceSame DEF AllRunning
<1>7. CASE Enters
  <2>1. PICK g : g = frames'[depth + 1]
    OBVIOUS
  <2>2. /\ AllRunning /\ depth' = depth + 1 /\ CoKept
        /\ \/ g.co = NoCoroutine /\ costate' = costate
           \/ /\ g.co \in Coroutines /\ costate[g.co] # "RUNNING"
              /\ costate' = [costate EXCEPT ![g.co] = "RUNNING"]
    BY <1>7, <2>1, OnceRunning DEF Enters
  <2>3. /\ \A i \in 1..depth : frames[i].co \in Coroutines =>
                                 costate'[frames[i].co] = "RUNNING"
        /\ g.co \in Coroutines =>
             /\ costate'[g.co] = "RUNNING"
             /\ \A i \in 1..depth : frames[i].co # g.co
    BY <1>1, <1>2, <2>2 DEF AllRunning
  <2>4. QED
    BY <1>1, <2>1, <2>2, <2>3, OncePush
<1>8. CASE Starts
  <2>1. \A i \in 1..depth' : i = 1
    BY <1>8 DEF Starts
  <2>2. QED
    BY <1>2, <1>8, <2>1 DEF Starts, Once
<1>9. CASE Suspends
  <2>1. /\ AllRunning /\ depth' = depth - 1 /\ CoKept /\ Top = frames[depth]
        /\ costate' = [costate EXCEPT ![Top.co] = "SUSPENDED"]
    BY <1>9, OnceRunning DEF Suspends, CoKept, Top
  <2>2. \A i \in 1..depth' : i \in 1..depth /\ i < depth /\ depth \in 1..depth
    BY <1>1, <2>1
  <2>3. \A i \in 1..depth' : frames[i].co \in Coroutines => frames[i].co # Top.co
    BY <2>1, <2>2 DEF Once
  <2>4. \A i \in 1..depth' : frames[i].co \in Coroutines => costate'[frames[i].co] = "RUNNING"
    BY <1>1, <2>1, <2>2, <2>3 DEF AllRunning
  <2>5. QED
    BY <1>1, <2>1, <2>2, <2>4, OnceSame
<1>10. CASE Goes
  <2>1. /\ depth \in 1..depth /\ Top = frames[depth] /\ Top \in FrameType
        /\ Top.co \in Coroutines \cup {NoCoroutine}
    BY <1>10, HereFacts DEF Goes, FrameType
  <2>2. \A d \in Coroutines : \/ costate'[d] = costate[d]
                              \/ d = Top.co /\ costate'[d] = "DONE"
    <3>1. PICK t \in Coroutines \cup {NoCoroutine} : t = Top.co
      BY <2>1
    <3>2. Over(t)
      BY <1>10, <3>1 DEF Goes, Over
    <3>3. QED
      BY <3>1, <3>2, OverStates
  <2>3. CoKept /\ UNCHANGED frames
    BY <1>10 DEF Goes, CoKept
  <2>4. ASSUME NEW i \in 1..depth, i # depth, frames[i].co \in Coroutines
        PROVE  costate'[frames[i].co] = "RUNNING"
    <3>1. frames[i].co # Top.co
      BY <1>1, <2>1, <2>4 DEF Once
    <3>2. costate[frames[i].co] = "RUNNING"
      BY <2>4 DEF Once
    <3>3. QED
      BY <2>2, <2>4, <3>1, <3>2
  <2>5. CASE depth' < depth
    <3>1. \A i \in 1..depth' : i \in 1..depth /\ i # depth
      BY <1>1, <2>5
    <3>2. QED
      BY <1>1, <2>3, <2>4, <2>5, <3>1, OnceSame
  <2>6. CASE depth' = depth /\ ~Leaving /\ Top.co \notin Coroutines
    <3>1. AllRunning
      BY <2>6, OnceRunning
    <3>2. \A i \in 1..depth' : frames[i].co \in Coroutines => costate'[frames[i].co] = "RUNNING"
      BY <2>2, <2>6, <3>1 DEF AllRunning
    <3>3. QED
      BY <1>1, <2>3, <2>6, <3>2, OnceSame
  <2>7. CASE depth' = depth /\ Leaving' /\ Top.co \in Coroutines
    <3>1. costate'[Top.co] = "DONE"
      <4>1. costate' = [costate EXCEPT ![Top.co] = "DONE"]
        BY <1>2, <1>10, <2>7 DEF Goes, Over
      <4>2. QED
        BY <1>1, <2>7, <4>1
    <3>2. QED
      BY <2>1, <2>3, <2>4, <2>7, <3>1 DEF Once
  <2>8. QED
    BY <1>10, <2>5, <2>6, <2>7 DEF Goes
<1>11. QED
  BY <1>3, <1>4, <1>5, <1>6, <1>7, <1>8, <1>9, <1>10, StepKinds

(* A step counts one cleanup at most, and the counters keep their type.    *)
LEMMA CountsStep ==
  ASSUME LaidOut, Types, StackInv, Counts, TakesOne, [Next]_vars
  PROVE  Counts'
<1>1. code' = code
  BY CodeStep
<1>2. CASE Remembers
  <2>1. PICK there \in Nat : CountsAt(entered, entered', Owner(Top), there)
    BY <1>2 DEF Remembers
  <2>2. Owner(Top) \in Owners
    BY <1>2, HereFacts, OwnerType DEF Remembers
  <2>3. entered' \in [Owners -> [Places(code) -> 0..MaxCount]]
    <3> DEFINE o == Owner(Top)
    <3>1. o \in Owners /\ entered \in [Owners -> [Places(code) -> 0..MaxCount]]
      BY <2>2 DEF Counts
    <3>2. CountsAt(entered, entered', o, there)
      BY <2>1
    <3> HIDE DEF o
    <3>3. QED
      BY <3>1, <3>2, CountedIn
  <2>4. QED
    BY <1>1, <1>2, <2>3 DEF Counts, Remembers
<1>3. CASE Runs
  <2>1. Owner(Top) \in Owners
    BY <1>3, HereFacts, OwnerType DEF Runs
  <2>2. CountsAt(ran, ran', Owner(Top), Last(Top.cleanups))
    BY <1>3 DEF Runs
  <2>3. ran' \in [Owners -> [Places(code) -> 0..MaxCount]]
    <3> DEFINE o == Owner(Top)
               t == Last(Top.cleanups)
    <3>1. o \in Owners /\ ran \in [Owners -> [Places(code) -> 0..MaxCount]]
      BY <2>1 DEF Counts
    <3>2. CountsAt(ran, ran', o, t)
      BY <2>2
    <3> HIDE DEF o, t
    <3>3. QED
      BY <3>1, <3>2, CountedIn
  <2>4. QED
    BY <1>1, <1>3, <2>3 DEF Counts, Runs
<1>4. CASE UNCHANGED seenVars
  BY <1>1, <1>4 DEF Counts, seenVars
<1>5. QED
  BY <1>2, <1>3, <1>4, StepKinds
     DEF StaysStill, Faults, ChangesTop, Enters, Starts, Suspends, Goes

-----------------------------------------------------------------------------
(* What stands of a coroutine's cleanups is what is left of the count.     *)
LEMMA CoTallyQuiet ==
  ASSUME CoTally, code' = code, UNCHANGED seenVars,
         \A c \in Coroutines :
           /\ costate'[c] # "RUNNING" => Squared(c, saved'[c].cleanups)
           /\ costate'[c] \in {"NONE", "FRESH", "DONE"} => saved'[c].cleanups = <<>>,
         \A i \in 1..depth' :
           frames'[i].co \in Coroutines /\ costate'[frames'[i].co] = "RUNNING" =>
             Squared(frames'[i].co, frames'[i].cleanups)
  PROVE  CoTally'
<1>1. entered' = entered /\ ran' = ran
  BY DEF seenVars
<1>2. \A c \in Coroutines : costate'[c] # "RUNNING" => Squared(c, saved[c].cleanups)'
  BY <1>1 DEF Squared
<1>3. \A c \in Coroutines : \A k \in Places(code) : ran'[c][k] <= entered'[c][k]
  BY <1>1 DEF CoTally
<1>4. \A i \in 1..depth' :
        frames'[i].co \in Coroutines /\ costate'[frames'[i].co] = "RUNNING" =>
          Squared(frames[i].co, frames[i].cleanups)'
  BY <1>1 DEF Squared
<1>5. QED
  BY <1>2, <1>3, <1>4 DEF CoTally

(* A step that counts one for the owner of the top frame, whose list is a  *)
(* place longer or shorter.                                                *)
LEMMA CoTallyCounts ==
  ASSUME Types, Once, CoTally, AllRunning, code' = code, depth' = depth,
         CoKept, depth \in 1..depth, Top = frames[depth],
         UNCHANGED <<costate, saved>>,
         \A c \in Coroutines : c # Top.co => entered'[c] = entered[c] /\ ran'[c] = ran[c],
         \A i \in 1..depth : i # depth => frames'[i].cleanups = frames[i].cleanups,
         Top.co \in Coroutines =>
           \A k \in Places(code) :
             /\ Square(entered'[Top.co][k], ran'[Top.co][k], Times(frames'[depth].cleanups, k))
             /\ ran'[Top.co][k] <= entered'[Top.co][k]
  PROVE  CoTally'
<1>1. ASSUME NEW c \in Coroutines, costate[c] # "RUNNING"
      PROVE  Squared(c, saved[c].cleanups)'
  <2>1. c # Top.co
    BY <1>1 DEF AllRunning
  <2>2. QED
    BY <1>1, <2>1 DEF CoTally, Squared
<1>2. ASSUME NEW c \in Coroutines, NEW k \in Places(code)
      PROVE  ran'[c][k] <= entered'[c][k]
  BY DEF CoTally
<1>3. ASSUME NEW i \in 1..depth, frames[i].co \in Coroutines
      PROVE  Squared(frames[i].co, frames[i].cleanups)'
  <2>1. frames'[i].co = frames[i].co
    BY DEF CoKept
  <2>2. CASE i = depth
    BY <1>3, <2>1, <2>2 DEF Squared
  <2>3. CASE i # depth
    <3>1. frames[i].co # Top.co
      BY <1>3, <2>3 DEF Once
    <3>2. Squared(frames[i].co, frames[i].cleanups)
      BY <1>3 DEF CoTally, AllRunning
    <3>3. QED
      BY <1>3, <2>1, <2>3, <3>1, <3>2 DEF Squared
  <2>4. QED
    BY <2>2, <2>3
<1>4. \A i \in 1..depth : frames'[i].co = frames[i].co
  BY DEF CoKept
<1>5. QED
  BY <1>1, <1>2, <1>3, <1>4 DEF CoTally

(* How often a place stands on a list made longer, or shorter, by one.     *)
LEMMA TimesAppend ==
  ASSUME NEW list \in Seq(Nat), NEW there \in Nat, NEW k
  PROVE  /\ Times(list, k) \in Nat
         /\ Times(Append(list, there), k) =
              IF k = there THEN Times(list, k) + 1 ELSE Times(list, k)
<1> DEFINE longer == Append(list, there)
<1>1. /\ longer \in Seq(Nat) /\ Len(longer) = Len(list) + 1
      /\ \A n \in 1..Len(list) : longer[n] = list[n]
      /\ longer[Len(longer)] = there
  BY AppendProperties
<1> HIDE DEF longer
<1>2. /\ Times(list, k) \in Nat
      /\ Times(longer, k) =
           IF longer[Len(longer)] = k THEN Times(list, k) + 1 ELSE Times(list, k)
  BY <1>1, TimesLonger
<1>3. QED
  BY <1>1, <1>2 DEF longer

LEMMA TimesFront ==
  ASSUME NEW list \in Seq(Nat), list # <<>>, NEW k
  PROVE  /\ Times(Front(list), k) \in Nat
         /\ Times(list, k) = IF k = Last(list) THEN Times(Front(list), k) + 1
                             ELSE Times(Front(list), k)
<1> DEFINE short == Front(list)
<1>1. /\ short \in Seq(Nat) /\ Len(list) = Len(short) + 1
      /\ \A n \in 1..Len(short) : list[n] = short[n]
      /\ Last(list) = list[Len(list)]
  <2>1. /\ Len(short) = Len(list) - 1 /\ Len(list) \in Nat /\ short \in Seq(Nat)
        /\ \A n \in 1..Len(list) - 1 : list[n] = short[n]
        /\ Last(list) = list[Len(list)]
    BY FrontType
  <2> HIDE DEF short
  <2>2. QED
    BY <2>1
<1> HIDE DEF short
<1>2. /\ Times(short, k) \in Nat
      /\ Times(list, k) =
           IF list[Len(list)] = k THEN Times(short, k) + 1 ELSE Times(short, k)
  BY <1>1, TimesLonger
<1>3. QED
  BY <1>1, <1>2 DEF short

LEMMA CoTallyStep ==
  ASSUME LaidOut, Types, StackInv, Once, Counts, CoTally, TakesOne, [Next]_vars
  PROVE  CoTally'
<1>1. /\ code' = code /\ depth \in Nat /\ depth' \in Nat
      /\ costate \in [Coroutines -> States] /\ saved \in [Coroutines -> SavedType]
      /\ Coroutines \cap Protos = {} /\ NoCoroutine \notin Coroutines
  <2>1. Types' /\ FrameCapacity \in Nat
    BY TypesStep, FramesAssumption DEF FramesAssumption
  <2>2. QED
    BY <2>1, CodeStep, FramesAssumption DEF Types, FramesAssumption
<1>2. CASE StaysStill \/ Faults
  <2>1. /\ UNCHANGED <<frames, costate, saved, seenVars>>
        /\ \A i \in 1..depth' : i \in 1..depth
    BY <1>1, <1>2 DEF StaysStill, Faults, coVars
  <2>2. QED
    BY <1>1, <2>1, CoTallyQuiet DEF CoTally
<1>3. CASE ChangesTop
  <2>1. /\ UNCHANGED <<saved, seenVars, depth>> /\ CoKept
        /\ \A i \in 1..depth : frames'[i].cleanups = frames[i].cleanups
    BY <1>3 DEF ChangesTop
  <2>2. \A c \in Coroutines :
          \/ costate'[c] = costate[c]
          \/ costate[c] \in {"NONE", "FRESH", "DONE"} /\ costate'[c] \in {"FRESH", "DONE"}
    BY <1>3 DEF ChangesTop
  <2>3. \A c \in Coroutines :
          /\ costate'[c] # "RUNNING" => Squared(c, saved'[c].cleanups)
          /\ costate'[c] \in {"NONE", "FRESH", "DONE"} => saved'[c].cleanups = <<>>
    BY <2>1, <2>2 DEF CoTally
  <2>4. \A i \in 1..depth' :
          frames'[i].co \in Coroutines /\ costate'[frames'[i].co] = "RUNNING" =>
            Squared(frames'[i].co, frames'[i].cleanups)
    BY <2>1, <2>2 DEF CoTally, CoKept
  <2>5. QED
    BY <1>1, <2>1, <2>3, <2>4, CoTallyQuiet
<1>4. CASE Remembers \/ Runs
  <2>1. /\ AllRunning /\ depth' = depth /\ CoKept /\ depth \in 1..depth /\ Top = frames[depth]
        /\ Top \in FrameType /\ UNCHANGED <<costate, saved>>
        /\ \A i \in 1..depth : i # depth => frames'[i].cleanups = frames[i].cleanups
    BY <1>4, OnceRunning, HereFacts DEF Remembers, Runs
  <2>2. Owner(Top) \in Owners /\ (Top.co \in Coroutines => Owner(Top) = Top.co)
        /\ \A c \in Coroutines : c # Top.co => c # Owner(Top)
    BY <1>1, <2>1, OwnerType DEF Owner, FrameType
  <2>3. /\ entered \in [Owners -> [Places(code) -> 0..MaxCount]]
        /\ ran \in [Owners -> [Places(code) -> 0..MaxCount]]
        /\ Coroutines \subseteq Owners
    BY DEF Counts, Owners
  <2>4. ASSUME Top.co \in Coroutines, NEW k \in Places(code)
        PROVE  /\ Square(entered[Top.co][k], ran[Top.co][k], Times(Top.cleanups, k))
               /\ entered[Top.co][k] \in 0..MaxCount /\ ran[Top.co][k] \in 0..MaxCount
    <3>1. Squared(Top.co, Top.cleanups)
      BY <2>1, <2>4 DEF CoTally, AllRunning
    <3>2. QED
      BY <2>3, <2>4, <3>1 DEF Squared
  <2>5. CASE Remembers
    <3>1. PICK there \in Nat : /\ CountsAt(entered, entered', Owner(Top), there)
                               /\ frames'[depth].cleanups = Append(Top.cleanups, there)
      BY <2>5 DEF Remembers
    <3>2. ran' = ran
      BY <2>5 DEF Remembers
    <3>3. \A q \in Owners : \A k \in Places(code) :
            entered'[q][k] = IF q = Owner(Top) /\ k = there THEN Counted(entered[q][k])
                             ELSE entered[q][k]
      <4> DEFINE o == Owner(Top)
      <4>1. o \in Owners /\ CountsAt(entered, entered', o, there)
        BY <2>2, <3>1
      <4> HIDE DEF o
      <4>2. QED
        BY <2>3, <4>1, CountedIn DEF o
    <3>4. entered' \in [Owners -> [Places(code) -> 0..MaxCount]]
      BY <1>1, CountsStep DEF Counts
    <3>5. \A c \in Coroutines : c # Top.co => entered'[c] = entered[c] /\ ran'[c] = ran[c]
      <4>1. ASSUME NEW c \in Coroutines, c # Top.co
            PROVE  entered'[c] = entered[c]
        <5>1. \A k \in Places(code) : entered'[c][k] = entered[c][k]
          BY <2>2, <2>3, <3>3, <4>1
        <5>2. QED
          BY <2>3, <3>4, <5>1
      <4>2. QED
        BY <3>2, <4>1
    <3>6. ASSUME Top.co \in Coroutines, NEW k \in Places(code)
          PROVE  /\ Square(entered'[Top.co][k], ran'[Top.co][k],
                           Times(frames'[depth].cleanups, k))
                 /\ ran'[Top.co][k] <= entered'[Top.co][k]
      <4> DEFINE e == entered[Top.co][k]
                 r == ran[Top.co][k]
                 n == Times(Top.cleanups, k)
      <4>1. Top.cleanups \in Seq(Nat)
        BY <2>1 DEF FrameType
      <4>2. n \in Nat /\ Times(frames'[depth].cleanups, k) = IF k = there THEN n + 1 ELSE n
        BY <3>1, <4>1, TimesAppend
      <4>3. /\ Square(e, r, n) /\ e \in 0..MaxCount /\ r \in 0..MaxCount
        BY <2>4, <3>6
      <4>4. ran'[Top.co][k] = r /\ entered'[Top.co][k] = IF k = there THEN Counted(e) ELSE e
        BY <2>2, <2>3, <3>2, <3>3, <3>6
      <4> HIDE DEF e, r, n
      <4>5. Square(Counted(e), r, n + 1) /\ r <= e
        BY <4>2, <4>3, SquareSteps
      <4>6. r <= Counted(e)
        BY <4>3, <4>5 DEF Counted
      <4>7. QED
        BY <4>2, <4>3, <4>4, <4>5, <4>6
    <3>7. QED
      BY <1>1, <2>1, <3>5, <3>6, CoTallyCounts
  <2>6. CASE Runs
    <3>1. /\ Top.cleanups # <<>> /\ entered' = entered
          /\ CountsAt(ran, ran', Owner(Top), Last(Top.cleanups))
          /\ frames'[depth].cleanups = Front(Top.cleanups)
      BY <2>6 DEF Runs
    <3> DEFINE t == Last(Top.cleanups)
    <3>3. \A q \in Owners : \A k \in Places(code) :
            ran'[q][k] = IF q = Owner(Top) /\ k = t THEN Counted(ran[q][k]) ELSE ran[q][k]
      <4> DEFINE o == Owner(Top)
      <4>1. o \in Owners /\ CountsAt(ran, ran', o, t)
        BY <2>2, <3>1
      <4> HIDE DEF o, t
      <4>2. QED
        BY <2>3, <4>1, CountedIn DEF o
    <3>4. ran' \in [Owners -> [Places(code) -> 0..MaxCount]]
      BY <1>1, CountsStep DEF Counts
    <3>5. \A c \in Coroutines : c # Top.co => entered'[c] = entered[c] /\ ran'[c] = ran[c]
      <4>1. ASSUME NEW c \in Coroutines, c # Top.co
            PROVE  ran'[c] = ran[c]
        <5>1. \A k \in Places(code) : ran'[c][k] = ran[c][k]
          BY <2>2, <2>3, <3>3, <4>1
        <5>2. QED
          BY <2>3, <3>4, <5>1
      <4>2. QED
        BY <3>1, <4>1
    <3>6. ASSUME Top.co \in Coroutines, NEW k \in Places(code)
          PROVE  /\ Square(entered'[Top.co][k], ran'[Top.co][k],
                           Times(frames'[depth].cleanups, k))
                 /\ ran'[Top.co][k] <= entered'[Top.co][k]
      <4> DEFINE e == entered[Top.co][k]
                 r == ran[Top.co][k]
                 n == Times(Front(Top.cleanups), k)
      <4>1. Top.cleanups \in Seq(Nat)
        BY <2>1 DEF FrameType
      <4>2. n \in Nat /\ Times(Top.cleanups, k) = IF k = t THEN n + 1 ELSE n
        BY <3>1, <4>1, TimesFront
      <4>3. /\ Square(e, r, Times(Top.cleanups, k)) /\ e \in 0..MaxCount /\ r \in 0..MaxCount
        BY <2>4, <3>6
      <4>4. entered'[Top.co][k] = e /\ ran'[Top.co][k] = IF k = t THEN Counted(r) ELSE r
        BY <2>2, <2>3, <3>1, <3>3, <3>6
      <4>5. Times(frames'[depth].cleanups, k) = n
        BY <3>1
      <4> HIDE DEF e, r, n, t
      <4>6. CASE k = t
        <5>1. Square(e, r, n + 1)
          BY <4>2, <4>3, <4>6
        <5>2. Square(e, Counted(r), n)
          BY <4>2, <4>3, <5>1, FramesAssumption DEF Square, Counted, FramesAssumption
        <5>3. Counted(r) \in 0..MaxCount
          BY <4>3, FramesAssumption DEF Counted, FramesAssumption
        <5>4. Counted(r) <= e
          BY <4>2, <4>3, <5>2, <5>3, SquareSteps
        <5>5. QED
          BY <4>4, <4>5, <4>6, <5>2, <5>4
      <4>7. CASE k # t
        <5>1. Square(e, r, n) /\ r <= e
          BY <4>2, <4>3, <4>7, SquareSteps
        <5>2. QED
          BY <4>4, <4>5, <4>7, <5>1
      <4>8. QED
        BY <4>6, <4>7
    <3>7. QED
      BY <1>1, <2>1, <3>5, <3>6, CoTallyCounts
  <2>7. QED
    BY <1>4, <2>5, <2>6
<1>5. CASE Enters
  <2>1. PICK g : g = frames'[depth + 1]
    OBVIOUS
  <2>2. /\ AllRunning /\ depth' = depth + 1 /\ CoKept /\ BodiesKept
        /\ UNCHANGED <<saved, seenVars>>
        /\ \/ g.co = NoCoroutine /\ costate' = costate
           \/ /\ g.co \in Coroutines /\ costate[g.co] # "RUNNING"
              /\ costate' = [costate EXCEPT ![g.co] = "RUNNING"]
              /\ g.cleanups = saved[g.co].cleanups
    BY <1>5, <2>1, OnceRunning DEF Enters
  <2>3. \A c \in Coroutines : costate'[c] # "RUNNING" => costate'[c] = costate[c]
    BY <1>1, <2>2
  <2>4. \A c \in Coroutines :
          /\ costate'[c] # "RUNNING" => Squared(c, saved'[c].cleanups)
          /\ costate'[c] \in {"NONE", "FRESH", "DONE"} => saved'[c].cleanups = <<>>
    BY <2>2, <2>3 DEF CoTally
  <2>5. ASSUME NEW i \in 1..depth', frames'[i].co \in Coroutines
        PROVE  Squared(frames'[i].co, frames'[i].cleanups)
    <3>1. CASE i = depth + 1
      BY <1>1, <2>1, <2>2, <2>5, <3>1 DEF CoTally
    <3>2. CASE i # depth + 1
      <4>1. i \in 1..depth
        BY <1>1, <2>2, <3>2
      <4>2. QED
        BY <2>2, <2>5, <4>1 DEF CoTally, AllRunning, CoKept, BodiesKept
    <3>3. QED
      BY <3>1, <3>2
  <2>6. QED
    BY <1>1, <2>2, <2>4, <2>5, CoTallyQuiet
<1>6. CASE Starts
  <2>1. /\ UNCHANGED <<costate, saved, seenVars>>
        /\ \A i \in 1..depth' : frames'[i].co \notin Coroutines
    <3>1. \A i \in 1..depth' : i = 1
      BY <1>6 DEF Starts
    <3>2. QED
      BY <1>1, <1>6, <3>1 DEF Starts
  <2>2. QED
    BY <1>1, <2>1, CoTallyQuiet DEF CoTally
<1>7. CASE Suspends
  <2>1. /\ AllRunning /\ depth' = depth - 1 /\ Top \in FrameType /\ depth \in 1..depth
        /\ Top = frames[depth] /\ Top.co \in Coroutines /\ UNCHANGED <<frames, seenVars>>
        /\ costate' = [costate EXCEPT ![Top.co] = "SUSPENDED"]
        /\ saved' = [saved EXCEPT ![Top.co] =
                       [pc |-> Top.pc + 1, cleanups |-> Top.cleanups]]
    BY <1>7, OnceRunning, HereFacts DEF Suspends
  <2>2. ASSUME NEW c \in Coroutines
        PROVE  /\ costate'[c] # "RUNNING" => Squared(c, saved'[c].cleanups)
               /\ costate'[c] \in {"NONE", "FRESH", "DONE"} => saved'[c].cleanups = <<>>
    <3>1. CASE c = Top.co
      <4>1. saved'[c].cleanups = Top.cleanups /\ costate'[c] = "SUSPENDED"
        BY <1>1, <2>1, <3>1
      <4>2. Squared(c, Top.cleanups)
        BY <2>1, <3>1 DEF CoTally, AllRunning
      <4>3. QED
        BY <4>1, <4>2
    <3>2. CASE c # Top.co
      BY <1>1, <2>1, <3>2 DEF CoTally
    <3>3. QED
      BY <3>1, <3>2
  <2>3. \A i \in 1..depth' : i \in 1..depth
    BY <1>1, <2>1
  <2>4. \A i \in 1..depth' :
          frames'[i].co \in Coroutines /\ costate'[frames'[i].co] = "RUNNING" =>
            Squared(frames'[i].co, frames'[i].cleanups)
    BY <2>1, <2>3 DEF CoTally, AllRunning
  <2>5. QED
    BY <1>1, <2>1, <2>2, <2>4, CoTallyQuiet
<1>8. CASE Goes
  <2>1. /\ depth \in 1..depth /\ Top = frames[depth] /\ Top \in FrameType
        /\ FrameOK(Top) /\ Gone /\ Over(Top.co) /\ UNCHANGED <<frames, seenVars>>
        /\ \A i \in 1..depth' : i \in 1..depth
    BY <1>1, <1>8, HereFacts DEF Goes
  <2>2. Top.cleanups = <<>>
    <3>1. Len(Top.cleanups) <= 0 /\ Top.cleanups \in Seq(Nat)
      BY <2>1 DEF Gone, FrameOK, FrameType
    <3>2. QED
      BY <3>1
  <2>3. ASSUME NEW c \in Coroutines
        PROVE  /\ \/ costate'[c] = costate[c] /\ saved'[c] = saved[c]
                  \/ /\ c = Top.co /\ costate'[c] = "DONE" /\ saved'[c].cleanups = <<>>
    <3>1. CASE Top.co = NoCoroutine
      BY <2>1, <3>1 DEF Over
    <3>2. CASE Top.co # NoCoroutine
      <4>1. /\ costate' = [costate EXCEPT ![Top.co] = "DONE"]
            /\ saved' = [saved EXCEPT ![Top.co].cleanups = <<>>]
        BY <2>1, <3>2 DEF Over
      <4>2. CASE c = Top.co
        <5>1. ASSUME NEW q \in Seq(Nat), q = <<>>
              PROVE  saved'[c].cleanups = q
          BY <1>1, <4>1, <4>2, <5>1 DEF SavedType
        <5>2. <<>> \in Seq(Nat)
          OBVIOUS
        <5>3. QED
          BY <1>1, <4>1, <4>2, <5>1, <5>2
      <4>3. CASE c # Top.co
        BY <1>1, <4>1, <4>3
      <4>4. QED
        BY <4>2, <4>3
    <3>3. QED
      BY <3>1, <3>2
  <2>4. ASSUME Top.co \in Coroutines
        PROVE  Squared(Top.co, <<>>)
    <3>1. CASE costate[Top.co] = "RUNNING"
      BY <2>1, <2>2, <2>4, <3>1 DEF CoTally
    <3>2. CASE costate[Top.co] # "RUNNING"
      <4>1. costate[Top.co] = "DONE"
        BY <2>1, <2>4, <3>2 DEF Once
      <4>2. QED
        BY <2>4, <4>1 DEF CoTally
    <3>3. QED
      BY <3>1, <3>2
  <2>5. ASSUME NEW c \in Coroutines
        PROVE  /\ costate'[c] # "RUNNING" => Squared(c, saved'[c].cleanups)
               /\ costate'[c] \in {"NONE", "FRESH", "DONE"} => saved'[c].cleanups = <<>>
    <3>1. CASE costate'[c] = costate[c] /\ saved'[c] = saved[c]
      BY <3>1 DEF CoTally
    <3>2. CASE c = Top.co /\ costate'[c] = "DONE" /\ saved'[c].cleanups = <<>>
      BY <2>4, <3>2
    <3>3. QED
      BY <2>3, <3>1, <3>2
  <2>6. \A i \in 1..depth' :
          frames'[i].co \in Coroutines /\ costate'[frames'[i].co] = "RUNNING" =>
            Squared(frames'[i].co, frames'[i].cleanups)
    BY <2>1, <2>3 DEF CoTally
  <2>7. QED
    BY <1>1, <2>1, <2>5, <2>6, CoTallyQuiet
<1>9. QED
  BY <1>2, <1>3, <1>4, <1>5, <1>6, <1>7, <1>8, StepKinds

-----------------------------------------------------------------------------
(* What stands of a subroutine's cleanups is within what is left.          *)
LEMMA StandingFinite ==
  ASSUME depth \in Nat, NEW p, NEW k
  PROVE  IsFiniteSet(Standing(p, k)) /\ Cardinality(Standing(p, k)) \in Nat
<1>1. MaxCleanups \in Nat
  BY FramesAssumption DEF FramesAssumption
<1>2. IsFiniteSet((1..depth) \X (1..MaxCleanups))
  <2> DEFINE S == 1..depth
             T == 1..MaxCleanups
  <2>1. IsFiniteSet(S) /\ IsFiniteSet(T)
    BY <1>1, FS_Interval
  <2> HIDE DEF S, T
  <2>2. IsFiniteSet(S \X T)
    BY <2>1, FS_Product
  <2>3. QED
    BY <2>2 DEF S, T
<1>3. Standing(p, k) \subseteq (1..depth) \X (1..MaxCleanups)
  BY DEF Standing
<1>4. QED
  BY <1>2, <1>3, FS_Subset, FS_CardinalityType

(* Frames that go, or that come with no cleanups of a subroutine's.        *)
LEMMA StandingLess ==
  ASSUME NEW p, NEW k,
         \A i \in 1..depth' :
           \/ frames'[i].co # NoCoroutine
           \/ frames'[i].cleanups = <<>>
           \/ /\ i \in 1..depth /\ frames'[i].co = frames[i].co
              /\ frames'[i].proto = frames[i].proto
              /\ frames'[i].cleanups = frames[i].cleanups
  PROVE  Standing(p, k)' \subseteq Standing(p, k)
<1>1. SUFFICES ASSUME NEW x \in Standing(p, k)'
               PROVE  x \in Standing(p, k)
  OBVIOUS
<1>2. /\ x \in (1..depth') \X (1..MaxCleanups)
      /\ frames'[x[1]].co = NoCoroutine /\ frames'[x[1]].proto = p
      /\ x[2] <= Len(frames'[x[1]].cleanups) /\ frames'[x[1]].cleanups[x[2]] = k
  BY DEF Standing
<1>3. frames'[x[1]].cleanups # <<>>
  <2>1. x[2] \in Nat /\ x[2] > 0
    BY <1>2, FramesAssumption DEF FramesAssumption
  <2>2. Len(<<>>) = 0
    OBVIOUS
  <2>3. QED
    BY <1>2, <2>1, <2>2
<1>4. /\ x[1] \in 1..depth /\ frames'[x[1]].co = frames[x[1]].co
      /\ frames'[x[1]].proto = frames[x[1]].proto
      /\ frames'[x[1]].cleanups = frames[x[1]].cleanups
  BY <1>2, <1>3
<1>5. x \in (1..depth) \X (1..MaxCleanups)
  BY <1>2, <1>4
<1>6. QED
  BY <1>2, <1>4, <1>5 DEF Standing

LEMMA ProtoTallyQuiet ==
  ASSUME Counts, ProtoTally, depth \in Nat, code' = code, UNCHANGED seenVars,
         \A p \in Protos : \A k \in Places(code) : Standing(p, k)' \subseteq Standing(p, k)
  PROVE  ProtoTally'
<1>1. ASSUME NEW p \in Protos, NEW k \in Places(code)
      PROVE  \/ entered'[p][k] = MaxCount
             \/ ran'[p][k] + Cardinality(Standing(p, k)') <= entered'[p][k]
  <2>1. /\ Cardinality(Standing(p, k)') <= Cardinality(Standing(p, k))
        /\ Cardinality(Standing(p, k)') \in Nat /\ Cardinality(Standing(p, k)) \in Nat
    BY StandingFinite, FS_Subset, FS_CardinalityType
  <2>2. /\ entered[p][k] \in 0..MaxCount /\ ran[p][k] \in 0..MaxCount
        /\ entered[p][k] = MaxCount \/ ran[p][k] + Cardinality(Standing(p, k)) <= entered[p][k]
    BY DEF Counts, ProtoTally, Owners
  <2>3. QED
    BY <2>1, <2>2, FramesAssumption DEF seenVars, FramesAssumption
<1>2. QED
  BY <1>1 DEF ProtoTally

(* A cleanup remembered is one more that stands ...                        *)
LEMMA StandingMore ==
  ASSUME Types, NEW p \in Protos, NEW k, depth' = depth, CoKept, depth \in 1..depth,
         Top = frames[depth], Top \in FrameType, NEW there \in Nat,
         frames'[depth].cleanups = Append(Top.cleanups, there),
         \A i \in 1..depth :
           /\ frames'[i].proto = frames[i].proto
           /\ i # depth => frames'[i].cleanups = frames[i].cleanups
  PROVE  Standing(p, k)' \subseteq
           IF Owner(Top) = p /\ k = there
           THEN Standing(p, k) \cup {<<depth, Len(Top.cleanups) + 1>>}
           ELSE Standing(p, k)
<1>1. SUFFICES ASSUME NEW x \in Standing(p, k)', x \notin Standing(p, k)
               PROVE  /\ Owner(Top) = p /\ k = there
                      /\ x = <<depth, Len(Top.cleanups) + 1>>
  OBVIOUS
<1>2. /\ x \in (1..depth) \X (1..MaxCleanups)
      /\ frames[x[1]].co = NoCoroutine /\ frames[x[1]].proto = p
      /\ x[2] <= Len(frames'[x[1]].cleanups) /\ frames'[x[1]].cleanups[x[2]] = k
  BY <1>1 DEF Standing, CoKept
<1>3. x = <<x[1], x[2]>> /\ x[1] \in 1..depth /\ x[2] \in Nat /\ x[2] > 0
  BY <1>2, FramesAssumption DEF FramesAssumption
<1>4. ~(x[2] <= Len(frames[x[1]].cleanups) /\ frames[x[1]].cleanups[x[2]] = k)
  BY <1>1, <1>2 DEF Standing
<1>5. x[1] = depth
  BY <1>2, <1>3, <1>4
<1>6. /\ Top.cleanups \in Seq(Nat) /\ Len(Top.cleanups) \in Nat
      /\ Len(Append(Top.cleanups, there)) = Len(Top.cleanups) + 1
      /\ Append(Top.cleanups, there)[Len(Top.cleanups) + 1] = there
      /\ \A n \in 1..Len(Top.cleanups) : Append(Top.cleanups, there)[n] = Top.cleanups[n]
  BY AppendProperties DEF FrameType
<1>7. x[2] = Len(Top.cleanups) + 1 /\ k = there
  <2> DEFINE n == x[2]
             old == Top.cleanups
             new == Append(Top.cleanups, there)
  <2>1. /\ n \in Nat /\ n > 0 /\ n <= Len(new) /\ new[n] = k
        /\ ~(n <= Len(old) /\ old[n] = k)
    BY <1>2, <1>3, <1>4, <1>5
  <2>2. /\ Len(old) \in Nat /\ Len(new) = Len(old) + 1 /\ new[Len(old) + 1] = there
        /\ \A i \in 1..Len(old) : new[i] = old[i]
    BY <1>6
  <2> HIDE DEF n, old, new
  <2>3. n = Len(old) + 1 /\ k = there
    BY <2>1, <2>2
  <2>4. QED
    BY <2>3 DEF n, old
<1>8. Owner(Top) = p
  BY <1>2, <1>5 DEF Owner
<1>9. QED
  BY <1>3, <1>5, <1>7, <1>8

(* ... and one run is one fewer.                                           *)
LEMMA StandingFewer ==
  ASSUME Types, NEW p \in Protos, NEW k, depth' = depth, CoKept, depth \in 1..depth,
         Top = frames[depth], Top \in FrameType, Top.cleanups # <<>>,
         Len(Top.cleanups) <= MaxCleanups,
         frames'[depth].cleanups = Front(Top.cleanups),
         \A i \in 1..depth :
           /\ frames'[i].proto = frames[i].proto
           /\ i # depth => frames'[i].cleanups = frames[i].cleanups
  PROVE  /\ Standing(p, k)' \subseteq Standing(p, k)
         /\ Owner(Top) = p /\ k = Last(Top.cleanups) =>
              \E x \in Standing(p, k) : x \notin Standing(p, k)'
<1>1. /\ Top.cleanups \in Seq(Nat) /\ Len(Top.cleanups) \in Nat \ {0}
      /\ Len(Front(Top.cleanups)) = Len(Top.cleanups) - 1
      /\ \A n \in 1..Len(Top.cleanups) - 1 : Front(Top.cleanups)[n] = Top.cleanups[n]
      /\ Last(Top.cleanups) = Top.cleanups[Len(Top.cleanups)]
  <2>1. Top.cleanups \in Seq(Nat)
    BY DEF FrameType
  <2>2. QED
    BY <2>1, FrontType
<1>2. ASSUME NEW x \in Standing(p, k)'
      PROVE  x \in Standing(p, k)
  <2>1. /\ x \in (1..depth) \X (1..MaxCleanups)
        /\ frames[x[1]].co = NoCoroutine /\ frames[x[1]].proto = p
        /\ x[2] <= Len(frames'[x[1]].cleanups) /\ frames'[x[1]].cleanups[x[2]] = k
    BY <1>2 DEF Standing, CoKept
  <2>2. x[1] \in 1..depth /\ x[2] \in Nat /\ x[2] > 0
    BY <2>1, FramesAssumption DEF FramesAssumption
  <2>3. x[2] <= Len(frames[x[1]].cleanups) /\ frames[x[1]].cleanups[x[2]] = k
    <3>1. CASE x[1] = depth
      <4> DEFINE n == x[2]
                 old == Top.cleanups
                 new == Front(Top.cleanups)
      <4>1. n \in Nat /\ n > 0 /\ n <= Len(new) /\ new[n] = k
        BY <2>1, <2>2, <3>1
      <4>2. /\ Len(old) \in Nat /\ Len(new) = Len(old) - 1
            /\ \A i \in 1..Len(old) - 1 : new[i] = old[i]
        BY <1>1
      <4> HIDE DEF n, old, new
      <4>3. n <= Len(old) /\ old[n] = k
        BY <4>1, <4>2
      <4>4. QED
        BY <3>1, <4>3 DEF n, old
    <3>2. CASE x[1] # depth
      BY <2>1, <2>2, <3>2
    <3>3. QED
      BY <3>1, <3>2
  <2>4. QED
    BY <2>1, <2>3 DEF Standing
<1>3. ASSUME Owner(Top) = p, k = Last(Top.cleanups)
      PROVE  \E x \in Standing(p, k) : x \notin Standing(p, k)'
  <2> DEFINE x == <<depth, Len(Top.cleanups)>>
  <2>1. x \in (1..depth) \X (1..MaxCleanups)
    BY <1>1, FramesAssumption DEF FramesAssumption
  <2>2. Top.co = NoCoroutine /\ Top.proto = p
    BY <1>3, FramesAssumption DEF Owner, FrameType, FramesAssumption
  <2>3. x \in Standing(p, k)
    BY <1>1, <1>3, <2>1, <2>2 DEF Standing
  <2>4. x \notin Standing(p, k)'
    BY <1>1 DEF Standing
  <2> HIDE DEF x
  <2>5. QED
    BY <2>3, <2>4
<1>4. QED
  BY <1>2, <1>3

LEMMA ProtoTallyStep ==
  ASSUME LaidOut, Types, StackInv, Counts, ProtoTally, TakesOne, [Next]_vars
  PROVE  ProtoTally'
<1>1. /\ code' = code /\ depth \in Nat /\ depth' \in Nat /\ MaxCount \in Nat
      /\ Protos \subseteq Owners
  <2>1. Types' /\ FrameCapacity \in Nat
    BY TypesStep, FramesAssumption DEF FramesAssumption
  <2>2. QED
    BY <2>1, CodeStep, FramesAssumption DEF Types, FramesAssumption, Owners
<1>2. ASSUME NEW p \in Protos, NEW k \in Places(code)
      PROVE  /\ Cardinality(Standing(p, k)) \in Nat /\ IsFiniteSet(Standing(p, k))
             /\ entered[p][k] \in 0..MaxCount /\ ran[p][k] \in 0..MaxCount
             /\ entered'[p][k] \in 0..MaxCount /\ ran'[p][k] \in 0..MaxCount
             /\ \/ entered[p][k] = MaxCount
                \/ ran[p][k] + Cardinality(Standing(p, k)) <= entered[p][k]
  <2>1. Counts'
    BY CountsStep
  <2>2. QED
    BY <1>1, <2>1, StandingFinite DEF Counts, ProtoTally
<1>3. CASE \/ StaysStill \/ Faults \/ ChangesTop \/ Enters \/ Starts \/ Suspends \/ Goes
  <2>1. UNCHANGED seenVars
    BY <1>3 DEF StaysStill, Faults, ChangesTop, Enters, Starts, Suspends, Goes
  <2>2. ASSUME NEW i \in 1..depth'
        PROVE  \/ frames'[i].co # NoCoroutine
               \/ frames'[i].cleanups = <<>>
               \/ /\ i \in 1..depth /\ frames'[i].co = frames[i].co
                  /\ frames'[i].proto = frames[i].proto
                  /\ frames'[i].cleanups = frames[i].cleanups
    <3>1. CASE StaysStill \/ Faults \/ Suspends \/ Goes
      <4>1. UNCHANGED frames /\ depth' <= depth
        BY <1>1, <3>1 DEF StaysStill, Faults, Suspends, Goes
      <4>2. QED
        BY <1>1, <4>1
    <3>2. CASE ChangesTop
      BY <3>2 DEF ChangesTop, CoKept
    <3>3. CASE Enters
      <4>1. CASE i = depth + 1
        BY <3>3, <4>1, FramesAssumption DEF Enters, FramesAssumption
      <4>2. CASE i # depth + 1
        <5>1. i \in 1..depth
          BY <1>1, <3>3, <4>2 DEF Enters
        <5>2. QED
          BY <3>3, <5>1 DEF Enters, CoKept, BodiesKept
      <4>3. QED
        BY <4>1, <4>2
    <3>4. CASE Starts
      <4>1. i = 1
        BY <3>4 DEF Starts
      <4>2. QED
        BY <3>4, <4>1 DEF Starts
    <3>5. QED
      BY <1>3, <3>1, <3>2, <3>3, <3>4
  <2>3. \A p \in Protos : \A k \in Places(code) : Standing(p, k)' \subseteq Standing(p, k)
    BY <2>2, StandingLess
  <2>4. QED
    BY <1>1, <2>1, <2>3, ProtoTallyQuiet
<1>4. CASE Remembers \/ Runs
  <2>1. /\ depth' = depth /\ CoKept /\ depth \in 1..depth /\ Top = frames[depth]
        /\ Top \in FrameType /\ FrameOK(Top) /\ Owner(Top) \in Owners
        /\ \A i \in 1..depth :
             /\ frames'[i].proto = frames[i].proto
             /\ i # depth => frames'[i].cleanups = frames[i].cleanups
    BY <1>4, HereFacts, OwnerType DEF Remembers, Runs
  <2>2. ASSUME NEW p \in Protos, NEW k \in Places(code)
        PROVE  \/ entered'[p][k] = MaxCount
               \/ ran'[p][k] + Cardinality(Standing(p, k)') <= entered'[p][k]
    <3> DEFINE S == Standing(p, k)
               T == Standing(p, k)'
               o == Owner(Top)
    <3>1. /\ Cardinality(S) \in Nat /\ IsFiniteSet(S)
          /\ entered[p][k] \in 0..MaxCount /\ ran[p][k] \in 0..MaxCount
          /\ entered[p][k] = MaxCount \/ ran[p][k] + Cardinality(S) <= entered[p][k]
      BY <1>2
    <3>2. CASE Remembers
      <4>1. PICK there \in Nat : /\ CountsAt(entered, entered', o, there)
                                 /\ frames'[depth].cleanups = Append(Top.cleanups, there)
        BY <3>2 DEF Remembers
      <4>2. ran' = ran
        BY <3>2 DEF Remembers
      <4> DEFINE x == <<depth, Len(Top.cleanups) + 1>>
      <4>3. T \subseteq IF o = p /\ k = there THEN S \cup {x} ELSE S
        BY <2>1, <4>1, StandingMore
      <4>4. o \in Owners /\ entered \in [Owners -> [Places(code) -> 0..MaxCount]]
        BY <2>1 DEF Counts
      <4> HIDE DEF S, T, o, x
      <4>5. entered'[p][k] = IF p = o /\ k = there THEN Counted(entered[p][k])
                             ELSE entered[p][k]
        BY <1>1, <4>1, <4>4, CountedIn
      <4>6. /\ Cardinality(S \cup {x}) <= Cardinality(S) + 1
            /\ Cardinality(S \cup {x}) \in Nat /\ IsFiniteSet(S \cup {x})
        <5>1. /\ IsFiniteSet(S \cup {x})
              /\ Cardinality(S \cup {x}) =
                   IF x \in S THEN Cardinality(S) ELSE Cardinality(S) + 1
          BY <3>1, FS_AddElement
        <5>2. QED
          BY <3>1, <5>1
      <4>7. CASE o = p /\ k = there
        <5>1. Cardinality(T) \in Nat /\ Cardinality(T) <= Cardinality(S) + 1
          <6>1. Cardinality(T) \in Nat /\ Cardinality(T) <= Cardinality(S \cup {x})
            BY <4>3, <4>6, <4>7, FS_Subset, FS_CardinalityType
          <6>2. QED
            BY <3>1, <4>6, <6>1
        <5>2. entered'[p][k] = Counted(entered[p][k]) /\ ran'[p][k] = ran[p][k]
          BY <4>2, <4>5, <4>7
        <5>3. entered'[p][k] = MaxCount \/ ran'[p][k] + Cardinality(T) <= entered'[p][k]
          BY <1>1, <3>1, <5>1, <5>2 DEF Counted
        <5>4. QED
          BY <5>3 DEF T
      <4>8. CASE ~(o = p /\ k = there)
        <5>1. Cardinality(T) \in Nat /\ Cardinality(T) <= Cardinality(S)
          BY <3>1, <4>3, <4>8, FS_Subset, FS_CardinalityType
        <5>2. entered'[p][k] = entered[p][k] /\ ran'[p][k] = ran[p][k]
          BY <4>2, <4>5, <4>8
        <5>3. entered'[p][k] = MaxCount \/ ran'[p][k] + Cardinality(T) <= entered'[p][k]
          BY <1>1, <3>1, <5>1, <5>2
        <5>4. QED
          BY <5>3 DEF T
      <4>9. QED
        BY <4>7, <4>8
    <3>3. CASE Runs
      <4> DEFINE t == Last(Top.cleanups)
      <4>1. /\ CountsAt(ran, ran', o, t) /\ entered' = entered
            /\ Top.cleanups # <<>> /\ frames'[depth].cleanups = Front(Top.cleanups)
        BY <3>3 DEF Runs
      <4>2. /\ T \subseteq S
            /\ o = p /\ k = t => \E x \in S : x \notin T
        <5>1. Len(Top.cleanups) <= MaxCleanups
          BY <2>1 DEF FrameOK, InBody
        <5>2. QED
          BY <2>1, <4>1, <5>1, StandingFewer
      <4>3. o \in Owners /\ ran \in [Owners -> [Places(code) -> 0..MaxCount]]
        BY <2>1 DEF Counts
      <4> HIDE DEF S, T, o, t
      <4>4. ran'[p][k] = IF p = o /\ k = t THEN Counted(ran[p][k]) ELSE ran[p][k]
        BY <1>1, <4>1, <4>3, CountedIn
      <4>5. CASE o = p /\ k = t
        <5>1. PICK x \in S : x \notin T
          BY <4>2, <4>5
        <5>2. /\ IsFiniteSet(S \ {x}) /\ Cardinality(S \ {x}) = Cardinality(S) - 1
              /\ T \subseteq S \ {x}
          BY <3>1, <4>2, <5>1, FS_RemoveElement
        <5>3. Cardinality(T) \in Nat /\ Cardinality(T) <= Cardinality(S) - 1
          BY <5>2, FS_Subset, FS_CardinalityType
        <5>4. entered'[p][k] = entered[p][k] /\ ran'[p][k] = Counted(ran[p][k])
          BY <4>1, <4>4, <4>5
        <5>5. entered'[p][k] = MaxCount \/ ran'[p][k] + Cardinality(T) <= entered'[p][k]
          BY <1>1, <3>1, <5>3, <5>4 DEF Counted
        <5>6. QED
          BY <5>5 DEF T
      <4>6. CASE ~(o = p /\ k = t)
        <5>1. Cardinality(T) \in Nat /\ Cardinality(T) <= Cardinality(S)
          BY <3>1, <4>2, FS_Subset, FS_CardinalityType
        <5>2. entered'[p][k] = entered[p][k] /\ ran'[p][k] = ran[p][k]
          BY <4>1, <4>4, <4>6
        <5>3. entered'[p][k] = MaxCount \/ ran'[p][k] + Cardinality(T) <= entered'[p][k]
          BY <1>1, <3>1, <5>1, <5>2
        <5>4. QED
          BY <5>3 DEF T
      <4>7. QED
        BY <4>5, <4>6
    <3>4. QED
      BY <1>4, <3>2, <3>3
  <2>3. QED
    BY <1>1, <2>2 DEF ProtoTally
<1>5. QED
  BY <1>3, <1>4, StepKinds

-----------------------------------------------------------------------------
OnceInv ==
  LaidOut /\ Types /\ StackInv /\ Once /\ Counts /\ CoTally /\ ProtoTally

LEMMA TallyInit ==
  ASSUME Init
  PROVE  Once /\ Counts /\ CoTally /\ ProtoTally
<1>1. /\ depth = 0 /\ 1..depth = {} /\ MaxCount \in Nat
      /\ \A o \in Owners : \A k \in Places(code) : entered[o][k] = 0 /\ ran[o][k] = 0
      /\ \A c \in Coroutines : saved[c].cleanups = <<>>
      /\ Coroutines \subseteq Owners /\ Protos \subseteq Owners
  BY FramesAssumption DEF Init, FramesAssumption, Owners
<1>2. Once
  BY <1>1 DEF Once
<1>3. Counts
  BY <1>1 DEF Init, Counts
<1>4. CoTally
  <2>1. ASSUME NEW c \in Coroutines, NEW k \in Places(code)
        PROVE  /\ Square(entered[c][k], ran[c][k], Times(saved[c].cleanups, k))
               /\ ran[c][k] <= entered[c][k]
    <3>1. Times(saved[c].cleanups, k) = 0
      BY <1>1, TimesEmpty
    <3>2. entered[c][k] = 0 /\ ran[c][k] = 0
      BY <1>1
    <3>3. QED
      BY <1>1, <3>1, <3>2 DEF Square
  <2>2. QED
    BY <1>1, <2>1 DEF CoTally, Squared
<1>5. ProtoTally
  <2>1. ASSUME NEW p \in Protos, NEW k \in Places(code)
        PROVE  ran[p][k] + Cardinality(Standing(p, k)) <= entered[p][k]
    <3>1. Standing(p, k) = {}
      BY <1>1 DEF Standing
    <3>2. entered[p][k] = 0 /\ ran[p][k] = 0
      BY <1>1
    <3>3. QED
      BY <3>1, <3>2, FS_EmptySet
  <2>2. QED
    BY <2>1 DEF ProtoTally
<1>6. QED
  BY <1>2, <1>3, <1>4, <1>5

LEMMA OnceHolds ==
  ASSUME \A program \in Programs : WellLaid(program)
  PROVE  Spec /\ TakesDropped => []OnceInv
<1>1. Init => OnceInv
  BY InitHolds, TallyInit DEF IInv, OnceInv
<1>2. OnceInv /\ [Next]_vars
        /\ [/\ ~Load
            /\ pending # <<>> /\ (TakePending \/ HostDispose)
                 => costate[Head(pending)] # "RUNNING"]_vars
        => OnceInv'
  <2> SUFFICES ASSUME OnceInv, [Next]_vars,
                      [/\ ~Load
                       /\ pending # <<>> /\ (TakePending \/ HostDispose)
                            => costate[Head(pending)] # "RUNNING"]_vars
               PROVE  OnceInv'
    OBVIOUS
  <2>1. LaidOut /\ Types /\ StackInv /\ Once /\ Counts /\ CoTally /\ ProtoTally
    BY DEF OnceInv
  <2>2. LaidOut' /\ Types' /\ StackInv'
    BY <2>1, CodeStep, TypesStep, StackStep
  <2>3. CASE TakesOne
    <3>1. Once' /\ Counts' /\ CoTally' /\ ProtoTally'
      BY <2>1, <2>3, OnceStep, CountsStep, CoTallyStep, ProtoTallyStep
    <3>2. QED
      BY <2>2, <3>1 DEF OnceInv
  <2>4. CASE UNCHANGED vars
    <3>1. UNCHANGED <<code, frames, depth, runs, ctl, costate, saved, entered, ran>>
      BY <2>4 DEF vars, coVars, seenVars
    <3>2. Once'
      BY <2>1, <3>1 DEF Once, Leaving, Gone, Top, Run
    <3>3. Counts' /\ CoTally' /\ ProtoTally'
      BY <2>1, <3>1 DEF Counts, CoTally, ProtoTally, Squared, Standing
    <3>4. QED
      BY <2>2, <3>2, <3>3 DEF OnceInv
  <2>5. QED
    BY <2>3, <2>4 DEF TakesOne
<1>3. QED
  BY <1>1, <1>2, PTL DEF Spec, TakesDropped

(* vm.c, [syntax.finally.coroutine]: no cleanup runs more often than it    *)
(* was remembered, whoever owns it, where the queue is served for no       *)
(* coroutine that runs again.                                              *)
THEOREM CleanupsRunOnce ==
  ASSUME \A program \in Programs : WellLaid(program)
  PROVE  Spec /\ TakesDropped => []NeverTwice
<1>1. OnceInv => NeverTwice
  <2> SUFFICES ASSUME OnceInv, NEW o \in Owners, NEW k \in DOMAIN ran[o]
               PROVE  ran[o][k] <= entered[o][k]
    BY DEF NeverTwice
  <2>1. Counts /\ CoTally /\ ProtoTally /\ depth \in Nat
    BY FramesAssumption DEF OnceInv, Types, FramesAssumption
  <2>2. k \in Places(code) /\ ran[o][k] \in 0..MaxCount /\ entered[o][k] \in 0..MaxCount
    BY <2>1 DEF Counts
  <2>3. CASE o \in Coroutines
    BY <2>1, <2>2, <2>3 DEF CoTally
  <2>4. CASE o \in Protos
    <3>1. Cardinality(Standing(o, k)) \in Nat
      BY <2>1, StandingFinite
    <3>2. \/ entered[o][k] = MaxCount
          \/ ran[o][k] + Cardinality(Standing(o, k)) <= entered[o][k]
      BY <2>1, <2>2, <2>4 DEF ProtoTally
    <3>3. QED
      BY <2>2, <3>1, <3>2, FramesAssumption DEF FramesAssumption
  <2>5. QED
    BY <2>3, <2>4 DEF Owners
<1>2. QED
  BY <1>1, OnceHolds, PTL

(* [syntax.finally.every-exit]: once a coroutine's body is left, whichever *)
(* way, every block it had entered has run its finally^, as often as it    *)
(* was entered.                                                            *)
THEOREM EveryBlockIsLeft ==
  ASSUME \A program \in Programs : WellLaid(program)
  PROVE  Spec /\ TakesDropped => []EveryExit
<1>1. OnceInv => EveryExit
  <2> SUFFICES ASSUME OnceInv, NEW c \in Coroutines, costate[c] = "DONE"
               PROVE  ran[c] = entered[c]
    BY DEF EveryExit
  <2>1. Counts /\ CoTally
    BY DEF OnceInv
  <2>2. Squared(c, saved[c].cleanups) /\ saved[c].cleanups = <<>>
    BY <2>1 DEF CoTally
  <2>3. /\ ran[c] \in [Places(code) -> 0..MaxCount]
        /\ entered[c] \in [Places(code) -> 0..MaxCount]
    BY <2>1 DEF Counts, Owners
  <2>4. ASSUME NEW k \in Places(code)
        PROVE  ran[c][k] = entered[c][k]
    <3>1. Square(entered[c][k], ran[c][k], 0)
      BY <2>2, TimesEmpty DEF Squared
    <3>2. QED
      BY <2>3, <3>1, SquareSteps
  <2>5. QED
    BY <2>3, <2>4
<1>2. QED
  BY <1>1, OnceHolds, PTL
=============================================================================
