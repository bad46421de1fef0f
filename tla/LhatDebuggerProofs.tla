------------------------- MODULE LhatDebuggerProofs -------------------------
(***************************************************************************)
(* Proofs about LhatDebugger, for any number of machines, of places for    *)
(* threads and of runs: what is handed out is parked, whoever stands stays *)
(* while the debugger believes it, and the session is freed under nobody.  *)
(***************************************************************************)
EXTENDS LhatDebuggerProps, FiniteSetTheorems, TLAPS

TypeOK ==
    /\ at \in [Machines -> {"unborn", "runs", "parked", "faulted", "leaves",
                            "dying", "gone"}]
    /\ stepping \subseteq Machines /\ threads \subseteq Machines
    /\ stopping \in BOOLEAN /\ pauseAll \in BOOLEAN /\ ended \in BOOLEAN
    /\ detached \in BOOLEAN /\ watching \in BOOLEAN
    /\ vars \subseteq Machines
    /\ asleep \subseteq Machines \cup {Host, Reader}
    /\ host \in {"away", "ending", "closing", "over", "detaching", "between"}
    /\ reader \in {"reads", "holds", "left"}
    /\ runs \in Nat

(* While the session goes on, references are out only during a stop, and a *)
(* host between two runs has taken them all back.                          *)
HandedOut ==
    /\ ~Over => vars \subseteq Parked /\ (vars # {} => stopping)
    /\ host \in {"detaching", "between"} => detached
    /\ host = "between" /\ ~ended => vars = {}

(* The host ends a run, or the session, only once Main has left its run.   *)
MainLeft == host # "away" => at[Main] = "leaves"

(* Whoever may still come to the session's lock is on its list, with Main  *)
(* until the list is given up; and nobody is born beside a list that is.   *)
Live ==
    {m \in Machines : \/ at[m] \in {"runs", "parked", "faulted", "dying"}
                      \/ at[m] = "leaves" /\ m # Main}

Listed ==
    /\ Live \subseteq threads
    /\ \A m \in threads : at[m] # "unborn"
    /\ at[Main] \notin {"unborn", "dying", "gone"}
    /\ host \in {"away", "detaching"} => Main \in threads
    /\ threads # {} => Main \in threads
    /\ host \in {"ending", "closing", "over"} => ended
    /\ host \in {"closing", "over"} => threads = {}
    /\ ~watching /\ ~ended => threads = {}

LEMMA MainIsMachine == Main \in Machines
BY DebuggerAssumption DEF DebuggerAssumption

(* Every step of a machine, of the debugger and of the host.               *)
LEMMA TypeStep == TypeOK /\ [Next]_all => TypeOK'
<1> SUFFICES ASSUME TypeOK, [Next]_all
             PROVE  TypeOK'
  OBVIOUS
<1> USE MainIsMachine DEF TypeOK, session, machines
<1>1. ASSUME NEW m \in Machines, NEW event, NEW hit, Hook(m, event, hit)
      PROVE  TypeOK'
  BY <1>1 DEF Hook
<1>2. ASSUME NEW m \in Machines, Wake(m)
      PROVE  TypeOK'
  BY <1>2 DEF Wake
<1>3. ASSUME NEW m \in Machines, Finish(m) \/ Dispose(m) \/ Dying(m)
      PROVE  TypeOK'
  BY <1>3 DEF Finish, Dispose, Dying, Broadcast
<1>4. ASSUME NEW m \in Machines, NEW parent \in Machines, Born(m, parent)
      PROVE  TypeOK'
  BY <1>4 DEF Born
<1>5. ASSUME NEW m \in Machines, StepIn(m) \/ Variables(m)
      PROVE  TypeOK'
  BY <1>5, ZenonT(60) DEF StepIn, Variables, ResumeAll, Broadcast
<1>6. ASSUME Continue \/ Pause \/ Disconnect
      PROVE  TypeOK'
  BY <1>6 DEF Continue, Pause, Disconnect, ResumeAll, Broadcast
<1>7. ASSUME Hold \/ HoldOn
      PROVE  TypeOK'
  BY <1>7 DEF Hold, HoldOn
<1>8. ASSUME BeginEnd \/ EndWait \/ Close
      PROVE  TypeOK'
  BY <1>8 DEF BeginEnd, EndWait, Close, Broadcast
<1>9. ASSUME BeginDetach \/ DetachWait
      PROVE  TypeOK'
  BY <1>9 DEF BeginDetach, DetachWait, Broadcast
<1>10. ASSUME Rebind
       PROVE  TypeOK'
  <2>1. at' \in [Machines -> {"unborn", "runs", "parked", "faulted", "leaves",
                              "dying", "gone"}]
    BY <1>10 DEF Rebind
  <2>2. threads' \subseteq Machines /\ stepping' \subseteq Machines
    BY <1>10 DEF Rebind
  <2>3. runs' \in Nat /\ asleep' \subseteq Machines \cup {Host, Reader}
    BY <1>10 DEF Rebind, Broadcast
  <2>4. detached' \in BOOLEAN /\ watching' \in BOOLEAN
    BY <1>10 DEF Rebind
  <2>5. QED
    BY <1>10, <2>1, <2>2, <2>3, <2>4 DEF Rebind
<1>11. CASE UNCHANGED all
  BY <1>11 DEF all
<1>12. QED
  BY <1>1, <1>2, <1>3, <1>4, <1>5, <1>6, <1>7, <1>8, <1>9, <1>10, <1>11 DEF Next

(* LhatDebugger: every variable keeps its type.                            *)
THEOREM TypeCorrect == Spec => []TypeOK
<1>1. Init => TypeOK
  <2> SUFFICES ASSUME Init
               PROVE  TypeOK
    OBVIOUS
  <2>1. stepping \subseteq Machines /\ threads \subseteq Machines
    BY MainIsMachine DEF Init
  <2>2. QED
    BY <2>1 DEF Init, TypeOK
<1>2. QED
  BY <1>1, TypeStep, PTL DEF Spec

-----------------------------------------------------------------------------
(* What is handed out.                                                     *)
LEMMA HandedOutStep ==
  ASSUME ~MayAskWhileGoing, TypeOK, HandedOut, [Next]_all
  PROVE  HandedOut'
<1> USE DEF TypeOK, HandedOut, Over, Parked, session, machines
<1>1. ASSUME NEW m \in Machines, NEW event, NEW hit, Hook(m, event, hit)
      PROVE  HandedOut'
  BY <1>1 DEF Hook
<1>2. ASSUME NEW m \in Machines, Wake(m)
      PROVE  HandedOut'
  BY <1>2 DEF Wake
<1>3. ASSUME NEW m \in Machines, Finish(m) \/ Dispose(m) \/ Dying(m)
      PROVE  HandedOut'
  BY <1>3 DEF Finish, Dispose, Dying
<1>4. ASSUME NEW m \in Machines, NEW parent \in Machines, Born(m, parent)
      PROVE  HandedOut'
  BY <1>4 DEF Born
<1>5. ASSUME NEW m \in Machines, StepIn(m) \/ Variables(m)
      PROVE  HandedOut'
  BY <1>5 DEF StepIn, Variables, ResumeAll, Served
<1>6. ASSUME Continue \/ Pause \/ Disconnect
      PROVE  HandedOut'
  BY <1>6 DEF Continue, Pause, Disconnect, ResumeAll, Served
<1>7. ASSUME Hold \/ HoldOn
      PROVE  HandedOut'
  BY <1>7 DEF Hold, HoldOn
<1>8. ASSUME BeginEnd \/ EndWait \/ Close
      PROVE  HandedOut'
  BY <1>8 DEF BeginEnd, EndWait, Close
<1>9. ASSUME BeginDetach \/ DetachWait
      PROVE  HandedOut'
  BY <1>9 DEF BeginDetach, DetachWait
<1>10. ASSUME Rebind
       PROVE  HandedOut'
  BY <1>10 DEF Rebind
<1>11. CASE UNCHANGED all
  BY <1>11 DEF all
<1>12. QED
  BY <1>1, <1>2, <1>3, <1>4, <1>5, <1>6, <1>7, <1>8, <1>9, <1>10, <1>11 DEF Next

(* adapter.c:86-91: a debugger that asks for variables during a stop only  *)
(* never holds a reference of a machine that runs.                         *)
THEOREM HandedOutStaysParked == ~MayAskWhileGoing /\ Spec => []HandedOutIsParked
<1> SUFFICES ASSUME ~MayAskWhileGoing
             PROVE  Spec => []HandedOutIsParked
  OBVIOUS
<1>1. Init => HandedOut
  BY DEF Init, HandedOut
<1>2. TypeOK /\ HandedOut /\ [Next]_all => HandedOut'
  BY HandedOutStep
<1>3. HandedOut => HandedOutIsParked
  BY DEF HandedOut, HandedOutIsParked
<1>4. QED
  BY <1>1, <1>2, <1>3, TypeCorrect, PTL DEF Spec

-----------------------------------------------------------------------------
(* Who goes on.                                                            *)
LEMMA MainLeftStep == TypeOK /\ MainLeft /\ [Next]_all => MainLeft'
<1> SUFFICES ASSUME TypeOK, MainLeft, [Next]_all
             PROVE  MainLeft'
  OBVIOUS
<1> USE MainIsMachine DEF TypeOK, MainLeft, Parked, session, machines
<1>1. ASSUME NEW m \in Machines, NEW event, NEW hit, Hook(m, event, hit)
      PROVE  MainLeft'
  BY <1>1 DEF Hook
<1>2. ASSUME NEW m \in Machines,
             Wake(m) \/ Finish(m) \/ Dispose(m) \/ Dying(m)
      PROVE  MainLeft'
  BY <1>2 DEF Wake, Finish, Dispose, Dying
<1>3. ASSUME NEW m \in Machines, NEW parent \in Machines, Born(m, parent)
      PROVE  MainLeft'
  BY <1>3 DEF Born
<1>4. ASSUME NEW m \in Machines, StepIn(m) \/ Variables(m)
      PROVE  MainLeft'
  BY <1>4 DEF StepIn, Variables
<1>5. ASSUME Continue \/ Pause \/ Disconnect \/ Hold \/ HoldOn
      PROVE  MainLeft'
  BY <1>5 DEF Continue, Pause, Disconnect, Hold, HoldOn
<1>6. ASSUME BeginEnd \/ EndWait \/ Close \/ BeginDetach \/ DetachWait
      PROVE  MainLeft'
  BY <1>6 DEF BeginEnd, EndWait, Close, BeginDetach, DetachWait
<1>7. ASSUME Rebind
      PROVE  MainLeft'
  BY <1>7 DEF Rebind
<1>8. CASE UNCHANGED all
  BY <1>8 DEF all
<1>9. QED
  BY <1>1, <1>2, <1>3, <1>4, <1>5, <1>6, <1>7, <1>8 DEF Next

LEMMA MainStaysLeft == Spec => []MainLeft
<1>1. Init => MainLeft
  BY DEF Init, MainLeft
<1>2. QED
  BY <1>1, MainLeftStep, TypeCorrect, PTL DEF Spec

(* adapter.c:1446-1451: a machine that stands goes on only in a step after *)
(* which the session is not stopping, whatever the host does meanwhile.    *)
THEOREM NobodyGoesOn == Spec => StandsStill
<1> DEFINE Still == \A m \in Machines : m \in Parked /\ at'[m] = "runs" => ~stopping'
<1>1. ASSUME TypeOK, MainLeft, [Next]_all
      PROVE  [Still]_all
  <2> USE <1>1
  <2> USE DEF TypeOK, Parked, session, machines
  <2>1. ASSUME NEW m \in Machines, NEW event, NEW hit, Hook(m, event, hit)
        PROVE  Still
    BY <2>1 DEF Hook
  <2>2. ASSUME NEW m \in Machines, Wake(m)
        PROVE  Still
    BY <2>2 DEF Wake, Over
  <2>3. ASSUME NEW m \in Machines, Finish(m) \/ Dispose(m) \/ Dying(m)
        PROVE  Still
    BY <2>3 DEF Finish, Dispose, Dying
  <2>4. ASSUME NEW m \in Machines, NEW parent \in Machines, Born(m, parent)
        PROVE  Still
    BY <2>4 DEF Born
  <2>5. ASSUME NEW m \in Machines, StepIn(m) \/ Variables(m)
        PROVE  Still
    BY <2>5 DEF StepIn, Variables
  <2>6. ASSUME Continue \/ Pause \/ Disconnect \/ Hold \/ HoldOn
        PROVE  Still
    BY <2>6 DEF Continue, Pause, Disconnect, Hold, HoldOn
  <2>7. ASSUME BeginEnd \/ EndWait \/ Close \/ BeginDetach \/ DetachWait
        PROVE  Still
    BY <2>7 DEF BeginEnd, EndWait, Close, BeginDetach, DetachWait
  <2>8. ASSUME Rebind
        PROVE  Still
    BY <2>8, <1>1, MainIsMachine DEF Rebind, MainLeft
  <2>9. QED
    BY <1>1, <2>1, <2>2, <2>3, <2>4, <2>5, <2>6, <2>7, <2>8 DEF Next
<1>2. QED
  BY <1>1, TypeCorrect, MainStaysLeft, PTL DEF Spec, StandsStill

-----------------------------------------------------------------------------
(* How the session is freed.                                               *)

(* No machine is made once the session has ended, and the list has room    *)
(* for all of them (README, section 11, tells of the others).              *)
Roomy == ~MayBeBornLate /\ Cardinality(Machines) <= MaxThreads

LEMMA ListIsFinite ==
  ASSUME TypeOK
  PROVE  IsFiniteSet(threads) /\ Cardinality(threads) \in Nat
<1>1. IsFiniteSet(threads)
  BY FS_Subset, DebuggerAssumption DEF DebuggerAssumption, TypeOK
<1>2. QED
  BY <1>1, FS_CardinalityType

(* A list of one that holds Main holds nobody else.                        *)
LEMMA MainAlone ==
  ASSUME TypeOK, Listed, ~(Cardinality(threads) > 1)
  PROVE  threads \subseteq {Main}
<1> SUFFICES ASSUME NEW m \in threads, m # Main
             PROVE  FALSE
  OBVIOUS
<1>1. Main \in threads
  BY DEF Listed
<1>2. Cardinality({m, Main}) = 2
  <2>1. IsFiniteSet({Main}) /\ Cardinality({Main}) = 1
    BY FS_Singleton
  <2>2. Cardinality({Main} \cup {m}) = 2
    BY <2>1, FS_AddElement
  <2>3. {Main} \cup {m} = {m, Main}
    OBVIOUS
  <2>4. QED
    BY <2>2, <2>3
<1>3. Cardinality({m, Main}) <= Cardinality(threads)
  BY <1>1, ListIsFinite, FS_Subset
<1>4. QED
  BY <1>2, <1>3, ListIsFinite

(* There is room on the list for whoever is not on it.                     *)
LEMMA RoomForOneMore ==
  ASSUME TypeOK, Roomy, NEW m \in Machines \ threads
  PROVE  Cardinality(threads) < MaxThreads
<1>1. IsFiniteSet(Machines) /\ MaxThreads \in Nat
  BY DebuggerAssumption DEF DebuggerAssumption
<1>2. threads \subseteq Machines /\ threads # Machines
  BY DEF TypeOK
<1>3. Cardinality(Machines) \in Nat
  BY <1>1, FS_CardinalityType
<1>4. /\ Cardinality(threads) <= Cardinality(Machines)
      /\ Cardinality(threads) # Cardinality(Machines)
  BY <1>1, <1>2, FS_Subset
<1>5. QED
  BY <1>1, <1>3, <1>4, ListIsFinite DEF Roomy

LEMMA ListedStep ==
  ASSUME Roomy, TypeOK, MainLeft, Listed, [Next]_all
  PROVE  Listed'
<1> USE MainIsMachine DEF TypeOK, Listed, Live, Parked, session, machines
<1>1. ASSUME NEW m \in Machines, NEW event, NEW hit, Hook(m, event, hit)
      PROVE  Listed'
  BY <1>1 DEF Hook
<1>2. ASSUME NEW m \in Machines, Wake(m)
      PROVE  Listed'
  BY <1>2 DEF Wake
<1>3. ASSUME NEW m \in Machines, Finish(m)
      PROVE  Listed'
  BY <1>3 DEF Finish
<1>4. ASSUME NEW m \in Machines, Dispose(m)
      PROVE  Listed'
  BY <1>4 DEF Dispose
<1>5. ASSUME NEW m \in Machines, Dying(m)
      PROVE  Listed'
  <2>1. m # Main /\ Live' = Live \ {m} /\ threads' = threads \ {m}
    BY <1>5 DEF Dying
  <2>2. at'[Main] = at[Main] /\ \A n \in threads' : at'[n] # "unborn"
    BY <1>5 DEF Dying
  <2>3. QED
    BY <1>5, <2>1, <2>2 DEF Dying
<1>6. ASSUME NEW m \in Machines, NEW parent \in Machines, Born(m, parent)
      PROVE  Listed'
  <2>1. parent \in threads /\ m \notin threads
    BY <1>6 DEF Born
  <2>2. ~ended /\ watching
    BY <1>6, <2>1 DEF Born, Roomy
  <2>3. threads' = threads \cup {m}
    BY <1>6, <2>1, <2>2, RoomForOneMore DEF Born
  <2>4. QED
    BY <1>6, <2>3 DEF Born
<1>7. ASSUME NEW m \in Machines, StepIn(m) \/ Variables(m)
      PROVE  Listed'
  BY <1>7 DEF StepIn, Variables, ResumeAll
<1>8. ASSUME Continue \/ Pause \/ Disconnect \/ Hold \/ HoldOn
      PROVE  Listed'
  BY <1>8 DEF Continue, Pause, Disconnect, Hold, HoldOn, ResumeAll
<1>9. ASSUME BeginEnd \/ Close \/ BeginDetach
      PROVE  Listed'
  BY <1>9 DEF BeginEnd, Close, BeginDetach
<1>10. ASSUME EndWait
       PROVE  Listed'
  BY <1>10, MainAlone DEF EndWait, MainLeft
<1>11. ASSUME DetachWait
       PROVE  Listed'
  <2>1. at[Main] = "leaves" /\ UNCHANGED <<at, ended>> /\ Live' = Live
    BY <1>11 DEF DetachWait, MainLeft
  <2>2. CASE UNCHANGED threads /\ Cardinality(threads) > 1 /\ ~ended
    BY <1>11, <2>1, <2>2 DEF DetachWait
  <2>3. CASE UNCHANGED threads /\ ended
    BY <1>11, <2>1, <2>3 DEF DetachWait
  <2>4. CASE Cardinality(threads) = 1 /\ threads' = {}
    <3>1. threads \subseteq {Main}
      BY <2>4, MainAlone
    <3>2. QED
      BY <1>11, <2>1, <2>4, <3>1 DEF DetachWait
  <2>5. CASE Cardinality(threads) # 1 /\ ~(Cardinality(threads) > 1)
    <3>1. threads = {}
      BY <2>5, ListIsFinite, FS_EmptySet
    <3>2. QED
      BY <1>11, <2>1, <2>5, <3>1 DEF DetachWait
  <2>6. QED
    BY <1>11, <2>2, <2>3, <2>4, <2>5 DEF DetachWait
<1>12. ASSUME Rebind
       PROVE  Listed'
  <2>1. CASE ended
    BY <1>12, <2>1 DEF Rebind
  <2>2. CASE ~ended
    BY <1>12, <2>2 DEF Rebind, MainLeft
  <2>3. QED
    BY <2>1, <2>2
<1>13. CASE UNCHANGED all
  BY <1>13 DEF all
<1>14. QED
  BY <1>1, <1>2, <1>3, <1>4, <1>5, <1>6, <1>7, <1>8, <1>9, <1>10, <1>11, <1>12,
     <1>13 DEF Next

(* debug.h:142-145: when the host frees the session no machine has it for  *)
(* its watcher, stands in its hook or is about to take its lock, however   *)
(* the runs, the detaches and a debugger that hangs up interleave.         *)
THEOREM FreedAlone == Roomy /\ Spec => []FreedUnderNobody
<1> SUFFICES ASSUME Roomy
             PROVE  Spec => []FreedUnderNobody
  OBVIOUS
<1>1. Init => Listed
  BY MainIsMachine DEF Init, Listed, Live
<1>2. TypeOK /\ MainLeft /\ Listed /\ [Next]_all => Listed'
  BY ListedStep
<1>3. Listed => FreedUnderNobody
  BY DEF Listed, Live, Parked, FreedUnderNobody
<1>4. QED
  BY <1>1, <1>2, <1>3, TypeCorrect, MainStaysLeft, PTL DEF Spec
=============================================================================
