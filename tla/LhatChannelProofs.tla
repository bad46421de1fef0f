------------------------- MODULE LhatChannelProofs -------------------------
(* Proofs about LhatChannel: for every number of machines, every ring and   *)
(* every bound the queue keeps its numbers in order, no wait is forgotten,  *)
(* the channel is freed under nobody, and it implements the mailbox.        *)
EXTENDS LhatChannelProps, FiniteSetTheorems, SequenceTheorems,
        TLAPS

-----------------------------------------------------------------------------
(* Arithmetic of the ring: an index a lap ahead wraps once.                 *)
LEMMA ModRange ==
  ASSUME NEW a \in Nat, NEW c \in Nat \ {0} PROVE a % c \in 0..c - 1
OBVIOUS

(* An index within the ring stays where it is.                              *)
LEMMA ModSmall ==
  ASSUME NEW c \in Nat \ {0}, NEW a \in 0..c - 1 PROVE a % c = a
OBVIOUS

(* An index one lap ahead comes back by one lap.                            *)
LEMMA ModWrap ==
  ASSUME NEW c \in Nat \ {0}, NEW a \in c..2 * c - 1 PROVE a % c = a - c
OBVIOUS

-----------------------------------------------------------------------------
(* What is on a list.                                                       *)
LEMMA TailRange ==
  ASSUME NEW S, NEW s \in Seq(S), s # <<>>
  PROVE  /\ Tail(s) \in Seq(S) /\ Head(s) \in S
         /\ Range(s) = {Head(s)} \cup Range(Tail(s))
         /\ Tail(s) = <<>> <=> Len(s) = 1
<1>1. /\ Head(s) \in S /\ Tail(s) \in Seq(S) /\ Len(Tail(s)) = Len(s) - 1
      /\ \A i \in 1..Len(Tail(s)) : Tail(s)[i] = s[i+1]
      /\ Head(s) = s[1] /\ Len(s) \in Nat \ {0}
  BY HeadTailProperties, EmptySeq
<1>2. DOMAIN s = 1..Len(s) /\ DOMAIN Tail(s) = 1..(Len(s) - 1)
  BY <1>1, LenProperties
<1>3. Range(s) \subseteq {Head(s)} \cup Range(Tail(s))
  <2> SUFFICES ASSUME NEW i \in 1..Len(s) PROVE s[i] \in {Head(s)} \cup Range(Tail(s))
    BY <1>2 DEF Range
  <2>1. CASE i = 1
    BY <1>1, <2>1
  <2>2. CASE i # 1
    <3>1. i - 1 \in 1..(Len(s) - 1) /\ Tail(s)[i - 1] = s[i]
      BY <1>1, <2>2
    <3> QED BY <1>2, <3>1 DEF Range
  <2> QED BY <2>1, <2>2
<1>4. {Head(s)} \cup Range(Tail(s)) \subseteq Range(s)
  BY <1>1, <1>2 DEF Range
<1>5. Tail(s) = <<>> <=> Len(s) = 1
  <2>1. Len(<<>>) = 0 /\ (Tail(s) # <<>> => Len(Tail(s)) \in Nat \ {0})
    BY <1>1, EmptySeq
  <2>2. CASE Tail(s) = <<>>
    BY <1>1, <2>1, <2>2
  <2>3. CASE Tail(s) # <<>>
    BY <1>1, <2>1, <2>3
  <2> QED BY <2>2, <2>3
<1> QED BY <1>1, <1>3, <1>4, <1>5

(* What is on a list with one put at its end.                               *)
LEMMA AppendRange ==
  ASSUME NEW S, NEW s \in Seq(S), NEW e \in S
  PROVE  Append(s, e) \in Seq(S) /\ Range(Append(s, e)) = Range(s) \cup {e}
<1>1. /\ Append(s, e) \in Seq(S) /\ Len(Append(s,e)) = Len(s) + 1
      /\ \A i \in 1..Len(s) : Append(s,e)[i] = s[i]
      /\ Append(s,e)[Len(s)+1] = e /\ Len(s) \in Nat
  BY AppendProperties, LenProperties
<1>2. DOMAIN s = 1..Len(s) /\ DOMAIN Append(s,e) = 1..Len(s)+1
  BY <1>1, LenProperties
<1> QED BY <1>1, <1>2 DEF Range

-----------------------------------------------------------------------------
(* The queue.                                                               *)
QueueTypes ==
  /\ capacity \in Nat /\ head \in Nat /\ count \in 0..capacity
  /\ ring \in [0..capacity - 1 -> 0..MaxSent]
  /\ capacity > 0 => head < capacity
  /\ sent \in 0..MaxSent /\ received \in 0..sent

(* Every slot in use holds its number, and the counters say how many.       *)
QueueInv ==
  /\ QueueTypes
  /\ sent = received + count
  /\ \A i \in 0..count - 1 : ring[(head + i) % capacity] = received + 1 + i

(* The four ways a step treats the queue.                                   *)
QueueStep ==
  PushLocked \/ PopLocked \/ ClearLocked \/ UNCHANGED queueVars

(* Every action treats the queue in one of them.                            *)
LEMMA StepsOfTheQueue == [Next]_vars => QueueStep
BY ZenonT(60) DEF Next, Begins, GoesOnWith, Push, Pop, Clear, Awaitable, Atomic, Take,
  Supply, Demand, DropJob, DropWrapper, DropWalk, Tell, SupplyLook, DemandLook,
  AtomicEnd, Retain, TakeStep, AskOnce, LookAgain, LetGo, QueueStep, queueVars,
  vars

(* A slot of the ring is the slot of one value only.                        *)
LEMMA Apart ==
  ASSUME QueueTypes, capacity > 0,
         NEW i \in 0..capacity - 1, NEW j \in 0..capacity - 1, i # j
  PROVE  (head + i) % capacity # (head + j) % capacity
<1>1. capacity \in Nat \ {0} /\ head \in 0..capacity - 1
  BY DEF QueueTypes
<1>2. /\ head + i < capacity => (head + i) % capacity = head + i
      /\ head + i >= capacity => (head + i) % capacity = head + i - capacity
  BY <1>1, ModSmall, ModWrap
<1>3. /\ head + j < capacity => (head + j) % capacity = head + j
      /\ head + j >= capacity => (head + j) % capacity = head + j - capacity
  BY <1>1, ModSmall, ModWrap
<1> QED BY <1>1, <1>2, <1>3

(* The queue starts right.                                                  *)
LEMMA QueueInit == ASSUME Init PROVE QueueInv
BY ChannelAssumption DEF Init, QueueInv, QueueTypes, ChannelAssumption

(* A push, grown or not, a pop and a clear keep every number in its slot.   *)
LEMMA QueueNext == ASSUME QueueInv, QueueStep PROVE QueueInv'
<1>1. /\ capacity \in Nat /\ head \in Nat /\ count \in 0..capacity
      /\ ring \in [0..capacity - 1 -> 0..MaxSent]
      /\ capacity > 0 => head < capacity
      /\ sent \in 0..MaxSent /\ received \in 0..sent
      /\ sent = received + count
  BY DEF QueueInv, QueueTypes
<1>2. \A i \in 0..count - 1 : ring[(head + i) % capacity] = received + 1 + i
  BY DEF QueueInv
<1>3. FirstCapacity \in Nat \ {0} /\ MaxSent \in Nat
  BY ChannelAssumption DEF ChannelAssumption
<1>4. CASE PushLocked /\ count < capacity
  <2> DEFINE at == (head + count) % capacity
  <2>1. /\ ring' = [ring EXCEPT ![at] = sent + 1]
        /\ capacity' = capacity /\ head' = head /\ received' = received
        /\ count' = count + 1 /\ sent' = sent + 1 /\ sent < MaxSent
    BY <1>4 DEF PushLocked
  <2>2. capacity \in Nat \ {0} /\ head + count \in Nat
    BY <1>1, <1>4
  <2>3. at \in 0..capacity - 1
    BY <2>2, ModRange
  <2> HIDE DEF at
  <2>4. ring' \in [0..capacity - 1 -> 0..MaxSent]
    BY <1>1, <1>3, <2>1, <2>3
  <2>5. QueueTypes'
    BY <1>1, <1>4, <2>1, <2>4 DEF QueueTypes
  <2>6. ASSUME NEW i \in 0..count' - 1
        PROVE  ring'[(head' + i) % capacity'] = received' + 1 + i
    <3>1. CASE i = count
      <4>1. ring'[at] = sent + 1
        BY <1>1, <2>1, <2>3
      <4> QED BY <1>1, <2>1, <3>1, <4>1 DEF at
    <3>2. CASE i # count
      <4> DEFINE its == (head + i) % capacity
      <4>1. i \in 0..count - 1 /\ i \in 0..capacity - 1
            /\ count \in 0..capacity - 1 /\ capacity > 0
        BY <1>1, <1>4, <2>1, <3>2
      <4>2. its # at
        BY <4>1, <3>2, Apart DEF at, QueueInv
      <4>3. its \in 0..capacity - 1
        <5>1. head + i \in Nat
          BY <4>1, <1>1
        <5> QED BY <5>1, <2>2, ModRange
      <4>4. ring[its] = received + 1 + i
        BY <1>2, <4>1
      <4> HIDE DEF its
      <4>5. ring'[its] = ring[its]
        BY <1>1, <2>1, <4>2, <4>3
      <4> QED BY <2>1, <4>4, <4>5 DEF its
    <3> QED BY <3>1, <3>2
  <2>7. sent' = received' + count'
    BY <1>1, <2>1
  <2> QED BY <2>5, <2>6, <2>7 DEF QueueInv
<1>5. CASE PushLocked /\ ~(count < capacity)
  <2>1. /\ ring' = [Unrolled EXCEPT ![count] = sent + 1]
        /\ capacity' = Grown /\ head' = 0 /\ received' = received
        /\ count' = count + 1 /\ sent' = sent + 1 /\ sent < MaxSent
    BY <1>5 DEF PushLocked
  <2>2. count = capacity /\ Grown \in Nat \ {0} /\ count \in 0..Grown - 1
    BY <1>1, <1>3, <1>5 DEF Grown
  <2>3. ASSUME NEW i \in 0..count - 1
        PROVE  /\ Unrolled[i] = ring[(head + i) % capacity]
               /\ Unrolled[i] = received + 1 + i
               /\ Unrolled[i] \in 0..MaxSent
    <3>1. i \in 0..Grown - 1 /\ i < count
      BY <1>1, <2>2
    <3>2. Unrolled[i] = ring[(head + i) % capacity]
      BY <3>1 DEF Unrolled
    <3>3. Unrolled[i] = received + 1 + i
      BY <1>2, <3>2
    <3> QED BY <1>1, <1>3, <3>2, <3>3
  <2>4. ASSUME NEW i \in 0..Grown - 1, ~(i < count)
        PROVE  Unrolled[i] \in 0..MaxSent
    BY <1>3, <2>4 DEF Unrolled, Empty
  <2>5. Unrolled \in [0..Grown - 1 -> 0..MaxSent]
    <3>1. ASSUME NEW i \in 0..Grown - 1 PROVE Unrolled[i] \in 0..MaxSent
      BY <1>1, <2>2, <2>3, <2>4
    <3>2. Unrolled = [i \in 0..Grown - 1 |-> Unrolled[i]]
      BY DEF Unrolled
    <3> QED BY <3>1, <3>2
  <2> HIDE DEF Unrolled, Grown
  <2>6. ring' \in [0..Grown - 1 -> 0..MaxSent]
    BY <1>1, <1>3, <2>1, <2>2, <2>5
  <2>7. QueueTypes'
    BY <1>1, <2>1, <2>2, <2>6 DEF QueueTypes
  <2>8. ASSUME NEW i \in 0..count' - 1
        PROVE  ring'[(head' + i) % capacity'] = received' + 1 + i
    <3>1. i \in 0..Grown - 1
      BY <1>1, <2>1, <2>2
    <3>2. (head' + i) % capacity' = i
      <4>1. i % Grown = i
        BY <2>2, <3>1, ModSmall
      <4> QED BY <2>1, <3>1, <4>1
    <3>3. CASE i = count
      BY <1>1, <2>1, <2>2, <2>5, <3>2, <3>3
    <3>4. CASE i # count
      <4>1. i \in 0..count - 1
        BY <1>1, <2>1, <3>4
      <4>2. ring'[i] = Unrolled[i]
        BY <2>1, <2>5, <3>1, <3>4
      <4> QED BY <2>1, <2>3, <3>2, <4>1, <4>2
    <3> QED BY <3>3, <3>4
  <2>9. sent' = received' + count'
    BY <1>1, <2>1
  <2> QED BY <2>7, <2>8, <2>9 DEF QueueInv
<1>6. CASE PopLocked
  <2>1. /\ ring' = ring /\ capacity' = capacity /\ sent' = sent
        /\ head' = (head + 1) % capacity
        /\ count' = count - 1 /\ received' = received + 1
        /\ capacity \in Nat \ {0} /\ head \in 0..capacity - 1
        /\ count \in 1..capacity
    BY <1>1, <1>6 DEF PopLocked
  <2>2. /\ head' \in 0..capacity - 1
        /\ head + 1 < capacity => head' = head + 1
        /\ head + 1 = capacity => head' = 0
    <3>1. head + 1 \in 0..capacity
      BY <2>1
    <3>2. CASE head + 1 < capacity
      <4>1. (head + 1) % capacity = head + 1
        BY <2>1, <3>2, ModSmall
      <4> QED BY <2>1, <3>2, <4>1
    <3>3. CASE head + 1 = capacity
      <4>1. (head + 1) % capacity = (head + 1) - capacity
        BY <2>1, <3>3, ModWrap
      <4> QED BY <2>1, <3>3, <4>1
    <3> QED BY <2>1, <3>2, <3>3
  <2>3. QueueTypes'
    BY <1>1, <2>1, <2>2 DEF QueueTypes
  <2>4. ASSUME NEW i \in 0..count' - 1
        PROVE  ring'[(head' + i) % capacity'] = received' + 1 + i
    <3> DEFINE j == i + 1
    <3>1. j \in 0..count - 1 /\ i \in 0..capacity - 2
      BY <2>1
    <3>2. (head' + i) % capacity = (head + j) % capacity
      <4>1. CASE head + 1 < capacity
        BY <2>1, <2>2, <3>1, <4>1
      <4>2. CASE head + 1 = capacity
        <5>1. head' = 0
          BY <2>2, <4>2
        <5>2. i % capacity = i
          BY <2>1, <3>1, ModSmall
        <5> DEFINE far == head + j
        <5>3. far \in capacity..2 * capacity - 1 /\ far - capacity = i
          BY <2>1, <3>1, <4>2
        <5> HIDE DEF far
        <5>4. far % capacity = i
          BY <2>1, <5>3, ModWrap
        <5> QED BY <3>1, <5>1, <5>2, <5>4 DEF far
      <4> QED BY <2>1, <4>1, <4>2
    <3>3. ring[(head + j) % capacity] = received + 1 + j
      BY <1>2, <3>1
    <3> QED BY <1>1, <2>1, <3>1, <3>2, <3>3
  <2>5. sent' = received' + count'
    BY <1>1, <2>1
  <2> QED BY <2>3, <2>4, <2>5 DEF QueueInv
<1>7. CASE ClearLocked
  <2>1. /\ ring' = ring /\ capacity' = capacity /\ sent' = sent
        /\ count' = 0 /\ received' = sent
        /\ head' = IF count = 0 THEN head ELSE (head + count) % capacity
    BY <1>7 DEF ClearLocked
  <2>2. head' \in Nat /\ (capacity > 0 => head' < capacity)
    <3>1. CASE count = 0
      BY <1>1, <2>1, <3>1
    <3>2. CASE count # 0
      <4>1. head + count \in Nat /\ capacity \in Nat \ {0}
        BY <1>1, <3>2
      <4>2. (head + count) % capacity \in 0..capacity - 1
        BY <4>1, ModRange
      <4> QED BY <1>1, <2>1, <3>2, <4>2
    <3> QED BY <3>1, <3>2
  <2> QED BY <1>1, <2>1, <2>2 DEF QueueInv, QueueTypes
<1>8. CASE UNCHANGED queueVars
  BY <1>8 DEF queueVars, QueueInv, QueueTypes
<1> QED BY <1>4, <1>5, <1>6, <1>7, <1>8 DEF QueueStep

(* What NumbersInOrder says, from the slots.                                *)
LEMMA QueueInOrder == ASSUME QueueInv PROVE NumbersInOrder
<1>1. sent - received = count /\ count \in Nat
  BY DEF QueueInv, QueueTypes
<1>2. ASSUME NEW i \in 1..count
      PROVE  ring[(head + i - 1) % capacity] = received + i
  <2> DEFINE k == i - 1
  <2>1. k \in 0..count - 1
    BY <1>1
  <2>2. ring[(head + k) % capacity] = received + 1 + k
    BY <2>1 DEF QueueInv
  <2>3. head + k = head + i - 1 /\ received + 1 + k = received + i
    BY <2>1 DEF QueueInv, QueueTypes
  <2> QED BY <2>2, <2>3
<1> QED BY <1>1, <1>2 DEF NumbersInOrder, Contents

(* The ring holds received + 1 .. sent in order, for every capacity and any *)
(* sequence of pushes, growths, pops and clears (channel.c:212-270).        *)
THEOREM NumbersStay == Spec => []NumbersInOrder
<1>1. Init => QueueInv
  BY QueueInit
<1>2. QueueInv /\ [Next]_vars => QueueInv'
  BY StepsOfTheQueue, QueueNext
<1>3. QueueInv => NumbersInOrder
  BY QueueInOrder
<1> QED BY <1>1, <1>2, <1>3, PTL DEF Spec

-----------------------------------------------------------------------------
(* The machines and the waits.                                              *)
MachineTypes ==
  /\ waiters \in Seq(1..MaxWaits)
  /\ atomic_owner \in Machines \cup {NoOne}
  /\ next_id \in 1..MaxWaits + 1
  /\ Outstanding \subseteq 1..MaxWaits
  /\ \A id \in Outstanding : waits[id] \in [owner : Machines, ready : BOOLEAN]
  /\ pc \in [Machines -> {"idle", "telling"} \cup Waiting \cup Driven
                         \cup LettingGo]
  /\ on \in [Machines -> Nat]
  /\ answer \in [Machines -> {"none", "taken", "gave up"}]
  /\ telling \in [Machines -> Seq(1..MaxWaits)]
  /\ wrapper \subseteq Machines /\ ended \subseteq Machines
  /\ walk \in [Machines -> {"none", "live", "dead"}]
  /\ calls \in 0..MaxCalls

(* A machine tells while it has waits to tell, and only then.               *)
TellingRight == \A m \in Machines : pc[m] = "telling" <=> telling[m] # <<>>

(* A supply() that waits knows the number of its value.                     *)
OwedRight ==
  \A m \in Machines :
    pc[m] \in {"supplying", "supplying for"} => on[m] \in 1..sent

(* What each machine's place says of its holds.                             *)
PlacesRight ==
  \A m \in Machines :
    /\ pc[m] \in Waiting \cup {"retaining", "letting go of the value"}
         => m \in wrapper
    /\ Holding(m) => m \in wrapper
    /\ pc[m] = "retaining" => walk[m] = "none"
    /\ pc[m] = "taking" => walk[m] = "live"
    /\ pc[m] = "letting go of the walk" => walk[m] = "dead"

Walkers == {m \in Machines : walk[m] # "none"}

(* Every wrapper and every walk holds the channel once.                     *)
HoldsCounted == holds = Cardinality(wrapper) + Cardinality(Walkers)

IInv ==
  /\ QueueInv /\ MachineTypes /\ TellingRight /\ OwedRight /\ PlacesRight
  /\ HoldsCounted /\ EveryWaitIsListed

(* What the constants are.                                                  *)
LEMMA Bounds ==
  MaxSent \in Nat /\ MaxWaits \in Nat /\ MaxCalls \in Nat /\ NoOne \notin Machines
BY ChannelAssumption DEF ChannelAssumption

(* A wait armed is of the right type.                                       *)
LEMMA ArmTypes ==
  ASSUME MachineTypes, NEW m \in Machines, CanArm, Arm(m)
  PROVE  /\ waiters' \in Seq(1..MaxWaits)
         /\ next_id' \in 1..MaxWaits + 1
         /\ (DOMAIN waits') \subseteq 1..MaxWaits
         /\ \A id \in DOMAIN waits' :
                waits'[id] \in [owner : Machines, ready : BOOLEAN]
         /\ on' \in [Machines -> Nat]
<1>0. /\ next_id \in 1..MaxWaits + 1 /\ waiters \in Seq(1..MaxWaits)
      /\ on \in [Machines -> Nat] /\ MaxWaits \in Nat
  BY Bounds DEF MachineTypes
<1>1. next_id \in 1..MaxWaits
  BY <1>0 DEF CanArm
<1>2. DOMAIN waits' = Outstanding \cup {next_id}
  BY DEF Arm
<1>3. ASSUME NEW id \in DOMAIN waits'
      PROVE  waits'[id] \in [owner : Machines, ready : BOOLEAN]
  <2>1. CASE id = next_id
    BY <2>1, <1>2 DEF Arm
  <2>2. CASE id # next_id
    BY <2>2, <1>2, <1>3 DEF Arm, MachineTypes
  <2> QED BY <2>1, <2>2
<1>4. waiters' \in Seq(1..MaxWaits)
  BY <1>0, <1>1 DEF Arm
<1>5. on' \in [Machines -> Nat]
  BY <1>0, <1>1 DEF Arm
<1>6. next_id' \in 1..MaxWaits + 1
  BY <1>1, Bounds DEF Arm
<1>7. (DOMAIN waits') \subseteq 1..MaxWaits
  BY <1>1, <1>2 DEF MachineTypes
<1> QED BY <1>3, <1>4, <1>5, <1>6, <1>7

(* A wait taken leaves the others as they are.                              *)
LEMMA TakeWaitTypes ==
  ASSUME MachineTypes, NEW m \in Machines, NEW id, TakeWait(m, id)
  PROVE  /\ (DOMAIN waits') \subseteq Outstanding
         /\ \A other \in DOMAIN waits' : waits'[other] = waits[other]
         /\ \A other \in DOMAIN waits' :
                waits'[other] \in [owner : Machines, ready : BOOLEAN]
BY DEF TakeWait, MachineTypes, Outstanding

(* The types of the machines and the waits.                                 *)
LEMMA TypesInit == ASSUME Init PROVE MachineTypes
BY Bounds DEF Init, MachineTypes, Outstanding, Waiting, Driven, LettingGo

(* The bound on calls holds.                                                *)
LEMMA CallsTypes ==
  ASSUME MachineTypes, NEW m \in Machines, Calls(m) PROVE calls' \in 0..MaxCalls
<1>1. calls \in 0..MaxCalls /\ MaxCalls \in Nat
  BY Bounds DEF MachineTypes
<1> QED BY <1>1 DEF Calls

(* Every step keeps the types.                                              *)
LEMMA TypesNext ==
  ASSUME IInv, [Next]_vars PROVE MachineTypes'
<1> USE DEF IInv
<1>1. MachineTypes /\ sent \in Nat
  BY DEF QueueInv, QueueTypes
<1>a. waiters \in Seq(1..MaxWaits) /\ telling \in [Machines -> Seq(1..MaxWaits)]
  BY DEF MachineTypes
<1>b. on \in [Machines -> Nat] /\ sent + 1 \in Nat
  <2>1. on \in [Machines -> Nat]
    BY DEF MachineTypes
  <2> QED BY <1>1, <2>1
<1>c. answer \in [Machines -> {"none", "taken", "gave up"}]
  BY DEF MachineTypes
<1>d. pc \in [Machines -> {"idle", "telling"} \cup Waiting \cup Driven
                         \cup LettingGo]
  BY DEF MachineTypes
<1>2. ASSUME NEW m \in Machines, Push(m) PROVE MachineTypes'
  <2>1. calls' \in 0..MaxCalls
    BY <1>1, <1>2, CallsTypes DEF Push
  <2>2. /\ telling' \in [Machines -> Seq(1..MaxWaits)]
        /\ waiters' \in Seq(1..MaxWaits)
    BY <1>a, <1>2 DEF Push, TellsAll
  <2> QED BY <1>1, <1>2, <2>1, <2>2 DEF Push, TellsAll, Goes, MachineTypes, asyncVars,
          holdVars, Outstanding
<1>3. ASSUME NEW m \in Machines, NEW timed \in BOOLEAN, Supply(m, timed)
      PROVE  MachineTypes'
  <2>1. calls' \in 0..MaxCalls
    BY <1>1, <1>3, CallsTypes DEF Supply
  <2>2. /\ on' \in [Machines -> Nat]
        /\ answer' \in [Machines -> {"none", "taken", "gave up"}]
    <3>1. on' = on \/ on' = [on EXCEPT ![m] = sent + 1]
      BY <1>3 DEF Supply
    <3>2. \E word \in {"none", "gave up"} : answer' = [answer EXCEPT ![m] = word]
      BY <1>3 DEF Supply
    <3> QED BY <1>b, <1>c, <3>1, <3>2
  <2>3. pc' \in [Machines -> {"idle", "telling"} \cup Waiting \cup Driven
                             \cup LettingGo]
    BY <1>1, <1>3 DEF Supply, Goes, Waiting, MachineTypes
  <2> QED BY <1>1, <1>3, <2>1, <2>2, <2>3 DEF Supply, MachineTypes, asyncVars,
          holdVars, Outstanding
<1>4. ASSUME NEW m \in Machines, Pop(m) PROVE MachineTypes'
  BY <1>1, <1>4, CallsTypes DEF Pop, MachineTypes, asyncVars, holdVars, Outstanding
<1>5. ASSUME NEW m \in Machines, NEW timed \in BOOLEAN, Demand(m, timed)
      PROVE  MachineTypes'
  BY <1>1, <1>5, CallsTypes DEF Demand, Goes, Waiting, MachineTypes, asyncVars,
     holdVars, Outstanding
<1>6. ASSUME NEW m \in Machines, Clear(m) PROVE MachineTypes'
  BY <1>1, <1>6, CallsTypes DEF Clear, MachineTypes, asyncVars, holdVars, Outstanding
<1>7. ASSUME NEW m \in Machines, Awaitable(m) PROVE MachineTypes'
  BY <1>1, <1>7, CallsTypes, ArmTypes DEF Awaitable, Goes, Driven, MachineTypes,
     holdVars, Outstanding
<1>8. ASSUME NEW m \in Machines, Atomic(m) PROVE MachineTypes'
  BY <1>1, <1>8, CallsTypes DEF Atomic, MachineTypes, asyncVars, holdVars, Outstanding
<1>9. ASSUME NEW m \in Machines, AtomicEnd(m) PROVE MachineTypes'
  BY <1>1, <1>9 DEF AtomicEnd, MachineTypes, asyncVars, holdVars, Outstanding
<1>10. ASSUME NEW m \in Machines, Take(m) PROVE MachineTypes'
  BY <1>1, <1>10, CallsTypes DEF Take, Goes, Driven, MachineTypes, asyncVars,
     holdVars, Outstanding
<1>11. ASSUME NEW m \in Machines, Retain(m) PROVE MachineTypes'
  BY <1>1, <1>11 DEF Retain, Goes, Driven, MachineTypes, asyncVars, Outstanding
<1>12. ASSUME NEW m \in Machines, TakeStep(m) PROVE MachineTypes'
  BY <1>1, <1>12, ArmTypes DEF TakeStep, Goes, Driven, MachineTypes, asyncVars,
     Outstanding
<1>13. ASSUME NEW m \in Machines, AskOnce(m) PROVE MachineTypes'
  <2>1. /\ (DOMAIN waits') \subseteq Outstanding
        /\ \A other \in DOMAIN waits' :
               waits'[other] \in [owner : Machines, ready : BOOLEAN]
    <3>1. TakeWait(m, on[m])
      BY <1>13 DEF AskOnce
    <3> QED BY <1>1, <3>1, TakeWaitTypes
  <2>2. on' \in [Machines -> Nat]
    BY <1>b, <1>13 DEF AskOnce
  <2>3. pc' \in [Machines -> {"idle", "telling"} \cup Waiting \cup Driven
                             \cup LettingGo]
    BY <1>d, <1>13 DEF AskOnce, GoesOn, Goes, Driven
  <2> QED BY <1>1, <1>13, <2>1, <2>2, <2>3 DEF AskOnce, MachineTypes, holdVars, Outstanding
<1>14. ASSUME NEW m \in Machines, LookAgain(m) PROVE MachineTypes'
  <2>1. /\ (DOMAIN waits') \subseteq Outstanding
        /\ \A other \in DOMAIN waits' :
               waits'[other] \in [owner : Machines, ready : BOOLEAN]
    <3>1. TakeWait(m, on[m])
      BY <1>14 DEF LookAgain
    <3> QED BY <1>1, <3>1, TakeWaitTypes
  <2>2. on' \in [Machines -> Nat]
    BY <1>b, <1>14 DEF LookAgain
  <2>3. pc' \in [Machines -> {"idle", "telling"} \cup Waiting \cup Driven
                             \cup LettingGo]
    BY <1>d, <1>14 DEF LookAgain, GoesOn, Goes, Driven
  <2> QED BY <1>1, <1>14, <2>1, <2>2, <2>3 DEF LookAgain, MachineTypes, holdVars, Outstanding
<1>15. ASSUME NEW m \in Machines, DropJob(m) PROVE MachineTypes'
  BY <1>1, <1>15 DEF DropJob, Goes, MachineTypes, asyncVars, Outstanding
<1>16. ASSUME NEW m \in Machines, DropWrapper(m) \/ DropWalk(m)
       PROVE  MachineTypes'
  BY <1>1, <1>16 DEF DropWrapper, DropWalk, Goes, LettingGo, MachineTypes,
     asyncVars, holdVars, Outstanding
<1>17. ASSUME NEW m \in Machines, LetGo(m) PROVE MachineTypes'
  <2>1. /\ telling' \in [Machines -> Seq(1..MaxWaits)]
        /\ waiters' \in Seq(1..MaxWaits)
    <3>1. \/ waiters' = waiters /\ telling' = telling
          \/ waiters' = <<>> /\ telling' = [telling EXCEPT ![m] = waiters]
      BY <1>17 DEF LetGo, TellsAll
    <3> QED BY <1>a, <3>1, EmptySeq
  <2>2. pc' \in [Machines -> {"idle", "telling"} \cup Waiting \cup Driven
                             \cup LettingGo]
    BY <1>1, <1>17 DEF LetGo, TellsAll, GoesOn, Goes, Driven, MachineTypes
  <2>3. wrapper' \subseteq Machines /\ walk' \in [Machines -> {"none", "live", "dead"}]
    BY <1>1, <1>17 DEF LetGo, MachineTypes
  <2> QED BY <1>1, <1>17, <2>1, <2>2, <2>3 DEF LetGo, MachineTypes, asyncVars,
          Outstanding
<1>18. ASSUME NEW m \in Machines, SupplyLook(m) \/ DemandLook(m)
       PROVE  MachineTypes'
  <2>1. CASE SupplyLook(m)
    BY <1>1, <2>1 DEF SupplyLook, Goes, MachineTypes, asyncVars, holdVars,
       Outstanding
  <2>2. CASE DemandLook(m)
    BY <1>1, <2>2 DEF DemandLook, Goes, MachineTypes, asyncVars, holdVars,
       Outstanding
  <2> QED BY <1>18, <2>1, <2>2
<1>19. ASSUME NEW m \in Machines, Tell(m) PROVE MachineTypes'
  <2>1. telling[m] # <<>> /\ telling[m] \in Seq(1..MaxWaits)
    BY <1>1, <1>19 DEF Tell, TellingRight, MachineTypes
  <2>2. telling' \in [Machines -> Seq(1..MaxWaits)]
    <3>1. telling' = [telling EXCEPT ![m] = Tail(telling[m])]
      BY <1>19 DEF Tell
    <3>2. Tail(telling[m]) \in Seq(1..MaxWaits)
      BY <2>1, TailRange
    <3> QED BY <1>a, <3>1, <3>2
  <2>3. /\ DOMAIN waits' = Outstanding
        /\ \A id \in Outstanding :
               waits'[id] \in [owner : Machines, ready : BOOLEAN]
    BY <1>1, <1>19 DEF Tell, MachineTypes, Outstanding
  <2>4. pc' \in [Machines -> {"idle", "telling"} \cup Waiting \cup Driven
                             \cup LettingGo]
    BY <1>1, <1>19 DEF Tell, Goes, MachineTypes
  <2> QED BY <1>1, <1>19, <2>2, <2>3, <2>4 DEF Tell, MachineTypes, holdVars,
          Outstanding
<1>20. CASE UNCHANGED vars
  BY <1>1, <1>20 DEF vars, MachineTypes, Outstanding
<1> QED
  BY <1>2, <1>3, <1>4, <1>5, <1>6, <1>7, <1>8, <1>9, <1>10, <1>11, <1>12, <1>13,
     <1>14, <1>15, <1>16, <1>17, <1>18, <1>19, <1>20
  DEF Next, Begins, GoesOnWith

-----------------------------------------------------------------------------
(* What a step does to what the machines know.                              *)
LEMMA TellingNext == ASSUME IInv, [Next]_vars PROVE TellingRight'
<1>1. /\ telling \in [Machines -> Seq(1..MaxWaits)] /\ DOMAIN pc = Machines
      /\ TellingRight
  BY DEF IInv, MachineTypes
<1>2. ASSUME NEW m \in Machines, TellsAll(m) PROVE TellingRight'
  BY <1>1, <1>2 DEF TellsAll, Goes, TellingRight
<1>3. ASSUME NEW m \in Machines, NEW where, Goes(m, where), where # "telling",
             pc[m] # "telling", UNCHANGED telling
      PROVE  TellingRight'
  BY <1>1, <1>3 DEF Goes, TellingRight
<1>4. ASSUME UNCHANGED <<pc, telling>> PROVE TellingRight'
  BY <1>1, <1>4 DEF TellingRight
<1>5. ASSUME NEW m \in Machines, Push(m) PROVE TellingRight'
  BY <1>2, <1>5 DEF Push
<1>6. ASSUME NEW m \in Machines, Tell(m) PROVE TellingRight'
  <2>1. /\ telling[m] \in Seq(1..MaxWaits) /\ telling[m] # <<>>
        /\ telling' = [telling EXCEPT ![m] = Tail(telling[m])]
        /\ Goes(m, IF Len(telling[m]) = 1 THEN "idle" ELSE "telling")
    BY <1>1, <1>6 DEF Tell, TellingRight
  <2>2. Tail(telling[m]) = <<>> <=> Len(telling[m]) = 1
    BY <2>1, TailRange
  <2> QED BY <1>1, <2>1, <2>2 DEF Goes, TellingRight
<1>7. ASSUME NEW m \in Machines, NEW timed \in BOOLEAN,
             Supply(m, timed) \/ Demand(m, timed)
      PROVE  TellingRight'
  <2>1. \/ UNCHANGED <<pc, telling>>
        \/ \E where : /\ Goes(m, where) /\ where # "telling"
                      /\ pc[m] # "telling" /\ UNCHANGED telling
    BY <1>7 DEF Supply, Demand, Calls
  <2> QED BY <2>1, <1>3, <1>4
<1>8. ASSUME NEW m \in Machines, Pop(m) \/ Clear(m) \/ Atomic(m) \/ AtomicEnd(m)
      PROVE  TellingRight'
  BY <1>4, <1>8 DEF Pop, Clear, Atomic, AtomicEnd
<1>9. ASSUME NEW m \in Machines,
             Awaitable(m) \/ Take(m) \/ Retain(m) \/ TakeStep(m) \/ DropJob(m)
             \/ DropWrapper(m) \/ DropWalk(m) \/ SupplyLook(m) \/ DemandLook(m)
      PROVE  TellingRight'
  <2>1. \E where : /\ Goes(m, where) /\ where # "telling"
                   /\ pc[m] # "telling" /\ UNCHANGED telling
    BY <1>9 DEF Awaitable, Take, Retain, TakeStep, DropJob, DropWrapper,
       DropWalk, SupplyLook, DemandLook, Calls
  <2> QED BY <1>3, <2>1
<1>10. ASSUME NEW m \in Machines, AskOnce(m) \/ LookAgain(m) PROVE TellingRight'
  <2>1. \E where : /\ Goes(m, where) /\ where # "telling"
                   /\ pc[m] # "telling" /\ UNCHANGED telling
    BY <1>10 DEF AskOnce, LookAgain, GoesOn
  <2> QED BY <1>3, <2>1
<1>11. ASSUME NEW m \in Machines, LetGo(m) PROVE TellingRight'
  <2>1. \/ TellsAll(m)
        \/ \E where : /\ Goes(m, where) /\ where # "telling"
                      /\ pc[m] # "telling" /\ UNCHANGED telling
    BY <1>11 DEF LetGo, GoesOn
  <2> QED BY <1>2, <1>3, <2>1
<1>12. CASE UNCHANGED vars
  BY <1>4, <1>12 DEF vars
<1> QED
  BY <1>5, <1>6, <1>7, <1>8, <1>9, <1>10, <1>11, <1>12 DEF Next, Begins, GoesOnWith

(* The count of the values sent never goes back.                            *)
LEMMA SentGrows == ASSUME QueueInv, QueueStep PROVE sent' \in Nat /\ sent <= sent'
BY DEF QueueInv, QueueTypes, QueueStep, PushLocked, PopLocked, ClearLocked, queueVars

(* A supply() that waits keeps a number already sent.                       *)
LEMMA OwedNext == ASSUME IInv, [Next]_vars PROVE OwedRight'
<1>0. /\ DOMAIN pc = Machines /\ DOMAIN on = Machines
  BY DEF IInv, MachineTypes
<1>s. sent \in Nat /\ sent' \in Nat /\ sent <= sent' /\ 1..sent \subseteq 1..sent'
  <2>1. sent \in Nat /\ QueueStep
    BY StepsOfTheQueue DEF IInv, QueueInv, QueueTypes
  <2>2. sent' \in Nat /\ sent <= sent'
    BY <2>1, SentGrows DEF IInv
  <2> QED BY <2>1, <2>2
<1>1. ASSUME NEW x \in Machines, pc'[x] = pc[x], on'[x] = on[x],
             pc'[x] \in {"supplying", "supplying for"}
      PROVE  on'[x] \in 1..sent'
  BY <1>s, <1>1 DEF OwedRight, IInv
<1>2. ASSUME NEW m \in Machines, NEW where, Goes(m, where),
             where \notin {"supplying", "supplying for"},
             \A x \in Machines \ {m} : on'[x] = on[x]
      PROVE  OwedRight'
  <2>1. pc'[m] = where /\ \A x \in Machines \ {m} : pc'[x] = pc[x]
    BY <1>0, <1>2 DEF Goes
  <2> QED BY <1>1, <1>2, <2>1 DEF OwedRight
<1>3. ASSUME UNCHANGED <<pc, on>> PROVE OwedRight'
  BY <1>1, <1>3 DEF OwedRight
<1>4. ASSUME NEW m \in Machines, NEW timed \in BOOLEAN, Supply(m, timed)
      PROVE  OwedRight'
  <2>1. CASE Holding(m)
    BY <1>3, <1>4, <2>1 DEF Supply
  <2>2. CASE ~Holding(m)
    <3>1. /\ on' = [on EXCEPT ![m] = sent + 1] /\ sent' = sent + 1
          /\ \A x \in Machines \ {m} : pc'[x] = pc[x]
      BY <1>0, <1>4, <2>2 DEF Supply, Goes, PushLocked
    <3>2. on'[m] \in 1..sent' /\ \A x \in Machines \ {m} : on'[x] = on[x]
      BY <1>0, <1>s, <3>1
    <3> QED BY <1>1, <3>1, <3>2 DEF OwedRight
  <2> QED BY <2>1, <2>2
<1>5. ASSUME NEW m \in Machines, NEW timed \in BOOLEAN, Demand(m, timed)
      PROVE  OwedRight'
  <2>1. \/ UNCHANGED <<pc, on>>
        \/ \E where : /\ Goes(m, where) /\ UNCHANGED on
                      /\ where \notin {"supplying", "supplying for"}
    <3>1. "demanding" \notin {"supplying", "supplying for"}
          /\ "demanding for" \notin {"supplying", "supplying for"}
      OBVIOUS
    <3>2. \/ UNCHANGED <<pc, on>>
          \/ UNCHANGED on /\ Goes(m, IF timed THEN "demanding for" ELSE "demanding")
      BY <1>5 DEF Demand
    <3> QED BY <3>1, <3>2
  <2> QED BY <1>2, <1>3, <2>1
<1>6. ASSUME NEW m \in Machines, Pop(m) \/ Clear(m) \/ Atomic(m) \/ AtomicEnd(m)
      PROVE  OwedRight'
  BY <1>3, <1>6 DEF Pop, Clear, Atomic, AtomicEnd
<1>7. ASSUME NEW m \in Machines,
             Push(m) \/ Tell(m) \/ Take(m) \/ Retain(m) \/ DropWrapper(m)
             \/ DropWalk(m) \/ DemandLook(m) \/ LetGo(m)
      PROVE  OwedRight'
  <2>1. \E where : /\ Goes(m, where) /\ UNCHANGED on
                   /\ where \notin {"supplying", "supplying for"}
    <3>1. \E where \in {"idle", "telling", "taking", "retaining"} \cup LettingGo :
              Goes(m, where) /\ UNCHANGED on
      BY <1>7 DEF Push, Tell, Take, Retain, DropWrapper, DropWalk, DemandLook,
         LetGo, TellsAll, GoesOn, LettingGo
    <3> QED BY <3>1 DEF LettingGo
  <2> QED BY <1>2, <2>1
<1>8. ASSUME NEW m \in Machines,
             Awaitable(m) \/ TakeStep(m) \/ DropJob(m) \/ SupplyLook(m)
             \/ AskOnce(m) \/ LookAgain(m)
      PROVE  OwedRight'
  <2>1. \E where : Goes(m, where) /\ where \notin {"supplying", "supplying for"}
    <3>1. \E where \in {"idle", "taking", "yielded", "parked"} : Goes(m, where)
      BY <1>8 DEF Awaitable, TakeStep, DropJob, SupplyLook, AskOnce, LookAgain,
         GoesOn
    <3> QED BY <3>1
  <2>2. \/ UNCHANGED on
        \/ \E number : on' = [on EXCEPT ![m] = number]
    BY <1>8 DEF Awaitable, TakeStep, DropJob, SupplyLook, AskOnce, LookAgain, Arm
  <2> QED BY <1>0, <1>2, <2>1, <2>2
<1>9. CASE UNCHANGED vars
  BY <1>3, <1>9 DEF vars
<1> QED
  BY <1>4, <1>5, <1>6, <1>7, <1>8, <1>9 DEF Next, Begins, GoesOnWith

(* What one machine's place says of its holds.                              *)
PlaceRight(m) ==
    /\ pc[m] \in Waiting \cup {"retaining", "letting go of the value"}
         => m \in wrapper
    /\ Holding(m) => m \in wrapper
    /\ pc[m] = "retaining" => walk[m] = "none"
    /\ pc[m] = "taking" => walk[m] = "live"
    /\ pc[m] = "letting go of the walk" => walk[m] = "dead"

(* Every step keeps the holds where the places say they are.                *)
LEMMA PlacesNext == ASSUME IInv, [Next]_vars PROVE PlacesRight'
<1>0. /\ DOMAIN pc = Machines /\ DOMAIN walk = Machines /\ NoOne \notin Machines
      /\ \A m \in Machines : PlaceRight(m)
  BY Bounds DEF IInv, MachineTypes, PlacesRight, PlaceRight
<1>g. SUFFICES \A m \in Machines : PlaceRight(m)'
  BY DEF PlacesRight, PlaceRight, Holding
<1>1. ASSUME NEW m \in Machines, NEW where, Goes(m, where),
             UNCHANGED walk \/ \E how : walk' = [walk EXCEPT ![m] = how],
             UNCHANGED wrapper \/ wrapper' = wrapper \ {m},
             UNCHANGED atomic_owner,
             PlaceRight(m)'
      PROVE  \A x \in Machines : PlaceRight(x)'
  <2>1. ASSUME NEW x \in Machines \ {m} PROVE PlaceRight(x)'
    <3>1. /\ pc'[x] = pc[x] /\ walk'[x] = walk[x] /\ atomic_owner' = atomic_owner
          /\ x \in wrapper' <=> x \in wrapper
      BY <1>0, <1>1 DEF Goes
    <3> QED BY <1>0, <3>1 DEF PlaceRight, Holding
  <2> QED BY <1>1, <2>1
<1>2. ASSUME UNCHANGED <<pc, walk, wrapper>>,
             \/ UNCHANGED atomic_owner \/ atomic_owner' = NoOne
             \/ atomic_owner' \in wrapper
      PROVE  \A x \in Machines : PlaceRight(x)'
  BY <1>0, <1>2 DEF PlaceRight, Holding
<1>3. ASSUME NEW m \in Machines,
             \/ Push(m) \/ Tell(m) \/ SupplyLook(m) \/ DemandLook(m)
             \/ Awaitable(m) \/ AskOnce(m) \/ LookAgain(m)
      PROVE  \A x \in Machines : PlaceRight(x)'
  <2>1. /\ UNCHANGED <<wrapper, walk, atomic_owner>>
        /\ \/ Goes(m, "idle") \/ Goes(m, "telling") \/ Goes(m, "yielded")
           \/ Goes(m, "parked") \/ (walk[m] = "live" /\ Goes(m, "taking"))
    BY <1>3 DEF Push, Tell, SupplyLook, DemandLook, Awaitable, AskOnce, LookAgain,
       TellsAll, GoesOn, holdVars
  <2>2. \E where \in {"idle", "telling", "yielded", "parked", "taking"} :
           Goes(m, where) /\ (where = "taking" => walk[m] = "live")
    BY <2>1
  <2>3. PlaceRight(m)'
    BY <1>0, <2>1, <2>2 DEF Goes, PlaceRight, Holding, Waiting
  <2> QED BY <1>1, <2>1, <2>2, <2>3
<1>4. ASSUME NEW m \in Machines, NEW timed \in BOOLEAN,
             Supply(m, timed) \/ Demand(m, timed)
      PROVE  \A x \in Machines : PlaceRight(x)'
  <2>1. /\ UNCHANGED <<wrapper, walk, atomic_owner>> /\ m \in wrapper
        /\ \/ UNCHANGED pc
           \/ \E where \in Waiting : Goes(m, where)
    BY <1>4 DEF Supply, Demand, Calls, Waiting, holdVars
  <2>2. CASE UNCHANGED pc
    BY <1>2, <2>1, <2>2
  <2>3. CASE \E where \in Waiting : Goes(m, where)
    <3>1. PlaceRight(m)'
      BY <1>0, <2>1, <2>3 DEF Goes, PlaceRight, Holding, Waiting
    <3> QED BY <1>1, <2>1, <2>3, <3>1
  <2> QED BY <2>1, <2>2, <2>3
<1>5. ASSUME NEW m \in Machines, Pop(m) \/ Clear(m) \/ Atomic(m) \/ AtomicEnd(m)
      PROVE  \A x \in Machines : PlaceRight(x)'
  <2>1. /\ UNCHANGED <<pc, walk, wrapper>>
        /\ \/ UNCHANGED atomic_owner \/ atomic_owner' = NoOne
           \/ atomic_owner' \in wrapper
    BY <1>5 DEF Pop, Clear, Atomic, AtomicEnd, Calls, holdVars
  <2> QED BY <1>2, <2>1
<1>6. ASSUME NEW m \in Machines, Take(m) \/ DropWrapper(m) \/ DropWalk(m)
      PROVE  \A x \in Machines : PlaceRight(x)'
  <2>1. /\ UNCHANGED <<wrapper, walk, atomic_owner>>
        /\ \/ Goes(m, "retaining") /\ m \in wrapper /\ walk[m] = "none"
           \/ Goes(m, "letting go of the value") /\ m \in wrapper
           \/ Goes(m, "letting go of the walk") /\ walk[m] = "dead"
    BY <1>6 DEF Take, DropWrapper, DropWalk, Calls, holdVars
  <2>2. PlaceRight(m)'
    BY <1>0, <2>1 DEF Goes, PlaceRight, Holding, Waiting
  <2> QED BY <1>1, <2>1, <2>2
<1>7. ASSUME NEW m \in Machines, Retain(m) PROVE \A x \in Machines : PlaceRight(x)'
  <2>1. /\ UNCHANGED <<wrapper, atomic_owner>> /\ Goes(m, "taking")
        /\ walk' = [walk EXCEPT ![m] = "live"] /\ atomic_owner = NoOne
    BY <1>7 DEF Retain, MayLock
  <2>2. PlaceRight(m)'
    BY <1>0, <2>1 DEF Goes, PlaceRight, Holding, Waiting
  <2> QED BY <1>1, <2>1, <2>2
<1>8. ASSUME NEW m \in Machines, TakeStep(m) PROVE \A x \in Machines : PlaceRight(x)'
  <2>1. /\ UNCHANGED <<wrapper, atomic_owner>> /\ atomic_owner = NoOne
        /\ Goes(m, "idle") \/ Goes(m, "yielded")
        /\ UNCHANGED walk \/ walk' = [walk EXCEPT ![m] = "dead"]
    BY <1>8 DEF TakeStep, MayLock
  <2>2. PlaceRight(m)'
    BY <1>0, <2>1 DEF Goes, PlaceRight, Holding, Waiting
  <2> QED BY <1>1, <2>1, <2>2
<1>9. ASSUME NEW m \in Machines, DropJob(m) PROVE \A x \in Machines : PlaceRight(x)'
  <2>1. /\ UNCHANGED <<wrapper, atomic_owner>> /\ Goes(m, "idle")
        /\ \E how : walk' = [walk EXCEPT ![m] = how]
    BY <1>9 DEF DropJob
  <2>2. PlaceRight(m)'
    BY <1>0, <2>1 DEF Goes, PlaceRight, Holding, Waiting
  <2> QED BY <1>1, <2>1, <2>2
<1>10. ASSUME NEW m \in Machines, LetGo(m) PROVE \A x \in Machines : PlaceRight(x)'
  <2>1. CASE pc[m] = "letting go of the value"
    <3>1. /\ wrapper' = wrapper \ {m} /\ UNCHANGED <<walk, atomic_owner>>
          /\ atomic_owner = NoOne
          /\ \/ Goes(m, "idle") \/ Goes(m, "telling")
             \/ (walk[m] = "live" /\ Goes(m, "taking"))
      BY <1>10, <2>1 DEF LetGo, MayLock, TellsAll, GoesOn
    <3>2. PlaceRight(m)'
      BY <1>0, <3>1 DEF Goes, PlaceRight, Holding, Waiting
    <3> QED BY <1>1, <3>1, <3>2
  <2>2. CASE pc[m] = "letting go of the walk"
    <3>1. walk[m] = "dead"
      BY <1>0, <2>2 DEF PlaceRight
    <3>2. /\ UNCHANGED <<wrapper, atomic_owner>> /\ atomic_owner = NoOne
          /\ walk' = [walk EXCEPT ![m] = "none"]
          /\ Goes(m, "idle") \/ Goes(m, "telling")
      BY <1>10, <2>2, <3>1 DEF LetGo, MayLock, TellsAll, GoesOn
    <3>3. PlaceRight(m)'
      BY <1>0, <3>2 DEF Goes, PlaceRight, Holding, Waiting
    <3> QED BY <1>1, <3>2, <3>3
  <2> QED BY <1>10, <2>1, <2>2 DEF LetGo
<1>11. CASE UNCHANGED vars
  BY <1>2, <1>11 DEF vars
<1> QED
  BY <1>3, <1>4, <1>5, <1>6, <1>7, <1>8, <1>9, <1>10, <1>11
  DEF Next, Begins, GoesOnWith

-----------------------------------------------------------------------------
(* The holds.                                                               *)
HoldsTypes ==
  /\ Walkers \subseteq Machines /\ IsFiniteSet(Walkers)
  /\ wrapper \subseteq Machines /\ IsFiniteSet(wrapper)
  /\ Cardinality(wrapper) \in Nat /\ Cardinality(Walkers) \in Nat

(* The sets of holders are finite.                                          *)
LEMMA HoldsAreFinite == ASSUME MachineTypes PROVE HoldsTypes
<1>1. IsFiniteSet(Machines) /\ wrapper \subseteq Machines /\ Walkers \subseteq Machines
  BY ChannelAssumption DEF ChannelAssumption, MachineTypes, Walkers
<1> QED BY <1>1, FS_Subset, FS_CardinalityType DEF HoldsTypes

(* One hold for each machine at the start.                                  *)
LEMMA HoldsInit == ASSUME Init PROVE HoldsCounted
<1>1. wrapper = Machines /\ Walkers = {} /\ holds = Cardinality(Machines)
  BY DEF Init, Walkers
<1>2. Cardinality(Walkers) = 0 /\ Cardinality(Machines) \in Nat
  BY <1>1, ChannelAssumption, FS_EmptySet, FS_CardinalityType DEF ChannelAssumption
<1> QED BY <1>1, <1>2 DEF HoldsCounted

(* A hold is taken and given back exactly with what it stands for.          *)
LEMMA HoldsNext == ASSUME IInv, [Next]_vars PROVE HoldsCounted'
<1>0. /\ HoldsTypes /\ holds = Cardinality(wrapper) + Cardinality(Walkers)
      /\ DOMAIN walk = Machines
  BY HoldsAreFinite DEF IInv, HoldsCounted, MachineTypes
<1>1. ASSUME UNCHANGED <<holds, wrapper>>, Walkers' = Walkers PROVE HoldsCounted'
  BY <1>0, <1>1 DEF HoldsCounted
<1>2. ASSUME NEW m \in Machines, Retain(m) PROVE HoldsCounted'
  <2>1. walk[m] = "none"
    BY <1>2 DEF Retain, IInv, PlacesRight
  <2>2. Walkers' = Walkers \cup {m} /\ m \notin Walkers
    BY <1>0, <1>2, <2>1 DEF Retain, Walkers
  <2>3. Cardinality(Walkers') = Cardinality(Walkers) + 1
    BY <1>0, <2>2, FS_AddElement DEF HoldsTypes
  <2>4. holds' = holds + 1 /\ wrapper' = wrapper
    BY <1>2 DEF Retain
  <2> QED BY <1>0, <2>3, <2>4 DEF HoldsCounted, HoldsTypes
<1>3. ASSUME NEW m \in Machines, LetGo(m) PROVE HoldsCounted'
  <2>1. CASE pc[m] = "letting go of the value"
    <3>1. m \in wrapper
      BY <2>1 DEF IInv, PlacesRight
    <3>2. /\ wrapper' = wrapper \ {m} /\ Walkers' = Walkers /\ holds' = holds - 1
      BY <1>3, <2>1 DEF LetGo, Walkers
    <3>3. Cardinality(wrapper') = Cardinality(wrapper) - 1
      BY <1>0, <3>1, <3>2, FS_RemoveElement DEF HoldsTypes
    <3> QED BY <1>0, <3>2, <3>3 DEF HoldsCounted, HoldsTypes
  <2>2. CASE pc[m] = "letting go of the walk"
    <3>1. walk[m] = "dead"
      BY <2>2 DEF IInv, PlacesRight
    <3>2. /\ wrapper' = wrapper /\ holds' = holds - 1
          /\ walk' = [walk EXCEPT ![m] = "none"]
      BY <1>3, <2>2 DEF LetGo
    <3>3. Walkers' = Walkers \ {m} /\ m \in Walkers
      BY <1>0, <3>1, <3>2 DEF Walkers
    <3>4. Cardinality(Walkers') = Cardinality(Walkers) - 1
      BY <1>0, <3>3, FS_RemoveElement DEF HoldsTypes
    <3> QED BY <1>0, <3>2, <3>4 DEF HoldsCounted, HoldsTypes
  <2> QED BY <1>3, <2>1, <2>2 DEF LetGo
<1>4. ASSUME NEW m \in Machines, TakeStep(m) \/ DropJob(m) PROVE HoldsCounted'
  <2>1. UNCHANGED <<holds, wrapper>>
    BY <1>4 DEF TakeStep, DropJob
  <2>2. UNCHANGED walk \/ (walk' = [walk EXCEPT ![m] = "dead"] /\ walk[m] = "live")
    <3>1. CASE TakeStep(m)
      BY <3>1 DEF TakeStep, IInv, PlacesRight
    <3>2. CASE DropJob(m) /\ walk[m] = "live"
      BY <3>2 DEF DropJob
    <3>3. CASE DropJob(m) /\ walk[m] # "live"
      <4>1. walk' = [walk EXCEPT ![m] = walk[m]] /\ walk \in [Machines -> {"none", "live", "dead"}]
        BY <3>3 DEF DropJob, IInv, MachineTypes
      <4> QED BY <4>1
    <3> QED BY <1>4, <3>1, <3>2, <3>3
  <2>3. Walkers' = Walkers
    BY <1>0, <2>2 DEF Walkers
  <2> QED BY <1>1, <2>1, <2>3
<1>5. ASSUME UNCHANGED <<holds, wrapper, walk>> PROVE HoldsCounted'
  BY <1>1, <1>5 DEF Walkers
<1>6. ASSUME NEW m \in Machines,
             \/ Push(m) \/ Pop(m) \/ Clear(m) \/ Awaitable(m) \/ Atomic(m)
             \/ Take(m) \/ DropWrapper(m) \/ DropWalk(m) \/ Tell(m)
             \/ SupplyLook(m) \/ DemandLook(m) \/ AtomicEnd(m) \/ AskOnce(m)
             \/ LookAgain(m)
             \/ \E timed \in BOOLEAN : Supply(m, timed) \/ Demand(m, timed)
      PROVE  HoldsCounted'
  <2>1. UNCHANGED holdVars
    BY <1>6 DEF Push, Pop, Clear, Awaitable, Atomic, Take, DropWrapper, DropWalk,
       Tell, SupplyLook, DemandLook, AtomicEnd, AskOnce, LookAgain, Supply, Demand
  <2> QED BY <1>5, <2>1 DEF holdVars
<1>7. CASE UNCHANGED vars
  BY <1>5, <1>7 DEF vars
<1> QED
  BY <1>2, <1>3, <1>4, <1>6, <1>7 DEF Next, Begins, GoesOnWith

-----------------------------------------------------------------------------
(* The waits.                                                               *)
Awaits(m) == pc[m] \in {"yielded", "parked"} /\ Answered(m, on[m]) = "outstanding"

Listed(id) ==
  \/ id \in Range(waiters)
  \/ \E teller \in Machines : id \in Range(telling[teller])

(* A wait leaves its list only to be told.                                  *)
LEMMA ListedNext == ASSUME IInv, [Next]_vars PROVE EveryWaitIsListed'
<1>0. /\ DOMAIN pc = Machines /\ DOMAIN on = Machines /\ DOMAIN telling = Machines
      /\ waiters \in Seq(1..MaxWaits)
      /\ \A m \in Machines : telling[m] \in Seq(1..MaxWaits)
      /\ \A m \in Machines : Awaits(m) => Listed(on[m])
      /\ \A m \in Machines : pc[m] = "telling" <=> telling[m] # <<>>
  BY DEF IInv, MachineTypes, EveryWaitIsListed, Awaits, Listed, TellingRight
<1>g. SUFFICES \A m \in Machines : Awaits(m)' => Listed(on[m])'
  BY DEF EveryWaitIsListed, Awaits, Listed, Answered, Outstanding
<1>1. ASSUME UNCHANGED <<waiters, telling>>,
             \A x \in Machines : Awaits(x)' => Awaits(x) /\ on'[x] = on[x]
      PROVE  \A x \in Machines : Awaits(x)' => Listed(on[x])'
  BY <1>0, <1>1 DEF Listed
<1>2. ASSUME NEW m \in Machines, TellsAll(m), UNCHANGED <<waits, on>>,
             pc[m] # "telling"
      PROVE  \A x \in Machines : Awaits(x)' => Listed(on[x])'
  <2> SUFFICES ASSUME NEW x \in Machines, Awaits(x)' PROVE Listed(on[x])'
    OBVIOUS
  <2>1. Awaits(x) /\ on'[x] = on[x]
    BY <1>0, <1>2 DEF Awaits, TellsAll, Goes, Answered, Outstanding
  <2>2. CASE on[x] \in Range(waiters)
    BY <1>0, <1>2, <2>1, <2>2 DEF TellsAll, Listed
  <2>3. ASSUME NEW t \in Machines, on[x] \in Range(telling[t]) PROVE Listed(on[x])'
    <3>1. t # m
      BY <1>0, <1>2, <2>3 DEF Range
    <3> QED BY <1>0, <1>2, <2>1, <2>3, <3>1 DEF TellsAll, Listed
  <2> QED BY <1>0, <2>1, <2>2, <2>3 DEF Listed
<1>3. ASSUME NEW m \in Machines, CanArm, Arm(m), Goes(m, "yielded"), UNCHANGED telling
      PROVE  \A x \in Machines : Awaits(x)' => Listed(on[x])'
  <2>1. next_id \in 1..MaxWaits
    <3>1. next_id \in 1..MaxWaits + 1 /\ MaxWaits \in Nat
      BY Bounds DEF IInv, MachineTypes
    <3> QED BY <1>3, <3>1 DEF CanArm
  <2>2. Range(waiters') = Range(waiters) \cup {next_id}
    <3>1. waiters' = Append(waiters, next_id)
      BY <1>3 DEF Arm
    <3>2. Range(Append(waiters, next_id)) = Range(waiters) \cup {next_id}
      <4> DEFINE Ids == 1..MaxWaits
      <4>1. waiters \in Seq(Ids) /\ next_id \in Ids
        BY <1>0, <2>1
      <4> HIDE DEF Ids
      <4> QED BY <4>1, AppendRange
    <3> QED BY <3>1, <3>2
  <2>3. on'[m] = next_id /\ \A x \in Machines \ {m} : on'[x] = on[x] /\ pc'[x] = pc[x]
    BY <1>0, <1>3 DEF Arm, Goes
  <2>4. ASSUME NEW x \in Machines \ {m}, Awaits(x)' PROVE Awaits(x)
    BY <1>3, <2>3, <2>4 DEF Arm, Awaits, Answered, Outstanding
  <2> QED BY <1>0, <1>3, <2>2, <2>3, <2>4 DEF Listed
<1>4. ASSUME NEW m \in Machines, Push(m)
      PROVE  \A x \in Machines : Awaits(x)' => Listed(on[x])'
  BY <1>2, <1>4 DEF Push, Calls, asyncVars
<1>5. ASSUME NEW m \in Machines, Awaitable(m)
      PROVE  \A x \in Machines : Awaits(x)' => Listed(on[x])'
  BY <1>3, <1>5 DEF Awaitable
<1>6. ASSUME NEW m \in Machines, LetGo(m)
      PROVE  \A x \in Machines : Awaits(x)' => Listed(on[x])'
  <2>1. CASE holds = 1
    BY <1>2, <1>6, <2>1 DEF LetGo, asyncVars
  <2>2. CASE holds # 1
    <3>1. /\ UNCHANGED <<waiters, telling, waits, on>>
          /\ pc' = [pc EXCEPT ![m] = IF walk[m] = "live" THEN "taking" ELSE "idle"]
      BY <1>6, <2>2 DEF LetGo, GoesOn, Goes, asyncVars
    <3> QED BY <1>0, <1>1, <3>1 DEF Awaits, Answered, Outstanding
  <2> QED BY <2>1, <2>2
<1>7. ASSUME NEW m \in Machines, TakeStep(m)
      PROVE  \A x \in Machines : Awaits(x)' => Listed(on[x])'
  <2>1. CASE CanArm /\ Arm(m) /\ Goes(m, "yielded")
    BY <1>3, <1>7, <2>1 DEF TakeStep
  <2>2. CASE Goes(m, "idle") /\ UNCHANGED <<asyncVars, waiters, on, telling>>
    BY <1>0, <1>1, <2>2 DEF Goes, Awaits, Answered, Outstanding, asyncVars
  <2> QED BY <1>7, <2>1, <2>2 DEF TakeStep
<1>8. ASSUME NEW m \in Machines, Tell(m)
      PROVE  \A x \in Machines : Awaits(x)' => Listed(on[x])'
  <2> DEFINE told == Head(telling[m])
  <2>1. telling[m] # <<>> /\ telling[m] \in Seq(1..MaxWaits)
    BY <1>0, <1>8 DEF Tell
  <2>2. Range(telling[m]) = {told} \cup Range(Tail(telling[m]))
    BY <2>1, TailRange
  <2>3. telling' = [telling EXCEPT ![m] = Tail(telling[m])]
    BY <1>8 DEF Tell
  <2>4. ASSUME NEW id, Listed(id), id # told PROVE Listed(id)'
    <3>1. CASE id \in Range(waiters)
      BY <1>8, <3>1 DEF Tell, Listed
    <3>2. ASSUME NEW t \in Machines, id \in Range(telling[t]) PROVE Listed(id)'
      <4>1. id \in Range(telling'[t])
        BY <1>0, <2>2, <2>3, <2>4, <3>2
      <4> QED BY <4>1 DEF Listed
    <3> QED BY <2>4, <3>1, <3>2 DEF Listed
  <2>5. ASSUME NEW x \in Machines, Awaits(x)' PROVE Awaits(x) /\ on[x] # told
    <3>1. pc[x] \in {"yielded", "parked"}
      BY <1>0, <1>8, <2>5 DEF Tell, Goes, Awaits
    <3>2. UNCHANGED on /\ DOMAIN waits' = DOMAIN waits
      BY <1>8 DEF Tell, Outstanding
    <3>3. /\ on[x] \in DOMAIN waits /\ waits'[on[x]].owner = x
          /\ ~waits'[on[x]].ready
      BY <2>5, <3>2 DEF Awaits, Answered, Outstanding
    <3>4. waits[on[x]] \in [owner : Machines, ready : BOOLEAN]
      BY <3>3 DEF IInv, MachineTypes, Outstanding
    <3>5. on[x] # told
      BY <1>8, <3>3, <3>4 DEF Tell, Outstanding
    <3>6. waits'[on[x]] = waits[on[x]]
      BY <1>8, <3>3, <3>5 DEF Tell, Outstanding
    <3> QED BY <3>1, <3>3, <3>5, <3>6 DEF Awaits, Answered, Outstanding
  <2>6. UNCHANGED on
    BY <1>8 DEF Tell
  <2> HIDE DEF told
  <2>7. ASSUME NEW x \in Machines, Awaits(x)' PROVE Listed(on[x])'
    <3>1. Listed(on[x]) /\ on[x] # told
      BY <1>0, <2>5, <2>7
    <3>2. ASSUME NEW k, Listed(k), k # told, k = on[x] PROVE Listed(on[x])'
      <4>1. k \in Range(waiters') \/ \E t \in Machines : k \in Range(telling'[t])
        BY <2>4, <3>2 DEF Listed
      <4> QED BY <2>6, <3>2, <4>1 DEF Listed
    <3> QED BY <3>1, <3>2
  <2> QED BY <2>7
<1>9. ASSUME NEW m \in Machines, AskOnce(m) \/ LookAgain(m)
      PROVE  \A x \in Machines : Awaits(x)' => Listed(on[x])'
  <2>1. TakeWait(m, on[m]) /\ UNCHANGED <<waiters, telling>>
    BY <1>9 DEF AskOnce, LookAgain
  <2>2. ASSUME NEW x \in Machines, Awaits(x)' PROVE Awaits(x) /\ on'[x] = on[x]
    <3>1. /\ on'[x] = on[x] /\ pc[x] \in {"yielded", "parked"}
      BY <1>0, <1>9, <2>2 DEF AskOnce, LookAgain, GoesOn, Goes, Awaits
    <3>2. Answered(x, on[x]) = "outstanding"
      BY <2>1, <2>2, <3>1 DEF Awaits, TakeWait, Answered, Outstanding
    <3> QED BY <3>1, <3>2 DEF Awaits
  <2> QED BY <1>1, <2>1, <2>2
<1>10. ASSUME NEW m \in Machines,
              \/ \E timed \in BOOLEAN : Supply(m, timed) \/ Demand(m, timed)
              \/ SupplyLook(m) \/ DemandLook(m) \/ Take(m) \/ Retain(m)
              \/ DropJob(m) \/ DropWrapper(m) \/ DropWalk(m)
              \/ Pop(m) \/ Clear(m) \/ Atomic(m) \/ AtomicEnd(m)
       PROVE  \A x \in Machines : Awaits(x)' => Listed(on[x])'
  <2>1. UNCHANGED <<waiters, telling, waits>>
    BY <1>10 DEF Supply, Demand, SupplyLook, DemandLook, Take, Retain, DropJob,
       DropWrapper, DropWalk, Pop, Clear, Atomic, AtomicEnd, asyncVars
  <2>2. \/ UNCHANGED <<pc, on>>
        \/ \E where \in Waiting \cup {"idle", "retaining", "taking"} \cup LettingGo :
              Goes(m, where)
    BY <1>10 DEF Supply, Demand, SupplyLook, DemandLook, Take, Retain, DropJob,
       DropWrapper, DropWalk, Pop, Clear, Atomic, AtomicEnd, Waiting, LettingGo
  <2>3. \A x \in Machines \ {m} : on'[x] = on[x]
    BY <1>0, <1>10 DEF Supply, Demand, SupplyLook, DemandLook, Take, Retain, DropJob,
       DropWrapper, DropWalk, Pop, Clear, Atomic, AtomicEnd
  <2>4. ASSUME NEW x \in Machines, Awaits(x)' PROVE Awaits(x) /\ on'[x] = on[x]
    <3>1. pc'[x] = pc[x] /\ on'[x] = on[x]
      BY <1>0, <2>2, <2>3, <2>4 DEF Goes, Awaits, Waiting, LettingGo
    <3> QED BY <2>1, <2>4, <3>1 DEF Awaits, Answered, Outstanding
  <2> QED BY <1>1, <2>1, <2>4
<1>11. CASE UNCHANGED vars
  BY <1>1, <1>11 DEF vars, Awaits, Answered, Outstanding
<1> QED
  BY <1>4, <1>5, <1>6, <1>7, <1>8, <1>9, <1>10, <1>11 DEF Next, Begins, GoesOnWith

-----------------------------------------------------------------------------
(* The invariant, and what it gives.                                        *)
LEMMA IInvInit == ASSUME Init PROVE IInv
<1>1. TellingRight /\ OwedRight
  BY DEF Init, TellingRight, OwedRight
<1>2. PlacesRight
  BY Bounds DEF Init, PlacesRight, Holding, Waiting
<1>3. EveryWaitIsListed
  BY DEF Init, EveryWaitIsListed
<1> QED BY <1>1, <1>2, <1>3, QueueInit, TypesInit, HoldsInit DEF IInv

(* ...and after every step...                                               *)
LEMMA IInvNext == ASSUME IInv, [Next]_vars PROVE IInv'
<1>1. QueueInv'
  BY StepsOfTheQueue, QueueNext DEF IInv
<1> QED
  BY <1>1, TypesNext, TellingNext, OwedNext, PlacesNext, HoldsNext, ListedNext DEF IInv

(* ...so always: the one inductive invariant of the channel.                *)
THEOREM IInvHolds == Spec => []IInv
BY IInvInit, IInvNext, PTL DEF Spec

(* TypeOK, for any number of machines: no ring overflows, no hold is given  *)
(* back that was not taken (channel.c:45-48, 190-209).                      *)
THEOREM ChannelTypes == Spec => []TypeOK
<1>1. IInv => TypeOK
  <2> SUFFICES ASSUME IInv PROVE TypeOK
    OBVIOUS
  <2>1. holds \in Nat
    BY HoldsAreFinite DEF IInv, HoldsCounted, HoldsTypes
  <2>2. QueueTypes /\ MachineTypes
    BY DEF IInv, QueueInv
  <2> QED BY <2>1, <2>2 DEF QueueTypes, MachineTypes, TypeOK
<1> QED BY <1>1, IInvHolds, PTL

(* A job that waits for an arrival stays on a list until it is told, for    *)
(* any number of machines, waits and pushes at once (channel.c:91-109).     *)
THEOREM NobodyForgotten == Spec => []EveryWaitIsListed
<1>1. IInv => EveryWaitIsListed
  BY DEF IInv
<1> QED BY <1>1, IInvHolds, PTL

(* The channel is never freed under a machine that is in the middle of a    *)
(* call, walks a take() or holds its lock (channel.c:190-209).              *)
THEOREM UsedHeld == Spec => []UsedWhileHeld
<1>1. IInv => UsedWhileHeld
  <2> SUFFICES ASSUME IInv, NEW m \in Machines,
                      \/ pc[m] \in Waiting \cup {"taking"}
                      \/ pc[m] \in {"yielded", "parked"} /\ walk[m] = "live"
                      \/ Holding(m)
               PROVE  holds > 0
    BY DEF UsedWhileHeld
  <2>1. m \in wrapper \/ m \in Walkers
    BY DEF IInv, PlacesRight, Walkers
  <2>2. HoldsTypes /\ holds = Cardinality(wrapper) + Cardinality(Walkers)
    BY HoldsAreFinite DEF IInv, HoldsCounted
  <2>3. ASSUME NEW S, IsFiniteSet(S), m \in S PROVE Cardinality(S) > 0
    BY <2>3, FS_EmptySet, FS_CardinalityType
  <2> QED BY <2>1, <2>2, <2>3 DEF HoldsTypes
<1> QED BY <1>1, IInvHolds, PTL

(* With no supply() beside parked jobs, a value in the channel means an      *)
(* empty list of waits.                                                     *)
Calm == count = 0 \/ waiters = <<>>

(* Nobody on the list waits beside a value, for any number of machines      *)
(* (channel.c:736-738), where supply() is not called beside parked jobs.    *)
THEOREM NobodyBesideAValue ==
  ASSUME ~MaySupplyParked PROVE Spec => []NobodyWaitsBesideAValue
<1>1. Init => Calm
  BY DEF Init, Calm
<1>2. Calm /\ [Next]_vars => Calm'
  <2> SUFFICES ASSUME Calm, [Next]_vars PROVE Calm'
    OBVIOUS
  <2>1. ASSUME UNCHANGED <<count, waiters>> PROVE Calm'
    BY <2>1 DEF Calm
  <2>2. ASSUME count' = 0 PROVE Calm'
    BY <2>2 DEF Calm
  <2>3. ASSUME waiters' = <<>> PROVE Calm'
    BY <2>3 DEF Calm
  <2>4. ASSUME PopLocked, UNCHANGED waiters PROVE Calm'
    BY <2>4 DEF PopLocked, Calm
  <2>5. ASSUME NEW m \in Machines, Push(m) \/ LetGo(m) \/ Clear(m) PROVE Calm'
    BY <2>1, <2>2, <2>3, <2>5 DEF Push, LetGo, Clear, TellsAll, ClearLocked, queueVars
  <2>6. ASSUME NEW m \in Machines, NEW timed \in BOOLEAN, Supply(m, timed)
        PROVE  Calm'
    BY <2>3, <2>6 DEF Supply
  <2>7. ASSUME NEW m \in Machines, Awaitable(m) PROVE Calm'
    BY <2>2, <2>7 DEF Awaitable, queueVars
  <2>8. ASSUME NEW m \in Machines, TakeStep(m) PROVE Calm'
    BY <2>2, <2>4, <2>8 DEF TakeStep, queueVars
  <2>9. ASSUME NEW m \in Machines,
               \/ Pop(m) \/ DemandLook(m)
               \/ \E timed \in BOOLEAN : Demand(m, timed)
        PROVE  Calm'
    BY <2>1, <2>4, <2>9 DEF Pop, Demand, DemandLook, queueVars
  <2>10. ASSUME NEW m \in Machines,
                \/ Atomic(m) \/ AtomicEnd(m) \/ Take(m) \/ DropJob(m)
                \/ DropWrapper(m) \/ DropWalk(m) \/ Tell(m) \/ SupplyLook(m)
                \/ Retain(m) \/ AskOnce(m) \/ LookAgain(m)
         PROVE  Calm'
    BY <2>1, <2>10 DEF Atomic, AtomicEnd, Take, DropJob, DropWrapper, DropWalk, Tell,
       SupplyLook, Retain, AskOnce, LookAgain, queueVars
  <2>11. CASE UNCHANGED vars
    BY <2>1, <2>11 DEF vars
  <2> QED
    BY <2>5, <2>6, <2>7, <2>8, <2>9, <2>10, <2>11 DEF Next, Begins, GoesOnWith
<1>3. Calm => NobodyWaitsBesideAValue
  BY DEF Calm, NobodyWaitsBesideAValue, Range
<1> QED BY <1>1, <1>2, <1>3, PTL DEF Spec

-----------------------------------------------------------------------------
(* The mailbox: its queue is the numbers received + 1 .. sent.              *)
Numbers(r, s) == [i \in 1..s - r |-> r + i]

(* The sequence of the numbers r + 1 .. s.                                  *)
LEMMA NumbersAre ==
  ASSUME NEW r \in Nat, NEW s \in Nat, r <= s
  PROVE  /\ Numbers(r, s) \in Seq(Nat) /\ Len(Numbers(r, s)) = s - r
         /\ DOMAIN Numbers(r, s) = 1..s - r
         /\ \A i \in 1..s - r : Numbers(r, s)[i] = r + i
         /\ \A number : number \in Range(Numbers(r, s)) <=> number \in r + 1..s
<1>1. s - r \in Nat /\ \A i \in 1..s - r : r + i \in Nat
  OBVIOUS
<1>2. Numbers(r, s) \in [1..s - r -> Nat]
  BY <1>1 DEF Numbers
<1>3. Numbers(r, s) \in Seq(Nat) /\ Len(Numbers(r, s)) = s - r
  BY <1>1, <1>2, IsASeq, LenProperties DEF Numbers
<1>4. /\ DOMAIN Numbers(r, s) = 1..s - r
      /\ \A i \in 1..s - r : Numbers(r, s)[i] = r + i
  BY DEF Numbers
<1>5. ASSUME NEW number
      PROVE  number \in Range(Numbers(r, s)) <=> number \in r + 1..s
  <2>1. ASSUME number \in r + 1..s PROVE number \in Range(Numbers(r, s))
    <3>1. number - r \in 1..s - r /\ r + (number - r) = number
      BY <2>1
    <3> QED BY <1>4, <3>1 DEF Range
  <2>2. ASSUME number \in Range(Numbers(r, s)) PROVE number \in r + 1..s
    BY <1>4, <2>2 DEF Range
  <2> QED BY <2>1, <2>2
<1> QED BY <1>3, <1>4, <1>5

(* One more at the end.                                                     *)
LEMMA NumbersPut ==
  ASSUME NEW r \in Nat, NEW s \in Nat, r <= s
  PROVE  Numbers(r, s + 1) = Append(Numbers(r, s), s + 1)
<1> DEFINE q == Numbers(r, s)
<1>1. /\ q \in Seq(Nat) /\ Len(q) = s - r /\ s - r \in Nat /\ s + 1 \in Nat
      /\ \A i \in 1..s - r : q[i] = r + i
  BY NumbersAre
<1> HIDE DEF q
<1>2. /\ Append(q, s + 1) \in Seq(Nat) /\ Len(Append(q, s + 1)) = s - r + 1
      /\ \A i \in 1..s - r : Append(q, s + 1)[i] = r + i
      /\ Append(q, s + 1)[s - r + 1] = s + 1
  BY <1>1, AppendProperties
<1>3. /\ Numbers(r, s + 1) \in Seq(Nat) /\ Len(Numbers(r, s + 1)) = s - r + 1
      /\ \A i \in 1..s - r + 1 : Numbers(r, s + 1)[i] = r + i
  <2> DEFINE t == s + 1
  <2>1. t \in Nat /\ t - r = s - r + 1 /\ r <= t
    OBVIOUS
  <2> HIDE DEF t
  <2>2. /\ Numbers(r, t) \in Seq(Nat) /\ Len(Numbers(r, t)) = t - r
        /\ \A i \in 1..t - r : Numbers(r, t)[i] = r + i
    BY <2>1, NumbersAre
  <2>3. /\ Numbers(r, t) \in Seq(Nat) /\ Len(Numbers(r, t)) = s - r + 1
        /\ \A i \in 1..s - r + 1 : Numbers(r, t)[i] = r + i
    BY <2>1, <2>2
  <2> QED BY <2>3 DEF t
<1>4. \A i \in 1..s - r + 1 : Numbers(r, s + 1)[i] = Append(q, s + 1)[i]
  BY <1>1, <1>2, <1>3
<1> QED BY <1>2, <1>3, <1>4, SeqEqual DEF q

(* One less at the front.                                                   *)
LEMMA NumbersTaken ==
  ASSUME NEW r \in Nat, NEW s \in Nat, r < s
  PROVE  /\ Numbers(r, s) # <<>>
         /\ Numbers(r + 1, s) = Tail(Numbers(r, s))
<1> DEFINE q == Numbers(r, s)
<1>1. /\ q \in Seq(Nat) /\ Len(q) = s - r /\ s - r \in Nat \ {0} /\ r + 1 \in Nat
      /\ \A i \in 1..s - r : q[i] = r + i
  BY NumbersAre
<1>2. /\ Numbers(r + 1, s) \in Seq(Nat) /\ Len(Numbers(r + 1, s)) = s - r - 1
      /\ \A i \in 1..s - r - 1 : Numbers(r + 1, s)[i] = r + 1 + i
  <2> DEFINE t == r + 1
  <2>1. t \in Nat /\ s - t = s - r - 1 /\ t <= s
    OBVIOUS
  <2> HIDE DEF t
  <2>2. /\ Numbers(t, s) \in Seq(Nat) /\ Len(Numbers(t, s)) = s - t
        /\ \A i \in 1..s - t : Numbers(t, s)[i] = t + i
    BY <2>1, NumbersAre
  <2>3. /\ Numbers(t, s) \in Seq(Nat) /\ Len(Numbers(t, s)) = s - r - 1
        /\ \A i \in 1..s - r - 1 : Numbers(t, s)[i] = t + i
    BY <2>1, <2>2
  <2> QED BY <2>3 DEF t
<1> HIDE DEF q
<1>3. q # <<>>
  BY <1>1, EmptySeq
<1>4. /\ Tail(q) \in Seq(Nat) /\ Len(Tail(q)) = s - r - 1
      /\ \A i \in 1..s - r - 1 : Tail(q)[i] = q[i + 1]
  BY <1>1, <1>3, HeadTailProperties
<1>5. \A i \in 1..s - r - 1 : Numbers(r + 1, s)[i] = Tail(q)[i]
  BY <1>1, <1>2, <1>4
<1> QED BY <1>2, <1>3, <1>4, <1>5, SeqEqual DEF q

(* None left.                                                               *)
LEMMA NumbersGone == ASSUME NEW s \in Nat PROVE Numbers(s, s) = <<>>
BY NumbersAre, EmptySeq

OwedBy(m) == IF pc[m] \in {"supplying", "supplying for"} THEN on[m] ELSE 0
Owed == [m \in Machines |-> OwedBy(m)]

(* What the invariant says of the mailbox.                                  *)
LEMMA BoxState ==
  ASSUME IInv
  PROVE  /\ Contents = Numbers(received, sent)
         /\ received \in Nat /\ sent \in Nat /\ received <= sent
         /\ sent - received = count
         /\ answer \in [Machines -> {"none", "taken", "gave up"}]
         /\ \A m \in Machines :
                pc[m] \in {"supplying", "supplying for"} => on[m] \in 1..sent
<1>1. Contents = Numbers(received, sent)
  BY QueueInOrder DEF IInv, NumbersInOrder, Numbers
<1>2. /\ received \in Nat /\ sent \in Nat /\ received <= sent
      /\ sent - received = count
  BY DEF IInv, QueueInv, QueueTypes
<1>3. answer \in [Machines -> {"none", "taken", "gave up"}]
  BY DEF IInv, MachineTypes
<1> QED BY <1>1, <1>2, <1>3 DEF IInv, OwedRight

(* A step of the ring is a step of the mailbox's queue.                     *)
LEMMA BoxQueue ==
  ASSUME IInv, IInv'
  PROVE  /\ PushLocked => Contents' = Append(Contents, sent + 1) /\ sent' = sent + 1
         /\ PopLocked => /\ Contents # <<>> /\ Contents' = Tail(Contents)
                         /\ sent' = sent
         /\ ClearLocked => Contents' = <<>> /\ sent' = sent
         /\ UNCHANGED queueVars => UNCHANGED <<Contents, sent>>
<1>1. /\ Contents = Numbers(received, sent)
      /\ received \in Nat /\ sent \in Nat /\ received <= sent
      /\ sent - received = count
  BY BoxState
<1>2. Contents' = Numbers(received', sent')
  <2>1. QueueInv'
    BY DEF IInv
  <2>2. NumbersInOrder'
    BY <2>1, QueueInOrder, PTL
  <2> QED BY <2>2 DEF NumbersInOrder, Numbers
<1> HIDE DEF Contents
<1>3. ASSUME PushLocked
      PROVE  Contents' = Append(Contents, sent + 1) /\ sent' = sent + 1
  BY <1>1, <1>2, <1>3, NumbersPut DEF PushLocked
<1>4. ASSUME PopLocked
      PROVE  Contents # <<>> /\ Contents' = Tail(Contents) /\ sent' = sent
  <2>1. received < sent /\ received' = received + 1 /\ sent' = sent
    BY <1>1, <1>4 DEF PopLocked
  <2> QED BY <1>1, <1>2, <2>1, NumbersTaken
<1>5. ASSUME ClearLocked PROVE Contents' = <<>> /\ sent' = sent
  BY <1>1, <1>2, <1>5, NumbersGone DEF ClearLocked
<1>6. ASSUME UNCHANGED queueVars PROVE UNCHANGED <<Contents, sent>>
  BY <1>1, <1>2, <1>6 DEF queueVars
<1> QED BY <1>3, <1>4, <1>5, <1>6

(* Every step of the channel is a step of the mailbox or none.               *)
LEMMA BoxNext == ASSUME IInv, IInv', [Next]_vars PROVE [Mailbox!Next]_(Mailbox!boxVars)
<1>0. /\ DOMAIN pc = Machines /\ DOMAIN on = Machines /\ DOMAIN answer = Machines
      /\ sent \in Nat
  <2>1. DOMAIN pc = Machines /\ DOMAIN on = Machines /\ DOMAIN answer = Machines
    BY DEF IInv, MachineTypes
  <2>2. sent \in Nat
    BY BoxState
  <2> QED BY <2>1, <2>2
<1>q. /\ PushLocked => Contents' = Append(Contents, sent + 1) /\ sent' = sent + 1
      /\ PopLocked => /\ Contents # <<>> /\ Contents' = Tail(Contents)
                      /\ sent' = sent
      /\ ClearLocked => Contents' = <<>> /\ sent' = sent
      /\ UNCHANGED queueVars => UNCHANGED <<Contents, sent>>
  BY BoxQueue
<1> DEFINE Step == [Mailbox!Next]_(Mailbox!boxVars)
<1>1. /\ UNCHANGED <<Contents, sent, Owed, answer>> => Step
      /\ /\ Contents' = Append(Contents, sent + 1) /\ sent' = sent + 1
         /\ UNCHANGED <<Owed, answer>>
         => Step
      /\ Contents # <<>> /\ Contents' = Tail(Contents) /\ UNCHANGED <<sent, Owed, answer>>
         => Step
      /\ Contents' = <<>> /\ UNCHANGED <<sent, Owed, answer>> => Step
  BY DEF Mailbox!boxVars, Mailbox!Next, Mailbox!Push, Mailbox!Put, Mailbox!TakeFirst,
     Mailbox!Empty, Owed, OwedBy
<1>2. ASSUME NEW m \in Machines, Owed[m] = 0,
             Contents' = Append(Contents, sent + 1), sent' = sent + 1,
             \/ /\ Owed' = [Owed EXCEPT ![m] = sent + 1]
                /\ answer' = [answer EXCEPT ![m] = "none"]
             \/ /\ answer' = [answer EXCEPT ![m] = "gave up"] /\ UNCHANGED Owed
      PROVE  Step
  BY <1>2 DEF Mailbox!Next, Mailbox!Supply, Mailbox!SupplyInside, Mailbox!Put, Owed, OwedBy
<1>3. ASSUME NEW m \in Machines, Owed[m] # 0,
             answer' = [answer EXCEPT ![m] =
                 IF Owed[m] \in Range(Contents) THEN "gave up" ELSE "taken"],
             Owed' = [Owed EXCEPT ![m] = 0], UNCHANGED <<Contents, sent>>
      PROVE  Step
  <2>1. Mailbox!Settle(m)
    BY <1>3 DEF Mailbox!Settle, Mailbox!InTheBox, Mailbox!Range, Range, Owed, OwedBy
  <2> QED BY <2>1 DEF Mailbox!Next
<1> HIDE DEF Step
<1>4. ASSUME UNCHANGED answer, UNCHANGED Owed, QueueStep PROVE Step
  BY <1>1, <1>q, <1>4 DEF QueueStep
<1>5. ASSUME NEW m \in Machines, pc[m] \notin {"supplying", "supplying for"},
             pc'[m] \notin {"supplying", "supplying for"},
             \A x \in Machines \ {m} : pc'[x] = pc[x] /\ on'[x] = on[x]
      PROVE  UNCHANGED Owed
  <2>1. \A x \in Machines : OwedBy(x)' = OwedBy(x)
    BY <1>5 DEF OwedBy
  <2> QED BY <2>1 DEF Owed
<1>6. QueueStep
  BY StepsOfTheQueue
<1>7. ASSUME NEW m \in Machines, NEW timed \in BOOLEAN, Supply(m, timed) PROVE Step
  <2>1. Owed[m] = 0 /\ PushLocked
    BY <1>7 DEF Supply, Calls, Owed, OwedBy
  <2>2. CASE Holding(m)
    <3>1. UNCHANGED <<pc, on>> /\ answer' = [answer EXCEPT ![m] = "gave up"]
      BY <1>7, <2>2 DEF Supply
    <3>2. UNCHANGED Owed
      BY <3>1 DEF Owed, OwedBy
    <3> QED BY <1>2, <1>q, <2>1, <3>1, <3>2
  <2>3. CASE ~Holding(m)
    <3>1. /\ answer' = [answer EXCEPT ![m] = "none"]
          /\ on' = [on EXCEPT ![m] = sent + 1]
          /\ pc' = [pc EXCEPT ![m] = IF timed THEN "supplying for" ELSE "supplying"]
      BY <1>7, <2>3 DEF Supply, Goes
    <3>2. OwedBy(m)' = sent + 1 /\ \A x \in Machines \ {m} : OwedBy(x)' = OwedBy(x)
      BY <1>0, <3>1 DEF OwedBy
    <3>3. Owed' = [Owed EXCEPT ![m] = sent + 1]
      BY <3>2 DEF Owed
    <3> QED BY <1>2, <1>q, <2>1, <3>1, <3>3
  <2> QED BY <2>2, <2>3
<1>8. ASSUME NEW m \in Machines, SupplyLook(m) PROVE Step
  <2>1. /\ pc[m] \in {"supplying", "supplying for"} /\ pc' = [pc EXCEPT ![m] = "idle"]
        /\ on' = [on EXCEPT ![m] = 0] /\ UNCHANGED queueVars
        /\ answer' = [answer EXCEPT ![m] =
               IF received >= on[m] THEN "taken" ELSE "gave up"]
    BY <1>8 DEF SupplyLook, Goes
  <2>2. /\ Contents = Numbers(received, sent) /\ received \in Nat /\ received <= sent
        /\ on[m] \in 1..sent
    BY <2>1, BoxState
  <2>3. on[m] \in Range(Contents) <=> ~(received >= on[m])
    <3>1. on[m] \in Range(Contents) <=> on[m] \in received + 1..sent
      BY <1>0, <2>2, NumbersAre
    <3> QED BY <1>0, <2>2, <3>1
  <2>4. Owed[m] = on[m] /\ Owed[m] # 0
    <3>1. on[m] # 0
      BY <1>0, <2>2
    <3>2. OwedBy(m) = on[m]
      BY <2>1 DEF OwedBy
    <3> QED BY <3>1, <3>2 DEF Owed
  <2>5. Owed' = [Owed EXCEPT ![m] = 0]
    <3>1. OwedBy(m)' = 0 /\ \A x \in Machines \ {m} : OwedBy(x)' = OwedBy(x)
      BY <1>0, <2>1 DEF OwedBy
    <3> QED BY <3>1 DEF Owed
  <2>6. answer' = [answer EXCEPT ![m] =
            IF Owed[m] \in Range(Contents) THEN "gave up" ELSE "taken"]
    BY <1>0, <2>1, <2>3, <2>4
  <2> QED BY <1>3, <1>q, <2>1, <2>4, <2>5, <2>6
<1>9. ASSUME NEW m \in Machines,
             \/ Push(m) \/ Pop(m) \/ Clear(m) \/ Awaitable(m) \/ Atomic(m)
             \/ Take(m) \/ DropJob(m) \/ DropWrapper(m) \/ DropWalk(m)
             \/ \E timed \in BOOLEAN : Demand(m, timed)
             \/ Tell(m) \/ DemandLook(m) \/ AtomicEnd(m) \/ Retain(m)
             \/ TakeStep(m) \/ AskOnce(m) \/ LookAgain(m) \/ LetGo(m)
      PROVE  Step
  <2>1. UNCHANGED answer
    BY <1>9 DEF Push, Pop, Clear, Awaitable, Atomic, Take, DropJob, DropWrapper,
       DropWalk, Demand, Tell, DemandLook, AtomicEnd, Retain, TakeStep, AskOnce,
       LookAgain, LetGo
  <2>2. \/ UNCHANGED <<pc, on>>
        \/ /\ pc[m] \notin {"supplying", "supplying for"}
           /\ \E where : Goes(m, where) /\ where \notin {"supplying", "supplying for"}
    <3>1. \/ UNCHANGED <<pc, on>>
          \/ /\ pc[m] \in {"idle", "telling", "demanding", "demanding for"}
                          \cup Driven \cup LettingGo
             /\ \E where \in {"idle", "telling", "demanding", "demanding for"}
                              \cup Driven \cup LettingGo : Goes(m, where)
      BY <1>9 DEF Push, Pop, Clear, Awaitable, Atomic, Take, DropJob, DropWrapper,
         DropWalk, Demand, Tell, DemandLook, AtomicEnd, Retain, TakeStep, AskOnce,
         LookAgain, LetGo, Calls, TellsAll, GoesOn, Driven, LettingGo
    <3> QED BY <3>1 DEF Driven, LettingGo
  <2>3. \A x \in Machines \ {m} : on'[x] = on[x]
    BY <1>0, <1>9 DEF Push, Pop, Clear, Awaitable, Atomic, Take, DropJob, DropWrapper,
       DropWalk, Demand, Tell, DemandLook, AtomicEnd, Retain, TakeStep, AskOnce,
       LookAgain, LetGo, Arm
  <2>4. UNCHANGED Owed
    <3>1. CASE UNCHANGED <<pc, on>>
      BY <3>1 DEF Owed, OwedBy
    <3>2. CASE /\ pc[m] \notin {"supplying", "supplying for"}
               /\ \E where : Goes(m, where) /\ where \notin {"supplying", "supplying for"}
      <4>1. /\ pc'[m] \notin {"supplying", "supplying for"}
            /\ \A x \in Machines \ {m} : pc'[x] = pc[x]
        BY <1>0, <3>2 DEF Goes
      <4> QED BY <1>5, <2>3, <3>2, <4>1
    <3> QED BY <2>2, <3>1, <3>2
  <2> QED BY <1>4, <1>6, <2>1, <2>4
<1>10. ASSUME UNCHANGED vars PROVE Step
  <2>1. UNCHANGED <<answer, Owed>>
    BY <1>10 DEF vars, Owed, OwedBy
  <2>2. UNCHANGED answer /\ UNCHANGED Owed
    BY <2>1
  <2> QED BY <1>4, <1>6, <2>2
<1> QED
  BY <1>7, <1>8, <1>9, <1>10 DEF Next, Begins, GoesOnWith, Step

(* The ring, its lock and its wait loops take no step a mailbox would not:  *)
(* values leave in order and once, and a supply() says "taken" exactly when *)
(* its value is gone, for any number of machines (channel.c:591-645).       *)
THEOREM NeverBreaksThePromise == Spec => Mailbox!Safety
<1>1. Init => Mailbox!Init
  <2> SUFFICES ASSUME Init PROVE Mailbox!Init
    OBVIOUS
  <2>1. Contents = <<>>
    <3>1. count = 0
      BY DEF Init
    <3> QED BY <3>1 DEF Contents
  <2> QED BY <2>1 DEF Init, Mailbox!Init
<1>2. IInv /\ IInv' /\ [Next]_vars => [Mailbox!Next]_(Mailbox!boxVars)
  BY BoxNext
<1> QED BY <1>1, <1>2, IInvHolds, PTL DEF Spec, Mailbox!Safety

=============================================================================
