---------------------------- MODULE LhatChannel ----------------------------
(***************************************************************************)
(* std.channel (stdlib/channel.c): the queue between machines, with the    *)
(* table of std.async waits (stdlib/async.c) a job parks on and the way a  *)
(* std.task worker asks that table for one of its ids (stdlib/task.c).     *)
(*                                                                         *)
(* Every machine runs on a thread of its own.  A critical section of the   *)
(* channel is one step; the channel's mutex is held across steps only      *)
(* inside atomic(), so atomic_owner is the mutex.  The waiters a push      *)
(* takes off the list are told outside the lock, one step each.  A value   *)
(* is the number its push answered.                                        *)
(***************************************************************************)
EXTENDS Integers, FiniteSets, Sequences, Functions

CONSTANTS
    Machines,
    NoOne,            \* no machine: nobody is inside atomic()
    FirstCapacity,    \* slots of the first ring (8 in the code)
    MaxSent,          \* bound: values put in
    MaxWaits,         \* bound: waits armed, after which there is no room
    MaxCalls,         \* bound: calls made
    MaySupplyParked,  \* supply() is called beside jobs parked on the channel
    MayHoldInside     \* holds are taken and given back inside atomic()

ASSUME ChannelAssumption ==
    /\ NoOne \notin Machines
    /\ IsFiniteSet(Machines)
    /\ FirstCapacity \in Nat \ {0}
    /\ {MaxSent, MaxWaits, MaxCalls} \subseteq Nat
    /\ {MaySupplyParked, MayHoldInside} \subseteq BOOLEAN

VARIABLES
    ring,          \* items: the ring, a function on 0..capacity - 1
    capacity,
    head,          \* the next to come out
    count,
    sent,
    received,
    holds,         \* who holds the pointer; 0 once channel_free has run
    waiters,       \* waits armed on this channel, until a push tells them
    atomic_owner,
    waits,         \* std.async's table: an outstanding id -> [owner, ready]
    next_id,
    pc,            \* where each machine stands
    on,            \* the number its supply() waits for, or its wait's id
    answer,        \* what its last supply() answered
    telling,       \* the waits it took off the list and has yet to tell
    wrapper,       \* machines whose Channel value holds the channel
    walk,          \* what each machine's take() coroutine is
    ended,         \* machines whose job was dropped with the pool
    calls

queueVars == <<ring, capacity, head, count, sent, received>>
asyncVars == <<waits, next_id>>
holdVars == <<holds, wrapper, walk>>
vars == <<ring, capacity, head, count, sent, received, holds, waiters,
          atomic_owner, waits, next_id, pc, on, answer, telling, wrapper,
          walk, ended, calls>>

Empty == 0    \* what a slot of the ring nothing is in reads as

Init ==
    /\ ring = <<>>
    /\ capacity = 0 /\ head = 0 /\ count = 0
    /\ sent = 0 /\ received = 0
    /\ holds = Cardinality(Machines)
    /\ waiters = <<>>
    /\ atomic_owner = NoOne
    /\ waits = <<>>
    /\ next_id = 1
    /\ pc = [m \in Machines |-> "idle"]
    /\ on = [m \in Machines |-> 0]
    /\ answer = [m \in Machines |-> "none"]
    /\ telling = [m \in Machines |-> <<>>]
    /\ wrapper = Machines
    /\ walk = [m \in Machines |-> "none"]
    /\ ended = {}
    /\ calls = 0

(***************************************************************************)
(* The lock: enter() lets the machine inside atomic() straight through;    *)
(* everything else takes the mutex, which does not nest.                   *)
(***************************************************************************)
Holding(m) == atomic_owner = m
MayEnter(m) == atomic_owner \in {NoOne, m}
MayLock == atomic_owner = NoOne

(***************************************************************************)
(* The ring, with the lock held                                            *)
(***************************************************************************)
\* The values in the ring, the next to come out first.
Contents == [i \in 1..count |-> ring[(head + i - 1) % capacity]]

\* make_room: a full ring is unrolled into one twice as long.
Grown == IF capacity = 0 THEN FirstCapacity ELSE capacity * 2

CopiedAsItLies ==                         \* a mutant of Unrolled
    [i \in 0..Grown - 1 |-> IF i < count THEN ring[i] ELSE Empty]

Unrolled ==
    [i \in 0..Grown - 1 |->
        IF i < count THEN ring[(head + i) % capacity] ELSE Empty]

PushLocked ==
    /\ sent < MaxSent
    /\ IF count < capacity
         THEN /\ ring' = [ring EXCEPT ![(head + count) % capacity] = sent + 1]
              /\ UNCHANGED <<capacity, head>>
         ELSE /\ ring' = [Unrolled EXCEPT ![count] = sent + 1]
              /\ capacity' = Grown
              /\ head' = 0
    /\ count' = count + 1
    /\ sent' = sent + 1
    /\ UNCHANGED received

PopLocked ==
    /\ count > 0
    /\ head' = (head + 1) % capacity
    /\ count' = count - 1
    /\ received' = received + 1
    /\ UNCHANGED <<ring, capacity, sent>>

\* clear_locked pops them all, and settles every supply that waits.
ClearLocked ==
    /\ head' = IF count = 0 THEN head ELSE (head + count) % capacity
    /\ count' = 0
    /\ received' = sent
    /\ UNCHANGED <<ring, capacity, sent>>

(***************************************************************************)
(* std.async's table                                                       *)
(***************************************************************************)
Outstanding == DOMAIN waits

\* arm_wait: add_wait, and the ask put on the channel's list.  No id where
\* the table has no room to grow.
CanArm == next_id <= MaxWaits

Arm(m) ==
    /\ waits' = [id \in Outstanding \cup {next_id} |->
                    IF id = next_id THEN [owner |-> m, ready |-> FALSE]
                                    ELSE waits[id]]
    /\ next_id' = next_id + 1
    /\ waiters' = Append(waiters, next_id)
    /\ on' = [on EXCEPT ![m] = next_id]

\* take_this: what a machine is answered of an id.
Answered(m, id) ==
    IF id \notin Outstanding \/ waits[id].owner # m THEN "no such wait"
    ELSE IF waits[id].ready THEN "taken" ELSE "outstanding"

TakeWait(m, id) ==
    waits' = IF Answered(m, id) = "taken"
             THEN [other \in Outstanding \ {id} |-> waits[other]]
             ELSE waits

(***************************************************************************)
(* Calls                                                                   *)
(***************************************************************************)
\* The machine runs L^ code and reaches the channel through its value.
Calls(m) ==
    /\ pc[m] = "idle"
    /\ m \in wrapper
    /\ m \notin ended
    /\ calls < MaxCalls
    /\ calls' = calls + 1

Goes(m, where) == pc' = [pc EXCEPT ![m] = where]

\* What push took off the list, to be told outside the lock.
TellsAll(m) ==
    /\ telling' = [telling EXCEPT ![m] = waiters]
    /\ waiters' = <<>>
    /\ Goes(m, IF waiters = <<>> THEN "idle" ELSE "telling")

PushSilently(m) ==                        \* a mutant of Push
    /\ Calls(m)
    /\ MayEnter(m)
    /\ PushLocked
    /\ UNCHANGED <<asyncVars, holdVars, waiters, telling, atomic_owner, pc, on,
                   answer, ended>>

Push(m) ==
    /\ Calls(m)
    /\ MayEnter(m)
    /\ PushLocked
    /\ TellsAll(m)
    /\ UNCHANGED <<asyncVars, holdVars, atomic_owner, on, answer, ended>>

\* tell_waiters: one lhatstdlib_async_complete after another.
Tell(m) ==
    LET id == Head(telling[m]) IN
    /\ pc[m] = "telling"
    /\ waits' = [other \in Outstanding |->
                    IF other = id THEN [waits[id] EXCEPT !.ready = TRUE]
                                  ELSE waits[other]]
    /\ telling' = [telling EXCEPT ![m] = Tail(@)]
    /\ Goes(m, IF Len(telling[m]) = 1 THEN "idle" ELSE "telling")
    /\ UNCHANGED <<queueVars, holdVars, waiters, atomic_owner, next_id, on,
                   answer, ended, calls>>

\* supply() puts it in and waits on this thread; inside atomic() there is
\* nobody who could take it, so it answers at once.  It tells no waiter.
Supply(m, timed) ==
    /\ Calls(m)
    /\ MayEnter(m)
    /\ MaySupplyParked \/ waiters = <<>>
    /\ PushLocked
    /\ IF Holding(m)
         THEN /\ answer' = [answer EXCEPT ![m] = "gave up"]
              /\ UNCHANGED <<pc, on>>
         ELSE /\ answer' = [answer EXCEPT ![m] = "none"]
              /\ on' = [on EXCEPT ![m] = sent + 1]
              /\ Goes(m, IF timed THEN "supplying for" ELSE "supplying")
    /\ UNCHANGED <<asyncVars, holdVars, waiters, atomic_owner, telling,
                   ended>>

SupplyLookEarly(m) ==                     \* a mutant of SupplyLook
    /\ pc[m] \in {"supplying", "supplying for"}
    /\ MayLock
    /\ received + 1 >= on[m] \/ pc[m] = "supplying for"
    /\ answer' = [answer EXCEPT ![m] =
           IF received + 1 >= on[m] THEN "taken" ELSE "gave up"]
    /\ on' = [on EXCEPT ![m] = 0]
    /\ Goes(m, "idle")
    /\ UNCHANGED <<queueVars, asyncVars, holdVars, waiters, atomic_owner,
                   telling, ended, calls>>

\* A turn of supply's loop: woken by a broadcast or by the short sleep.  The
\* count is looked at before the clock.
SupplyLook(m) ==
    /\ pc[m] \in {"supplying", "supplying for"}
    /\ MayLock
    /\ received >= on[m] \/ pc[m] = "supplying for"
    /\ answer' = [answer EXCEPT ![m] =
           IF received >= on[m] THEN "taken" ELSE "gave up"]
    /\ on' = [on EXCEPT ![m] = 0]
    /\ Goes(m, "idle")
    /\ UNCHANGED <<queueVars, asyncVars, holdVars, waiters, atomic_owner,
                   telling, ended, calls>>

Pop(m) ==
    /\ Calls(m)
    /\ MayEnter(m)
    /\ PopLocked
    /\ UNCHANGED <<asyncVars, holdVars, waiters, atomic_owner, pc, on, answer,
                   telling, ended>>

\* demand() takes the first at once, or waits for one on this thread unless
\* the lock is its own.
Demand(m, timed) ==
    /\ Calls(m)
    /\ MayEnter(m)
    /\ \/ PopLocked /\ UNCHANGED pc
       \/ /\ count = 0 /\ ~Holding(m)
          /\ Goes(m, IF timed THEN "demanding for" ELSE "demanding")
          /\ UNCHANGED queueVars
    /\ UNCHANGED <<asyncVars, holdVars, waiters, atomic_owner, on, answer,
                   telling, ended>>

DemandLookOnce(m) ==                      \* a mutant of DemandLook
    /\ pc[m] = "demanding for"
    /\ MayLock
    /\ \/ PopLocked
       \/ count = 0 /\ UNCHANGED queueVars
    /\ Goes(m, "idle")
    /\ UNCHANGED <<asyncVars, holdVars, waiters, atomic_owner, on, answer,
                   telling, ended, calls>>

DemandLook(m) ==
    /\ pc[m] \in {"demanding", "demanding for"}
    /\ MayLock
    /\ \/ PopLocked
       \/ count = 0 /\ pc[m] = "demanding for" /\ UNCHANGED queueVars
    /\ Goes(m, "idle")
    /\ UNCHANGED <<asyncVars, holdVars, waiters, atomic_owner, on, answer,
                   telling, ended, calls>>

Clear(m) ==
    /\ Calls(m)
    /\ MayEnter(m)
    /\ ClearLocked
    /\ UNCHANGED <<asyncVars, holdVars, waiters, atomic_owner, pc, on, answer,
                   telling, ended>>

AwaitableUnlooked(m) ==                   \* a mutant of Awaitable
    /\ Calls(m)
    /\ MayEnter(m)
    /\ CanArm
    /\ Arm(m)
    /\ Goes(m, "yielded")
    /\ UNCHANGED <<queueVars, holdVars, atomic_owner, answer, telling, ended>>

\* awaitable() answers an id to yield when there is nothing to take yet.
Awaitable(m) ==
    /\ Calls(m)
    /\ MayEnter(m)
    /\ count = 0 /\ CanArm
    /\ Arm(m)
    /\ Goes(m, "yielded")
    /\ UNCHANGED <<queueVars, holdVars, atomic_owner, answer, telling, ended>>

\* atomic() runs its body with the lock held; a nested one is just the body.
Atomic(m) ==
    /\ Calls(m)
    /\ MayLock
    /\ atomic_owner' = m
    /\ UNCHANGED <<queueVars, asyncVars, holdVars, waiters, pc, on, answer,
                   telling, ended>>

AtomicEnd(m) ==
    /\ Holding(m)
    /\ pc[m] \in {"idle", "yielded"}
    /\ atomic_owner' = NoOne
    /\ UNCHANGED <<queueVars, asyncVars, holdVars, waiters, pc, on, answer,
                   telling, ended, calls>>

(***************************************************************************)
(* take(): the wait as a coroutine, with a hold of its own                 *)
(***************************************************************************)
Take(m) ==
    /\ Calls(m)
    /\ walk[m] = "none"
    /\ MayHoldInside \/ ~Holding(m)
    /\ Goes(m, "retaining")
    /\ UNCHANGED <<queueVars, asyncVars, holdVars, waiters, atomic_owner, on,
                   answer, telling, ended>>

RetainNothing(m) ==                       \* a mutant of Retain
    /\ pc[m] = "retaining"
    /\ MayLock
    /\ walk' = [walk EXCEPT ![m] = "live"]
    /\ Goes(m, "taking")
    /\ UNCHANGED <<queueVars, asyncVars, holds, wrapper, waiters, atomic_owner,
                   on, answer, telling, ended, calls>>

\* channel_retain takes the mutex whoever holds it.
Retain(m) ==
    /\ pc[m] = "retaining"
    /\ MayLock
    /\ holds' = holds + 1
    /\ walk' = [walk EXCEPT ![m] = "live"]
    /\ Goes(m, "taking")
    /\ UNCHANGED <<queueVars, asyncVars, wrapper, waiters, atomic_owner, on,
                   answer, telling, ended, calls>>

\* take_step: the value ends the walk; with none, the id of a wait is what
\* it yields.  Without an id it hands over and comes straight back.
TakeStep(m) ==
    /\ pc[m] = "taking"
    /\ MayLock
    /\ \/ /\ PopLocked
          /\ walk' = [walk EXCEPT ![m] = "dead"]
          /\ Goes(m, "idle")
          /\ UNCHANGED <<asyncVars, waiters, on>>
       \/ /\ count = 0 /\ CanArm
          /\ Arm(m)
          /\ Goes(m, "yielded")
          /\ UNCHANGED <<queueVars, walk>>
    /\ UNCHANGED <<holds, wrapper, atomic_owner, answer, telling, ended,
                   calls>>

(***************************************************************************)
(* The worker that drives the job: after_turn and move_ready               *)
(***************************************************************************)
\* Where a job goes on once its wait no longer stands in the way.
GoesOn(m) == Goes(m, IF walk[m] = "live" THEN "taking" ELSE "idle")

\* after_turn: the wait is asked for by its id before the job is parked.
AskOnce(m) ==
    /\ pc[m] = "yielded"
    /\ ~Holding(m)
    /\ TakeWait(m, on[m])
    /\ IF Answered(m, on[m]) = "outstanding"
         THEN Goes(m, "parked") /\ UNCHANGED on
         ELSE GoesOn(m) /\ on' = [on EXCEPT ![m] = 0]
    /\ UNCHANGED <<queueVars, holdVars, waiters, atomic_owner, next_id, answer,
                   telling, ended, calls>>

\* move_ready, for one parked job.
LookAgain(m) ==
    /\ pc[m] = "parked"
    /\ Answered(m, on[m]) # "outstanding"
    /\ TakeWait(m, on[m])
    /\ GoesOn(m)
    /\ on' = [on EXCEPT ![m] = 0]
    /\ UNCHANGED <<queueVars, holdVars, waiters, atomic_owner, next_id, answer,
                   telling, ended, calls>>

\* stop_pool drops a parked job where it stands; its wait stays behind.
DropJob(m) ==
    /\ pc[m] = "parked"
    /\ ended' = ended \cup {m}
    /\ walk' = [walk EXCEPT ![m] = IF @ = "live" THEN "dead" ELSE @]
    /\ on' = [on EXCEPT ![m] = 0]
    /\ Goes(m, "idle")
    /\ UNCHANGED <<queueVars, asyncVars, holds, wrapper, waiters,
                   atomic_owner, answer, telling, calls>>

(***************************************************************************)
(* Giving holds back: dispose(), the collector, a machine's end            *)
(***************************************************************************)
DropWrapper(m) ==
    /\ m \in wrapper
    /\ pc[m] \in {"idle", "taking"}
    /\ MayHoldInside \/ ~Holding(m)
    /\ Goes(m, "letting go of the value")
    /\ UNCHANGED <<queueVars, asyncVars, holdVars, waiters, atomic_owner, on,
                   answer, telling, ended, calls>>

DropWalk(m) ==
    /\ walk[m] = "dead"
    /\ pc[m] = "idle"
    /\ MayHoldInside \/ ~Holding(m)
    /\ Goes(m, "letting go of the walk")
    /\ UNCHANGED <<queueVars, asyncVars, holdVars, waiters, atomic_owner, on,
                   answer, telling, ended, calls>>

\* channel_let_go: the last to let go frees it, which tells whoever still
\* waits and throws the values away.
LetGo(m) ==
    /\ pc[m] \in {"letting go of the value", "letting go of the walk"}
    /\ MayLock
    /\ holds' = holds - 1
    /\ IF pc[m] = "letting go of the value"
         THEN wrapper' = wrapper \ {m} /\ UNCHANGED walk
         ELSE walk' = [walk EXCEPT ![m] = "none"] /\ UNCHANGED wrapper
    /\ IF holds = 1
         THEN TellsAll(m) /\ ClearLocked
         ELSE GoesOn(m) /\ UNCHANGED <<queueVars, telling, waiters>>
    /\ UNCHANGED <<asyncVars, atomic_owner, on, answer, ended, calls>>

(***************************************************************************)
(* The specification                                                       *)
(***************************************************************************)
\* What a machine does once it is under way, whether or not it calls again.
GoesOnWith(m) ==
    \/ Tell(m) \/ SupplyLook(m) \/ DemandLook(m) \/ AtomicEnd(m)
    \/ Retain(m) \/ TakeStep(m) \/ AskOnce(m) \/ LookAgain(m) \/ LetGo(m)

Begins(m) ==
    \/ Push(m) \/ Pop(m) \/ Clear(m) \/ Awaitable(m) \/ Atomic(m) \/ Take(m)
    \/ \E timed \in BOOLEAN : Supply(m, timed) \/ Demand(m, timed)
    \/ DropJob(m) \/ DropWrapper(m) \/ DropWalk(m)

Next == \E m \in Machines : Begins(m) \/ GoesOnWith(m)

Spec == Init /\ [][Next]_vars

\* Every thread is scheduled: a machine under way takes its next step.
FairSpec == Spec /\ \A m \in Machines : WF_vars(GoesOnWith(m))

============================================================================
