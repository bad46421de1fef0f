-------------------------- MODULE LhatChannelProps --------------------------
(***************************************************************************)
(* What std.channel must keep true of its queue, its waits and its holds.  *)
(***************************************************************************)
EXTENDS LhatChannel

Waiting == {"supplying", "supplying for", "demanding", "demanding for"}
Driven == {"retaining", "taking", "yielded", "parked"}
LettingGo == {"letting go of the value", "letting go of the walk"}

\* Every variable stays in its type; the ring has `capacity` slots, `head`
\* lies in it, and no more values are in it than it has slots
\* (channel.c:45-48).
TypeOK ==
    /\ capacity \in Nat /\ head \in Nat /\ count \in 0..capacity
    /\ ring \in [0..capacity - 1 -> 0..MaxSent]
    /\ capacity > 0 => head < capacity
    /\ sent \in 0..MaxSent /\ received \in 0..sent
    /\ holds \in Nat
    /\ waiters \in Seq(1..MaxWaits)
    /\ atomic_owner \in Machines \cup {NoOne}
    /\ next_id \in 1..MaxWaits + 1
    /\ Outstanding \subseteq 1..MaxWaits
    /\ \A id \in Outstanding :
           waits[id] \in [owner : Machines, ready : BOOLEAN]
    /\ pc \in [Machines -> {"idle", "telling"} \cup Waiting \cup Driven
                           \cup LettingGo]
    /\ on \in [Machines -> Nat]
    /\ answer \in [Machines -> {"none", "taken", "gave up"}]
    /\ telling \in [Machines -> Seq(1..MaxWaits)]
    /\ wrapper \subseteq Machines /\ ended \subseteq Machines
    /\ walk \in [Machines -> {"none", "live", "dead"}]
    /\ calls \in 0..MaxCalls

\* The ring holds the values received + 1 .. sent, in the order they were
\* pushed, however often it wrapped, grew and was cleared: hasRead() and
\* supply() read the number of a value off `received` alone
\* (channel.c:212-270, 919).
NumbersInOrder == Contents = [i \in 1..sent - received |-> received + i]

\* A job that waits for an arrival is told of the next one: until its wait
\* is made ready it is on the channel's list, or on the list of a push that
\* is still telling (channel.c:58-63, 91-109, 739-752).
EveryWaitIsListed ==
    \A m \in Machines :
        pc[m] \in {"yielded", "parked"} /\ Answered(m, on[m]) = "outstanding"
        => \/ on[m] \in Range(waiters)
           \/ \E teller \in Machines : on[m] \in Range(telling[teller])

\* "Either the value is already here, or the ask is on the list before the
\* push can take it off" (channel.c:736-738): while a value is in the
\* channel, nobody on its list still waits to hear of an arrival.
NobodyWaitsBesideAValue ==
    count > 0 =>
        \A m \in Machines :
            pc[m] \in {"yielded", "parked"} => on[m] \notin Range(waiters)

\* Whoever is in the middle of a call on the channel, or holds its lock,
\* holds it: it is freed under nobody, also when the value a take() came
\* from was disposed of (channel.c:190-209, 794-811, 857).
UsedWhileHeld ==
    \A m \in Machines :
        \/ pc[m] \in Waiting \cup {"taking"}
        \/ pc[m] \in {"yielded", "parked"} /\ walk[m] = "live"
        \/ Holding(m)
        => holds > 0

\* Nobody waits for the channel's lock from inside its own atomic(): "every
\* entry below lets that machine straight through rather than taking the
\* lock again" (channel.c:66-70).
NeverWaitsForItself ==
    \A m \in Machines :
        pc[m] \in {"retaining"} \cup LettingGo => ~Holding(m)

(***************************************************************************)
(* What the machines are promised, as steps of LhatMailbox                 *)
(***************************************************************************)
Mailbox ==
    INSTANCE LhatMailbox WITH
        queue <- Contents,
        owed <- [m \in Machines |->
                    IF pc[m] \in {"supplying", "supplying for"} THEN on[m]
                    ELSE 0]

\* The ring, its lock and its wait loops keep the promise of a mailbox: the
\* values come out in order and once, a supply() says "taken" exactly when
\* its value is gone, and it does say so (channel.c:591-645).
KeepsThePromise == Mailbox!Spec

\* A job parked on a channel that has a value is driven on
\* (channel.c:91-109, task.c:463-482).
ParkedIsTold ==
    \A m \in Machines :
        (pc[m] = "parked" /\ walk[m] = "live" /\ count > 0) ~> pc[m] # "parked"

\* A demand() without a deadline ends once there is a value for it, or that
\* value went to somebody else (channel.c:692-707).
DemandIsMet ==
    \A m \in Machines :
        (pc[m] = "demanding" /\ count > 0) ~> (pc[m] # "demanding" \/ count = 0)

=============================================================================
