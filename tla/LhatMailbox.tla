---------------------------- MODULE LhatMailbox ----------------------------
(***************************************************************************)
(* What a channel of std.channel promises the machines that share it       *)
(* (stdlib/channel.h:52-76), with nothing of how it keeps the promise: a   *)
(* queue of numbered values, each taken at most once and in the order they *)
(* were put in, and a supply() that is answered by what became of its own  *)
(* value.                                                                  *)
(***************************************************************************)
EXTENDS Naturals, Sequences, Functions

CONSTANT Machines

VARIABLES
    queue,    \* the numbers of the values in it, the first to come out first
    sent,     \* how many were ever put in; the number a push answers
    owed,     \* the number each machine's supply() waits for, or 0
    answer    \* what each machine's last supply() answered

boxVars == <<queue, sent, owed, answer>>

Init ==
    /\ queue = <<>>
    /\ sent = 0
    /\ owed = [m \in Machines |-> 0]
    /\ answer = [m \in Machines |-> "none"]

InTheBox(number) == number \in Range(queue)

\* push() answers the next number; the value goes in at the end.
Put ==
    /\ queue' = Append(queue, sent + 1)
    /\ sent' = sent + 1

Push == Put /\ UNCHANGED <<owed, answer>>

\* supply() puts it in and is owed an answer...
Supply(m) ==
    /\ owed[m] = 0
    /\ Put
    /\ owed' = [owed EXCEPT ![m] = sent + 1]
    /\ answer' = [answer EXCEPT ![m] = "none"]

\* ...except inside atomic(), where it answers as push does.
SupplyInside(m) ==
    /\ owed[m] = 0
    /\ Put
    /\ answer' = [answer EXCEPT ![m] = "gave up"]
    /\ UNCHANGED owed

TakeFirst ==
    /\ queue # <<>>
    /\ queue' = Tail(queue)
    /\ UNCHANGED <<sent, owed, answer>>

Empty == queue' = <<>> /\ UNCHANGED <<sent, owed, answer>>

\* A supply() whose value has left the box says so; one whose value is still
\* in it may only say that it gave up.
Settle(m) ==
    /\ owed[m] # 0
    /\ answer' = [answer EXCEPT ![m] =
           IF InTheBox(owed[m]) THEN "gave up" ELSE "taken"]
    /\ owed' = [owed EXCEPT ![m] = 0]
    /\ UNCHANGED <<queue, sent>>

Next ==
    \/ Push
    \/ TakeFirst
    \/ Empty
    \/ \E m \in Machines : Supply(m) \/ SupplyInside(m) \/ Settle(m)

SettleTaken(m) == ~InTheBox(owed[m]) /\ Settle(m)

\* Never a wrong step...
Safety == Init /\ [][Next]_boxVars

\* ...and a supply() whose value is gone is answered.
Spec == Safety /\ \A m \in Machines : WF_boxVars(SettleTaken(m))

============================================================================
