--------------------------- MODULE LhatTaskProps ---------------------------
(***************************************************************************)
(* What std.task promises its callers, and what its pool relies on.        *)
(***************************************************************************)
EXTENDS LhatTask

\* Whoever has a job in hand outside the queue and the parked set: a worker
\* with its turn, or a master whose stop() is dropping it.
InHand(a) == pc[a] \in {"turn", "again", "park", "ended", "dropped", "push"}

Carriers(j) == {a \in Actors : InHand(a) /\ has[a] = j}
PlacesInQueue(j) == {i \in DOMAIN queue : queue[i] = j}

\* A job that was queued and has not ended is in exactly one place: the run
\* queue, the parked set, or out with one worker (task.c:114-116); nothing
\* a stop(), a start() or a failed allocation does loses it or copies it.
JobIsSomewhere ==
    \A j \in Jobs :
        /\ Cardinality(PlacesInQueue(j)) + Cardinality(Carriers(j))
             + (IF j \in parked THEN 1 ELSE 0) <= 1
        /\ holds[j] > Cardinality(wrappers[j]) /\ ~finished[j] =>
             Carriers(j) # {} \/ j \in parked \/ PlacesInQueue(j) # {}

\* A task is held once for each Task value and once more for wherever the
\* pool has it, so nobody who still uses it finds it freed (task.c:149-151).
HeldWhileUsed ==
    \A j \in Jobs :
        holds[j] = Cardinality(wrappers[j])
                     + (IF j \in Image(queue) \cup parked \/ Carriers(j) # {}
                        THEN 1 ELSE 0)

\* While a worker sleeps on the condition, which nothing signals when a
\* parked job becomes ready, other workers are awake and out of any job: one
\* for each job in the queue, and one more to watch the parked jobs
\* (task.c:512-550).  A job that blocks its worker costs no other job its
\* turn as long as a worker is left.
Watching == {w \in Workers : pc[w] \in {"take", "nap"}}

WorkIsWatched ==
    running /\ Asleep # {} =>
        Cardinality(Watching) >= Len(queue) + (IF parked # {} THEN 1 ELSE 0)

\* The wait awaitable() handed out is pushed once the job has ended, whichever
\* of the end and the call came first (task.c:205-216, 932-957).
PushedOnceDone ==
    \A j \in Jobs :
        finished[j] /\ await_id[j] = "armed" =>
            \E a \in owes : has[a] = j

\* A job that could run, beside jobs that never end, ends, or comes to wait
\* for something that has not arrived (task.c:519-531).
Waits(j) == j \in parked /\ wait[j] = "armed"
EndsOrWaits ==
    \A j \in Jobs \ Spinners :
        j \in Image(queue) \/ (j \in parked /\ wait[j] # "armed")
            ~> finished[j] \/ Waits(j)

\* stop() and start() answer, however many jobs are running (task.c:609-648).
StopAnswers ==
    \A m \in Masters :
        pc[m] \in {"drain", "join", "launch", "launching"} ~> pc[m] = "idle"

\* stop() answers when the last worker has gone (task.h:74).
StopAnswersLast ==
    [][\A m \in Starters :
         pc[m] = "idle" /\ Stop(m) /\ pc'[m] = "idle" =>
             \A w \in Workers : pc[w] = "gone"]_vars
=============================================================================
