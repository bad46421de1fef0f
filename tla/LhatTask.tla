------------------------------ MODULE LhatTask ------------------------------
(***************************************************************************)
(* std.task (stdlib/task.c): a pool of worker threads that take turns      *)
(* running jobs, each job on a machine of its own.                         *)
(*                                                                         *)
(* A section under the pool's lock, a section under a task's lock and one  *)
(* turn of a job are one step each.  What a job computes is left out: a    *)
(* turn says that its slice ran out, that it handed something over, that   *)
(* it waits on a std.async id, or that it came to its end.  A job is       *)
(* `finished` whichever way it ended.  The parked jobs are a set: which    *)
(* of those that are ready is queued first is left open.                   *)
(***************************************************************************)
EXTENDS Integers, FiniteSets, Sequences

CONSTANTS
    Workers,          \* the threads the system will give
    Masters,          \* machines that call std.task
    Starters,         \* the masters that start and stop the pool
    Jobs,
    Spinners,         \* jobs that neither wait nor end, and nobody asks after
    Elsewhere,        \* machines that have a Task value and nothing else to do
    None,             \* no job
    MaxTurns,         \* bound: turns of a job before its last
    MaxStarts,        \* bound: calls of start()
    MayLackRoom       \* an allocation, or a thread, may be refused

ASSUME TaskAssumption ==
    /\ IsFiniteSet(Workers) /\ IsFiniteSet(Jobs)
    /\ Workers \cap Masters = {} /\ Elsewhere \cap Masters = {}
    /\ Starters \subseteq Masters
    /\ Spinners \subseteq Jobs
    /\ None \notin Jobs
    /\ {MaxTurns, MaxStarts} \subseteq Nat
    /\ MayLackRoom \in BOOLEAN

VARIABLES
    running,
    threads,          \* the workers of the pool, while it has any
    queue,            \* jobs that could run right now
    parked,           \* jobs waiting on a std.async id
    looked,           \* the parked jobs were looked over a moment ago
    pc,               \* where each worker and each master stands
    has,              \* the job each is busy with
    after,            \* where a master goes on once its pool has stopped
    joining,          \* the threads it has yet to join
    move,             \* what the next turn of a job does
    turns,
    wait,             \* the wait a job yielded: none, armed or ready
    finished,
    taken,
    await_id,         \* the wait awaitable() armed: none, armed or ready
    owes,             \* who has read it and is about to push it
    holds,            \* how many hold a task; at 0 task_free runs
    wrappers,         \* the machines with a Task value for it
    starts

poolVars == <<running, threads, queue, parked, looked>>
masterVars == <<after, joining>>
turnVars == <<move, turns>>
endVars == <<finished, taken, await_id, owes>>
holdVars == <<holds, wrappers>>
vars == <<running, threads, queue, parked, looked, pc, has, after, joining,
          move, turns, wait, finished, taken, await_id, owes, holds,
          wrappers, starts>>

Actors == Workers \cup Masters

Init ==
    /\ running = FALSE /\ threads = {}
    /\ queue = <<>> /\ parked = {} /\ looked = FALSE
    /\ pc = [a \in Actors |-> IF a \in Workers THEN "gone" ELSE "idle"]
    /\ has = [a \in Actors |-> None]
    /\ after = [m \in Masters |-> "idle"]
    /\ joining = [m \in Masters |-> {}]
    /\ move = [j \in Jobs |-> "unmade"]
    /\ turns = [j \in Jobs |-> 0]
    /\ wait = [j \in Jobs |-> "none"]
    /\ finished = [j \in Jobs |-> FALSE]
    /\ taken = [j \in Jobs |-> FALSE]
    /\ await_id = [j \in Jobs |-> "none"]
    /\ owes = {}
    /\ holds = [j \in Jobs |-> 0]
    /\ wrappers = [j \in Jobs |-> {}]
    /\ starts = 0

(***************************************************************************)
(* The queue and the condition, with the pool's lock held                  *)
(***************************************************************************)
Asleep == {w \in Workers : pc[w] = "asleep"}
Image(s) == {s[i] : i \in DOMAIN s}

\* Each of n pushes signals once, and a signal wakes one of those asleep.
WakesNobody(n) == {{}}                    \* a mutant of Signalled
Signalled(n) ==
    {woken \in SUBSET Asleep :
        Cardinality(woken) = IF n < Cardinality(Asleep)
                             THEN n ELSE Cardinality(Asleep)}

\* Actor a goes to `place`, and the workers of `woken` look for work.
Goes(a, place, woken) ==
    pc' = [b \in Actors |-> IF b = a THEN place
                            ELSE IF b \in woken THEN "take" ELSE pc[b]]

\* The orders in which some of S may be queued.
Orders(S) ==
    {s \in UNION {[1..n -> S] : n \in 0..Cardinality(S)} :
        \A i, k \in DOMAIN s : s[i] = s[k] => i = k}

(***************************************************************************)
(* take_task and worker_main                                               *)
(***************************************************************************)
\* move_ready looks for the parked jobs whose wait is ready, or is gone.
ReadyParked == {j \in parked : wait[j] # "armed"}

\* A job the queue had no room for has lost its wait and is pushed at the
\* next look (bound: it is not refused a second time).
RoomFor(moved) ==
    \/ moved = ReadyParked
    \/ MayLackRoom /\ {j \in ReadyParked : wait[j] = "none"} \subseteq moved

LookWhenEmpty ==                          \* a mutant of DueToLook
    parked # {} /\ ~looked /\ queue = <<>>
DueToLook == parked # {} /\ ~looked

LeftWhereTheyWere(moved) == parked        \* a mutant of StillParked
StillParked(moved) == parked \ Image(moved)

Take(w) ==
    /\ pc[w] = "take"
    /\ running
    /\ \E moved \in IF DueToLook THEN Orders(ReadyParked) ELSE {<<>>} :
       \E woken \in Signalled(Len(moved)) :
         LET line == queue \o moved
             left == StillParked(moved) IN
         /\ DueToLook => RoomFor(Image(moved))
         /\ wait' = [j \in Jobs |-> IF DueToLook /\ j \in ReadyParked
                                    THEN "none" ELSE wait[j]]
         /\ looked' = (looked \/ DueToLook)
         /\ parked' = left
         /\ queue' = IF line = <<>> THEN line ELSE Tail(line)
         /\ has' = [has EXCEPT ![w] = IF line = <<>> THEN None ELSE Head(line)]
         /\ Goes(w, IF line # <<>> THEN "turn"
                    ELSE IF left # {} THEN "nap" ELSE "asleep", woken)
    /\ UNCHANGED <<running, threads, masterVars, turnVars, endVars, holdVars,
                   starts>>

Leave(w) ==
    /\ pc[w] = "take"
    /\ ~running
    /\ Goes(w, "gone", {})
    /\ UNCHANGED <<poolVars, has, masterVars, turnVars, wait, endVars, holdVars,
                   starts>>

\* The nap of a worker that watches the parked jobs ends by itself, and a
\* condition may wake a worker nobody signalled.
NapOver(w) ==
    /\ pc[w] = "nap"
    /\ Goes(w, "take", {})
    /\ UNCHANGED <<poolVars, has, masterVars, turnVars, wait, endVars, holdVars,
                   starts>>

WakeByItself(w) ==
    /\ pc[w] = "asleep"
    /\ Goes(w, "take", {})
    /\ UNCHANGED <<poolVars, has, masterVars, turnVars, wait, endVars, holdVars,
                   starts>>

\* One turn: exactly one call into the machine, and what it answered.  The
\* slice ran out; or the call answered its coroutine, or the coroutine handed
\* over a value that is no wait of its machine, or one that is ready.
RunOn(w, j) ==
    /\ j \in Spinners \/ turns[j] < MaxTurns
    /\ move' = [move EXCEPT ![j] = "go_on"]
    /\ turns' = [turns EXCEPT ![j] = IF j \in Spinners THEN @ ELSE @ + 1]
    /\ Goes(w, "again", {})
    /\ UNCHANGED wait

WaitOn(w, j) ==
    /\ j \notin Spinners /\ turns[j] < MaxTurns
    /\ move' = [move EXCEPT ![j] = "go_on"]
    /\ turns' = [turns EXCEPT ![j] = @ + 1]
    /\ wait' = [wait EXCEPT ![j] = "armed"]
    /\ Goes(w, "park", {})

\* The job answered or failed, or its machine could not be made.
End(w, j) ==
    /\ j \notin Spinners
    /\ move' = [move EXCEPT ![j] = "none"]
    /\ Goes(w, "ended", {})
    /\ UNCHANGED <<turns, wait>>

Turn(w) ==
    /\ pc[w] = "turn"
    /\ \/ RunOn(w, has[w])
       \/ WaitOn(w, has[w])
       \/ End(w, has[w])
    /\ UNCHANGED <<poolVars, has, masterVars, endVars, holdVars, starts>>

\* file_task: back in the queue, or among the parked.
File(w) ==
    /\ pc[w] \in {"again", "park"}
    /\ running
    /\ IF pc[w] = "again"
         THEN /\ queue' = Append(queue, has[w])
              /\ \E woken \in Signalled(1) : Goes(w, "take", woken)
              /\ UNCHANGED parked
         ELSE /\ parked' = parked \cup {has[w]}
              /\ Goes(w, "take", {})
              /\ UNCHANGED queue
    /\ has' = [has EXCEPT ![w] = None]
    /\ UNCHANGED <<running, threads, looked, masterVars, turnVars, wait,
                   endVars, holdVars, starts>>

\* The pool is going, or there is no room: the job ends where it stands.
LeaveStanding(w) ==
    /\ pc[w] \in {"again", "park"}
    /\ ~running \/ MayLackRoom
    /\ Goes(w, "ended", {})
    /\ UNCHANGED <<poolVars, has, masterVars, turnVars, wait, endVars, holdVars,
                   starts>>

(***************************************************************************)
(* The end of a job, on the worker that ran it or on the machine whose     *)
(* stop() dropped it: task_finished, then task_let_go                      *)
(***************************************************************************)
Finish(a) ==
    /\ pc[a] \in {"ended", "dropped"}
    /\ finished' = [finished EXCEPT ![has[a]] = TRUE]
    /\ owes' = IF await_id[has[a]] = "none" THEN owes ELSE owes \cup {a}
    /\ Goes(a, "push", {})
    /\ UNCHANGED <<poolVars, has, masterVars, turnVars, wait, taken, await_id,
                   holdVars, starts>>

PushAndLetGo(a) ==
    /\ pc[a] = "push"
    /\ await_id' = IF a \in owes THEN [await_id EXCEPT ![has[a]] = "ready"]
                   ELSE await_id
    /\ owes' = owes \ {a}
    /\ holds' = [holds EXCEPT ![has[a]] = @ - 1]
    /\ has' = [has EXCEPT ![a] = None]
    /\ Goes(a, IF a \in Workers THEN "take" ELSE "drain", {})
    /\ UNCHANGED <<poolVars, masterVars, turnVars, wait, finished, taken,
                   wrappers, starts>>

(***************************************************************************)
(* stop_pool and start()                                                   *)
(***************************************************************************)
BeginStop(m, next) ==
    /\ running' = FALSE
    /\ after' = [after EXCEPT ![m] = next]
    /\ Goes(m, IF running THEN "drain" ELSE next, {})
    /\ UNCHANGED <<threads, queue, parked, looked, has, joining, turnVars, wait,
                   endVars, holdVars>>

Stop(m) ==
    /\ pc[m] = "idle"
    /\ BeginStop(m, "idle")
    /\ UNCHANGED starts

Start(m) ==                               \* a second start is a fresh pool
    /\ pc[m] = "idle"
    /\ starts < MaxStarts
    /\ BeginStop(m, "launch")
    /\ starts' = starts + 1

DropQueued(m) ==
    /\ pc[m] = "drain"
    /\ queue # <<>>
    /\ queue' = Tail(queue)
    /\ has' = [has EXCEPT ![m] = Head(queue)]
    /\ Goes(m, "dropped", {})
    /\ UNCHANGED <<running, threads, parked, looked, masterVars, turnVars, wait,
                   endVars, holdVars, starts>>

DropParked(m) ==
    /\ pc[m] = "drain"
    /\ queue = <<>>
    /\ \E j \in parked :
         /\ parked' = parked \ {j}
         /\ has' = [has EXCEPT ![m] = j]
    /\ Goes(m, "dropped", {})
    /\ UNCHANGED <<running, threads, queue, looked, masterVars, turnVars, wait,
                   endVars, holdVars, starts>>

TellNobody(m) ==                          \* a mutant of TellWorkers
    /\ pc[m] = "drain"
    /\ queue = <<>> /\ parked = {}
    /\ joining' = [joining EXCEPT ![m] = threads]
    /\ threads' = {}
    /\ Goes(m, "join", {})
    /\ UNCHANGED <<running, queue, parked, looked, has, after, turnVars, wait,
                   endVars, holdVars, starts>>

\* Nothing is left to drop: the workers are told, and joined.
TellWorkers(m) ==
    /\ pc[m] = "drain"
    /\ queue = <<>> /\ parked = {}
    /\ joining' = [joining EXCEPT ![m] = threads]
    /\ threads' = {}
    /\ Goes(m, "join", Asleep)
    /\ UNCHANGED <<running, queue, parked, looked, has, after, turnVars, wait,
                   endVars, holdVars, starts>>

Join(m) ==
    /\ pc[m] = "join"
    /\ \A w \in joining[m] : pc[w] = "gone"
    /\ joining' = [joining EXCEPT ![m] = {}]
    /\ Goes(m, after[m], {})
    /\ UNCHANGED <<poolVars, has, after, turnVars, wait, endVars, holdVars,
                   starts>>

Launch(m) ==
    /\ pc[m] = "launch"
    /\ running' = TRUE
    /\ threads' = {}
    /\ Goes(m, "launching", {})
    /\ UNCHANGED <<queue, parked, looked, has, masterVars, turnVars, wait,
                   endVars, holdVars, starts>>

LaunchNoRoom(m) ==
    /\ pc[m] = "launch"
    /\ MayLackRoom
    /\ Goes(m, "idle", {})
    /\ UNCHANGED <<poolVars, has, masterVars, turnVars, wait, endVars, holdVars,
                   starts>>

LaunchOne(m) ==
    /\ pc[m] = "launching"
    /\ \E w \in Workers \ threads :
         /\ pc[w] = "gone"
         /\ threads' = threads \cup {w}
         /\ pc' = [pc EXCEPT ![w] = "take"]
    /\ UNCHANGED <<running, queue, parked, looked, has, masterVars, turnVars,
                   wait, endVars, holdVars, starts>>

\* As many as were wanted or the system would give; with none, stop_pool.
Launched(m) ==
    /\ pc[m] = "launching"
    /\ threads # {}
    /\ Goes(m, "idle", {})
    /\ UNCHANGED <<poolVars, has, masterVars, turnVars, wait, endVars, holdVars,
                   starts>>

LaunchedNone(m) ==
    /\ pc[m] = "launching"
    /\ threads = {} /\ MayLackRoom
    /\ BeginStop(m, "idle")
    /\ UNCHANGED starts

(***************************************************************************)
(* async(), await(), awaitable() and the Task value                        *)
(***************************************************************************)
Async(m, j) ==
    /\ pc[m] = "idle" /\ running
    /\ move[j] = "unmade"
    /\ move' = [move EXCEPT ![j] = "start"]
    /\ holds' = [holds EXCEPT ![j] = 1]
    /\ wrappers' = [wrappers EXCEPT ![j] = {m}]
    /\ has' = [has EXCEPT ![m] = j]
    /\ Goes(m, "spawn", {})
    /\ UNCHANGED <<poolVars, masterVars, turns, wait, endVars, starts>>

QueueUnheld(m) ==                         \* a mutant of QueueIt
    /\ pc[m] = "spawn" /\ running
    /\ queue' = Append(queue, has[m])
    /\ has' = [has EXCEPT ![m] = None]
    /\ \E woken \in Signalled(1) : Goes(m, "idle", woken)
    /\ UNCHANGED <<running, threads, parked, looked, masterVars, turnVars, wait,
                   endVars, holds, wrappers, starts>>

QueueIt(m) ==
    /\ pc[m] = "spawn" /\ running
    /\ queue' = Append(queue, has[m])
    /\ holds' = [holds EXCEPT ![has[m]] = @ + 1]
    /\ has' = [has EXCEPT ![m] = None]
    /\ \E woken \in Signalled(1) : Goes(m, "idle", woken)
    /\ UNCHANGED <<running, threads, parked, looked, masterVars, turnVars, wait,
                   endVars, wrappers, starts>>

\* The pool stopped meanwhile, or the queue could not grow: an error.
NotQueued(m) ==
    /\ pc[m] = "spawn"
    /\ ~running \/ MayLackRoom
    /\ has' = [has EXCEPT ![m] = None]
    /\ Goes(m, "idle", {})
    /\ UNCHANGED <<poolVars, masterVars, turnVars, wait, endVars, holdVars,
                   starts>>

Await(m, j) ==
    /\ pc[m] = "idle"
    /\ m \in wrappers[j]
    /\ has' = [has EXCEPT ![m] = j]
    /\ Goes(m, "await", {})
    /\ UNCHANGED <<poolVars, masterVars, turnVars, wait, endVars, holdVars,
                   starts>>

Awaited(m) ==
    /\ pc[m] = "await"
    /\ finished[has[m]]
    /\ taken' = [taken EXCEPT ![has[m]] = TRUE]
    /\ has' = [has EXCEPT ![m] = None]
    /\ Goes(m, "idle", {})
    /\ UNCHANGED <<poolVars, masterVars, turnVars, wait, finished, await_id,
                   owes, holdVars, starts>>

Awaitable(m, j) ==
    /\ pc[m] = "idle"
    /\ m \in wrappers[j]
    /\ \/ /\ await_id' = [await_id EXCEPT ![j] = IF @ = "none" THEN "armed"
                                                 ELSE @]
       \/ await_id[j] = "none" /\ MayLackRoom /\ UNCHANGED await_id
    /\ IF finished[j] /\ await_id'[j] # "none"
         THEN /\ owes' = owes \cup {m}
              /\ has' = [has EXCEPT ![m] = j]
              /\ Goes(m, "tell", {})
         ELSE UNCHANGED <<owes, has, pc>>
    /\ UNCHANGED <<poolVars, masterVars, turnVars, wait, finished, taken,
                   holdVars, starts>>

Tell(m) ==
    /\ pc[m] = "tell"
    /\ await_id' = [await_id EXCEPT ![has[m]] = "ready"]
    /\ owes' = owes \ {m}
    /\ has' = [has EXCEPT ![m] = None]
    /\ Goes(m, "idle", {})
    /\ UNCHANGED <<poolVars, masterVars, turnVars, wait, finished, taken,
                   holdVars, starts>>

\* The Task crosses to another machine, and a machine drops its own.
Share(m, n, j) ==
    /\ pc[m] = "idle"
    /\ m \in wrappers[j] /\ n \notin wrappers[j]
    /\ holds' = [holds EXCEPT ![j] = @ + 1]
    /\ wrappers' = [wrappers EXCEPT ![j] = @ \cup {n}]
    /\ UNCHANGED <<poolVars, pc, has, masterVars, turnVars, wait, endVars,
                   starts>>

DropTask(m, j) ==
    /\ m \in wrappers[j]
    /\ m \in Masters => pc[m] = "idle"
    /\ holds' = [holds EXCEPT ![j] = @ - 1]
    /\ wrappers' = [wrappers EXCEPT ![j] = @ \ {m}]
    /\ UNCHANGED <<poolVars, pc, has, masterVars, turnVars, wait, endVars,
                   starts>>

(***************************************************************************)
(* The clock, and whoever a parked job waits for                           *)
(***************************************************************************)
TimePasses ==
    /\ looked
    /\ looked' = FALSE
    /\ UNCHANGED <<running, threads, queue, parked, pc, has, masterVars,
                   turnVars, wait, endVars, holdVars, starts>>

Arrives(j) ==
    /\ wait[j] = "armed"
    /\ wait' = [wait EXCEPT ![j] = "ready"]
    /\ UNCHANGED <<poolVars, pc, has, masterVars, turnVars, endVars, holdVars,
                   starts>>

WorkerStep(w) ==
    \/ Take(w) \/ Leave(w) \/ NapOver(w) \/ Turn(w)
    \/ File(w) \/ LeaveStanding(w) \/ Finish(w) \/ PushAndLetGo(w)

\* What a master goes on with once it has made a call.
MasterStep(m) ==
    \/ DropQueued(m) \/ DropParked(m) \/ TellWorkers(m) \/ Join(m)
    \/ Launch(m) \/ LaunchNoRoom(m) \/ LaunchOne(m) \/ Launched(m)
    \/ LaunchedNone(m) \/ Finish(m) \/ PushAndLetGo(m)
    \/ QueueIt(m) \/ NotQueued(m) \/ Awaited(m) \/ Tell(m)

MasterCall(m) ==
    \/ m \in Starters /\ Start(m)
    \/ m \in Starters /\ Stop(m)
    \/ \E j \in Jobs : Async(m, j)
    \/ \E j \in Jobs \ Spinners :
         \/ Await(m, j) \/ Awaitable(m, j)
         \/ \E n \in Masters \cup Elsewhere : Share(m, n, j)

Next ==
    \/ \E w \in Workers : WorkerStep(w) \/ WakeByItself(w)
    \/ \E m \in Masters : MasterStep(m) \/ MasterCall(m)
    \/ TimePasses
    \/ \E j \in Jobs : Arrives(j)
    \/ \E m \in Masters \cup Elsewhere, j \in Jobs \ Spinners : DropTask(m, j)

Fairness ==
    /\ \A w \in Workers : WF_vars(WorkerStep(w))
    /\ \A m \in Masters : WF_vars(MasterStep(m))
    /\ WF_vars(TimePasses)

Spec == Init /\ [][Next]_vars
FairSpec == Spec /\ Fairness
=============================================================================
