---------------------------- MODULE LhatDebugger ---------------------------
(***************************************************************************)
(* The debug adapter (dap/adapter.c): machines that stop together at their *)
(* line hooks, the reader that answers one debugger, and the host that     *)
(* ends the session or takes it over to another run.                       *)
(*                                                                         *)
(* All of a session stands under its lock, and everything that waits does  *)
(* so on its one condition `changed`: asleep are those nobody has woken    *)
(* since.  Where a breakpoint stands and how deep a step has gone are free *)
(* choices of the line that is reached.                                    *)
(***************************************************************************)
EXTENDS Integers, FiniteSets

CONSTANTS
    Machines, Main,     \* Main: the machine of the host's own run
    Idle,               \* machines that may wait in the host for ever
    MaxThreads,         \* DAP_MAX_THREADS
    MaxRuns,            \* how often the host starts its run
    MayAskWhileGoing,   \* a request for variables may come after a resume
    MayBeBornLate,      \* a machine may be made once the session has ended
    MayHangUp           \* the debugger may be gone while the host restarts

Host == "host"
Reader == "reader"

ASSUME DebuggerAssumption ==
    /\ IsFiniteSet(Machines) /\ Main \in Machines
    /\ Idle \subseteq Machines
    /\ {Host, Reader} \cap Machines = {}
    /\ {MaxThreads, MaxRuns} \subseteq Nat \ {0}
    /\ {MayAskWhileGoing, MayBeBornLate, MayHangUp} \subseteq BOOLEAN

VARIABLES
    at,         \* machine -> where its thread is
    stepping,   \* the machines asked for a step into the next line
    threads,    \* the machines the session follows: those with the hook
    stopping, pauseAll, ended, detached,
    vars,       \* the machines a handed-out reference reads
    asleep,     \* who waits on `changed`
    watching,   \* whether the watcher of machines is installed
    host, reader, runs

session == <<stopping, pauseAll, ended, detached>>
machines == <<at, stepping>>
all == <<machines, threads, session, vars, asleep, watching, host, reader, runs>>

\* A run that faulted stands at the fault, and ends there.
Parked == {m \in Machines : at[m] \in {"parked", "faulted"}}
Over == ended \/ detached

Init ==
    /\ at = [m \in Machines |-> IF m = Main THEN "runs" ELSE "unborn"]
    /\ stepping \in SUBSET {Main}          \* stopOnEntry
    /\ threads = {Main}
    /\ stopping = FALSE /\ pauseAll = FALSE /\ ended = FALSE /\ detached = FALSE
    /\ vars = {}
    /\ asleep = {}
    /\ watching = TRUE
    /\ host = "away" /\ reader = "reads"
    /\ runs = 1

Broadcast == asleep' = {}

(***************************************************************************)
(* The machines                                                            *)
(***************************************************************************)
StopsAlone(m, event, hit) ==              \* a mutant of Stops
    \/ event = "fault"
    \/ pauseAll
    \/ event = "line" /\ (m \in stepping \/ hit)
\* hit: a breakpoint stands here, or a step over or out has come far enough.
Stops(m, event, hit) ==
    \/ event = "fault"
    \/ stopping \/ pauseAll
    \/ event = "line" /\ (m \in stepping \/ hit)

\* dap_hook: the first to park is the stop the debugger hears of.
Hook(m, event, hit) ==
    /\ at[m] = "runs" /\ m \in threads
    /\ IF Over
       THEN /\ at' = [at EXCEPT ![m] = "leaves"]
            /\ UNCHANGED <<stepping, session, vars, asleep>>
       ELSE /\ Stops(m, event, hit)
            /\ stepping' = stepping \ {m}
            /\ stopping' = TRUE
            /\ pauseAll' = (pauseAll /\ stopping)
            /\ vars' = IF stopping THEN vars ELSE {}
            /\ at' = [at EXCEPT ![m] = IF event = "fault" THEN "faulted" ELSE "parked"]
            /\ asleep' = asleep \cup {m}
            /\ UNCHANGED <<ended, detached>>
    /\ UNCHANGED <<threads, watching, host, reader, runs>>

Line(m) == Hook(m, "line", FALSE)

WakeOnce(m) ==                            \* a mutant of Wake
    /\ m \in Parked \ asleep
    /\ at' = [at EXCEPT ![m] = IF Over \/ at[m] = "faulted" THEN "leaves" ELSE "runs"]
    /\ UNCHANGED <<stepping, threads, session, vars, asleep, watching,
                   host, reader, runs>>
\* The loop of a parked machine, once it has the lock again.
Wake(m) ==
    /\ m \in Parked \ asleep
    /\ IF stopping /\ ~Over
       THEN asleep' = asleep \cup {m} /\ UNCHANGED at
       ELSE /\ at' = [at EXCEPT ![m] = IF Over \/ at[m] = "faulted" THEN "leaves" ELSE "runs"]
            /\ UNCHANGED asleep
    /\ UNCHANGED <<stepping, threads, session, vars, watching, host, reader, runs>>

Finish(m) ==
    /\ at[m] = "runs"
    /\ at' = [at EXCEPT ![m] = "leaves"]
    /\ UNCHANGED <<stepping, threads, session, vars, asleep, watching,
                   host, reader, runs>>

\* machine_born, on the thread of the machine that makes this one.
Born(m, parent) ==
    /\ at[parent] = "runs" /\ at[m] = "unborn"
    /\ ~ended \/ MayBeBornLate
    /\ at' = [at EXCEPT ![m] = "runs"]
    /\ threads' = IF watching /\ ~ended /\ Cardinality(threads) < MaxThreads
                  THEN threads \cup {m} ELSE threads
    /\ UNCHANGED <<stepping, session, vars, asleep, watching, host, reader, runs>>

\* lhat_machine_dispose asks for the watcher, and machine_dying takes the
\* session's lock after.
Dispose(m) ==
    /\ m # Main /\ at[m] = "leaves"
    /\ at' = [at EXCEPT ![m] = IF watching THEN "dying" ELSE "gone"]
    /\ UNCHANGED <<stepping, threads, session, vars, asleep, watching,
                   host, reader, runs>>

DyingSilently(m) ==                       \* a mutant of Dying
    /\ at[m] = "dying"
    /\ at' = [at EXCEPT ![m] = "gone"]
    /\ threads' = threads \ {m} /\ stepping' = stepping \ {m}
    /\ UNCHANGED <<session, vars, asleep, watching, host, reader, runs>>
Dying(m) ==
    /\ at[m] = "dying"
    /\ at' = [at EXCEPT ![m] = "gone"]
    /\ threads' = threads \ {m} /\ stepping' = stepping \ {m}
    /\ IF m \in threads THEN Broadcast ELSE UNCHANGED asleep
    /\ UNCHANGED <<session, vars, watching, host, reader, runs>>

(***************************************************************************)
(* The debugger's requests                                                 *)
(***************************************************************************)
\* What the reader dispatches; a request between two runs waits.
Served == reader = "reads" /\ ~Over

ResumeKeepingVars ==                      \* a mutant of ResumeAll
    /\ stopping' = FALSE /\ pauseAll' = FALSE
    /\ Broadcast
    /\ UNCHANGED <<vars, ended, detached>>
ResumeAll ==
    /\ stopping' = FALSE /\ pauseAll' = FALSE
    /\ vars' = {}
    /\ Broadcast
    /\ UNCHANGED <<ended, detached>>

Continue ==
    /\ Served
    /\ ResumeAll
    /\ UNCHANGED <<machines, threads, watching, host, reader, runs>>

\* next and stepOut are as Continue: a step that has come far enough is a
\* hit.
StepIn(m) ==
    /\ Served
    /\ m \in threads
    /\ stepping' = stepping \cup {m}
    /\ ResumeAll
    /\ UNCHANGED <<at, threads, watching, host, reader, runs>>

Pause ==
    /\ Served
    /\ pauseAll' = TRUE
    /\ UNCHANGED <<machines, threads, stopping, ended, detached, vars, asleep,
                   watching, host, reader, runs>>

\* The tables of a parked machine's frames are handed out by reference.
Variables(m) ==
    /\ Served
    /\ m \in threads \cap Parked
    /\ stopping \/ MayAskWhileGoing
    /\ vars' = vars \cup {m}
    /\ UNCHANGED <<machines, threads, session, asleep, watching, host, reader, runs>>

\* disconnect and terminate, or the end of the stream.
Disconnect ==
    /\ reader = "reads"
    /\ ~detached \/ MayHangUp
    /\ ended' = TRUE
    /\ reader' = "left"
    /\ Broadcast
    /\ UNCHANGED <<machines, threads, stopping, pauseAll, detached, vars,
                   watching, host, runs>>

Hold ==
    /\ reader = "reads" /\ detached /\ ~ended
    /\ reader' = "holds"
    /\ asleep' = asleep \cup {Reader}
    /\ UNCHANGED <<machines, threads, session, vars, watching, host, runs>>

HoldOn ==
    /\ reader = "holds" /\ Reader \notin asleep
    /\ IF detached /\ ~ended
       THEN asleep' = asleep \cup {Reader} /\ UNCHANGED reader
       ELSE reader' = (IF ended THEN "left" ELSE "reads") /\ UNCHANGED asleep
    /\ UNCHANGED <<machines, threads, session, vars, watching, host, runs>>

(***************************************************************************)
(* The host                                                                *)
(***************************************************************************)
\* dap_session_end, after the run or when a rebind has failed.
BeginEnd ==
    /\ host = "away" /\ at[Main] = "leaves"
    /\ ended' = TRUE
    /\ host' = "ending"
    /\ Broadcast
    /\ UNCHANGED <<machines, threads, stopping, pauseAll, detached, vars,
                   watching, reader, runs>>

EndAtOnce ==                              \* a mutant of EndWait
    /\ host = "ending" /\ Host \notin asleep
    /\ threads' = {} /\ watching' = FALSE /\ host' = "closing"
    /\ UNCHANGED <<machines, session, vars, asleep, reader, runs>>
EndWait ==
    /\ host = "ending" /\ Host \notin asleep
    /\ IF Cardinality(threads) > 1
       THEN /\ asleep' = asleep \cup {Host}
            /\ UNCHANGED <<threads, watching, host>>
       ELSE /\ threads' = {} /\ watching' = FALSE
            /\ host' = "closing"
            /\ UNCHANGED asleep
    /\ UNCHANGED <<machines, session, vars, reader, runs>>

\* The socket is closed, which ends the reader's reading, and it is joined.
Close ==
    /\ host = "closing"
    /\ IF reader = "reads" THEN reader' = "left" /\ UNCHANGED host
       ELSE reader = "left" /\ host' = "over" /\ UNCHANGED reader
    /\ UNCHANGED <<machines, threads, session, vars, asleep, watching, runs>>

BeginDetach ==
    /\ host = "away" /\ at[Main] = "leaves" /\ runs < MaxRuns
    /\ ~ended \/ MayHangUp
    /\ detached' = TRUE
    /\ stopping' = FALSE /\ pauseAll' = FALSE
    /\ host' = "detaching"
    /\ Broadcast
    /\ UNCHANGED <<machines, threads, ended, vars, watching, reader, runs>>

DetachWait ==
    /\ host = "detaching" /\ Host \notin asleep
    /\ IF Cardinality(threads) > 1 /\ ~ended
       THEN /\ asleep' = asleep \cup {Host}
            /\ UNCHANGED <<threads, vars, watching, host>>
       ELSE /\ IF Cardinality(threads) = 1 THEN threads' = {} /\ Broadcast
               ELSE UNCHANGED <<threads, asleep>>
            /\ vars' = {}
            /\ watching' = FALSE
            /\ host' = "between"
    /\ UNCHANGED <<machines, session, reader, runs>>

\* dap_session_rebind on the next run's machine; the host ends the session
\* when the debugger has left.
Rebind ==
    /\ host = "between"
    /\ IF ended
       THEN /\ host' = "ending"
            /\ Broadcast
            /\ UNCHANGED <<machines, threads, detached, watching>>
       ELSE /\ at' = [at EXCEPT ![Main] = "runs"]
            /\ stepping' = stepping \ {Main}
            /\ threads' = threads \cup {Main}
            /\ detached' = FALSE
            /\ watching' = TRUE
            /\ host' = "away"
            /\ Broadcast
    /\ runs' = runs + 1
    /\ UNCHANGED <<stopping, pauseAll, ended, vars, reader>>

Next ==
    \/ \E m \in Machines :
          \/ \E event \in {"line", "host", "fault"}, hit \in BOOLEAN : Hook(m, event, hit)
          \/ Wake(m) \/ Finish(m) \/ Dispose(m) \/ Dying(m)
          \/ \E parent \in Machines : Born(m, parent)
          \/ StepIn(m) \/ Variables(m)
    \/ Continue \/ Pause \/ Disconnect \/ Hold \/ HoldOn
    \/ BeginEnd \/ EndWait \/ Close \/ BeginDetach \/ DetachWait \/ Rebind

Spec == Init /\ [][Next]_all

\* A machine comes to a line, or ends its run, and its thread goes on; so do
\* the reader, once woken, and the host.
Fairness ==
    /\ \A m \in Machines :
          /\ m \notin Idle => WF_all(Line(m))
          /\ WF_all(Wake(m)) /\ WF_all(Dispose(m)) /\ WF_all(Dying(m))
    /\ WF_all(HoldOn)
    /\ WF_all(BeginEnd \/ BeginDetach) /\ WF_all(EndWait) /\ WF_all(Close)
    /\ WF_all(DetachWait) /\ WF_all(Rebind)

FairSpec == Spec /\ Fairness
=============================================================================
