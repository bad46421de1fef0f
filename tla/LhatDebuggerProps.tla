------------------------- MODULE LhatDebuggerProps -------------------------
(***************************************************************************)
(* What a debugger and a host may rely on.                                 *)
(***************************************************************************)
EXTENDS LhatDebugger

\* A reference handed out for a table names a machine that is parked, whose
\* registers keep the table until the resume (adapter.c:86-91).
HandedOutIsParked == ~Over => vars \subseteq Parked

\* While the debugger believes every thread stopped, no machine goes on: one
\* that was let go and comes to the lock after another has stopped again
\* stays where it is (adapter.c:1446-1451).
StandsStill ==
    [][\A m \in Machines : m \in Parked /\ at'[m] = "runs" => ~stopping']_all

\* A stop stops everybody: each machine the session follows comes to stand,
\* or ends, unless the debugger lets them go first; and all that stand go on
\* after a resume that no other stop overtakes (adapter.c:1086-1092, 1417-1425).
StopsAndGoesOn ==
    \A m \in Machines :
        /\ stopping /\ m \in threads /\ at[m] = "runs" ~> at[m] # "runs" \/ ~stopping
        /\ ~stopping /\ m \in Parked ~> m \notin Parked \/ stopping

\* dap_session_end and dap_session_detach return, whoever is parked, running
\* or being made when they are called (adapter.c:1557-1567, 1606-1616).
HostGoesOn ==
    /\ host = "ending" ~> host = "over"
    /\ host = "detaching" ~> host # "detaching"

\* The session is freed under nobody: no machine is parked in it, has its
\* hook or is about to take its lock (debug.h:142-145).
FreedUnderNobody ==
    host = "over" => threads = {} /\ \A m \in Machines : m \notin Parked /\ at[m] # "dying"
=============================================================================
