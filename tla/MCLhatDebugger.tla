---- MODULE MCLhatDebugger ----
(* A run with two workers under a debugger, started again once.            *)
EXTENDS LhatDebuggerProps
====
