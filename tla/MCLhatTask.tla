---- MODULE MCLhatTask ----
(* A pool of two threads, two masters and two jobs. *)
EXTENDS LhatTaskProps
====
