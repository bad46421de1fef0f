---------------------------- MODULE MCLhatFrames ----------------------------
(* Small programs for LhatFrames.                                          *)
EXTENDS LhatFramesProps

CONSTANTS c1, c2, main, g1, g2, h

BodyOfEach == (c1 :> g1) @@ (c2 :> g2)

Y == <<<<"YIELD">>>>
R == <<<<"RETURN">>>>
Start(c) == <<<<"NEW", c>>, <<"RESUME", c>>>>
Owing == Block(0, Y, <<>>) \o R

ProgramsOf(mains, bodies1, bodies2, helpers) ==
  {(main :> m) @@ (g1 :> b1) @@ (g2 :> b2) @@ (h :> p) :
     m \in mains, b1 \in bodies1, b2 \in bodies2, p \in helpers}

(* Every way out of a block: to its end, by return^, by dispose(), by      *)
(* being dropped, from one block, nested ones and one after another.       *)
Bodies ==
  {Owing,
   Block(0, Y \o R, <<>>) \o R,
   Block(0, Block(1, Y, <<>>) \o Y, <<>>) \o R,
   Block(0, Block(1, Y \o R, <<>>), <<>>) \o R,
   Y \o Block(0, Block(1, Y, <<>>) \o Block(1, Y, <<>>), <<>>) \o R}

Helpers ==
  {Block(0, R, <<>>) \o R, Block(0, Block(1, <<>>, <<>>), <<>>) \o R}

ExitOps == {<<"RESUME", c1>>, <<"DISPOSE", c1>>, <<"DROP", c1>>, <<"COLLECT">>,
            <<"CALL", h>>}
Mains(ops, n) == {Start(c1) \o m \o R : m \in SeqOf(ops, n)}

(* A second coroutine is made once: by the body of the first, or by h.     *)
CallsOnce(m) == Cardinality({i \in DOMAIN m : m[i] = <<"CALL", h>>}) <= 1
ExitPrograms ==
  ProgramsOf(Mains(ExitOps, 3), Bodies, {Owing}, Helpers)
    \cup ProgramsOf(Mains(ExitOps, 3),
           {Start(c2) \o Block(0, Y, <<<<"DISPOSE", c2>>>>) \o R}, {Owing}, Helpers)
    \cup ProgramsOf({m \in Mains(ExitOps, 3) : CallsOnce(m)},
           {Owing}, {Owing}, {Start(c2) \o R})

(* Frames entered for a comparison or from the host, states saved and      *)
(* loaded, faults.                                                         *)
AnyOps == ExitOps \cup {<<"COMPARE", h>>, <<"CALLBACK", h>>, <<"TAILCALL", h>>, <<"SAVE", c1>>,
                        <<"LOAD", c1>>, <<"PANIC">>}
AnyPrograms ==
  ProgramsOf(Mains(AnyOps, 3),
             {Y \o Block(0, Y, <<>>) \o <<<<"TAILCALL", h>>>> \o R,
              Start(c2) \o Block(0, Y, <<<<"CALL", h>>>>) \o R},
             {Owing},
             {Block(0, Block(1, <<>>, <<>>) \o R, <<>>) \o R,
              Block(0, Block(1, Block(2, R, <<>>), <<>>), <<>>) \o R,
              Start(c2) \o R})

(* Two coroutines dropped together, the cleanup of one calling h.          *)
CallingPrograms ==
  {(main :> Start(c1) \o Start(c2) \o <<<<"DROP", c1>>, <<"DROP", c2>>, <<"COLLECT">>>> \o R)
     @@ (g1 :> Block(0, Y, <<<<"CALL", h>>>>) \o R)
     @@ (g2 :> Block(0, Y, <<<<"CALL", h>>>>) \o R) @@ (h :> R)}

(* ... the cleanup of one resuming the other.                              *)
ResumingPrograms ==
  {(main :> Start(c1) \o <<<<"DROP", c1>>, <<"COLLECT">>>> \o R)
     @@ (g1 :> Start(c2) \o Block(0, Y, <<<<"RESUME", c2>>>>) \o R)
     @@ (g2 :> Owing) @@ (h :> R)}

(* A finally^ with a yield^ in it.                                         *)
YieldingPrograms ==
  {(main :> Start(c1) \o <<<<"RESUME", c1>>, <<"RESUME", c1>>>> \o R)
     @@ (g1 :> Block(0, Y \o R, Y) \o R) @@ (g2 :> Owing) @@ (h :> R)}

(* A finally^ with a block that has one of its own.                        *)
NestedPrograms ==
  {(main :> Block(0, <<>>, Block(0, <<>>, <<>>)) \o R)
     @@ (g1 :> R) @@ (g2 :> R) @@ (h :> R)}

(* A coroutine that names another, dropped while it is suspended.          *)
LeavingPrograms ==
  {(main :> Start(c1) \o <<<<"DROP", c1>>>> \o R)
     @@ (g1 :> Start(c2) \o Y \o R) @@ (g2 :> Owing) @@ (h :> R)}

(* A comparison where a disposal is made next.                             *)
ComparingPrograms ==
  {(main :> Start(c1) \o <<<<"COMPARE", h>>, <<"DISPOSE", c1>>>> \o R)
     @@ (g1 :> Owing) @@ (g2 :> Owing) @@ (h :> R)}

(* The programs of both runs are what the proofs ask of a program.         *)
ASSUME ProgramsAreLaidOut ==
  \A program \in ExitPrograms \cup AnyPrograms : WellLaid(program)
=============================================================================
