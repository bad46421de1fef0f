---- MODULE MCLhatProgram ----
(* A root that requires a library, which requires a leaf named under it.    *)
(* The library may be edited to another version, to one that takes the name  *)
(* the leaf stands at, to one that does not check and one that does not      *)
(* compile; the leaf to one that does not fit the library, or it may be      *)
(* missing.  With MCVersionsCycle the library may be edited to require the   *)
(* root.                                                                     *)
EXTENDS LhatProgramProps
MCOnDisk == [p \in Paths |-> p]
MCRequires == [t \in Texts |->
    CASE t = "root" -> <<"lib">> [] t = "root direct" -> <<"leaf", "lib">>
      [] t \in {"lib", "lib new", "lib takes", "lib stops"} -> <<"leaf">>
      [] t = "lib cycle" -> <<"root">> [] t = "a script" -> <<"lib">>
      [] OTHER -> <<>>]
MCClashes == {<<"lib", "leaf new">>}
MCUnder == {<<"leaf", "lib">>}
MCPublishes == {<<"lib takes", "leaf">>}
MCVersions == [p \in Paths |->
    CASE p = "root" -> {"root", "root direct"}
      [] p = "lib" -> {"lib", "lib new", "lib takes", "lib bad", "lib stops"}
      [] p = "leaf" -> {"leaf", "leaf new", NoText} [] OTHER -> {}]
MCVersionsCycle == [p \in Paths |->
    CASE p = "root" -> {"root", "root direct"} [] p = "lib" -> {"lib", "lib cycle"}
      [] OTHER -> {}]
====
