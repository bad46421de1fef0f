---- MODULE MCLhatServer ----
(* A folder with a unit that requires another and a data file, and a unit    *)
(* outside the folder, with a client of either kind.                         *)
EXTENDS LhatServerProps
MCOnDisk == [p \in Paths |-> IF p \in {"app", "lib", "data"} THEN "old" ELSE NoText]
MCRequires == [p \in Units |-> CASE p = "app" -> {"lib", "data"} [] p = "out" -> {"lib"}
                                 [] OTHER -> {}]
MCExcluded == [t \in Texts \cup {NoText} |-> IF t = "new" THEN {"lib"} ELSE {}]
ASSUME WhatIsProved == OneOrTheOther /\ OutsideIsNew /\ OutsideRequires
====
