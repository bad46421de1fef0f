-------------------------- MODULE LhatServerProps --------------------------
(***************************************************************************)
(* What the editor may rely on.                                            *)
(***************************************************************************)
EXTENDS LhatServer

\* The worker sleeps, and nothing is on its way to it.
Quiet == worker = "wait" /\ dirty = {} /\ marking = NoText

\* The files that are to be checked: every unit that is there, except those
\* of the folder that are left out, the open data files, and what all these
\* require.  (Units outside the folder are on no disk before they are opened.)
Covered ==
    LET left_out == Excluded[TextOf(Config)] \ Outside IN
    Reached({p \in Units \ left_out : TextOf(p) # NoText}
              \cup {p \in Data : documents[p] # NoText}, Present)

\* Whenever the server is quiet the editor shows, for every file, what its
\* text and the texts it requires give now -- whatever was edited, saved,
\* closed or reconfigured while the worker was waiting, checking or
\* publishing -- and nothing for the files that are no longer covered
\* (worker.c:109-153).
QuietMeansCurrent ==
    Quiet => \A p \in Checkable :
        shown[p] = IF p \in Covered /\ TextOf(p) # NoText
                   THEN Diagnostics(p, Tree({p})) ELSE NoTree

\* With a client that said it supports the refresh, no answer about semantic
\* tokens that was made from an older text outlives the check of the newer
\* one (worker.c:93-107).  Any other client is sent nothing and holds what it
\* holds until it asks by itself.
QuietMeansRefreshed ==
    Quiet /\ "refresh" \in session => \A p \in Checkable :
        tokens[p] \in {NoTree, Diagnostics(p, Tree({p}))}

\* The server comes to rest however the edits fell, and a server told to
\* exit ends its worker (queue.c:54-101, server.c:32-47).
Settles ==
    /\ worker # "off" ~> Quiet \/ worker = "gone"
    /\ should_exit ~> worker \in {"off", "gone"}

(***************************************************************************)
(* What the proof of QuietMeansCurrent asks of the constants.              *)
(***************************************************************************)
\* Nobody edits the configuration and the loose units in one session.
OneOrTheOther == \A s \in Sessions : ~({"configuration", "loose"} \subseteq s)

\* Files outside the folder come with the editor.
OutsideIsNew == \A p \in Outside : OnDisk[p] = NoText

\* Of the folder they require units only, and none that is left out: what only
\* the unscoped project checked of another's is not published.
OutsideRequires ==
    \A p \in Outside :
        Requires[p] \cap (Data \cup (Excluded[OnDisk[Config]] \ Outside)) = {}
=============================================================================
