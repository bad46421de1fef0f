----------------------------- MODULE LhatServer -----------------------------
(***************************************************************************)
(* The language server (lsp/): one thread that reads messages and keeps    *)
(* the editor's copies, one worker that checks and publishes, and the      *)
(* queue of paths between them.                                            *)
(*                                                                         *)
(* A text is a value and a diagnostic is what it was derived from: the     *)
(* text of a file and of everything it requires.  One folder is open, with *)
(* one configuration file, whose text says what the project leaves out;    *)
(* a file outside every folder belongs to the unscoped project.  A check   *)
(* reads all its texts in one step: whatever changes while it runs is      *)
(* marked dirty after the change and is checked once more.                 *)
(***************************************************************************)
EXTENDS Integers, FiniteSets

CONSTANTS
    Units, Data,      \* paths of .lh and of .lton files
    Config,           \* the path of the configuration file
    Outside,          \* the units outside every workspace folder
    Texts,
    Typed,            \* those of them the editor may send
    NoText,           \* no file there, or no copy of it
    OnDisk,           \* path -> what the disk holds at first
    Requires,         \* unit -> the paths its text requires
    Excluded,         \* text of the configuration -> the units left out
    MaxEdits,         \* bound: edits of the editor
    MaxAsks,          \* bound: requests for semantic tokens
    Sessions          \* what may be edited: the configuration, units that
                      \* are loose (outside the folder or not on the disk);
                      \* and what the client can do: fetch its semantic
                      \* tokens again when it is asked to ("refresh")

Checkable == Units \cup Data
Paths == Checkable \cup {Config}
Projects == {"folder", "unscoped"}
NoTree == [p \in {} |-> NoText]

ASSUME ServerAssumption ==
    /\ IsFiniteSet(Paths) /\ Outside \subseteq Units
    /\ Units \cap Data = {} /\ Config \notin Checkable
    /\ NoText \notin Texts \cup Paths /\ Typed \subseteq Texts
    /\ OnDisk \in [Paths -> Texts \cup {NoText}]
    /\ Requires \in [Units -> SUBSET Checkable]
    /\ Excluded \in [Texts \cup {NoText} -> SUBSET Units]
    /\ {MaxEdits, MaxAsks} \subseteq Nat
    /\ Sessions \subseteq SUBSET {"configuration", "loose", "refresh"}

VARIABLES
    documents,        \* the editor's copies: path -> text or NoText
    disk,
    marking,          \* the path a handler has changed and has yet to mark
    dirty,            \* the paths of the queue
    shutdown,
    should_exit,
    worker,           \* where the worker stands
    before,           \* how many paths its debounce saw
    batch,            \* the drained paths it has yet to check
    opened,           \* the projects there are
    settings,         \* the text each project's configuration was read with
    roots,
    program,          \* project -> path -> the text it was checked from
    data_program,
    shown,            \* what the editor shows: path -> texts derived from
    published,        \* the paths the last round published for
    tokens,           \* the texts its tokens were derived from, by path
    session,          \* what is edited in this run and what the client can
                      \* do (semantic_tokens_refresh_supported)
    edits, asks       \* how much was

readerVars == <<documents, disk, marking, should_exit, session, edits, asks>>
queueVars == <<dirty, shutdown>>
projectVars == <<opened, settings, roots, program, data_program>>
shownVars == <<shown, published>>
vars == <<documents, disk, marking, dirty, shutdown, should_exit, worker, before,
          batch, opened, settings, roots, program, data_program, shown,
          published, tokens, session, edits, asks>>

(***************************************************************************)
(* Loading and checking                                                    *)
(***************************************************************************)
\* lsp_program_load: the editor's copy, else the disk.
TextOf(p) == IF documents[p] # NoText THEN documents[p] ELSE disk[p]
Present == [p \in Checkable |-> TextOf(p)]

\* The paths a check of `from` comes to, the least that hold what every
\* loaded unit of them requires.
Closed(paths, text) ==
    \A p \in paths \cap Units : text[p] # NoText => Requires[p] \subseteq paths
Reached(from, text) ==
    {q \in DOMAIN text : \A paths \in SUBSET (DOMAIN text) :
                            from \subseteq paths /\ Closed(paths, text) => q \in paths}

Tree(from) == [p \in Reached(from, Present) |-> TextOf(p)]

\* What is said of p in a tree: it depends on all that p requires.
Diagnostics(p, tree) ==
    IF p \in Units THEN [q \in Reached({p}, tree) |-> tree[q]]
    ELSE [q \in {p} |-> tree[q]]

\* recheck_semantic_project and recheck_data_project: what the two programs
\* of a project with these roots are rebuilt to.
Semantic(root_set) ==
    IF root_set = {} THEN NoTree ELSE Tree(root_set \cap Units)
DataOnly(root_set) == [p \in root_set \cap Data |-> TextOf(p)]

\* project_for_path.
Owner(p) ==
    IF p \notin Outside THEN "folder"
    ELSE IF "unscoped" \in opened THEN "unscoped" ELSE "nobody"

Init ==
    /\ documents = [p \in Paths |-> NoText]
    /\ disk = OnDisk
    /\ marking = NoText
    /\ dirty = {} /\ shutdown = FALSE /\ should_exit = FALSE
    /\ worker = "off" /\ before = 0 /\ batch = {}
    /\ opened = {}
    /\ settings = NoText
    /\ roots = [j \in Projects |-> {}]
    /\ program = [j \in Projects |-> NoTree]
    /\ data_program = [j \in Projects |-> NoTree]
    /\ shown = [p \in Checkable |-> NoTree]
    /\ published = {}
    /\ tokens = [p \in Checkable |-> NoTree]
    /\ session \in Sessions
    /\ edits = 0 /\ asks = 0

(***************************************************************************)
(* The reader: handlers of the editor's messages                           *)
(***************************************************************************)
\* The folder's project and the units below it that are on the disk.
Discovered ==
    /\ opened' = {"folder"}
    /\ settings' = TextOf(Config)
    /\ roots' = [j \in Projects |->
                   IF j = "folder"
                   THEN {p \in Units \ (Outside \cup Excluded[TextOf(Config)]) :
                           disk[p] # NoText}
                   ELSE {}]

Initialized ==
    /\ worker = "off" /\ ~should_exit
    /\ Discovered
    /\ worker' = "recheck_all"
    /\ UNCHANGED <<readerVars, queueVars, before, batch, program, data_program,
                   shownVars, tokens>>

\* didOpen, didChange and didClose: the copy first, then the mark.
InSession(p) ==
    /\ p = Config => "configuration" \in session
    /\ p \in Units /\ (p \in Outside \/ disk[p] = NoText) => "loose" \in session

Edit(p, text) ==
    /\ ~should_exit /\ marking = NoText
    /\ edits < MaxEdits
    /\ documents[p] # text
    /\ InSession(p)
    /\ documents' = [documents EXCEPT ![p] = text]
    /\ marking' = p
    /\ edits' = edits + 1
    /\ UNCHANGED <<disk, queueVars, should_exit, worker, before, batch,
                   projectVars, shownVars, tokens, session, asks>>

\* The editor saves: the server is told of the configuration only.
Save(p) ==
    /\ ~should_exit /\ marking = NoText
    /\ edits < MaxEdits
    /\ documents[p] \notin {NoText, disk[p]}
    /\ InSession(p)
    /\ disk' = [disk EXCEPT ![p] = documents[p]]
    /\ marking' = IF p = Config THEN p ELSE NoText
    /\ edits' = edits + 1
    /\ UNCHANGED <<documents, queueVars, should_exit, worker, before, batch,
                   projectVars, shownVars, tokens, session, asks>>

MarkDirty ==
    /\ marking # NoText
    /\ dirty' = dirty \cup {marking}
    /\ marking' = NoText
    /\ UNCHANGED <<shutdown, documents, disk, should_exit, worker, before, batch,
                   projectVars, shownVars, tokens, session, edits,
                   asks>>

\* textDocument/semanticTokens/full answers from the tree there is, that of
\* the file's own project first.
TreeOf(j, p) ==
    IF p \in DOMAIN data_program[j] THEN data_program[j] ELSE program[j]
Holding(p) == {j \in opened : p \in DOMAIN TreeOf(j, p) /\ TreeOf(j, p)[p] # NoText}

Ask(p) ==
    /\ ~should_exit /\ marking = NoText
    /\ asks < MaxAsks
    /\ \E j \in Holding(p) :
         /\ Owner(p) \in Holding(p) => j = Owner(p)
         /\ tokens' = [tokens EXCEPT ![p] = Diagnostics(p, TreeOf(j, p))]
    /\ asks' = asks + 1
    /\ UNCHANGED <<documents, disk, marking, queueVars, should_exit, worker,
                   before, batch, projectVars, shownVars, session, edits>>

\* "exit", or the end of the stream: lsp_server_dispose shuts the queue down.
Exit ==
    /\ ~should_exit /\ marking = NoText
    /\ should_exit' = TRUE
    /\ shutdown' = TRUE
    /\ UNCHANGED <<documents, disk, marking, dirty, worker, before, batch,
                   projectVars, shownVars, tokens, session, edits,
                   asks>>

(***************************************************************************)
(* The worker: wait, debounce, drain                                       *)
(***************************************************************************)
Wait ==
    /\ worker = "wait"
    /\ dirty # {} \/ shutdown
    /\ IF dirty = {} THEN worker' = "gone" /\ UNCHANGED before
       ELSE worker' = "debounce" /\ before' = Cardinality(dirty)
    /\ UNCHANGED <<readerVars, queueVars, batch, projectVars, shownVars,
                   tokens>>

SliceTillMore ==                          \* a mutant of Slice
    /\ worker = "debounce"
    /\ before' = Cardinality(dirty)
    /\ worker' = IF Cardinality(dirty) = before THEN "debounce" ELSE "drain"
    /\ UNCHANGED <<readerVars, queueVars, batch, projectVars, shownVars,
                   tokens>>

\* A slice ended, or was cut short by a signal: once more unless the queue
\* is as long as it was.
Slice ==
    /\ worker = "debounce"
    /\ before' = Cardinality(dirty)
    /\ worker' = IF Cardinality(dirty) = before THEN "drain" ELSE "debounce"
    /\ UNCHANGED <<readerVars, queueVars, batch, projectVars, shownVars,
                   tokens>>

Drain ==
    /\ worker = "drain"
    /\ batch' = dirty
    /\ dirty' = {}
    /\ worker' = IF Config \in dirty THEN "config" ELSE "recheck"
    /\ UNCHANGED <<readerVars, shutdown, before, projectVars, shownVars,
                   tokens>>

(***************************************************************************)
(* The worker: checking                                                    *)
(***************************************************************************)
\* The configuration changed: the projects are made anew.
Rediscover ==
    /\ worker = "config"
    /\ Discovered
    /\ program' = [j \in Projects |-> NoTree]
    /\ data_program' = [j \in Projects |-> NoTree]
    /\ batch' = {}
    /\ worker' = "recheck_all"
    /\ UNCHANGED <<readerVars, queueVars, before, shownVars, tokens>>

\* The open data files become roots again, and every project is rebuilt.
RecheckAll ==
    /\ worker = "recheck_all"
    /\ roots' = [roots EXCEPT !["folder"] =
                   @ \cup {p \in Data : documents[p] # NoText}]
    /\ program' = [j \in Projects |->
                     IF j \in opened THEN Semantic(roots'[j]) ELSE NoTree]
    /\ data_program' = [j \in Projects |->
                     IF j \in opened THEN DataOnly(roots'[j]) ELSE NoTree]
    /\ worker' = "publish"
    /\ UNCHANGED <<readerVars, queueVars, before, batch, opened, settings,
                   shownVars, tokens>>

\* A data file that was closed is released and not read from the disk.
Released(p) == p \in Data /\ documents[p] = NoText

OwnRootOnly(j, p) == p \in roots'[j]      \* a mutant of SemanticChanged
SemanticChanged(j, p) ==
    \/ p \in DOMAIN program[j]
    \/ p \in Units /\ p \in roots'[j] /\ j = Owner(p)'

\* lsp_workspace_recheck_affected.
Affects(p) ==
    /\ opened' = IF p \in Outside THEN opened \cup {"unscoped"} ELSE opened
    /\ roots' = [j \in Projects |->
         IF Released(p) THEN roots[j] \ {p}
         ELSE IF /\ p \notin Excluded[settings] \/ p \in Outside
                 /\ j = (IF p \in Outside THEN "unscoped" ELSE "folder")
              THEN roots[j] \cup {p} ELSE roots[j]]
    /\ program' = [j \in Projects |->
         IF SemanticChanged(j, p) THEN Semantic(roots'[j]) ELSE program[j]]
    /\ data_program' = [j \in Projects |->
         IF SemanticChanged(j, p) \/ p \in roots'[j] \cup roots[j]
         THEN DataOnly(roots'[j]) ELSE data_program[j]]

Recheck ==
    /\ worker = "recheck"
    /\ \E p \in batch :
         /\ Affects(p)
         /\ batch' = batch \ {p}
         /\ worker' = IF batch' = {} THEN "publish" ELSE "recheck"
    /\ UNCHANGED <<readerVars, queueVars, before, settings, shownVars,
                   tokens>>

(***************************************************************************)
(* The worker: publishing                                                  *)
(***************************************************************************)
\* The tree whose word for p is published: the data one where there is one,
\* of the project p belongs to where it belongs to any.
SaysOf(p) ==
    {Diagnostics(p, TreeOf(j, p)) :
        j \in {k \in Holding(p) : Owner(p) \in {k, "nobody"}}}

Current == {p \in Checkable : SaysOf(p) # {}}

PublishOnly ==                            \* a mutant of Publish
    /\ worker = "publish"
    /\ shown' = [p \in Checkable |->
         IF p \in Current THEN CHOOSE d \in SaysOf(p) : TRUE
         ELSE IF p \in published THEN NoTree ELSE shown[p]]
    /\ published' = Current
    /\ worker' = "wait"
    /\ UNCHANGED <<readerVars, queueVars, before, batch, projectVars, tokens>>

\* Whatever was published before and is not now is cleared; then a client
\* that can is asked to fetch its semantic tokens again, any other keeps what
\* it has.
Publish ==
    /\ worker = "publish"
    /\ shown' = [p \in Checkable |->
         IF p \in Current THEN CHOOSE d \in SaysOf(p) : TRUE
         ELSE IF p \in published THEN NoTree ELSE shown[p]]
    /\ published' = Current
    /\ tokens' = IF "refresh" \in session THEN [p \in Checkable |-> NoTree] ELSE tokens
    /\ worker' = "wait"
    /\ UNCHANGED <<readerVars, queueVars, before, batch, projectVars>>

\* lsp_server_dispose has joined the worker.
Stopped ==
    /\ should_exit /\ worker \in {"off", "gone"}
    /\ UNCHANGED vars

Reader ==
    \/ Initialized \/ MarkDirty \/ Exit
    \/ \E p \in Paths, text \in Typed \cup {NoText} : Edit(p, text)
    \/ \E p \in Paths : Save(p)
    \/ \E p \in Checkable : Ask(p)

Worker ==
    \/ Wait \/ Slice \/ Drain \/ Rediscover \/ RecheckAll \/ Recheck \/ Publish

Next == Reader \/ Worker \/ Stopped

Spec == Init /\ [][Next]_vars /\ WF_vars(Worker) /\ WF_vars(MarkDirty)
=============================================================================
