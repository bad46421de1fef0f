-------------------------- MODULE LhatServerProofs --------------------------
(***************************************************************************)
(* Proofs about LhatServer, for any files, whatever they require, any      *)
(* texts, number of edits and requests: once the server is quiet the       *)
(* editor shows what the present texts give, and an editor that is asked   *)
(* to fetch its tokens again holds no older ones.                          *)
(***************************************************************************)
EXTENDS LhatServerProps, FiniteSetTheorems, TLAPS

Text == Texts \cup {NoText}
Trees == UNION {[paths -> Text] : paths \in SUBSET Checkable}

TypeOK ==
    /\ documents \in [Paths -> Text] /\ disk \in [Paths -> Text]
    /\ marking \in Paths \cup {NoText}
    /\ dirty \subseteq Paths /\ batch \subseteq Paths
    /\ shutdown \in BOOLEAN /\ should_exit \in BOOLEAN
    /\ worker \in {"off", "recheck_all", "publish", "wait", "debounce",
                   "drain", "config", "recheck", "gone"}
    /\ before \in Nat
    /\ opened \subseteq Projects
    /\ settings \in Text
    /\ roots \in [Projects -> SUBSET Checkable]
    /\ program \in [Projects -> Trees] /\ data_program \in [Projects -> Trees]
    /\ shown \in [Checkable -> Trees] /\ tokens \in [Checkable -> Trees]
    /\ published \subseteq Checkable
    /\ session \in Sessions
    /\ edits \in Nat /\ asks \in Nat

(* The changes a check is still to be made for.                            *)
Pending == dirty \cup batch \cup {marking}

(* What the worker holds, and what the projects are, at each of its places. *)
Placed ==
    /\ worker \notin {"config", "recheck"} => batch = {}
    /\ worker = "config" => Config \in batch
    /\ worker = "recheck" => Config \notin batch
    /\ worker = "off" => opened = {}
    /\ worker # "off" => "folder" \in opened
    /\ worker \in {"off", "recheck_all"} =>
         \A j \in Projects : roots[j] \subseteq Units

(* What is edited in a session is what the session is about.               *)
Kept ==
    /\ "configuration" \notin session =>
         Config \notin Pending /\ TextOf(Config) = OnDisk[Config]
    /\ "loose" \notin session =>
         \A p \in Units : /\ documents[p] # NoText => disk[p] # NoText
                          /\ p \in Outside => disk[p] = NoText

(* A tree holds what is wanted of it, all that this requires, and no more. *)
Whole(tree, wanted) ==
    /\ wanted \subseteq DOMAIN tree
    /\ Closed(DOMAIN tree, tree)
    /\ DOMAIN tree \subseteq Reached(wanted, tree)

TreesWhole ==
    \A j \in Projects :
        /\ DOMAIN data_program[j] = roots[j] \cap Data
        /\ worker \in {"off", "recheck_all"} => program[j] = NoTree
        /\ worker \notin {"off", "recheck_all"} =>
             Whole(program[j], roots[j] \cap Units)

(* A tree differs from the present texts only where a change is pending.   *)
Fresh ==
    \A j \in Projects :
        /\ \A p \in DOMAIN program[j] :
             p \in Pending \/ program[j][p] = TextOf(p)
        /\ \A p \in DOMAIN data_program[j] :
             p \in Pending \/ data_program[j][p] = TextOf(p)

(* A project's roots are its own, and lack only what is pending.           *)
RootsOwn ==
    /\ roots["folder"] \cap Outside = {}
    /\ roots["folder"] \cap Excluded[settings] = {}
    /\ roots["unscoped"] \subseteq Outside
    /\ \A j \in Projects \ opened : roots[j] = {}

RootsComplete ==
    /\ worker = "off" =>
         \A p \in Checkable : documents[p] # NoText => p \in Pending
    /\ worker # "off" =>
         /\ Config \in Pending \/ settings = TextOf(Config)
         /\ \A p \in Units \ (Outside \cup Excluded[settings]) :
              TextOf(p) # NoText => p \in roots["folder"] \cup Pending
    /\ \A p \in Outside :
         documents[p] # NoText \/ disk[p] # NoText =>
            p \in roots["unscoped"] \cup Pending
    /\ worker \notin {"off", "recheck_all"} =>
         \A p \in Data \ Pending : p \in roots["folder"] <=> documents[p] # NoText

(* What the editor has between two rounds is of the last round.            *)
Resting == worker \in {"wait", "debounce", "drain"}

ShownOfRound ==
    \A p \in Checkable :
        /\ p \notin published => shown[p] = NoTree
        /\ Resting =>
             \/ shown[p] \in SaysOf(p)
             \/ SaysOf(p) = {} /\ shown[p] = NoTree

TokensOfRound ==
    Resting /\ "refresh" \in session => \A p \in Checkable :
        \/ tokens[p] = NoTree
        \/ \E j \in Holding(p) : tokens[p] = Diagnostics(p, TreeOf(j, p))

-----------------------------------------------------------------------------
(* What is reached.                                                        *)
LEMMA Apart ==
  /\ Units \cap Data = {} /\ Config \notin Checkable /\ NoText \notin Paths
  /\ Config \in Paths /\ Checkable \subseteq Paths /\ Outside \subseteq Units
  /\ Units \subseteq Checkable /\ Data \subseteq Checkable /\ NoText \notin Texts
BY ServerAssumption DEF ServerAssumption, Paths, Checkable

LEMMA ReachedHolds ==
  ASSUME NEW text, NEW from, from \subseteq DOMAIN text
  PROVE  from \subseteq Reached(from, text) /\ Reached(from, text) \subseteq DOMAIN text
BY DEF Reached

LEMMA ReachedLeast ==
  ASSUME NEW text, NEW from, NEW paths, paths \subseteq DOMAIN text,
         from \subseteq paths, Closed(paths, text)
  PROVE  Reached(from, text) \subseteq paths
BY DEF Reached

LEMMA ReachedClosed ==
  ASSUME NEW text, NEW from, from \subseteq DOMAIN text, Closed(DOMAIN text, text)
  PROVE  Closed(Reached(from, text), text)
<1> SUFFICES ASSUME NEW p \in Reached(from, text) \cap Units, text[p] # NoText,
                    NEW q \in Requires[p]
             PROVE  q \in Reached(from, text)
  BY DEF Closed
<1>1. q \in DOMAIN text
  BY DEF Closed, Reached
<1>2. ASSUME NEW paths \in SUBSET (DOMAIN text), from \subseteq paths, Closed(paths, text)
      PROVE  q \in paths
  <2>1. p \in paths
    BY <1>2 DEF Reached
  <2>2. QED
    BY <1>2, <2>1 DEF Closed
<1>3. QED
  BY <1>1, <1>2 DEF Reached

(* A tree that holds all its units require reaches what the larger text    *)
(* reaches that it agrees with.                                            *)
LEMMA ReachedAgrees ==
  ASSUME NEW tree, NEW text, DOMAIN tree \subseteq DOMAIN text,
         Closed(DOMAIN tree, tree), Closed(DOMAIN text, text),
         \A p \in DOMAIN tree : tree[p] = text[p],
         NEW from, from \subseteq DOMAIN tree
  PROVE  Reached(from, tree) = Reached(from, text)
<1>1. /\ from \subseteq Reached(from, tree)
      /\ Reached(from, tree) \subseteq DOMAIN tree
  BY ReachedHolds
<1>2. Closed(Reached(from, tree), text)
  BY <1>1, ReachedClosed DEF Closed
<1>3. Reached(from, text) \subseteq Reached(from, tree)
  BY <1>1, <1>2, ReachedLeast
<1>4. Closed(Reached(from, text), tree)
  <2>1. Closed(Reached(from, text), text)
    BY ReachedClosed
  <2>2. QED
    BY <1>1, <1>3, <2>1 DEF Closed
<1>5. from \subseteq Reached(from, text)
  BY ReachedHolds
<1>6. Reached(from, tree) \subseteq Reached(from, text)
  BY <1>1, <1>3, <1>4, <1>5, ReachedLeast
<1>7. QED
  BY <1>3, <1>6

(* The present texts, and the trees that are built of them.                *)
LEMMA TextHasType ==
  ASSUME TypeOK, NEW p \in Paths
  PROVE  TextOf(p) \in Text
BY DEF TypeOK, TextOf

LEMMA PresentHolds ==
  /\ DOMAIN Present = Checkable
  /\ \A p \in Checkable : Present[p] = TextOf(p)
  /\ Closed(Checkable, Present)
BY Apart, ServerAssumption DEF Present, Closed, ServerAssumption

LEMMA TreeHolds ==
  ASSUME TypeOK, NEW wanted, wanted \subseteq Checkable
  PROVE  /\ Tree(wanted) \in Trees
         /\ Whole(Tree(wanted), wanted)
         /\ DOMAIN Tree(wanted) = Reached(wanted, Present)
         /\ \A p \in DOMAIN Tree(wanted) : Tree(wanted)[p] = TextOf(p)
<1> DEFINE reached == Reached(wanted, Present)
<1>1. wanted \subseteq reached /\ reached \subseteq Checkable
  BY PresentHolds, ReachedHolds
<1>2. /\ DOMAIN Tree(wanted) = reached
      /\ \A p \in reached : Tree(wanted)[p] = TextOf(p)
  BY DEF Tree
<1>3. Tree(wanted) \in [reached -> Text]
  BY <1>1, Apart, TextHasType DEF Tree
<1>4. Tree(wanted) \in Trees
  BY <1>1, <1>3 DEF Trees
<1>5. Closed(reached, Present)
  BY PresentHolds, ReachedClosed
<1>6. \A p \in reached : Tree(wanted)[p] = Present[p]
  BY <1>1, <1>2, PresentHolds
<1>7. Closed(reached, Tree(wanted))
  BY <1>5, <1>6 DEF Closed
<1>8. Reached(wanted, Tree(wanted)) = reached
  BY <1>1, <1>2, <1>6, <1>7, PresentHolds, ReachedAgrees
<1>9. QED
  BY <1>1, <1>2, <1>4, <1>7, <1>8 DEF Whole

LEMMA NoTreeHolds ==
  /\ NoTree \in Trees /\ DOMAIN NoTree = {}
  /\ Whole(NoTree, {})
<1>1. DOMAIN NoTree = {} /\ NoTree \in [{} -> Text]
  BY DEF NoTree, Text
<1>2. NoTree \in Trees
  BY <1>1 DEF Trees
<1>3. QED
  BY <1>1, <1>2 DEF Whole, Closed

LEMMA SemanticHolds ==
  ASSUME TypeOK, NEW root_set, root_set \subseteq Checkable
  PROVE  /\ Semantic(root_set) \in Trees
         /\ Whole(Semantic(root_set), root_set \cap Units)
         /\ \A p \in DOMAIN Semantic(root_set) : Semantic(root_set)[p] = TextOf(p)
<1>1. CASE root_set = {}
  BY <1>1, NoTreeHolds DEF Semantic
<1>2. CASE root_set # {}
  BY <1>2, TreeHolds DEF Semantic
<1>3. QED
  BY <1>1, <1>2

LEMMA DataOnlyHolds ==
  ASSUME TypeOK, NEW root_set, root_set \subseteq Checkable
  PROVE  /\ DataOnly(root_set) \in Trees
         /\ DOMAIN DataOnly(root_set) = root_set \cap Data
         /\ \A p \in DOMAIN DataOnly(root_set) : DataOnly(root_set)[p] = TextOf(p)
<1>1. DataOnly(root_set) \in [root_set \cap Data -> Text]
  BY Apart, TextHasType DEF DataOnly
<1>2. QED
  BY <1>1 DEF DataOnly, Trees

(* A whole tree of present texts is what the present texts reach.          *)
LEMMA WholeOfPresent ==
  ASSUME NEW tree, NEW wanted, Whole(tree, wanted), DOMAIN tree \subseteq Checkable,
         \A p \in DOMAIN tree : tree[p] = TextOf(p)
  PROVE  DOMAIN tree = Reached(wanted, Present)
<1>1. \A p \in DOMAIN tree : tree[p] = Present[p]
  BY PresentHolds
<1>2. wanted \subseteq DOMAIN tree /\ Closed(DOMAIN tree, tree)
  BY DEF Whole
<1>3. Reached(wanted, tree) = Reached(wanted, Present)
  BY <1>1, <1>2, PresentHolds, ReachedAgrees
<1>4. Reached(wanted, tree) \subseteq DOMAIN tree
  BY <1>2, ReachedHolds
<1>5. QED
  BY <1>3, <1>4 DEF Whole

(* What is said of a file in such a tree is what its own tree gives.       *)
LEMMA SaidOfPresent ==
  ASSUME TypeOK, NEW p \in Checkable, NEW tree, DOMAIN tree \subseteq Checkable,
         p \in DOMAIN tree, p \in Units => Closed(DOMAIN tree, tree),
         \A q \in DOMAIN tree : tree[q] = TextOf(q)
  PROVE  Diagnostics(p, tree) = Diagnostics(p, Tree({p}))
<1> DEFINE own == Tree({p})
<1>1. /\ Whole(own, {p}) /\ DOMAIN own \subseteq Checkable
      /\ \A q \in DOMAIN own : own[q] = TextOf(q)
  BY TreeHolds, PresentHolds, ReachedHolds
<1>2. p \in DOMAIN own /\ Closed(DOMAIN own, own)
  BY <1>1 DEF Whole
<1> HIDE DEF own
<1>3. CASE p \in Units
  <2>1. Reached({p}, tree) = Reached({p}, Present)
    BY <1>3, PresentHolds, ReachedAgrees
  <2>2. Reached({p}, own) = Reached({p}, Present)
    BY <1>1, <1>2, PresentHolds, ReachedAgrees
  <2>3. /\ Reached({p}, tree) \subseteq DOMAIN tree
        /\ Reached({p}, own) \subseteq DOMAIN own
    BY <1>2, ReachedHolds
  <2>4. \A q \in Reached({p}, Present) : tree[q] = own[q]
    BY <1>1, <2>1, <2>2, <2>3
  <2>5. [q \in Reached({p}, Present) |-> tree[q]] = [q \in Reached({p}, Present) |-> own[q]]
    BY <2>4
  <2>6. QED
    BY <1>3, <2>1, <2>2, <2>5 DEF Diagnostics, own
<1>4. CASE p \notin Units
  <2>1. [q \in {p} |-> tree[q]] = [q \in {p} |-> own[q]]
    BY <1>1, <1>2
  <2>2. QED
    BY <1>4, <2>1 DEF Diagnostics, own
<1>5. QED
  BY <1>3, <1>4

-----------------------------------------------------------------------------
(* Types.                                                                  *)
LEMMA DiagnosticsHasType ==
  ASSUME NEW tree \in Trees, NEW p \in Checkable, p \in Units \/ p \in DOMAIN tree
  PROVE  Diagnostics(p, tree) \in Trees
<1> PICK paths \in SUBSET Checkable : tree \in [paths -> Text]
  BY DEF Trees
<1>1. CASE p \in Units
  <2>1. Reached({p}, tree) \subseteq paths
    BY DEF Reached
  <2>2. [q \in Reached({p}, tree) |-> tree[q]] \in [Reached({p}, tree) -> Text]
    BY <2>1
  <2>3. QED
    BY <1>1, <2>1, <2>2 DEF Diagnostics, Trees
<1>2. CASE p \notin Units
  <2>1. [q \in {p} |-> tree[q]] \in [{p} -> Text]
    BY <1>2
  <2>2. QED
    BY <1>2, <2>1 DEF Diagnostics, Trees
<1>3. QED
  BY <1>1, <1>2

LEMMA TreeOfHasType ==
  ASSUME TypeOK, NEW j \in Projects, NEW p
  PROVE  TreeOf(j, p) \in Trees
BY DEF TypeOK, TreeOf

LEMMA SaidHasType ==
  ASSUME TypeOK, NEW p \in Checkable
  PROVE  /\ \A j \in Holding(p) : j \in Projects /\ Diagnostics(p, TreeOf(j, p)) \in Trees
         /\ SaysOf(p) \subseteq Trees
<1>1. ASSUME NEW j \in Holding(p)
      PROVE  j \in Projects /\ Diagnostics(p, TreeOf(j, p)) \in Trees
  <2>1. j \in Projects /\ p \in DOMAIN TreeOf(j, p)
    BY DEF Holding, TypeOK
  <2>2. QED
    BY <2>1, TreeOfHasType, DiagnosticsHasType
<1>2. QED
  BY <1>1 DEF SaysOf

LEMMA DiscoveredHasType ==
  ASSUME TypeOK, Discovered
  PROVE  /\ opened' = {"folder"} /\ settings' \in Text /\ settings' = TextOf(Config)
         /\ roots' \in [Projects -> SUBSET Checkable]
         /\ \A j \in Projects : roots'[j] \subseteq Units
BY Apart, TextHasType DEF Discovered

LEMMA AffectsHasType ==
  ASSUME TypeOK, NEW p \in Checkable, Affects(p)
  PROVE  /\ opened' \subseteq Projects
         /\ roots' \in [Projects -> SUBSET Checkable]
         /\ program' \in [Projects -> Trees]
         /\ data_program' \in [Projects -> Trees]
<1>1. opened' \subseteq Projects
  BY DEF Affects, TypeOK, Projects
<1>2. roots' \in [Projects -> SUBSET Checkable]
  BY DEF Affects, TypeOK
<1>3. \A j \in Projects : Semantic(roots'[j]) \in Trees /\ DataOnly(roots'[j]) \in Trees
  BY <1>2, SemanticHolds, DataOnlyHolds
<1>4. program' \in [Projects -> Trees]
  BY <1>3 DEF Affects, TypeOK
<1>5. data_program' \in [Projects -> Trees]
  BY <1>3 DEF Affects, TypeOK
<1>6. QED
  BY <1>1, <1>2, <1>4, <1>5

(* The file a recheck takes from the batch is one that is checked.         *)
LEMMA TakenIsCheckable ==
  ASSUME TypeOK, Placed, worker = "recheck", NEW p \in batch
  PROVE  p \in Checkable
BY DEF TypeOK, Placed, Paths

LEMMA PublishedHasType ==
  ASSUME TypeOK, Publish
  PROVE  shown' \in [Checkable -> Trees]
<1>1. ASSUME NEW p \in Current
      PROVE  (CHOOSE d \in SaysOf(p) : TRUE) \in Trees
  BY <1>1, SaidHasType DEF Current
<1>2. \A p \in Checkable : shown[p] \in Trees
  BY DEF TypeOK
<1>3. QED
  BY <1>1, <1>2, NoTreeHolds DEF Publish

LEMMA TypeStep ==
  ASSUME TypeOK, Placed, [Next]_vars
  PROVE  TypeOK'
<1> USE Apart DEF readerVars, queueVars, projectVars, shownVars
<1>1. CASE Initialized
  BY <1>1, DiscoveredHasType DEF Initialized, TypeOK, Projects
<1>2. CASE MarkDirty
  BY <1>2 DEF MarkDirty, TypeOK
<1>3. CASE Exit
  BY <1>3 DEF Exit, TypeOK
<1>4. ASSUME NEW p \in Paths, NEW text \in Typed \cup {NoText}, Edit(p, text)
      PROVE  TypeOK'
  <2>1. text \in Text
    BY ServerAssumption DEF ServerAssumption, Text
  <2>2. QED
    BY <1>4, <2>1 DEF Edit, TypeOK
<1>5. ASSUME NEW p \in Paths, Save(p)
      PROVE  TypeOK'
  BY <1>5 DEF Save, TypeOK
<1>6. ASSUME NEW p \in Checkable, Ask(p)
      PROVE  TypeOK'
  <2>1. PICK j \in Holding(p) : tokens' = [tokens EXCEPT ![p] = Diagnostics(p, TreeOf(j, p))]
    BY <1>6 DEF Ask
  <2>2. tokens' \in [Checkable -> Trees]
    BY <2>1, SaidHasType DEF TypeOK
  <2>3. QED
    BY <1>6, <2>2 DEF Ask, TypeOK
<1>7. ASSUME Wait \/ Slice
      PROVE  TypeOK'
  <2>1. Cardinality(dirty) \in Nat
    BY FS_Subset, FS_CardinalityType, ServerAssumption DEF TypeOK, ServerAssumption
  <2>2. QED
    BY <1>7, <2>1 DEF Wait, Slice, TypeOK
<1>8. CASE Drain
  BY <1>8 DEF Drain, TypeOK
<1>9. CASE Rediscover
  BY <1>9, DiscoveredHasType, NoTreeHolds DEF Rediscover, TypeOK, Projects
<1>10. CASE RecheckAll
  <2>1. roots' \in [Projects -> SUBSET Checkable]
    BY <1>10 DEF RecheckAll, TypeOK
  <2>2. \A j \in Projects : Semantic(roots'[j]) \in Trees /\ DataOnly(roots'[j]) \in Trees
    BY <2>1, SemanticHolds, DataOnlyHolds
  <2>3. program' \in [Projects -> Trees] /\ data_program' \in [Projects -> Trees]
    BY <1>10, <2>2, NoTreeHolds DEF RecheckAll
  <2>4. QED
    BY <1>10, <2>1, <2>3 DEF RecheckAll, TypeOK
<1>11. CASE Recheck
  <2>1. PICK p \in batch : Affects(p) /\ batch' = batch \ {p}
                           /\ worker' = IF batch' = {} THEN "publish" ELSE "recheck"
    BY <1>11 DEF Recheck
  <2>2. p \in Checkable
    BY <1>11, TakenIsCheckable DEF Recheck
  <2>3. QED
    BY <1>11, <2>1, <2>2, AffectsHasType DEF Recheck, TypeOK
<1>12. CASE Publish
  <2>1. tokens' \in [Checkable -> Trees]
    BY <1>12, NoTreeHolds DEF Publish, TypeOK
  <2>2. published' \subseteq Checkable
    BY <1>12 DEF Publish, Current
  <2>3. QED
    BY <1>12, <2>1, <2>2, PublishedHasType DEF Publish, TypeOK
<1>13. CASE UNCHANGED vars
  BY <1>13 DEF vars, TypeOK
<1>14. QED
  BY <1>1, <1>2, <1>3, <1>4, <1>5, <1>6, <1>7, <1>8, <1>9, <1>10, <1>11, <1>12, <1>13
     DEF Next, Reader, Worker, Stopped

LEMMA PlacedStep ==
  ASSUME TypeOK, Placed, [Next]_vars
  PROVE  Placed'
<1> USE Apart DEF readerVars, queueVars, projectVars, shownVars
<1>1. CASE Initialized
  BY <1>1, DiscoveredHasType DEF Initialized, Placed
<1>2. ASSUME \/ MarkDirty \/ Exit
             \/ \E p \in Paths, text \in Typed \cup {NoText} : Edit(p, text)
             \/ \E p \in Paths : Save(p)
             \/ \E p \in Checkable : Ask(p)
             \/ UNCHANGED vars
      PROVE  Placed'
  <2>1. UNCHANGED <<worker, batch, opened, roots>>
    BY <1>2 DEF MarkDirty, Exit, Edit, Save, Ask, vars
  <2>2. QED
    BY <2>1 DEF Placed
<1>3. CASE Wait
  BY <1>3 DEF Wait, Placed
<1>4. CASE Slice
  BY <1>4 DEF Slice, Placed
<1>5. CASE Drain
  BY <1>5 DEF Drain, Placed
<1>6. CASE Rediscover
  BY <1>6, DiscoveredHasType DEF Rediscover, Placed
<1>7. CASE RecheckAll
  BY <1>7 DEF RecheckAll, Placed
<1>8. CASE Recheck
  <2>1. PICK p \in batch : Affects(p) /\ batch' = batch \ {p}
                           /\ worker' = IF batch' = {} THEN "publish" ELSE "recheck"
    BY <1>8 DEF Recheck
  <2>2. opened \subseteq opened'
    BY <2>1 DEF Affects
  <2>3. QED
    BY <1>8, <2>1, <2>2 DEF Recheck, Placed
<1>9. CASE Publish
  BY <1>9 DEF Publish, Placed
<1>10. QED
  BY <1>1, <1>2, <1>3, <1>4, <1>5, <1>6, <1>7, <1>8, <1>9
     DEF Next, Reader, Worker, Stopped

-----------------------------------------------------------------------------
(* Texts and changes.                                                      *)
LEMMA TextStep ==
  ASSUME TypeOK, [Next]_vars, NEW q \in Paths
  PROVE  TextOf(q)' = TextOf(q) \/ q \in Pending'
<1> USE DEF readerVars
<1>1. ASSUME NEW p \in Paths, NEW text \in Typed \cup {NoText}, Edit(p, text)
      PROVE  TextOf(q)' = TextOf(q) \/ q \in Pending'
  BY <1>1 DEF Edit, TextOf, Pending, TypeOK
<1>2. ASSUME NEW p \in Paths, Save(p)
      PROVE  TextOf(q)' = TextOf(q)
  BY <1>2 DEF Save, TextOf, TypeOK
<1>3. ASSUME \/ Initialized \/ MarkDirty \/ Exit \/ Worker \/ UNCHANGED vars
             \/ \E p \in Checkable : Ask(p)
      PROVE  TextOf(q)' = TextOf(q)
  <2>1. UNCHANGED <<documents, disk>>
    BY <1>3 DEF Initialized, MarkDirty, Exit, Ask, Worker, Wait, Slice, Drain,
                Rediscover, RecheckAll, Recheck, Publish, vars
  <2>2. QED
    BY <2>1 DEF TextOf
<1>4. QED
  BY <1>1, <1>2, <1>3 DEF Next, Reader, Stopped

(* A change is pending until its file is checked.                          *)
LEMMA PendingStep ==
  ASSUME TypeOK, Placed, [Next]_vars, ~Rediscover, ~Recheck,
         NEW q \in Pending, q # NoText
  PROVE  q \in Pending'
<1> USE DEF readerVars, queueVars, Pending
<1>1. ASSUME \/ \E p \in Paths, text \in Typed \cup {NoText} : Edit(p, text)
             \/ \E p \in Paths : Save(p)
             \/ MarkDirty
      PROVE  q \in Pending'
  BY <1>1 DEF Edit, Save, MarkDirty
<1>2. CASE Drain
  BY <1>2 DEF Drain, Placed
<1>3. ASSUME \/ Initialized \/ Exit \/ Wait \/ Slice \/ RecheckAll \/ Publish
             \/ UNCHANGED vars
             \/ \E p \in Checkable : Ask(p)
      PROVE  q \in Pending'
  <2>1. UNCHANGED <<dirty, batch, marking>>
    BY <1>3 DEF Initialized, Exit, Ask, Wait, Slice, RecheckAll, Publish, vars
  <2>2. QED
    BY <2>1
<1>4. QED
  BY <1>1, <1>2, <1>3 DEF Next, Reader, Worker, Stopped

(* What becomes pending was edited, as the session allows.                 *)
LEMMA PendingGrows ==
  ASSUME TypeOK, [Next]_vars, NEW q \in Pending', q # NoText
  PROVE  q \in Pending \/ InSession(q)
<1> USE DEF readerVars, queueVars, Pending
<1>1. ASSUME NEW p \in Paths, NEW text \in Typed \cup {NoText}, Edit(p, text)
      PROVE  q \in Pending \/ InSession(q)
  BY <1>1 DEF Edit
<1>2. ASSUME NEW p \in Paths, Save(p)
      PROVE  q \in Pending \/ InSession(q)
  BY <1>2 DEF Save
<1>3. ASSUME \/ Initialized \/ MarkDirty \/ Exit \/ Worker \/ UNCHANGED vars
             \/ \E p \in Checkable : Ask(p)
      PROVE  q \in Pending
  <2>1. dirty' \cup batch' \subseteq Pending /\ marking' \in {marking, NoText}
    BY <1>3 DEF Initialized, MarkDirty, Exit, Ask, Worker, Wait, Slice, Drain,
                Rediscover, RecheckAll, Recheck, Publish, vars
  <2>2. QED
    BY <2>1
<1>4. QED
  BY <1>1, <1>2, <1>3 DEF Next, Reader, Stopped

LEMMA KeptStep ==
  ASSUME TypeOK, Kept, [Next]_vars
  PROVE  Kept'
<1> USE Apart DEF readerVars
<1>1. session' = session
  BY DEF Next, Reader, Worker, Stopped, Initialized, MarkDirty, Exit, Edit, Save,
         Ask, Wait, Slice, Drain, Rediscover, RecheckAll, Recheck, Publish, vars
<1>2. ASSUME "configuration" \notin session
      PROVE  Config \notin Pending' /\ TextOf(Config)' = OnDisk[Config]
  <2>1. Config \notin Pending'
    BY <1>2, PendingGrows DEF Kept, InSession
  <2>2. QED
    BY <1>2, <2>1, TextStep DEF Kept
<1>3. ASSUME "loose" \notin session, NEW p \in Units
      PROVE  /\ documents'[p] # NoText => disk'[p] # NoText
             /\ p \in Outside => disk'[p] = NoText
  <2> USE <1>3
  <2>1. ASSUME NEW q \in Paths, NEW text \in Typed \cup {NoText}, Edit(q, text)
        PROVE  /\ documents'[p] # NoText => disk'[p] # NoText
               /\ p \in Outside => disk'[p] = NoText
    BY <2>1 DEF Edit, Kept, InSession, TypeOK
  <2>2. ASSUME NEW q \in Paths, Save(q)
        PROVE  /\ documents'[p] # NoText => disk'[p] # NoText
               /\ p \in Outside => disk'[p] = NoText
    BY <2>2 DEF Save, Kept, TypeOK
  <2>3. ASSUME \/ Initialized \/ MarkDirty \/ Exit \/ Worker \/ UNCHANGED vars
               \/ \E q \in Checkable : Ask(q)
        PROVE  UNCHANGED <<documents, disk>>
    BY <2>3 DEF Initialized, MarkDirty, Exit, Ask, Worker, Wait, Slice, Drain,
                Rediscover, RecheckAll, Recheck, Publish, vars
  <2>4. QED
    BY <2>1, <2>2, <2>3 DEF Next, Reader, Stopped, Kept
<1>4. QED
  BY <1>1, <1>2, <1>3 DEF Kept

-----------------------------------------------------------------------------
(* The trees.                                                              *)
LEMMA AffectsRoots ==
  ASSUME TypeOK, NEW p \in Checkable, Affects(p), NEW j \in Projects
  PROVE  /\ roots'[j] \ {p} = roots[j] \ {p}
         /\ Released(p) => p \notin roots'[j]
         /\ p \in roots[j] /\ ~Released(p) => p \in roots'[j]
         /\ p \in roots'[j] /\ p \notin roots[j] =>
              /\ j = IF p \in Outside THEN "unscoped" ELSE "folder"
              /\ p \notin Excluded[settings] \/ p \in Outside
         /\ /\ ~Released(p) /\ (p \notin Excluded[settings] \/ p \in Outside)
            /\ j = IF p \in Outside THEN "unscoped" ELSE "folder"
            => p \in roots'[j]
BY DEF Affects, TypeOK

(* Every project that loaded the file, or takes it as a root, is rebuilt.  *)
LEMMA AffectsTrees ==
  ASSUME TypeOK, NEW p \in Checkable, Affects(p), NEW j \in Projects
  PROVE  /\ \/ program'[j] = Semantic(roots'[j])
            \/ /\ program'[j] = program[j] /\ p \notin DOMAIN program[j]
               /\ roots'[j] \cap Units = roots[j] \cap Units
         /\ \/ data_program'[j] = DataOnly(roots'[j])
            \/ /\ data_program'[j] = data_program[j] /\ p \notin roots[j]
               /\ roots'[j] = roots[j]
<1> USE Apart
<1>1. roots'[j] \ {p} = roots[j] \ {p}
  BY AffectsRoots
<1>2. CASE SemanticChanged(j, p)
  BY <1>2 DEF Affects
<1>3. CASE ~SemanticChanged(j, p)
  <2>1. program'[j] = program[j] /\ p \notin DOMAIN program[j]
    BY <1>3 DEF Affects, SemanticChanged
  <2>2. p \in Units => (p \in roots'[j] <=> p \in roots[j])
    <3> SUFFICES ASSUME p \in Units, p \in roots'[j], p \notin roots[j]
                 PROVE  FALSE
      BY AffectsRoots DEF Released
    <3>1. j = IF p \in Outside THEN "unscoped" ELSE "folder"
      BY AffectsRoots
    <3>2. p \in Outside => "unscoped" \in opened'
      BY DEF Affects
    <3>3. j = Owner(p)'
      BY <3>1, <3>2 DEF Owner
    <3>4. QED
      BY <1>3, <3>3 DEF SemanticChanged
  <2>3. roots'[j] \cap Units = roots[j] \cap Units
    BY <1>1, <2>2
  <2>4. CASE p \in roots'[j] \cup roots[j]
    BY <2>1, <2>3, <2>4 DEF Affects
  <2>5. CASE p \notin roots'[j] \cup roots[j]
    <3>1. data_program'[j] = data_program[j]
      BY <1>3, <2>5 DEF Affects
    <3>2. roots'[j] = roots[j]
      BY <1>1, <2>5
    <3>3. QED
      BY <2>1, <2>5, <3>1, <3>2
  <2>6. QED
    BY <2>4, <2>5
<1>4. QED
  BY <1>2, <1>3

(* Nothing but the worker's checks touches the projects.                   *)
LEMMA ProjectsKept ==
  ASSUME [Next]_vars, ~Initialized, ~Rediscover, ~RecheckAll, ~Recheck
  PROVE  /\ UNCHANGED projectVars
         /\ worker' \in {"off", "recheck_all"} <=> worker \in {"off", "recheck_all"}
         /\ worker' = "off" <=> worker = "off"
         /\ UNCHANGED session
BY DEF Next, Reader, Worker, Stopped, MarkDirty, Exit, Edit, Save, Ask, Wait,
       Slice, Drain, Publish, vars, projectVars, readerVars

LEMMA TreesWholeStep ==
  ASSUME TypeOK, Placed, TreesWhole, RootsOwn, [Next]_vars
  PROVE  TreesWhole'
<1> SUFFICES ASSUME NEW j \in Projects
             PROVE  /\ DOMAIN data_program'[j] = roots'[j] \cap Data
                    /\ worker' \in {"off", "recheck_all"} => program'[j] = NoTree
                    /\ worker' \notin {"off", "recheck_all"} =>
                         Whole(program'[j], roots'[j] \cap Units)
  BY DEF TreesWhole
<1> USE Apart
<1>1. CASE Initialized
  <2>1. roots'[j] \cap Data = {} /\ roots[j] \cap Data = {}
    BY <1>1, DiscoveredHasType DEF Initialized, Placed
  <2>2. QED
    BY <1>1, <2>1 DEF Initialized, TreesWhole
<1>2. CASE Rediscover
  <2>1. roots'[j] \cap Data = {}
    BY <1>2, DiscoveredHasType DEF Rediscover
  <2>2. QED
    BY <1>2, <2>1, NoTreeHolds DEF Rediscover
<1>3. CASE RecheckAll
  <2>1. roots'[j] \subseteq Checkable /\ worker' = "publish"
    BY <1>3 DEF RecheckAll, TypeOK
  <2>2. CASE j \in opened
    <3>1. program'[j] = Semantic(roots'[j]) /\ data_program'[j] = DataOnly(roots'[j])
      BY <1>3, <2>2 DEF RecheckAll
    <3>2. Whole(program'[j], roots'[j] \cap Units)
      BY <2>1, <3>1, SemanticHolds
    <3>3. DOMAIN data_program'[j] = roots'[j] \cap Data
      BY <2>1, <3>1, DataOnlyHolds
    <3>4. QED
      BY <2>1, <3>2, <3>3
  <2>3. CASE j \notin opened
    <3>1. program'[j] = NoTree /\ data_program'[j] = NoTree
      BY <1>3, <2>3 DEF RecheckAll
    <3>2. roots'[j] = {}
      BY <1>3, <2>3 DEF RecheckAll, RootsOwn, Placed, TypeOK
    <3>3. QED
      BY <2>1, <3>1, <3>2, NoTreeHolds
  <2>4. QED
    BY <2>2, <2>3
<1>4. CASE Recheck
  <2>1. PICK p \in batch : Affects(p) /\ batch' = batch \ {p}
                           /\ worker' = IF batch' = {} THEN "publish" ELSE "recheck"
    BY <1>4 DEF Recheck
  <2>2. p \in Checkable /\ worker = "recheck"
    BY <1>4, TakenIsCheckable DEF Recheck
  <2>3. roots'[j] \subseteq Checkable
    BY <2>1, <2>2, AffectsHasType
  <2>4. Whole(program'[j], roots'[j] \cap Units)
    BY <2>1, <2>2, <2>3, AffectsTrees, SemanticHolds DEF TreesWhole
  <2>5. DOMAIN data_program'[j] = roots'[j] \cap Data
    BY <2>1, <2>2, <2>3, AffectsTrees, DataOnlyHolds DEF TreesWhole
  <2>6. QED
    BY <2>1, <2>4, <2>5
<1>5. CASE ~Initialized /\ ~Rediscover /\ ~RecheckAll /\ ~Recheck
  BY <1>5, ProjectsKept DEF TreesWhole, projectVars
<1>6. QED
  BY <1>1, <1>2, <1>3, <1>4, <1>5

LEMMA FreshStep ==
  ASSUME TypeOK, Placed, TreesWhole, Fresh, [Next]_vars
  PROVE  Fresh'
<1> SUFFICES ASSUME NEW j \in Projects
             PROVE  /\ \A p \in DOMAIN program'[j] :
                         p \in Pending' \/ program'[j][p] = TextOf(p)'
                    /\ \A p \in DOMAIN data_program'[j] :
                         p \in Pending' \/ data_program'[j][p] = TextOf(p)'
  BY DEF Fresh
<1> USE Apart
<1>1. /\ DOMAIN program[j] \subseteq Paths /\ NoText \notin DOMAIN program[j]
      /\ DOMAIN data_program[j] \subseteq Paths /\ NoText \notin DOMAIN data_program[j]
  BY DEF TypeOK, Trees
<1>2. CASE Rediscover
  BY <1>2, NoTreeHolds DEF Rediscover
<1>3. CASE RecheckAll
  <2>1. roots'[j] \subseteq Checkable
    BY <1>3 DEF RecheckAll, TypeOK
  <2>2. /\ program'[j] \in {Semantic(roots'[j]), NoTree}
        /\ data_program'[j] \in {DataOnly(roots'[j]), NoTree}
    BY <1>3 DEF RecheckAll
  <2>3. \A p : TextOf(p)' = TextOf(p)
    BY <1>3 DEF RecheckAll, readerVars, TextOf
  <2>4. \A p \in DOMAIN program'[j] : program'[j][p] = TextOf(p)
    BY <2>1, <2>2, SemanticHolds, NoTreeHolds
  <2>5. \A p \in DOMAIN data_program'[j] : data_program'[j][p] = TextOf(p)
    BY <2>1, <2>2, DataOnlyHolds, NoTreeHolds
  <2>6. QED
    BY <2>3, <2>4, <2>5
<1>4. CASE Recheck
  <2>1. PICK p \in batch : Affects(p) /\ batch' = batch \ {p}
                           /\ worker' = IF batch' = {} THEN "publish" ELSE "recheck"
    BY <1>4 DEF Recheck
  <2>2. p \in Checkable
    BY <1>4, TakenIsCheckable DEF Recheck
  <2>3. roots'[j] \subseteq Checkable
    BY <2>1, <2>2, AffectsHasType
  <2>4. \A q : TextOf(q)' = TextOf(q)
    BY <1>4 DEF Recheck, readerVars, TextOf
  <2>5. Pending \ {p} \subseteq Pending'
    BY <1>4, <2>1 DEF Recheck, readerVars, queueVars, Pending
  <2>6. \A q \in DOMAIN program'[j] : q \in Pending' \/ program'[j][q] = TextOf(q)
    <3>1. CASE program'[j] = Semantic(roots'[j])
      BY <3>1, <2>3, SemanticHolds
    <3>2. CASE program'[j] = program[j] /\ p \notin DOMAIN program[j]
      BY <3>2, <2>5 DEF Fresh
    <3>3. QED
      BY <3>1, <3>2, <2>1, <2>2, AffectsTrees
  <2>7. \A q \in DOMAIN data_program'[j] : q \in Pending' \/ data_program'[j][q] = TextOf(q)
    <3>1. CASE data_program'[j] = DataOnly(roots'[j])
      BY <3>1, <2>3, DataOnlyHolds
    <3>2. CASE data_program'[j] = data_program[j] /\ p \notin roots[j]
      BY <3>2, <2>5 DEF Fresh, TreesWhole
    <3>3. QED
      BY <3>1, <3>2, <2>1, <2>2, AffectsTrees
  <2>8. QED
    BY <2>4, <2>6, <2>7
<1>5. CASE ~Rediscover /\ ~RecheckAll /\ ~Recheck
  <2>1. UNCHANGED <<program, data_program>>
    BY <1>5, ProjectsKept DEF projectVars, Initialized
  <2>2. \A q \in Paths : q \in Pending => q \in Pending'
    <3> SUFFICES ASSUME NEW q \in Paths, q \in Pending
                 PROVE  q \in Pending'
      OBVIOUS
    <3>1. q # NoText
      OBVIOUS
    <3>2. QED
      BY <1>5, <3>1, PendingStep
  <2>3. \A q \in Paths : TextOf(q)' = TextOf(q) \/ q \in Pending'
    BY TextStep
  <2>4. QED
    BY <1>1, <2>1, <2>2, <2>3 DEF Fresh
<1>6. QED
  BY <1>2, <1>3, <1>4, <1>5

-----------------------------------------------------------------------------
(* The roots.                                                              *)
LEMMA ExcludedAreUnits ==
  ASSUME TypeOK
  PROVE  Excluded[settings] \subseteq Units /\ Excluded[TextOf(Config)] \subseteq Units
<1>1. \A text \in Text : Excluded[text] \subseteq Units
  BY ServerAssumption DEF ServerAssumption, Text
<1>2. QED
  BY <1>1, Apart, TextHasType DEF TypeOK

LEMMA DiscoveredOwns ==
  ASSUME TypeOK, Discovered
  PROVE  RootsOwn'
BY DEF Discovered, RootsOwn, Projects

LEMMA RootsOwnStep ==
  ASSUME TypeOK, Placed, RootsOwn, [Next]_vars
  PROVE  RootsOwn'
<1> USE Apart
<1>1. CASE Initialized \/ Rediscover
  BY <1>1, DiscoveredOwns DEF Initialized, Rediscover
<1>2. CASE RecheckAll
  <2>1. UNCHANGED <<opened, settings>> /\ worker = "recheck_all"
    BY <1>2 DEF RecheckAll
  <2>2. /\ roots'["folder"] \subseteq roots["folder"] \cup Data
        /\ \A j \in Projects \ {"folder"} : roots'[j] = roots[j]
    BY <1>2 DEF RecheckAll, TypeOK, Projects
  <2>3. \A j \in Projects \ opened : roots'[j] = {}
    BY <2>1, <2>2 DEF RootsOwn, Placed
  <2>4. Data \cap Excluded[settings] = {} /\ Data \cap Outside = {}
    BY ExcludedAreUnits
  <2>5. QED
    BY <2>1, <2>2, <2>3, <2>4 DEF RootsOwn, Projects
<1>3. CASE Recheck
  <2>1. PICK p \in batch : Affects(p) /\ batch' = batch \ {p}
                           /\ worker' = IF batch' = {} THEN "publish" ELSE "recheck"
    BY <1>3 DEF Recheck
  <2>2. p \in Checkable /\ worker = "recheck" /\ settings' = settings
    BY <1>3, TakenIsCheckable DEF Recheck
  <2>3. roots'["folder"] \cap Outside = {}
    BY <2>1, <2>2, AffectsRoots DEF RootsOwn, Projects
  <2>4. roots'["folder"] \cap Excluded[settings] = {}
    BY <2>1, <2>2, AffectsRoots DEF RootsOwn, Projects
  <2>5. roots'["unscoped"] \subseteq Outside
    BY <2>1, <2>2, AffectsRoots DEF RootsOwn, Projects
  <2>6. ASSUME NEW j \in Projects \ opened'
        PROVE  roots'[j] = {}
    <3>1. j \notin opened /\ j # "folder" /\ (p \in Outside => j # "unscoped")
      BY <2>1, <2>2, <2>6 DEF Affects, Placed
    <3>2. roots[j] = {}
      BY <3>1 DEF RootsOwn
    <3>3. QED
      BY <2>1, <2>2, <3>1, <3>2, AffectsRoots
  <2>7. QED
    BY <2>2, <2>3, <2>4, <2>5, <2>6 DEF RootsOwn
<1>4. CASE ~Initialized /\ ~Rediscover /\ ~RecheckAll /\ ~Recheck
  BY <1>4, ProjectsKept DEF RootsOwn, projectVars
<1>5. QED
  BY <1>1, <1>2, <1>3, <1>4

(* A copy changes with its mark, and the disk only under a copy.           *)
LEMMA CopyStep ==
  ASSUME TypeOK, [Next]_vars, NEW q \in Paths
  PROVE  /\ documents'[q] = documents[q] \/ q \in Pending'
         /\ disk'[q] = disk[q] \/ documents[q] # NoText
<1> USE DEF readerVars
<1>1. ASSUME NEW p \in Paths, NEW text \in Typed \cup {NoText}, Edit(p, text)
      PROVE  /\ documents'[q] = documents[q] \/ q \in Pending'
             /\ disk'[q] = disk[q]
  BY <1>1 DEF Edit, Pending, TypeOK
<1>2. ASSUME NEW p \in Paths, Save(p)
      PROVE  /\ documents'[q] = documents[q]
             /\ disk'[q] = disk[q] \/ documents[q] # NoText
  BY <1>2 DEF Save, TypeOK
<1>3. ASSUME \/ Initialized \/ MarkDirty \/ Exit \/ Worker \/ UNCHANGED vars
             \/ \E p \in Checkable : Ask(p)
      PROVE  UNCHANGED <<documents, disk>>
  BY <1>3 DEF Initialized, MarkDirty, Exit, Ask, Worker, Wait, Slice, Drain,
              Rediscover, RecheckAll, Recheck, Publish, vars
<1>4. QED
  BY <1>1, <1>2, <1>3 DEF Next, Reader, Stopped

LEMMA StillPending ==
  ASSUME TypeOK, Placed, [Next]_vars, ~Rediscover, ~Recheck, NEW q \in Paths,
         q \in Pending
  PROVE  q \in Pending'
BY PendingStep, Apart

(* While the configuration is edited no unit is loose.                     *)
LEMMA NothingLoose ==
  ASSUME OneOrTheOther, TypeOK, Placed, Kept, worker = "config", NEW p \in Units
  PROVE  /\ documents[p] # NoText => disk[p] # NoText
         /\ p \in Outside => disk[p] = NoText
<1>1. "configuration" \in session
  BY DEF Placed, Kept, Pending
<1>2. ~({"configuration", "loose"} \subseteq session)
  BY DEF TypeOK, OneOrTheOther
<1>3. "loose" \notin session
  BY <1>1, <1>2
<1>4. QED
  BY <1>3 DEF Kept

LEMMA CompleteInitialized ==
  ASSUME TypeOK, Placed, RootsOwn, RootsComplete, [Next]_vars, Initialized
  PROVE  RootsComplete'
<1> USE Apart
<1>1. /\ worker = "off" /\ worker' = "recheck_all" /\ Discovered
      /\ UNCHANGED <<documents, disk, dirty, batch, marking>>
  BY DEF Initialized, readerVars, queueVars
<1>2. Pending' = Pending /\ \A p : TextOf(p)' = TextOf(p)
  BY <1>1 DEF Pending, TextOf
<1>3. settings' = TextOf(Config)
  BY <1>1 DEF Discovered
<1>4. ASSUME NEW p \in Units \ (Outside \cup Excluded[settings']), TextOf(p) # NoText
      PROVE  p \in roots'["folder"] \cup Pending
  <2>1. CASE disk[p] # NoText
    BY <1>1, <1>3, <1>4, <2>1 DEF Discovered, Projects
  <2>2. CASE documents[p] # NoText
    BY <1>1, <2>2 DEF RootsComplete
  <2>3. QED
    BY <1>4, <2>1, <2>2 DEF TextOf
<1>5. roots["unscoped"] = {}
  BY <1>1 DEF RootsOwn, Placed, Projects
<1>6. ASSUME NEW p \in Outside, documents[p] # NoText \/ disk[p] # NoText
      PROVE  p \in Pending
  BY <1>5, <1>6 DEF RootsComplete
<1>7. QED
  BY <1>1, <1>2, <1>3, <1>4, <1>6 DEF RootsComplete

LEMMA CompleteRediscovered ==
  ASSUME OneOrTheOther, TypeOK, Placed, Kept, RootsComplete, Rediscover
  PROVE  RootsComplete'
<1> USE Apart
<1>1. /\ worker = "config" /\ worker' = "recheck_all" /\ Discovered
      /\ UNCHANGED <<documents, disk>>
  BY DEF Rediscover, readerVars
<1>2. \A p : TextOf(p)' = TextOf(p)
  BY <1>1 DEF TextOf
<1>3. settings' = TextOf(Config)
  BY <1>1 DEF Discovered
<1>4. ASSUME NEW p \in Units \ (Outside \cup Excluded[settings']), TextOf(p) # NoText
      PROVE  p \in roots'["folder"]
  <2>1. disk[p] # NoText
    BY <1>1, <1>4, NothingLoose DEF TextOf
  <2>2. QED
    BY <1>1, <1>3, <1>4, <2>1 DEF Discovered, Projects
<1>5. \A p \in Outside : documents[p] = NoText /\ disk[p] = NoText
  BY <1>1, NothingLoose
<1>6. QED
  BY <1>1, <1>2, <1>3, <1>4, <1>5 DEF RootsComplete

LEMMA CompleteRecheckedAll ==
  ASSUME TypeOK, Placed, RootsComplete, RecheckAll
  PROVE  RootsComplete'
<1> USE Apart
<1>1. /\ worker = "recheck_all" /\ worker' = "publish"
      /\ UNCHANGED <<documents, disk, dirty, batch, marking, settings>>
  BY DEF RecheckAll, readerVars, queueVars
<1>2. Pending' = Pending /\ \A p : TextOf(p)' = TextOf(p)
  BY <1>1 DEF Pending, TextOf
<1>3. /\ roots'["folder"] = roots["folder"] \cup {p \in Data : documents[p] # NoText}
      /\ roots'["unscoped"] = roots["unscoped"]
  BY DEF RecheckAll, TypeOK, Projects
<1>4. roots["folder"] \cap Data = {}
  BY <1>1 DEF Placed, Projects
<1>5. QED
  BY <1>1, <1>2, <1>3, <1>4 DEF RootsComplete

LEMMA CompleteRechecked ==
  ASSUME TypeOK, Placed, RootsOwn, RootsComplete, Recheck
  PROVE  RootsComplete'
<1> USE Apart DEF Projects
<1>1. /\ worker = "recheck" /\ worker' \in {"publish", "recheck"}
      /\ UNCHANGED <<documents, disk, dirty, marking, settings>>
  BY DEF Recheck, readerVars, queueVars
<1>2. PICK p \in batch : Affects(p) /\ batch' = batch \ {p}
  BY DEF Recheck
<1>3. p \in Checkable
  BY <1>1, TakenIsCheckable
<1>4. Pending \ {p} \subseteq Pending'
  BY <1>1, <1>2 DEF Pending
<1>5. \A q : TextOf(q)' = TextOf(q)
  BY <1>1 DEF TextOf
<1>6. \A j \in Projects : roots'[j] \ {p} = roots[j] \ {p}
  BY <1>2, <1>3, AffectsRoots
<1>7. Config \in Pending' \/ settings = TextOf(Config)
  BY <1>1, <1>3, <1>4 DEF RootsComplete
<1>8. ASSUME NEW q \in Units \ (Outside \cup Excluded[settings]), TextOf(q) # NoText
      PROVE  q \in roots'["folder"] \cup Pending'
  <2>1. CASE q = p
    BY <1>2, <1>3, <1>8, <2>1, AffectsRoots DEF Released
  <2>2. CASE q # p
    BY <1>1, <1>4, <1>6, <1>8, <2>2 DEF RootsComplete
  <2>3. QED
    BY <2>1, <2>2
<1>9. ASSUME NEW q \in Outside, documents[q] # NoText \/ disk[q] # NoText
      PROVE  q \in roots'["unscoped"] \cup Pending'
  <2>1. CASE q = p
    BY <1>2, <1>3, <1>9, <2>1, AffectsRoots DEF Released
  <2>2. CASE q # p
    BY <1>4, <1>6, <1>9, <2>2 DEF RootsComplete
  <2>3. QED
    BY <2>1, <2>2
<1>10. ASSUME NEW q \in Data \ Pending'
       PROVE  q \in roots'["folder"] <=> documents[q] # NoText
  <2>1. CASE q = p
    <3>1. q \notin Outside /\ q \notin Excluded[settings]
      BY ExcludedAreUnits
    <3>2. Released(q) <=> documents[q] = NoText
      BY DEF Released
    <3>3. QED
      BY <1>2, <1>3, <2>1, <3>1, <3>2, AffectsRoots
  <2>2. CASE q # p
    BY <1>1, <1>4, <1>6, <2>2 DEF RootsComplete
  <2>3. QED
    BY <2>1, <2>2
<1>11. QED
  BY <1>1, <1>5, <1>7, <1>8, <1>9, <1>10 DEF RootsComplete

LEMMA CompleteKept ==
  ASSUME TypeOK, Placed, RootsComplete, [Next]_vars,
         ~Initialized, ~Rediscover, ~RecheckAll, ~Recheck
  PROVE  RootsComplete'
<1> USE Apart
<1>1. /\ UNCHANGED <<roots, settings>>
      /\ worker' \in {"off", "recheck_all"} <=> worker \in {"off", "recheck_all"}
      /\ worker' = "off" <=> worker = "off"
  BY ProjectsKept DEF projectVars
<1>2. \A q \in Paths : q \in Pending => q \in Pending'
  BY StillPending
<1>3. \A q \in Paths : TextOf(q)' = TextOf(q) \/ q \in Pending'
  BY TextStep
<1>4. \A q \in Paths : /\ documents'[q] = documents[q] \/ q \in Pending'
                       /\ disk'[q] = disk[q] \/ documents[q] # NoText
  BY CopyStep
<1>5. worker' = "off" => \A q \in Checkable : documents'[q] # NoText => q \in Pending'
  BY <1>1, <1>2, <1>4 DEF RootsComplete
<1>6. worker' # "off" =>
        /\ Config \in Pending' \/ settings = TextOf(Config)'
        /\ \A q \in Units \ (Outside \cup Excluded[settings]) :
             TextOf(q)' # NoText => q \in roots["folder"] \cup Pending'
  <2> SUFFICES ASSUME worker' # "off"
               PROVE  /\ Config \in Pending' \/ settings = TextOf(Config)'
                      /\ \A q \in Units \ (Outside \cup Excluded[settings]) :
                           TextOf(q)' # NoText => q \in roots["folder"] \cup Pending'
    OBVIOUS
  <2>1. Config \in Pending' \/ settings = TextOf(Config)'
    BY <1>1, <1>2, <1>3 DEF RootsComplete
  <2>2. ASSUME NEW q \in Units \ (Outside \cup Excluded[settings]), TextOf(q)' # NoText
        PROVE  q \in roots["folder"] \cup Pending'
    <3>1. q \in Paths
      OBVIOUS
    <3>2. TextOf(q)' = TextOf(q) \/ q \in Pending'
      BY <1>3, <3>1
    <3>3. CASE TextOf(q)' = TextOf(q)
      BY <1>1, <1>2, <2>2, <3>1, <3>3 DEF RootsComplete
    <3>4. QED
      BY <3>2, <3>3
  <2>3. QED
    BY <2>1, <2>2
<1>7. ASSUME NEW q \in Outside, documents'[q] # NoText \/ disk'[q] # NoText
      PROVE  q \in roots["unscoped"] \cup Pending'
  BY <1>2, <1>4, <1>7 DEF RootsComplete
<1>8. worker' \notin {"off", "recheck_all"} =>
        \A q \in Data \ Pending' : q \in roots["folder"] <=> documents'[q] # NoText
  <2> SUFFICES ASSUME worker' \notin {"off", "recheck_all"}, NEW q \in Data \ Pending'
               PROVE  q \in roots["folder"] <=> documents'[q] # NoText
    OBVIOUS
  <2>1. q \in Data \ Pending /\ documents'[q] = documents[q]
    BY <1>2, <1>4
  <2>2. QED
    BY <1>1, <2>1 DEF RootsComplete
<1>9. QED
  BY <1>1, <1>5, <1>6, <1>7, <1>8 DEF RootsComplete

LEMMA RootsCompleteStep ==
  ASSUME OneOrTheOther, TypeOK, Placed, Kept, RootsOwn, RootsComplete, [Next]_vars
  PROVE  RootsComplete'
BY CompleteInitialized, CompleteRediscovered, CompleteRecheckedAll,
   CompleteRechecked, CompleteKept

-----------------------------------------------------------------------------
(* What the editor has of the last round.                                  *)
LEMMA SaysKept ==
  ASSUME UNCHANGED <<opened, program, data_program>>, NEW p
  PROVE  /\ SaysOf(p)' = SaysOf(p) /\ Holding(p)' = Holding(p)
         /\ \A j : TreeOf(j, p)' = TreeOf(j, p)
         /\ \A j : Diagnostics(p, TreeOf(j, p))' = Diagnostics(p, TreeOf(j, p))
<1>1. \A j : TreeOf(j, p)' = TreeOf(j, p)
  BY DEF TreeOf
<1>2. Holding(p)' = Holding(p)
  BY <1>1 DEF Holding
<1>3. Owner(p)' = Owner(p)
  BY DEF Owner
<1>4. \A j : Diagnostics(p, TreeOf(j, p))' = Diagnostics(p, TreeOf(j, p))
  BY <1>1 DEF Diagnostics, Reached, Closed
<1>5. SaysOf(p)' = SaysOf(p)
  BY <1>2, <1>3, <1>4 DEF SaysOf
<1>6. QED
  BY <1>1, <1>2, <1>4, <1>5

(* Only a round brings the worker back to rest.                            *)
LEMMA RestKept ==
  ASSUME [Next]_vars, ~Publish, Resting'
  PROVE  /\ Resting /\ UNCHANGED <<opened, program, data_program, shown, published>>
         /\ UNCHANGED tokens \/ \E p \in Checkable : Ask(p)
BY DEF Next, Reader, Worker, Stopped, Initialized, MarkDirty, Exit, Edit, Save,
       Wait, Slice, Drain, Rediscover, RecheckAll, Recheck, Ask, vars,
       projectVars, shownVars, readerVars, queueVars, Resting

LEMMA PublishKept ==
  ASSUME [Next]_vars, ~Publish
  PROVE  UNCHANGED <<shown, published>>
BY DEF Next, Reader, Worker, Stopped, Initialized, MarkDirty, Exit, Edit, Save,
       Wait, Slice, Drain, Rediscover, RecheckAll, Recheck, Ask, vars,
       projectVars, shownVars, readerVars, queueVars

LEMMA ShownStep ==
  ASSUME TypeOK, ShownOfRound, [Next]_vars
  PROVE  ShownOfRound'
<1>1. CASE Publish
  <2>1. UNCHANGED <<opened, program, data_program>>
    BY <1>1 DEF Publish, projectVars
  <2>2. ASSUME NEW p \in Checkable
        PROVE  /\ p \notin published' => shown'[p] = NoTree
               /\ \/ shown'[p] \in SaysOf(p)'
                  \/ SaysOf(p)' = {} /\ shown'[p] = NoTree
    <3>1. SaysOf(p)' = SaysOf(p)
      BY <2>1, SaysKept
    <3>2. CASE p \in Current
      <4>1. shown'[p] = CHOOSE d \in SaysOf(p) : TRUE
        BY <1>1, <3>2 DEF Publish
      <4>2. shown'[p] \in SaysOf(p) /\ p \in published'
        BY <1>1, <3>2, <4>1 DEF Current, Publish
      <4>3. QED
        BY <3>1, <4>2
    <3>3. CASE p \notin Current
      <4>1. shown'[p] = NoTree
        BY <1>1, <3>3 DEF Publish, ShownOfRound
      <4>2. SaysOf(p) = {}
        BY <3>3 DEF Current
      <4>3. QED
        BY <3>1, <4>1, <4>2
    <3>4. QED
      BY <3>2, <3>3
  <2>3. QED
    BY <2>2 DEF ShownOfRound
<1>2. CASE ~Publish
  <2>1. UNCHANGED <<shown, published>>
    BY <1>2, PublishKept
  <2>2. ASSUME Resting', NEW p \in Checkable
        PROVE  \/ shown'[p] \in SaysOf(p)'
               \/ SaysOf(p)' = {} /\ shown'[p] = NoTree
    <3>1. Resting /\ UNCHANGED <<opened, program, data_program>>
      BY <1>2, <2>2, RestKept
    <3>2. SaysOf(p)' = SaysOf(p)
      BY <3>1, SaysKept
    <3>3. QED
      BY <2>1, <3>1, <3>2 DEF ShownOfRound
  <2>3. QED
    BY <2>1, <2>2 DEF ShownOfRound
<1>3. QED
  BY <1>1, <1>2

LEMMA SessionKept ==
  ASSUME [Next]_vars
  PROVE  session' = session
BY DEF Next, Reader, Worker, Stopped, Initialized, MarkDirty, Exit, Edit, Save,
       Wait, Slice, Drain, Rediscover, RecheckAll, Recheck, Ask, Publish, vars,
       readerVars

LEMMA TokensStep ==
  ASSUME TypeOK, TokensOfRound, [Next]_vars
  PROVE  TokensOfRound'
<1>0. session' = session
  BY SessionKept
<1> SUFFICES ASSUME Resting', "refresh" \in session, NEW p \in Checkable
             PROVE  \/ tokens'[p] = NoTree
                    \/ \E j \in Holding(p)' : tokens'[p] = Diagnostics(p, TreeOf(j, p))'
  BY <1>0 DEF TokensOfRound
<1>1. CASE Publish
  BY <1>0, <1>1 DEF Publish
<1>2. CASE ~Publish
  <2>1. Resting /\ UNCHANGED <<opened, program, data_program>>
    BY <1>2, RestKept
  <2>2. /\ Holding(p)' = Holding(p)
        /\ \A j : Diagnostics(p, TreeOf(j, p))' = Diagnostics(p, TreeOf(j, p))
    BY <2>1, SaysKept
  <2>3. \/ tokens[p] = NoTree
        \/ \E j \in Holding(p) : tokens[p] = Diagnostics(p, TreeOf(j, p))
    BY <2>1 DEF TokensOfRound
  <2>4. CASE UNCHANGED tokens
    BY <2>2, <2>3, <2>4
  <2>5. ASSUME NEW q \in Checkable, Ask(q)
        PROVE  \/ tokens'[p] = NoTree
               \/ \E j \in Holding(p)' : tokens'[p] = Diagnostics(p, TreeOf(j, p))'
    <3>1. PICK j \in Holding(q) : tokens' = [tokens EXCEPT ![q] = Diagnostics(q, TreeOf(j, q))]
      BY <2>5 DEF Ask
    <3>2. CASE p = q
      <4>1. tokens'[p] = Diagnostics(p, TreeOf(j, p))
        BY <3>1, <3>2 DEF TypeOK
      <4>2. QED
        BY <2>2, <3>1, <3>2, <4>1
    <3>3. CASE p # q
      <4>1. tokens'[p] = tokens[p]
        BY <3>1, <3>3 DEF TypeOK
      <4>2. QED
        BY <2>2, <2>3, <4>1
    <3>4. QED
      BY <3>2, <3>3
  <2>6. QED
    BY <1>2, <2>4, <2>5, RestKept
<1>3. QED
  BY <1>1, <1>2

-----------------------------------------------------------------------------
(* A quiet server.                                                         *)
Steady ==
    /\ TypeOK /\ Placed /\ TreesWhole /\ Fresh /\ RootsOwn /\ TokensOfRound

LEMMA QuietTrees ==
  ASSUME Steady, Quiet, NEW j \in Projects
  PROVE  /\ DOMAIN program[j] = Reached(roots[j] \cap Units, Present)
         /\ Closed(DOMAIN program[j], program[j])
         /\ roots[j] \cap Units \subseteq DOMAIN program[j]
         /\ DOMAIN program[j] \subseteq Checkable
         /\ \A p \in DOMAIN program[j] : program[j][p] = TextOf(p)
         /\ DOMAIN data_program[j] = roots[j] \cap Data
         /\ \A p \in DOMAIN data_program[j] : data_program[j][p] = TextOf(p)
<1> USE Apart DEF Steady
<1>1. /\ DOMAIN program[j] \subseteq Checkable
      /\ DOMAIN data_program[j] \subseteq Checkable
  BY DEF TypeOK, Trees
<1>2. \A p \in Checkable : p \notin Pending
  BY DEF Quiet, Pending, Placed
<1>3. /\ \A p \in DOMAIN program[j] : program[j][p] = TextOf(p)
      /\ \A p \in DOMAIN data_program[j] : data_program[j][p] = TextOf(p)
  BY <1>1, <1>2 DEF Fresh
<1>4. /\ DOMAIN data_program[j] = roots[j] \cap Data
      /\ Whole(program[j], roots[j] \cap Units)
  BY DEF TreesWhole, Quiet
<1>5. DOMAIN program[j] = Reached(roots[j] \cap Units, Present)
  BY <1>1, <1>3, <1>4, WholeOfPresent
<1>6. QED
  BY <1>1, <1>3, <1>4, <1>5 DEF Whole

LEMMA QuietSays ==
  ASSUME Steady, Quiet, NEW p \in Checkable, NEW j \in Holding(p)
  PROVE  /\ j \in opened /\ j \in Projects /\ TextOf(p) # NoText
         /\ p \in DOMAIN program[j] \cup DOMAIN data_program[j]
         /\ Diagnostics(p, TreeOf(j, p)) = Diagnostics(p, Tree({p}))
<1> USE Apart
<1>1. /\ TypeOK /\ j \in opened /\ j \in Projects /\ p \in DOMAIN TreeOf(j, p)
      /\ TreeOf(j, p)[p] # NoText
  BY DEF Steady, Holding, TypeOK
<1>2. /\ Closed(DOMAIN program[j], program[j])
      /\ DOMAIN program[j] \subseteq Checkable
      /\ \A q \in DOMAIN program[j] : program[j][q] = TextOf(q)
      /\ DOMAIN data_program[j] = roots[j] \cap Data
      /\ \A q \in DOMAIN data_program[j] : data_program[j][q] = TextOf(q)
  BY <1>1, QuietTrees
<1>3. CASE p \in DOMAIN data_program[j]
  <2>1. TreeOf(j, p) = data_program[j] /\ p \notin Units
    BY <1>2, <1>3 DEF TreeOf
  <2>2. DOMAIN data_program[j] \subseteq Checkable
    BY <1>2
  <2>3. Diagnostics(p, data_program[j]) = Diagnostics(p, Tree({p}))
    BY <1>1, <1>2, <1>3, <2>1, <2>2, SaidOfPresent
  <2>4. QED
    BY <1>1, <1>2, <1>3, <2>1, <2>3
<1>4. CASE p \notin DOMAIN data_program[j]
  <2>1. TreeOf(j, p) = program[j]
    BY <1>4 DEF TreeOf
  <2>2. Diagnostics(p, program[j]) = Diagnostics(p, Tree({p}))
    BY <1>1, <1>2, <2>1, SaidOfPresent
  <2>3. QED
    BY <1>1, <1>2, <2>1, <2>2
<1>5. QED
  BY <1>3, <1>4

LEMMA QuietTokens == Steady => QuietMeansRefreshed
<1> SUFFICES ASSUME Steady, Quiet, "refresh" \in session, NEW p \in Checkable
             PROVE  tokens[p] \in {NoTree, Diagnostics(p, Tree({p}))}
  BY DEF QuietMeansRefreshed
<1>1. \/ tokens[p] = NoTree
      \/ \E j \in Holding(p) : tokens[p] = Diagnostics(p, TreeOf(j, p))
  BY DEF Steady, TokensOfRound, Quiet, Resting
<1>2. QED
  BY <1>1, QuietSays

Started == {p \in Units \ (Excluded[TextOf(Config)] \ Outside) : TextOf(p) # NoText}
             \cup {p \in Data : documents[p] # NoText}

LEMMA CoveredIs ==
  /\ Covered = Reached(Started, Present)
  /\ Started \subseteq Covered /\ Covered \subseteq Checkable
  /\ Closed(Covered, Present)
<1>1. Covered = Reached(Started, Present)
  BY DEF Covered, Started
<1>2. Started \subseteq Checkable
  BY Apart DEF Started
<1>3. QED
  BY <1>1, <1>2, PresentHolds, ReachedHolds, ReachedClosed

(* At rest a project has the roots it is to have.                          *)
LEMMA QuietRoots ==
  ASSUME Steady, Kept, RootsComplete, Quiet
  PROVE  /\ settings = TextOf(Config)
         /\ \A p \in Units \ (Outside \cup Excluded[settings]) :
              TextOf(p) # NoText => p \in roots["folder"]
         /\ \A p \in Outside : TextOf(p) # NoText => p \in roots["unscoped"]
         /\ \A p \in Data : p \in roots["folder"] <=> documents[p] # NoText
         /\ "folder" \in opened
         /\ roots["unscoped"] # {} => "unscoped" \in opened
<1> USE Apart DEF Steady
<1>1. \A p \in Paths : p \notin Pending
  BY DEF Quiet, Pending, Placed
<1>2. worker = "wait"
  BY DEF Quiet
<1>3. settings = TextOf(Config)
  BY <1>1, <1>2 DEF RootsComplete
<1>4. \A p \in Units \ (Outside \cup Excluded[settings]) :
        TextOf(p) # NoText => p \in roots["folder"]
  BY <1>1, <1>2 DEF RootsComplete
<1>5. \A p \in Outside : TextOf(p) # NoText => p \in roots["unscoped"]
  BY <1>1 DEF RootsComplete, TextOf
<1>6. \A p \in Data : p \in roots["folder"] <=> documents[p] # NoText
  BY <1>1, <1>2 DEF RootsComplete
<1>7. "folder" \in opened /\ (roots["unscoped"] # {} => "unscoped" \in opened)
  BY <1>2 DEF Placed, RootsOwn, Projects
<1>8. QED
  BY <1>3, <1>4, <1>5, <1>6, <1>7

(* What is published is covered.                                           *)
LEMMA QuietWithin ==
  ASSUME Steady, Kept, RootsComplete, Quiet, NEW p \in Checkable, NEW j \in Holding(p)
  PROVE  p \in Covered
<1> USE Apart
<1>1. /\ j \in Projects /\ TextOf(p) # NoText
      /\ p \in DOMAIN program[j] \cup DOMAIN data_program[j]
  BY QuietSays
<1>2. /\ DOMAIN program[j] = Reached(roots[j] \cap Units, Present)
      /\ DOMAIN data_program[j] = roots[j] \cap Data
  BY <1>1, QuietTrees
<1>3. /\ roots["folder"] \cap Excluded[TextOf(Config)] = {}
      /\ roots["unscoped"] \subseteq Outside
  BY QuietRoots DEF Steady, RootsOwn
<1>4. j = "folder" \/ j = "unscoped"
  BY <1>1 DEF Projects
<1>5. CASE p \in DOMAIN data_program[j]
  <2>1. p \in Data /\ j = "folder" /\ p \in roots["folder"]
    BY <1>2, <1>3, <1>4, <1>5
  <2>2. documents[p] # NoText
    BY <2>1, QuietRoots
  <2>3. p \in Started
    BY <2>1, <2>2 DEF Started
  <2>4. QED
    BY <2>3, CoveredIs
<1>6. CASE p \in DOMAIN program[j]
  <2> DEFINE V == Covered \cup {q \in Checkable : TextOf(q) = NoText}
  <2>1. V \subseteq DOMAIN Present
    BY CoveredIs, PresentHolds
  <2>2. roots[j] \cap Units \subseteq V
    <3> SUFFICES ASSUME NEW q \in roots[j] \cap Units, TextOf(q) # NoText
                 PROVE  q \in Started
      BY CoveredIs
    <3>1. q \notin Excluded[TextOf(Config)] \/ q \in Outside
      BY <1>3, <1>4
    <3>2. QED
      BY <3>1 DEF Started
  <2>3. Closed(V, Present)
    <3> SUFFICES ASSUME NEW q \in V \cap Units, Present[q] # NoText
                 PROVE  Requires[q] \subseteq V
      BY DEF Closed
    <3>1. q \in Covered
      BY PresentHolds
    <3>2. QED
      BY <3>1, CoveredIs DEF Closed
  <2>4. Reached(roots[j] \cap Units, Present) \subseteq V
    BY <2>1, <2>2, <2>3, ReachedLeast
  <2>5. QED
    BY <1>1, <1>2, <1>6, <2>4
<1>7. QED
  BY <1>1, <1>5, <1>6

(* A text of a file outside the folder is of a session without the         *)
(* configuration.                                                          *)
LEMMA OutsideText ==
  ASSUME OneOrTheOther, TypeOK, Kept, NEW p \in Outside, TextOf(p) # NoText
  PROVE  TextOf(Config) = OnDisk[Config]
<1> USE Apart
<1>1. documents[p] # NoText \/ disk[p] # NoText
  BY DEF TextOf
<1>2. "loose" \in session
  BY <1>1 DEF Kept
<1>3. ~({"configuration", "loose"} \subseteq session)
  BY DEF TypeOK, OneOrTheOther
<1>4. "configuration" \notin session
  BY <1>2, <1>3
<1>5. QED
  BY <1>4 DEF Kept

(* What is covered is published, by the project it belongs to.             *)
LEMMA QuietCovers ==
  ASSUME OneOrTheOther, OutsideRequires, Steady, Kept, RootsComplete, Quiet,
         NEW p \in Covered, TextOf(p) # NoText
  PROVE  SaysOf(p) # {}
<1> USE Apart
<1>1. TypeOK /\ {"folder", "unscoped"} \subseteq Projects
  BY DEF Steady, Projects
<1>2. /\ roots["folder"] \cap Units \subseteq DOMAIN program["folder"]
      /\ roots["unscoped"] \cap Units \subseteq DOMAIN program["unscoped"]
      /\ Closed(DOMAIN program["folder"], program["folder"])
      /\ DOMAIN program["folder"] \subseteq Checkable
      /\ \A q \in DOMAIN program["folder"] : program["folder"][q] = TextOf(q)
      /\ \A q \in DOMAIN program["unscoped"] : program["unscoped"][q] = TextOf(q)
      /\ DOMAIN data_program["folder"] = roots["folder"] \cap Data
      /\ DOMAIN data_program["unscoped"] = roots["unscoped"] \cap Data
      /\ \A q \in DOMAIN data_program["folder"] : data_program["folder"][q] = TextOf(q)
      /\ roots["unscoped"] \subseteq Outside
  BY <1>1, QuietTrees DEF Steady, RootsOwn
<1>3. p \in Checkable
  BY CoveredIs
<1>4. CASE p \in Outside
  <2>1. p \in roots["unscoped"] /\ "unscoped" \in opened
    BY <1>4, QuietRoots
  <2>2. p \in DOMAIN program["unscoped"] /\ p \notin DOMAIN data_program["unscoped"]
    BY <1>2, <1>4, <2>1
  <2>3. TreeOf("unscoped", p) = program["unscoped"]
    BY <2>2 DEF TreeOf
  <2>4. "unscoped" \in Holding(p)
    BY <1>2, <2>1, <2>2, <2>3 DEF Holding
  <2>5. Owner(p) = "unscoped"
    BY <1>4, <2>1 DEF Owner
  <2>6. QED
    BY <2>4, <2>5 DEF SaysOf
<1>5. CASE p \notin Outside
  <2> DEFINE W == DOMAIN program["folder"] \cup DOMAIN data_program["folder"]
                    \cup Outside \cup {q \in Checkable : TextOf(q) = NoText}
  <2>1. W \subseteq DOMAIN Present
    BY <1>2, PresentHolds
  <2>2. ASSUME NEW q \in Units, q \notin Excluded[TextOf(Config)] \/ q \in Outside
        PROVE  q \in W
    BY <1>2, <2>2, QuietRoots
  <2>3. Started \subseteq W
    <3>1. {q \in Data : documents[q] # NoText} \subseteq W
      BY <1>2, QuietRoots
    <3>2. QED
      BY <2>2, <3>1 DEF Started
  <2>4. Closed(W, Present)
    <3> SUFFICES ASSUME NEW q \in W \cap Units, Present[q] # NoText, NEW r \in Requires[q]
                 PROVE  r \in W
      BY DEF Closed
    <3>1. TextOf(q) # NoText
      BY PresentHolds
    <3>2. CASE q \in DOMAIN program["folder"]
      BY <1>2, <3>1, <3>2 DEF Closed
    <3>3. CASE q \in Outside
      <4>1. TextOf(Config) = OnDisk[Config]
        BY <1>1, <3>1, <3>3, OutsideText
      <4>2. r \in Checkable
        BY ServerAssumption DEF ServerAssumption
      <4>3. r \notin Data /\ (r \in Excluded[TextOf(Config)] => r \in Outside)
        BY <3>3, <4>1 DEF OutsideRequires
      <4>4. QED
        BY <2>2, <4>2, <4>3 DEF Checkable
    <3>4. QED
      BY <1>2, <3>1, <3>2, <3>3
  <2>5. p \in DOMAIN program["folder"] \cup DOMAIN data_program["folder"]
    <3>1. Covered \subseteq W
      BY <2>1, <2>3, <2>4, CoveredIs, ReachedLeast
    <3>2. QED
      BY <1>5, <3>1
  <2>6. /\ p \in DOMAIN TreeOf("folder", p)
        /\ TreeOf("folder", p)[p] # NoText
    BY <1>2, <2>5 DEF TreeOf
  <2>7. "folder" \in Holding(p)
    BY <2>6, QuietRoots DEF Holding
  <2>8. Owner(p) = "folder"
    BY <1>5 DEF Owner
  <2>9. QED
    BY <2>7, <2>8 DEF SaysOf
<1>6. QED
  BY <1>4, <1>5

LEMMA QuietShown ==
  ASSUME OneOrTheOther, OutsideRequires, Steady, Kept, RootsComplete, ShownOfRound
  PROVE  QuietMeansCurrent
<1> SUFFICES ASSUME Quiet, NEW p \in Checkable
             PROVE  shown[p] = IF p \in Covered /\ TextOf(p) # NoText
                               THEN Diagnostics(p, Tree({p})) ELSE NoTree
  BY DEF QuietMeansCurrent
<1>1. SaysOf(p) \subseteq {Diagnostics(p, Tree({p}))}
  BY QuietSays DEF SaysOf
<1>2. SaysOf(p) # {} <=> p \in Covered /\ TextOf(p) # NoText
  <2>1. ASSUME SaysOf(p) # {}
        PROVE  p \in Covered /\ TextOf(p) # NoText
    <3>1. PICK j \in Holding(p) : TRUE
      BY <2>1 DEF SaysOf
    <3>2. QED
      BY <3>1, QuietWithin, QuietSays
  <2>2. QED
    BY <2>1, QuietCovers
<1>3. \/ shown[p] \in SaysOf(p)
      \/ SaysOf(p) = {} /\ shown[p] = NoTree
  BY DEF ShownOfRound, Quiet, Resting
<1>4. QED
  BY <1>1, <1>2, <1>3

-----------------------------------------------------------------------------
(* The theorems.                                                           *)
LEMMA InitSteady == Init => Steady /\ ShownOfRound
<1> SUFFICES ASSUME Init
             PROVE  Steady /\ ShownOfRound
  OBVIOUS
<1> USE Apart, NoTreeHolds
<1>1. TypeOK
  <2>1. OnDisk \in [Paths -> Text]
    BY ServerAssumption DEF ServerAssumption, Text
  <2>2. QED
    BY <2>1 DEF Init, TypeOK, Text
<1>2. Placed
  BY DEF Init, Placed
<1>3. TreesWhole /\ Fresh
  BY DEF Init, TreesWhole, Fresh
<1>4. RootsOwn
  BY DEF Init, RootsOwn, Projects
<1>5. TokensOfRound /\ ShownOfRound
  BY DEF Init, TokensOfRound, ShownOfRound, Resting
<1>6. QED
  BY <1>1, <1>2, <1>3, <1>4, <1>5 DEF Steady

LEMMA SteadyStep == Steady /\ [Next]_vars => Steady'
<1> SUFFICES ASSUME Steady, [Next]_vars
             PROVE  Steady'
  OBVIOUS
<1> USE DEF Steady
<1>1. TypeOK' /\ Placed'
  BY TypeStep, PlacedStep
<1>2. TreesWhole' /\ Fresh'
  BY TreesWholeStep, FreshStep
<1>3. RootsOwn' /\ TokensOfRound'
  BY RootsOwnStep, TokensStep
<1>4. QED
  BY <1>1, <1>2, <1>3

LEMMA AlwaysSteady == Spec => []Steady
BY InitSteady, SteadyStep, PTL DEF Spec

(* LhatServer: every variable keeps its type.                              *)
THEOREM ServerIsTyped == Spec => []TypeOK
<1>1. Steady => TypeOK
  BY DEF Steady
<1>2. QED
  BY <1>1, AlwaysSteady, PTL

(* Whatever is edited, a client that supports the refresh holds no semantic *)
(* tokens of an older text once the newer one is checked (worker.c:93-107). *)
THEOREM TokensAreCurrent == Spec => []QuietMeansRefreshed
BY QuietTokens, AlwaysSteady, PTL

(* However edits, saves and closes fall among the worker's steps, a quiet  *)
(* server shows of every file what the present texts give (worker.c:109).  *)
THEOREM ShownIsCurrent ==
  ASSUME OneOrTheOther, OutsideIsNew, OutsideRequires
  PROVE  Spec => []QuietMeansCurrent
<1> DEFINE Inv == Steady /\ Kept /\ RootsComplete /\ ShownOfRound
<1>1. Init => Inv
  <2> SUFFICES ASSUME Init
               PROVE  Kept /\ RootsComplete
    BY InitSteady
  <2> USE Apart
  <2>1. Kept
    BY DEF Init, Kept, Pending, TextOf, OutsideIsNew
  <2>2. RootsComplete
    BY DEF Init, RootsComplete, Pending, OutsideIsNew
  <2>3. QED
    BY <2>1, <2>2
<1>2. Inv /\ [Next]_vars => Inv'
  <2> SUFFICES ASSUME Inv, [Next]_vars
               PROVE  Inv'
    OBVIOUS
  <2>1. Steady'
    BY SteadyStep
  <2>2. Kept' /\ ShownOfRound'
    BY KeptStep, ShownStep DEF Steady
  <2>3. RootsComplete'
    BY RootsCompleteStep DEF Steady
  <2>4. QED
    BY <2>1, <2>2, <2>3
<1>3. Inv => QuietMeansCurrent
  BY QuietShown
<1>4. QED
  BY <1>1, <1>2, <1>3, PTL DEF Spec

=============================================================================
