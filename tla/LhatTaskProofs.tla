--------------------------- MODULE LhatTaskProofs ---------------------------
(***************************************************************************)
(* Proofs about LhatTask, for any number of workers, masters and jobs.     *)
(***************************************************************************)
EXTENDS LhatTaskProps, FiniteSetTheorems, SequenceTheorems, TLAPS

Places == {"gone", "take", "nap", "asleep", "turn", "again", "park", "ended",
           "push", "idle", "drain", "dropped", "join", "launch", "launching",
           "spawn", "await", "tell"}
WorkerPlaces == {"gone", "take", "nap", "asleep", "turn", "again", "park",
                 "ended", "push"}

\* Whoever is busy with a job.
NamesJob(a) == pc[a] \in {"turn", "again", "park", "ended", "dropped", "push",
                          "spawn", "await", "tell"}

\* Every variable has its type, and who is busy with a job has one.
TypeOK ==
    /\ running \in BOOLEAN /\ looked \in BOOLEAN
    /\ threads \subseteq Workers
    /\ queue \in Seq(Jobs) /\ parked \subseteq Jobs
    /\ pc \in [Actors -> Places]
    /\ \A w \in Workers : pc[w] \in WorkerPlaces
    /\ \A m \in Masters : pc[m] = "push" \/ pc[m] \notin WorkerPlaces
    /\ has \in [Actors -> Jobs \cup {None}]
    /\ \A a \in Actors : NamesJob(a) => has[a] \in Jobs
    /\ after \in [Masters -> {"idle", "launch"}]
    /\ joining \in [Masters -> SUBSET Workers]
    /\ move \in [Jobs -> {"unmade", "start", "go_on", "none"}]
    /\ turns \in [Jobs -> Nat]
    /\ wait \in [Jobs -> {"none", "armed", "ready"}]
    /\ finished \in [Jobs -> BOOLEAN] /\ taken \in [Jobs -> BOOLEAN]
    /\ await_id \in [Jobs -> {"none", "armed", "ready"}]
    /\ owes \subseteq Actors
    /\ holds \in [Jobs -> Int]
    /\ wrappers \in [Jobs -> SUBSET (Masters \cup Elsewhere)]
    /\ starts \in Nat

\* Who is out with a job: a master that has made one and not yet queued it
\* as well as whoever has one in hand.
Out(a) == InHand(a) \/ pc[a] = "spawn"

\* No job is in two places.
OnePlace ==
    /\ \A i, k \in DOMAIN queue : queue[i] = queue[k] => i = k
    /\ Image(queue) \cap parked = {}
    /\ \A a \in Actors : Out(a) => has[a] \notin Image(queue) \cup parked
    /\ \A a, b \in Actors : Out(a) /\ Out(b) /\ has[a] = has[b] => a = b

\* A job that is yet to be made is nowhere and nobody holds it.
Unmade ==
    \A j \in Jobs : move[j] = "unmade" =>
        /\ j \notin Image(queue) \cup parked
        /\ \A a \in Actors : Out(a) => has[a] # j

\* The pool's own hold of a job.
Pooled(j) == j \in Image(queue) \cup parked \/ \E a \in Actors : InHand(a) /\ has[a] = j

HoldsAgree ==
    \A j \in Jobs :
        /\ IsFiniteSet(wrappers[j])
        /\ holds[j] = Cardinality(wrappers[j]) + (IF Pooled(j) THEN 1 ELSE 0)

\* Whoever is about to push a wait stands where it is pushed.
Pushing ==
    \A a \in owes : pc[a] \in {"push", "tell"}

\* One machine alone starts and stops the pool.
OneStarter == \A m, n \in Starters : m = n

Stopping(m) == pc[m] \in {"drain", "dropped", "push", "join"}

\* A stopped pool has no worker, except while its stop() is under way.
Crew ==
    /\ \A m \in Masters : pc[m] \in {"drain", "dropped", "push", "join", "launch",
                                     "launching"} => m \in Starters
    /\ \A m \in Masters : Stopping(m) \/ pc[m] = "launch" => ~running
    /\ \A m \in Masters : pc[m] = "launching" => running
    /\ \A m \in Masters : joining[m] # {} => pc[m] = "join"
    /\ \A m \in Masters : pc[m] = "join" => threads = {}
    /\ \A w \in Workers : pc[w] # "gone" =>
           w \in threads \/ \E m \in Starters : w \in joining[m]
    /\ ~running => \/ \E m \in Starters : Stopping(m)
                   \/ \A w \in Workers : pc[w] = "gone"

-----------------------------------------------------------------------------
(* Sequences.                                                              *)
Distinct(s) == \A i, k \in DOMAIN s : s[i] = s[k] => i = k

LEMMA ImageOfAppend ==
  ASSUME NEW S, NEW s \in Seq(S), NEW x
  PROVE  Image(Append(s, x)) = Image(s) \cup {x}
<1>1. /\ DOMAIN s = 1..Len(s) /\ DOMAIN Append(s, x) = 1..(Len(s) + 1)
      /\ \A i \in DOMAIN s : Append(s, x)[i] = s[i]
      /\ Append(s, x)[Len(s) + 1] = x /\ Len(s) \in Nat
  OBVIOUS
<1>2. QED
  BY <1>1 DEF Image

LEMMA DistinctAppend ==
  ASSUME NEW S, NEW s \in Seq(S), NEW x, x \notin Image(s), Distinct(s)
  PROVE  Distinct(Append(s, x))
<1>1. /\ DOMAIN s = 1..Len(s) /\ DOMAIN Append(s, x) = 1..(Len(s) + 1)
      /\ \A i \in DOMAIN s : Append(s, x)[i] = s[i]
      /\ Append(s, x)[Len(s) + 1] = x /\ Len(s) \in Nat
  OBVIOUS
<1>2. QED
  BY <1>1 DEF Image, Distinct

LEMMA ImageOfBoth ==
  ASSUME NEW S, NEW s \in Seq(S), NEW t \in Seq(S)
  PROVE  Image(s \o t) = Image(s) \cup Image(t)
<1>1. /\ DOMAIN s = 1..Len(s) /\ DOMAIN t = 1..Len(t)
      /\ DOMAIN (s \o t) = 1..(Len(s) + Len(t))
      /\ \A i \in 1..Len(s) : (s \o t)[i] = s[i]
      /\ \A i \in 1..Len(t) : (s \o t)[Len(s) + i] = t[i]
      /\ Len(s) \in Nat /\ Len(t) \in Nat
  OBVIOUS
<1>2. ASSUME NEW i \in DOMAIN (s \o t)
      PROVE  (s \o t)[i] \in Image(s) \cup Image(t)
  <2>1. CASE i <= Len(s)
    BY <1>1, <2>1 DEF Image
  <2>2. CASE i > Len(s)
    <3>1. i - Len(s) \in 1..Len(t) /\ (s \o t)[i] = t[i - Len(s)]
      BY <1>1, <2>2
    <3>2. QED
      BY <1>1, <3>1 DEF Image
  <2>3. QED
    BY <1>1, <2>1, <2>2
<1>3. \A i \in DOMAIN s : s[i] \in Image(s \o t)
  BY <1>1 DEF Image
<1>4. ASSUME NEW i \in DOMAIN t
      PROVE  t[i] \in Image(s \o t)
  <2>1. Len(s) + i \in DOMAIN (s \o t)
    BY <1>1
  <2>2. QED
    BY <1>1, <2>1 DEF Image
<1>5. QED
  BY <1>2, <1>3, <1>4 DEF Image

LEMMA DistinctBoth ==
  ASSUME NEW S, NEW s \in Seq(S), NEW t \in Seq(S), Distinct(s), Distinct(t),
         Image(s) \cap Image(t) = {}
  PROVE  Distinct(s \o t)
<1>1. /\ DOMAIN s = 1..Len(s) /\ DOMAIN t = 1..Len(t)
      /\ DOMAIN (s \o t) = 1..(Len(s) + Len(t))
      /\ \A i \in 1..Len(s) : (s \o t)[i] = s[i]
      /\ \A i \in 1..Len(t) : (s \o t)[Len(s) + i] = t[i]
      /\ Len(s) \in Nat /\ Len(t) \in Nat
  OBVIOUS
<1>2. \A i \in DOMAIN (s \o t) :
         \/ i \in DOMAIN s /\ (s \o t)[i] = s[i]
         \/ i - Len(s) \in DOMAIN t /\ (s \o t)[i] = t[i - Len(s)]
  BY <1>1
<1>3. \A i \in DOMAIN s, k \in DOMAIN t : s[i] # t[k]
  BY DEF Image
<1>4. SUFFICES ASSUME NEW i \in DOMAIN (s \o t), NEW k \in DOMAIN (s \o t),
                      (s \o t)[i] = (s \o t)[k]
               PROVE  i = k
  BY DEF Distinct
<1>5. QED
  BY <1>1, <1>2, <1>3, <1>4 DEF Distinct

LEMMA TailFacts ==
  ASSUME NEW S, NEW s \in Seq(S), s # <<>>, Distinct(s)
  PROVE  /\ Head(s) \in S /\ Tail(s) \in Seq(S) /\ Distinct(Tail(s))
         /\ Head(s) \in Image(s) /\ Image(Tail(s)) = Image(s) \ {Head(s)}
         /\ Len(Tail(s)) = Len(s) - 1
<1>1. /\ DOMAIN s = 1..Len(s) /\ Len(s) \in Nat /\ Len(s) # 0
      /\ Tail(s) \in Seq(S) /\ Len(Tail(s)) = Len(s) - 1
      /\ DOMAIN Tail(s) = 1..(Len(s) - 1)
      /\ \A i \in DOMAIN Tail(s) : Tail(s)[i] = s[i + 1]
      /\ Head(s) = s[1]
  OBVIOUS
<1>2. Distinct(Tail(s))
  BY <1>1 DEF Distinct
<1>3. 1 \in DOMAIN s
  BY <1>1
<1>4. Head(s) \in S /\ Head(s) \in Image(s)
  BY <1>1, <1>3 DEF Image
<1>5. ASSUME NEW x \in Image(s), x # Head(s)
      PROVE  x \in Image(Tail(s))
  <2>1. PICK i \in DOMAIN s : x = s[i]
    BY DEF Image
  <2>2. i - 1 \in DOMAIN Tail(s) /\ Tail(s)[i - 1] = x
    BY <1>1, <1>5, <2>1
  <2>3. QED
    BY <2>2 DEF Image
<1>6. ASSUME NEW x \in Image(Tail(s))
      PROVE  x \in Image(s) /\ x # Head(s)
  <2>1. PICK i \in DOMAIN Tail(s) : x = Tail(s)[i]
    BY DEF Image
  <2>2. i + 1 \in DOMAIN s /\ x = s[i + 1] /\ i + 1 # 1
    BY <1>1, <2>1
  <2>3. QED
    BY <1>1, <1>3, <2>2 DEF Image, Distinct
<1>7. QED
  BY <1>1, <1>2, <1>4, <1>5, <1>6

(* What move_ready queues is an order of some of the parked jobs.          *)
LEMMA OrderFacts ==
  ASSUME NEW S \in SUBSET Jobs, NEW s \in Orders(S)
  PROVE  s \in Seq(Jobs) /\ Distinct(s) /\ Image(s) \subseteq S
<1>1. PICK n \in 0..Cardinality(S) : s \in [1..n -> S]
  BY DEF Orders
<1>2. S \in SUBSET Jobs /\ IsFiniteSet(S) /\ Cardinality(S) \in Nat
  BY TaskAssumption, FS_Subset, FS_CardinalityType DEF TaskAssumption
<1>3. n \in Nat
  BY <1>1, <1>2
<1>4. s \in Seq(Jobs)
  BY <1>1, <1>2, <1>3, SeqDef
<1>5. Distinct(s)
  BY DEF Orders, Distinct
<1>6. Image(s) \subseteq S
  BY <1>1 DEF Image
<1>7. QED
  BY <1>4, <1>5, <1>6

-----------------------------------------------------------------------------
(* Who moves: a step moves one actor, and may wake some that sleep.        *)
Others(a) ==
    \A b \in Actors \ {a} :
        pc'[b] = pc[b] \/ (b \in Workers /\ pc[b] = "asleep" /\ pc'[b] = "take")

LEMMA Apart == Workers \cap Masters = {} /\ Workers \subseteq Actors /\ Masters \subseteq Actors
BY TaskAssumption DEF TaskAssumption, Actors

LEMMA Woken == \A n : Signalled(n) \subseteq SUBSET Asleep
BY DEF Signalled

LEMMA GoesFacts ==
  ASSUME TypeOK, NEW a \in Actors, NEW place \in Places, NEW woken \in SUBSET Asleep,
         Goes(a, place, woken),
         a \in Workers => place \in WorkerPlaces,
         a \in Masters => place = "push" \/ place \notin WorkerPlaces
  PROVE  /\ pc' \in [Actors -> Places]
         /\ \A w \in Workers : pc'[w] \in WorkerPlaces
         /\ \A m \in Masters : pc'[m] = "push" \/ pc'[m] \notin WorkerPlaces
         /\ pc'[a] = place /\ Others(a)
<1>1. \A b \in Actors : pc'[b] = IF b = a THEN place
                                 ELSE IF b \in woken THEN "take" ELSE pc[b]
  BY DEF Goes
<1>2. \A b \in woken : b \in Workers /\ pc[b] = "asleep"
  BY DEF Asleep
<1>3. pc' \in [Actors -> Places]
  BY DEF Goes, TypeOK, Places
<1>4. \A w \in Workers : pc'[w] \in WorkerPlaces
  BY <1>1, Apart DEF TypeOK, WorkerPlaces
<1>5. \A m \in Masters : pc'[m] = "push" \/ pc'[m] \notin WorkerPlaces
  BY <1>1, <1>2, Apart DEF TypeOK
<1>6. QED
  BY <1>1, <1>2, <1>3, <1>4, <1>5 DEF Others

(* Who is busy with a job has one still, when all but one have what they   *)
(* had.                                                                    *)
LEMMA HasFacts ==
  ASSUME TypeOK, NEW a \in Actors, NEW x \in Jobs \cup {None},
         Others(a), has' = [has EXCEPT ![a] = x], NamesJob(a)' => x \in Jobs
  PROVE  /\ has' \in [Actors -> Jobs \cup {None}]
         /\ \A b \in Actors : NamesJob(b)' => has'[b] \in Jobs
<1>1. \A b \in Actors : has'[b] = IF b = a THEN x ELSE has[b]
  BY DEF TypeOK
<1>2. ASSUME NEW b \in Actors, NamesJob(b)', b # a
      PROVE  NamesJob(b)
  BY <1>2 DEF Others, NamesJob
<1>3. QED
  BY <1>1, <1>2 DEF TypeOK

LEMMA SameHas ==
  ASSUME TypeOK, NEW a \in Actors, Others(a), UNCHANGED has,
         NamesJob(a)' => NamesJob(a)
  PROVE  \A b \in Actors : NamesJob(b)' => has'[b] \in Jobs
<1>1. ASSUME NEW b \in Actors, NamesJob(b)', b # a
      PROVE  NamesJob(b)
  BY <1>1 DEF Others, NamesJob
<1>2. QED
  BY <1>1 DEF TypeOK

(* What Take does: `moved` is what move_ready queues.                      *)
LEMMA TakeFacts ==
  ASSUME TypeOK, NEW w \in Workers, Take(w)
  PROVE  \E moved \in Seq(Jobs) :
           /\ Distinct(moved) /\ Image(moved) \subseteq parked
           /\ parked' = parked \ Image(moved)
           /\ queue' = IF queue \o moved = <<>> THEN <<>> ELSE Tail(queue \o moved)
           /\ has' = [has EXCEPT ![w] = IF queue \o moved = <<>> THEN None
                                        ELSE Head(queue \o moved)]
           /\ \E woken \in Signalled(Len(moved)) :
                Goes(w, IF queue \o moved # <<>> THEN "turn"
                        ELSE IF parked' # {} THEN "nap" ELSE "asleep", woken)
<1>1. PICK moved \in IF DueToLook THEN Orders(ReadyParked) ELSE {<<>>} :
         \E woken \in Signalled(Len(moved)) :
           LET line == queue \o moved
               left == StillParked(moved) IN
           /\ parked' = left
           /\ queue' = IF line = <<>> THEN line ELSE Tail(line)
           /\ has' = [has EXCEPT ![w] = IF line = <<>> THEN None ELSE Head(line)]
           /\ Goes(w, IF line # <<>> THEN "turn"
                      ELSE IF left # {} THEN "nap" ELSE "asleep", woken)
  BY DEF Take
<1>2. moved \in Seq(Jobs) /\ Distinct(moved) /\ Image(moved) \subseteq parked
  <2>1. CASE DueToLook
    <3>1. ReadyParked \in SUBSET Jobs /\ ReadyParked \subseteq parked
      BY DEF ReadyParked, TypeOK
    <3>2. QED
      BY <1>1, <2>1, <3>1, OrderFacts
  <2>2. CASE ~DueToLook
    <3>1. moved = <<>>
      BY <1>1, <2>2
    <3>2. QED
      BY <3>1 DEF Distinct, Image
  <2>3. QED
    BY <2>1, <2>2
<1>3. QED
  BY <1>1, <1>2 DEF StillParked

LEMMA TakeTypes ==
  ASSUME TypeOK, NEW w \in Workers, Take(w)
  PROVE  TypeOK'
<1>1. PICK moved \in Seq(Jobs) :
           /\ parked' = parked \ Image(moved)
           /\ queue' = IF queue \o moved = <<>> THEN <<>> ELSE Tail(queue \o moved)
           /\ has' = [has EXCEPT ![w] = IF queue \o moved = <<>> THEN None
                                        ELSE Head(queue \o moved)]
           /\ \E woken \in Signalled(Len(moved)) :
                Goes(w, IF queue \o moved # <<>> THEN "turn"
                        ELSE IF parked' # {} THEN "nap" ELSE "asleep", woken)
  BY TakeFacts
<1>2. /\ queue \o moved \in Seq(Jobs)
      /\ queue \o moved # <<>> =>
            Tail(queue \o moved) \in Seq(Jobs) /\ Head(queue \o moved) \in Jobs
  <2>1. queue \o moved \in Seq(Jobs)
    BY DEF TypeOK
  <2>2. QED
    BY <2>1
<1>3. queue' \in Seq(Jobs)
  BY <1>1, <1>2
<1>4. /\ pc' \in [Actors -> Places]
      /\ \A v \in Workers : pc'[v] \in WorkerPlaces
      /\ \A m \in Masters : pc'[m] = "push" \/ pc'[m] \notin WorkerPlaces
      /\ pc'[w] = IF queue \o moved # <<>> THEN "turn"
                  ELSE IF parked' # {} THEN "nap" ELSE "asleep"
      /\ Others(w)
  BY <1>1, GoesFacts, Woken, Apart DEF Places, WorkerPlaces
<1>5. /\ has' \in [Actors -> Jobs \cup {None}]
      /\ \A b \in Actors : NamesJob(b)' => has'[b] \in Jobs
  <2>1. NamesJob(w)' => queue \o moved # <<>>
    BY <1>4 DEF NamesJob
  <2>2. QED
    BY <1>1, <1>2, <1>4, <2>1, HasFacts, Apart
<1>6. parked' \subseteq Jobs
  BY <1>1 DEF TypeOK
<1>7. wait' \in [Jobs -> {"none", "armed", "ready"}]
  BY DEF Take, TypeOK
<1>8. looked' \in BOOLEAN
  BY DEF Take, DueToLook, TypeOK
<1>9. QED
  BY <1>3, <1>4, <1>5, <1>6, <1>7, <1>8
     DEF Take, TypeOK, masterVars, turnVars, endVars, holdVars

(* Where everybody stands, and what they have in hand.                     *)
WhoOK ==
    /\ pc \in [Actors -> Places]
    /\ \A w \in Workers : pc[w] \in WorkerPlaces
    /\ \A m \in Masters : pc[m] = "push" \/ pc[m] \notin WorkerPlaces
    /\ has \in [Actors -> Jobs \cup {None}]
    /\ \A a \in Actors : NamesJob(a) => has[a] \in Jobs

LEMMA JustMoves ==
  ASSUME TypeOK, NEW a \in Actors, NEW place \in Places, NEW woken \in SUBSET Asleep,
         Goes(a, place, woken), UNCHANGED has,
         a \in Workers => place \in WorkerPlaces,
         a \in Masters => place = "push" \/ place \notin WorkerPlaces,
         NamesJob(a) \/ place \notin {"turn", "again", "park", "ended", "dropped",
                                      "push", "spawn", "await", "tell"}
  PROVE  WhoOK' /\ Others(a) /\ pc'[a] = place
<1>1. /\ pc' \in [Actors -> Places]
      /\ \A w \in Workers : pc'[w] \in WorkerPlaces
      /\ \A m \in Masters : pc'[m] = "push" \/ pc'[m] \notin WorkerPlaces
      /\ pc'[a] = place /\ Others(a)
  BY GoesFacts
<1>2. \A b \in Actors : NamesJob(b)' => has'[b] \in Jobs
  <2>1. NamesJob(a)' => NamesJob(a)
    BY <1>1 DEF NamesJob
  <2>2. QED
    BY <1>1, <2>1, SameHas
<1>3. has' \in [Actors -> Jobs \cup {None}]
  BY DEF TypeOK
<1>4. QED
  BY <1>1, <1>2, <1>3 DEF WhoOK

LEMMA MovesWith ==
  ASSUME TypeOK, NEW a \in Actors, NEW place \in Places, NEW woken \in SUBSET Asleep,
         NEW x \in Jobs \cup {None},
         Goes(a, place, woken), has' = [has EXCEPT ![a] = x],
         a \in Workers => place \in WorkerPlaces,
         a \in Masters => place = "push" \/ place \notin WorkerPlaces,
         x \in Jobs \/ place \notin {"turn", "again", "park", "ended", "dropped",
                                     "push", "spawn", "await", "tell"}
  PROVE  /\ WhoOK' /\ Others(a) /\ pc'[a] = place
         /\ has'[a] = x /\ \A b \in Actors \ {a} : has'[b] = has[b]
<1>1. /\ pc' \in [Actors -> Places]
      /\ \A w \in Workers : pc'[w] \in WorkerPlaces
      /\ \A m \in Masters : pc'[m] = "push" \/ pc'[m] \notin WorkerPlaces
      /\ pc'[a] = place /\ Others(a)
  BY GoesFacts
<1>2. NamesJob(a)' => x \in Jobs
  BY <1>1 DEF NamesJob
<1>3. /\ has' \in [Actors -> Jobs \cup {None}]
      /\ \A b \in Actors : NamesJob(b)' => has'[b] \in Jobs
  BY <1>1, <1>2, HasFacts
<1>4. has'[a] = x /\ \A b \in Actors \ {a} : has'[b] = has[b]
  BY DEF TypeOK
<1>5. QED
  BY <1>1, <1>3, <1>4 DEF WhoOK

(* Who moves in a step, where to, and with what in hand.                   *)
LEMMA Asleepless == {} \in SUBSET Asleep /\ Asleep \in SUBSET Asleep
OBVIOUS

LEMMA WorkerMoves ==
  ASSUME TypeOK, NEW w \in Workers,
         Leave(w) \/ NapOver(w) \/ WakeByItself(w) \/ Turn(w) \/ LeaveStanding(w)
  PROVE  WhoOK' /\ Others(w) /\ UNCHANGED has
<1> USE Apart, Asleepless DEF Places, WorkerPlaces
<1>1. CASE Leave(w)
  BY <1>1, JustMoves DEF Leave
<1>2. CASE NapOver(w)
  BY <1>2, JustMoves DEF NapOver
<1>3. CASE WakeByItself(w)
  BY <1>3, JustMoves DEF WakeByItself
<1>4. CASE Turn(w)
  <2>1. NamesJob(w) /\ UNCHANGED has
    BY <1>4 DEF Turn, NamesJob
  <2>2. Goes(w, "again", {}) \/ Goes(w, "park", {}) \/ Goes(w, "ended", {})
    BY <1>4 DEF Turn, RunOn, WaitOn, End
  <2>3. QED
    BY <2>1, <2>2, JustMoves
<1>5. CASE LeaveStanding(w)
  <2>1. NamesJob(w) /\ UNCHANGED has /\ Goes(w, "ended", {})
    BY <1>5 DEF LeaveStanding, NamesJob
  <2>2. QED
    BY <2>1, JustMoves
<1>6. QED
  BY <1>1, <1>2, <1>3, <1>4, <1>5

LEMMA FileMoves ==
  ASSUME TypeOK, NEW w \in Workers, File(w)
  PROVE  /\ WhoOK' /\ Others(w) /\ pc'[w] = "take" /\ has[w] \in Jobs /\ InHand(w)
         /\ has'[w] = None /\ \A b \in Actors \ {w} : has'[b] = has[b]
<1> USE Apart, Asleepless DEF Places, WorkerPlaces
<1>1. PICK woken \in SUBSET Asleep : Goes(w, "take", woken)
  BY Woken DEF File
<1>2. has[w] \in Jobs /\ InHand(w)
  BY DEF File, TypeOK, NamesJob, InHand
<1>3. has' = [has EXCEPT ![w] = None]
  BY DEF File
<1>4. QED
  BY <1>1, <1>2, <1>3, MovesWith

LEMMA FinishMoves ==
  ASSUME TypeOK, NEW a \in Actors, Finish(a)
  PROVE  /\ WhoOK' /\ Others(a) /\ pc'[a] = "push" /\ UNCHANGED has
         /\ has[a] \in Jobs /\ InHand(a)
<1>1. NamesJob(a) /\ UNCHANGED has /\ Goes(a, "push", {}) /\ InHand(a)
  BY DEF Finish, NamesJob, InHand
<1>2. has[a] \in Jobs
  BY <1>1 DEF TypeOK
<1>3. QED
  BY <1>1, <1>2, JustMoves, Asleepless DEF Places, WorkerPlaces

LEMMA LetGoMoves ==
  ASSUME TypeOK, NEW a \in Actors, PushAndLetGo(a)
  PROVE  /\ WhoOK' /\ Others(a) /\ pc'[a] = IF a \in Workers THEN "take" ELSE "drain"
         /\ has[a] \in Jobs /\ InHand(a) /\ pc[a] = "push"
         /\ has'[a] = None /\ \A b \in Actors \ {a} : has'[b] = has[b]
<1>1. has' = [has EXCEPT ![a] = None] /\ NamesJob(a) /\ InHand(a) /\ pc[a] = "push"
  BY DEF PushAndLetGo, NamesJob, InHand
<1>2. has[a] \in Jobs
  BY <1>1 DEF TypeOK
<1>3. CASE a \in Workers
  <2>1. Goes(a, "take", {})
    BY <1>3 DEF PushAndLetGo
  <2>2. QED
    BY <1>1, <1>2, <1>3, <2>1, MovesWith, Asleepless, Apart DEF Places, WorkerPlaces
<1>4. CASE a \notin Workers
  <2>1. Goes(a, "drain", {})
    BY <1>4 DEF PushAndLetGo
  <2>2. QED
    BY <1>1, <1>2, <1>4, <2>1, MovesWith, Asleepless DEF Places, WorkerPlaces
<1>5. QED
  BY <1>3, <1>4

LEMMA TakeMoves ==
  ASSUME TypeOK, NEW w \in Workers, Take(w)
  PROVE  /\ Others(w) /\ pc'[w] \in {"turn", "nap", "asleep"}
         /\ \A b \in Actors \ {w} : has'[b] = has[b]
<1>1. PICK moved \in Seq(Jobs) :
           /\ has' = [has EXCEPT ![w] = IF queue \o moved = <<>> THEN None
                                        ELSE Head(queue \o moved)]
           /\ \E woken \in Signalled(Len(moved)) :
                Goes(w, IF queue \o moved # <<>> THEN "turn"
                        ELSE IF parked' # {} THEN "nap" ELSE "asleep", woken)
  BY TakeFacts
<1>2. \E place \in {"turn", "nap", "asleep"}, woken \in SUBSET Asleep : Goes(w, place, woken)
  BY <1>1, Woken
<1>3. Others(w) /\ pc'[w] \in {"turn", "nap", "asleep"}
  BY <1>2, GoesFacts, Apart DEF Places, WorkerPlaces
<1>4. \A b \in Actors \ {w} : has'[b] = has[b]
  BY <1>1 DEF TypeOK
<1>5. QED
  BY <1>3, <1>4

LEMMA DropMoves ==
  ASSUME TypeOK, NEW m \in Masters, NEW j \in Jobs, pc[m] = "drain",
         has' = [has EXCEPT ![m] = j], Goes(m, "dropped", {})
  PROVE  /\ WhoOK' /\ Others(m) /\ pc'[m] = "dropped"
         /\ has'[m] = j /\ \A b \in Actors \ {m} : has'[b] = has[b]
BY MovesWith, Asleepless, Apart DEF Places, WorkerPlaces

LEMMA DroppedMoves ==
  ASSUME TypeOK, NEW m \in Masters, DropQueued(m) \/ DropParked(m)
  PROVE  /\ Others(m) /\ pc[m] = "drain" /\ pc'[m] = "dropped"
         /\ \A b \in Actors \ {m} : has'[b] = has[b]
<1>1. \E j \in Jobs : has' = [has EXCEPT ![m] = j]
  <2>1. CASE DropQueued(m)
    <3>1. queue \in Seq(Jobs) /\ queue # <<>> /\ has' = [has EXCEPT ![m] = Head(queue)]
      BY <2>1 DEF DropQueued, TypeOK
    <3>2. Head(queue) \in Jobs
      BY <3>1
    <3>3. QED
      BY <3>1, <3>2
  <2>2. CASE DropParked(m)
    BY <2>2 DEF DropParked, TypeOK
  <2>3. QED
    BY <2>1, <2>2
<1>2. pc[m] = "drain" /\ Goes(m, "dropped", {})
  BY DEF DropQueued, DropParked
<1>3. QED
  BY <1>1, <1>2, DropMoves

(* The calls that only move their machine about.                           *)
LEMMA MasterMoves ==
  ASSUME TypeOK, NEW m \in Masters,
         \/ Start(m) \/ Stop(m) \/ LaunchedNone(m) \/ TellWorkers(m) \/ Join(m)
         \/ Launch(m) \/ LaunchNoRoom(m) \/ Launched(m)
  PROVE  /\ WhoOK' /\ Others(m) /\ UNCHANGED has
         /\ pc[m] \in {"idle", "launching", "drain", "join", "launch"}
         /\ pc'[m] \in {"drain", "idle", "launch", "join", "launching"}
<1> USE Apart, Asleepless DEF Places, WorkerPlaces
<1>1. UNCHANGED has /\ pc[m] \in {"idle", "launching", "drain", "join", "launch"}
  BY DEF Start, Stop, LaunchedNone, BeginStop, TellWorkers, Join, Launch, LaunchNoRoom,
         Launched
<1>2. \E place \in {"drain", "idle", "launch", "join", "launching"},
         woken \in SUBSET Asleep : Goes(m, place, woken)
  <2>1. CASE Start(m) \/ Stop(m) \/ LaunchedNone(m)
    BY <2>1 DEF Start, Stop, LaunchedNone, BeginStop
  <2>2. CASE TellWorkers(m)
    BY <2>2 DEF TellWorkers
  <2>3. CASE Join(m)
    <3>1. after[m] \in {"idle", "launch"} /\ Goes(m, after[m], {})
      BY <2>3 DEF Join, TypeOK
    <3>2. QED
      BY <3>1
  <2>4. CASE Launch(m) \/ LaunchNoRoom(m) \/ Launched(m)
    BY <2>4 DEF Launch, LaunchNoRoom, Launched
  <2>5. QED
    BY <2>1, <2>2, <2>3, <2>4
<1>3. PICK place \in {"drain", "idle", "launch", "join", "launching"},
           woken \in SUBSET Asleep : Goes(m, place, woken)
  BY <1>2
<1>4. QED
  BY <1>1, <1>3, JustMoves

LEMMA LaunchOneMoves ==
  ASSUME TypeOK, NEW m \in Masters, LaunchOne(m)
  PROVE  /\ WhoOK' /\ UNCHANGED has
         /\ \E w \in Workers : /\ pc[w] = "gone" /\ pc'[w] = "take"
                               /\ threads' = threads \cup {w}
                               /\ \A b \in Actors \ {w} : pc'[b] = pc[b]
<1>1. PICK w \in Workers : /\ pc[w] = "gone" /\ threads' = threads \cup {w}
                           /\ pc' = [pc EXCEPT ![w] = "take"]
  BY DEF LaunchOne
<1>2. UNCHANGED has
  BY DEF LaunchOne
<1>3. pc'[w] = "take" /\ \A b \in Actors \ {w} : pc'[b] = pc[b]
  BY <1>1, Apart DEF TypeOK
<1>4. pc' \in [Actors -> Places]
  BY <1>1 DEF TypeOK, Places
<1>5. WhoOK'
  <2>1. /\ \A v \in Workers : pc'[v] \in WorkerPlaces
        /\ \A n \in Masters : pc'[n] = "push" \/ pc'[n] \notin WorkerPlaces
    <3>1. /\ \A v \in Workers : pc[v] \in WorkerPlaces
          /\ \A n \in Masters : pc[n] = "push" \/ pc[n] \notin WorkerPlaces
      BY DEF TypeOK
    <3>2. \A n \in Masters : n \in Actors \ {w}
      BY Apart
    <3>3. QED
      BY <1>3, <3>1, <3>2, Apart DEF WorkerPlaces
  <2>2. has' \in [Actors -> Jobs \cup {None}]
    BY <1>2 DEF TypeOK
  <2>3. \A b \in Actors : NamesJob(b)' => NamesJob(b)
    BY <1>3 DEF NamesJob
  <2>4. \A b \in Actors : NamesJob(b)' => has'[b] \in Jobs
    <3>1. \A b \in Actors : NamesJob(b) => has[b] \in Jobs
      BY DEF TypeOK
    <3>2. QED
      BY <1>2, <2>3, <3>1
  <2>5. QED
    BY <1>4, <2>1, <2>2, <2>4 DEF WhoOK
<1>6. QED
  BY <1>1, <1>2, <1>3, <1>5

LEMMA QueueItMoves ==
  ASSUME TypeOK, NEW m \in Masters, QueueIt(m) \/ NotQueued(m)
  PROVE  /\ WhoOK' /\ Others(m) /\ pc'[m] = "idle" /\ has[m] \in Jobs /\ pc[m] = "spawn"
         /\ has'[m] = None /\ \A b \in Actors \ {m} : has'[b] = has[b]
<1> USE Apart, Asleepless DEF Places, WorkerPlaces
<1>1. PICK woken \in SUBSET Asleep : Goes(m, "idle", woken)
  BY Woken DEF QueueIt, NotQueued
<1>2. has[m] \in Jobs /\ pc[m] = "spawn"
  BY DEF QueueIt, NotQueued, TypeOK, NamesJob
<1>3. has' = [has EXCEPT ![m] = None]
  BY DEF QueueIt, NotQueued
<1>4. QED
  BY <1>1, <1>2, <1>3, MovesWith

LEMMA AsyncMoves ==
  ASSUME TypeOK, NEW m \in Masters, NEW j \in Jobs, Async(m, j)
  PROVE  /\ WhoOK' /\ Others(m) /\ pc'[m] = "spawn" /\ pc[m] = "idle"
         /\ has'[m] = j /\ \A b \in Actors \ {m} : has'[b] = has[b]
BY MovesWith, Asleepless, Apart DEF Places, WorkerPlaces, Async

LEMMA AwaitMoves ==
  ASSUME TypeOK, NEW m \in Masters, NEW j \in Jobs, Await(m, j)
  PROVE  /\ WhoOK' /\ Others(m) /\ pc'[m] = "await" /\ pc[m] = "idle"
         /\ has'[m] = j /\ \A b \in Actors \ {m} : has'[b] = has[b]
BY MovesWith, Asleepless, Apart DEF Places, WorkerPlaces, Await

LEMMA AnswerMoves ==
  ASSUME TypeOK, NEW m \in Masters, Awaited(m) \/ Tell(m)
  PROVE  /\ WhoOK' /\ Others(m) /\ pc'[m] = "idle" /\ pc[m] \in {"await", "tell"}
         /\ has[m] \in Jobs
         /\ has'[m] = None /\ \A b \in Actors \ {m} : has'[b] = has[b]
<1>1. /\ Goes(m, "idle", {}) /\ has' = [has EXCEPT ![m] = None]
      /\ pc[m] \in {"await", "tell"}
  BY DEF Awaited, Tell
<1>2. has[m] \in Jobs
  BY <1>1, Apart DEF TypeOK, NamesJob
<1>3. QED
  BY <1>1, <1>2, MovesWith, Asleepless, Apart DEF Places, WorkerPlaces

LEMMA AwaitableMoves ==
  ASSUME TypeOK, NEW m \in Masters, NEW j \in Jobs, Awaitable(m, j)
  PROVE  /\ WhoOK' /\ Others(m) /\ pc[m] = "idle"
         /\ \/ /\ finished[j] /\ await_id'[j] # "none" /\ owes' = owes \cup {m}
               /\ pc'[m] = "tell" /\ has'[m] = j
               /\ \A b \in Actors \ {m} : has'[b] = has[b]
            \/ /\ ~(finished[j] /\ await_id'[j] # "none")
               /\ UNCHANGED <<owes, has, pc>>
<1>1. pc[m] = "idle"
  BY DEF Awaitable
<1>2. CASE finished[j] /\ await_id'[j] # "none"
  <2>1. /\ owes' = owes \cup {m} /\ has' = [has EXCEPT ![m] = j]
        /\ Goes(m, "tell", {})
    BY <1>2 DEF Awaitable
  <2>2. QED
    BY <1>1, <1>2, <2>1, MovesWith, Asleepless, Apart, ZenonT(60) DEF Places, WorkerPlaces
<1>3. CASE ~(finished[j] /\ await_id'[j] # "none")
  <2>1. UNCHANGED <<owes, has, pc>>
    BY <1>3 DEF Awaitable
  <2>2. WhoOK' /\ Others(m)
    BY <2>1 DEF WhoOK, Others, TypeOK, NamesJob
  <2>3. QED
    BY <1>1, <1>3, <2>1, <2>2
<1>4. QED
  BY <1>2, <1>3

LEMMA TypeStep == TypeOK /\ [Next]_vars => TypeOK'
<1> SUFFICES ASSUME TypeOK, [Next]_vars
             PROVE  TypeOK'
  OBVIOUS
<1> USE DEF poolVars, masterVars, turnVars, endVars, holdVars
<1>1. ASSUME NEW w \in Workers, Take(w)
      PROVE  TypeOK'
  BY <1>1, TakeTypes
<1>2. ASSUME NEW w \in Workers, Leave(w) \/ NapOver(w) \/ WakeByItself(w) \/ LeaveStanding(w)
      PROVE  TypeOK'
  <2>1. WhoOK'
    BY <1>2, WorkerMoves
  <2>2. QED
    BY <1>2, <2>1 DEF Leave, NapOver, WakeByItself, LeaveStanding, TypeOK, WhoOK
<1>3. ASSUME NEW w \in Workers, Turn(w)
      PROVE  TypeOK'
  <2>1. WhoOK'
    BY <1>3, WorkerMoves
  <2>2. /\ move' \in [Jobs -> {"unmade", "start", "go_on", "none"}]
        /\ wait' \in [Jobs -> {"none", "armed", "ready"}]
    BY <1>3, ZenonT(60) DEF Turn, RunOn, WaitOn, End, TypeOK
  <2>3. turns' \in [Jobs -> Nat]
    <3>1. \/ UNCHANGED turns
          \/ turns' = [turns EXCEPT ![has[w]] = turns[has[w]] + 1]
          \/ turns' = [turns EXCEPT ![has[w]] = turns[has[w]]]
      BY <1>3 DEF Turn, RunOn, WaitOn, End
    <3>2. \A j \in Jobs : turns[j] \in Nat /\ turns[j] + 1 \in Nat
      BY DEF TypeOK
    <3>3. turns \in [Jobs -> Nat]
      BY DEF TypeOK
    <3>4. QED
      BY <3>1, <3>2, <3>3
  <2>4. QED
    BY <1>3, <2>1, <2>2, <2>3 DEF Turn, TypeOK, WhoOK
<1>4. ASSUME NEW w \in Workers, File(w)
      PROVE  TypeOK'
  <2>1. WhoOK' /\ has[w] \in Jobs
    BY <1>4, FileMoves
  <2>2. queue' \in Seq(Jobs)
    <3>1. UNCHANGED queue \/ queue' = Append(queue, has[w])
      BY <1>4 DEF File
    <3>2. queue \in Seq(Jobs)
      BY DEF TypeOK
    <3>3. QED
      BY <2>1, <3>1, <3>2
  <2>3. parked' \subseteq Jobs
    BY <1>4, <2>1 DEF File, TypeOK
  <2>4. QED
    BY <1>4, <2>1, <2>2, <2>3 DEF File, TypeOK, WhoOK
<1>5. ASSUME NEW a \in Actors, Finish(a)
      PROVE  TypeOK'
  <2>1. WhoOK'
    BY <1>5, FinishMoves
  <2>2. finished' \in [Jobs -> BOOLEAN]
    BY <1>5 DEF Finish, TypeOK
  <2>3. owes' \subseteq Actors
    BY <1>5 DEF Finish, TypeOK
  <2>4. QED
    BY <1>5, <2>1, <2>2, <2>3 DEF Finish, TypeOK, WhoOK
<1>6. ASSUME NEW a \in Actors, PushAndLetGo(a)
      PROVE  TypeOK'
  <2>1. WhoOK'
    BY <1>6, LetGoMoves
  <2>2. await_id' \in [Jobs -> {"none", "armed", "ready"}]
    BY <1>6 DEF PushAndLetGo, TypeOK
  <2>3. holds' \in [Jobs -> Int]
    <3>1. holds' = [holds EXCEPT ![has[a]] = holds[has[a]] - 1]
      BY <1>6 DEF PushAndLetGo
    <3>2. /\ holds \in [Jobs -> Int]
          /\ \A j \in Jobs : holds[j] - 1 \in Int
      BY DEF TypeOK
    <3>3. QED
      BY <3>1, <3>2
  <2>4. owes' \subseteq Actors
    BY <1>6 DEF PushAndLetGo, TypeOK
  <2>5. QED
    BY <1>6, <2>1, <2>2, <2>3, <2>4 DEF PushAndLetGo, TypeOK, WhoOK
<1>7. ASSUME NEW m \in Masters, Start(m) \/ Stop(m) \/ LaunchedNone(m)
      PROVE  TypeOK'
  <2>1. WhoOK'
    BY <1>7, MasterMoves
  <2>2. after' \in [Masters -> {"idle", "launch"}]
    BY <1>7 DEF Start, Stop, LaunchedNone, BeginStop, TypeOK
  <2>3. starts' \in Nat
    BY <1>7 DEF Start, Stop, LaunchedNone, TypeOK
  <2>4. running' \in BOOLEAN
    BY <1>7 DEF Start, Stop, LaunchedNone, BeginStop
  <2>5. UNCHANGED <<threads, queue, parked, looked, joining, turnVars, wait, endVars, holdVars>>
    BY <1>7 DEF Start, Stop, LaunchedNone, BeginStop
  <2>6. QED
    BY <2>1, <2>2, <2>3, <2>4, <2>5 DEF TypeOK, WhoOK
<1>8. ASSUME NEW m \in Masters, DropQueued(m)
      PROVE  TypeOK'
  <2>1. Head(queue) \in Jobs /\ Tail(queue) \in Seq(Jobs)
    BY <1>8 DEF DropQueued, TypeOK
  <2>2. WhoOK'
    BY <1>8, <2>1, DropMoves DEF DropQueued
  <2>3. QED
    BY <1>8, <2>1, <2>2 DEF DropQueued, TypeOK, WhoOK
<1>9. ASSUME NEW m \in Masters, DropParked(m)
      PROVE  TypeOK'
  <2>1. PICK j \in parked : parked' = parked \ {j} /\ has' = [has EXCEPT ![m] = j]
    BY <1>9 DEF DropParked
  <2>2. j \in Jobs
    BY DEF TypeOK
  <2>3. WhoOK'
    BY <1>9, <2>1, <2>2, DropMoves DEF DropParked
  <2>4. QED
    BY <1>9, <2>1, <2>3 DEF DropParked, TypeOK, WhoOK
<1>10. ASSUME NEW m \in Masters,
              TellWorkers(m) \/ Join(m) \/ Launch(m) \/ LaunchNoRoom(m) \/ Launched(m)
       PROVE  TypeOK'
  <2>1. WhoOK'
    BY <1>10, MasterMoves
  <2>2. threads' \subseteq Workers /\ running' \in BOOLEAN
    BY <1>10 DEF TellWorkers, Join, Launch, LaunchNoRoom, Launched, TypeOK
  <2>3. joining' \in [Masters -> SUBSET Workers]
    <3>1. \/ joining' = [joining EXCEPT ![m] = threads]
          \/ joining' = [joining EXCEPT ![m] = {}]
          \/ joining' = joining
      BY <1>10 DEF TellWorkers, Join, Launch, LaunchNoRoom, Launched
    <3>2. joining \in [Masters -> SUBSET Workers] /\ threads \in SUBSET Workers
      BY DEF TypeOK
    <3>3. QED
      BY <3>1, <3>2
  <2>4. UNCHANGED <<queue, parked, looked, after, turnVars, wait, endVars, holdVars, starts>>
    BY <1>10 DEF TellWorkers, Join, Launch, LaunchNoRoom, Launched
  <2>5. QED
    BY <2>1, <2>2, <2>3, <2>4 DEF TypeOK, WhoOK
<1>11. ASSUME NEW m \in Masters, LaunchOne(m)
       PROVE  TypeOK'
  <2>1. WhoOK'
    BY <1>11, LaunchOneMoves
  <2>2. threads' \subseteq Workers
    BY <1>11 DEF LaunchOne, TypeOK
  <2>3. QED
    BY <1>11, <2>1, <2>2 DEF LaunchOne, TypeOK, WhoOK
<1>12. ASSUME NEW m \in Masters, NEW j \in Jobs, Async(m, j)
       PROVE  TypeOK'
  <2>1. WhoOK'
    BY <1>12, AsyncMoves
  <2>2. /\ move' \in [Jobs -> {"unmade", "start", "go_on", "none"}]
        /\ holds' \in [Jobs -> Int]
        /\ wrappers' \in [Jobs -> SUBSET (Masters \cup Elsewhere)]
    BY <1>12 DEF Async, TypeOK
  <2>3. QED
    BY <1>12, <2>1, <2>2 DEF Async, TypeOK, WhoOK
<1>13. ASSUME NEW m \in Masters, QueueIt(m)
       PROVE  TypeOK'
  <2>1. WhoOK' /\ has[m] \in Jobs
    BY <1>13, QueueItMoves
  <2>2. queue' \in Seq(Jobs)
    <3>1. queue' = Append(queue, has[m]) /\ queue \in Seq(Jobs)
      BY <1>13 DEF QueueIt, TypeOK
    <3>2. QED
      BY <2>1, <3>1
  <2>3. holds' \in [Jobs -> Int]
    <3>1. /\ holds' = [holds EXCEPT ![has[m]] = holds[has[m]] + 1]
          /\ holds \in [Jobs -> Int]
      BY <1>13 DEF QueueIt, TypeOK
    <3>2. \A j \in Jobs : holds[j] + 1 \in Int
      BY DEF TypeOK
    <3>3. QED
      BY <3>1, <3>2
  <2>4. QED
    BY <1>13, <2>1, <2>2, <2>3 DEF QueueIt, TypeOK, WhoOK
<1>14. ASSUME NEW m \in Masters, NotQueued(m)
       PROVE  TypeOK'
  <2>1. WhoOK'
    BY <1>14, QueueItMoves
  <2>2. QED
    BY <1>14, <2>1 DEF NotQueued, TypeOK, WhoOK
<1>15. ASSUME NEW m \in Masters, NEW j \in Jobs, Await(m, j)
       PROVE  TypeOK'
  <2>1. WhoOK'
    BY <1>15, AwaitMoves
  <2>2. QED
    BY <1>15, <2>1 DEF Await, TypeOK, WhoOK
<1>16. ASSUME NEW m \in Masters, Awaited(m) \/ Tell(m)
       PROVE  TypeOK'
  <2>1. WhoOK'
    BY <1>16, AnswerMoves
  <2>2. taken' \in [Jobs -> BOOLEAN]
    BY <1>16 DEF Awaited, Tell, TypeOK
  <2>3. await_id' \in [Jobs -> {"none", "armed", "ready"}]
    BY <1>16 DEF Awaited, Tell, TypeOK
  <2>4. owes' \subseteq Actors
    BY <1>16 DEF Awaited, Tell, TypeOK
  <2>5. UNCHANGED <<poolVars, masterVars, turnVars, wait, finished, holdVars, starts>>
    BY <1>16 DEF Awaited, Tell
  <2>6. QED
    BY <2>1, <2>2, <2>3, <2>4, <2>5 DEF TypeOK, WhoOK
<1>17. ASSUME NEW m \in Masters, NEW j \in Jobs, Awaitable(m, j)
       PROVE  TypeOK'
  <2>1. WhoOK' /\ owes' \in {owes, owes \cup {m}}
    BY <1>17, AwaitableMoves
  <2>2. await_id' \in [Jobs -> {"none", "armed", "ready"}]
    <3>1. \/ await_id' = await_id
          \/ await_id' = [await_id EXCEPT ![j] = IF await_id[j] = "none" THEN "armed"
                                                 ELSE await_id[j]]
      BY <1>17 DEF Awaitable
    <3>2. QED
      BY <3>1, ZenonT(60) DEF TypeOK
  <2>3. owes' \subseteq Actors
    BY <2>1, Apart DEF TypeOK
  <2>4. UNCHANGED <<poolVars, masterVars, turnVars, wait, finished, taken, holdVars, starts>>
    BY <1>17 DEF Awaitable
  <2>5. QED
    BY <2>1, <2>2, <2>3, <2>4 DEF TypeOK, WhoOK
<1>18. ASSUME NEW m \in Masters \cup Elsewhere, NEW j \in Jobs,
              \/ \E l \in Masters : Share(l, m, j)
              \/ DropTask(m, j)
       PROVE  TypeOK'
  <2>1. \/ holds' = [holds EXCEPT ![j] = holds[j] + 1]
        \/ holds' = [holds EXCEPT ![j] = holds[j] - 1]
    BY <1>18 DEF Share, DropTask
  <2>2. holds' \in [Jobs -> Int]
    <3>1. holds \in [Jobs -> Int]
      BY DEF TypeOK
    <3>2. QED
      BY <2>1, <3>1
  <2>3. \/ wrappers' = [wrappers EXCEPT ![j] = wrappers[j] \cup {m}]
        \/ wrappers' = [wrappers EXCEPT ![j] = wrappers[j] \ {m}]
    BY <1>18 DEF Share, DropTask
  <2>4. wrappers' \in [Jobs -> SUBSET (Masters \cup Elsewhere)]
    <3>1. /\ wrappers \in [Jobs -> SUBSET (Masters \cup Elsewhere)]
          /\ wrappers[j] \cup {m} \in SUBSET (Masters \cup Elsewhere)
          /\ wrappers[j] \ {m} \in SUBSET (Masters \cup Elsewhere)
      BY DEF TypeOK
    <3>2. QED
      BY <2>3, <3>1
  <2>5. UNCHANGED <<poolVars, pc, has, masterVars, turnVars, wait, endVars, starts>>
    BY <1>18 DEF Share, DropTask
  <2>6. QED
    BY <2>2, <2>4, <2>5 DEF TypeOK, NamesJob
<1>19. ASSUME TimePasses \/ \E j \in Jobs : Arrives(j)
       PROVE  TypeOK'
  <2>1. wait' \in [Jobs -> {"none", "armed", "ready"}] /\ looked' \in BOOLEAN
    BY <1>19 DEF TimePasses, Arrives, TypeOK
  <2>2. UNCHANGED <<running, threads, queue, parked, pc, has, masterVars, turnVars,
                    endVars, holdVars, starts>>
    BY <1>19 DEF TimePasses, Arrives
  <2>3. QED
    BY <2>1, <2>2 DEF TypeOK, NamesJob
<1>20. CASE UNCHANGED vars
  BY <1>20 DEF vars, TypeOK, NamesJob
<1>21. QED
  <2>1. Workers \subseteq Actors /\ Masters \subseteq Actors
    BY Apart
  <2>2. QED
    BY <1>1, <1>2, <1>3, <1>4, <1>5, <1>6, <1>7, <1>8, <1>9, <1>10, <1>11, <1>12,
       <1>13, <1>14, <1>15, <1>16, <1>17, <1>18, <1>19, <1>20, <2>1
       DEF Next, WorkerStep, MasterStep, MasterCall

LEMMA TypeInit == Init => TypeOK
<1> SUFFICES ASSUME Init
             PROVE  TypeOK
  OBVIOUS
<1>1. <<>> \in Seq(Jobs)
  OBVIOUS
<1>2. /\ \A w \in Workers : pc[w] = "gone"
      /\ \A m \in Masters : pc[m] = "idle"
      /\ \A a \in Actors : pc[a] \in {"gone", "idle"}
      /\ pc \in [Actors -> Places]
  BY Apart DEF Init, Places
<1>3. QED
  <2>1. WhoOK
    <3>1. has = [a \in Actors |-> None]
      BY DEF Init
    <3>2. \A a \in Actors : ~NamesJob(a)
      BY <1>2 DEF NamesJob
    <3>3. QED
      BY <1>2, <3>1, <3>2 DEF WhoOK, WorkerPlaces
  <2>2. /\ move \in [Jobs -> {"unmade", "start", "go_on", "none"}]
        /\ turns \in [Jobs -> Nat]
        /\ wait \in [Jobs -> {"none", "armed", "ready"}]
        /\ await_id \in [Jobs -> {"none", "armed", "ready"}]
        /\ holds \in [Jobs -> Int]
    BY DEF Init
  <2>3. finished \in [Jobs -> BOOLEAN] /\ taken \in [Jobs -> BOOLEAN]
    BY DEF Init
  <2>4. /\ after \in [Masters -> {"idle", "launch"}]
        /\ joining \in [Masters -> SUBSET Workers]
        /\ wrappers \in [Jobs -> SUBSET (Masters \cup Elsewhere)]
    BY DEF Init
  <2>5. /\ running \in BOOLEAN /\ looked \in BOOLEAN
        /\ threads \subseteq Workers /\ queue \in Seq(Jobs) /\ parked \subseteq Jobs
        /\ owes \subseteq Actors /\ starts \in Nat
    BY <1>1 DEF Init
  <2>6. QED
    BY <2>1, <2>2, <2>3, <2>4, <2>5 DEF TypeOK, WhoOK

\* Every variable has its type, and whoever is busy with a job has one.
THEOREM TypeCorrect == Spec => []TypeOK
BY TypeInit, TypeStep, PTL DEF Spec

-----------------------------------------------------------------------------
(* Where the jobs are.                                                     *)
Placed == Image(queue) \cup parked

\* A step that neither picks a job up nor puts one down.
Quiet ==
    /\ UNCHANGED <<queue, parked>>
    /\ \A a \in Actors : Out(a)' => Out(a) /\ has'[a] = has[a]
    /\ \A j \in Jobs : move'[j] = "unmade" => move[j] = "unmade"

LEMMA QuietStep ==
  ASSUME OnePlace, Unmade, Quiet
  PROVE  OnePlace' /\ Unmade'
<1>1. OnePlace'
  BY DEF OnePlace, Quiet
<1>2. Unmade'
  BY DEF Unmade, Quiet
<1>3. QED
  BY <1>1, <1>2

\* Who is not the one that moves stays as busy as it was.
LEMMA OthersBusy ==
  ASSUME NEW a \in Actors, Others(a)
  PROVE  \A b \in Actors \ {a} : /\ Out(b)' <=> Out(b)
                                 /\ InHand(b)' <=> InHand(b)
BY DEF Others, Out, InHand

\* Actor a takes job j from the queue or the parked set.
LEMMA PicksUp ==
  ASSUME OnePlace, Unmade, NEW a \in Actors, NEW j \in Jobs, Others(a),
         Distinct(queue)', (Image(queue) \cap parked = {})',
         j \in Placed, Placed' = Placed \ {j},
         ~Out(a), InHand(a)', has'[a] = j,
         \A b \in Actors \ {a} : has'[b] = has[b],
         \A k \in Jobs : move'[k] = "unmade" => move[k] = "unmade"
  PROVE  OnePlace' /\ Unmade' /\ \A k \in Jobs : Pooled(k)' <=> Pooled(k)
<1>1. \A b \in Actors \ {a} : (Out(b)' <=> Out(b)) /\ (InHand(b)' <=> InHand(b))
  BY OthersBusy
<1>2. Out(a)' /\ ~InHand(a)
  BY DEF Out
<1>3. \A b \in Actors : Out(b) => has[b] \notin Placed /\ has[b] # j
  BY DEF OnePlace, Placed
<1>4. OnePlace'
  <2>1. \A b \in Actors : Out(b)' => has'[b] \notin Placed'
    BY <1>1, <1>3
  <2>2. \A b, c \in Actors : Out(b)' /\ Out(c)' /\ has'[b] = has'[c] => b = c
    BY <1>1, <1>3 DEF OnePlace
  <2>3. QED
    BY <2>1, <2>2 DEF OnePlace, Placed, Distinct
<1>5. Unmade'
  <2>1. \A k \in Jobs : move[k] = "unmade" => k \notin Placed /\ k # j
    BY DEF Unmade, Placed
  <2>2. QED
    BY <1>1, <2>1 DEF Unmade, Placed
<1>6. ASSUME NEW k \in Jobs
      PROVE  Pooled(k)' <=> Pooled(k)
  <2>1. CASE k = j
    BY <1>2, <2>1 DEF Pooled, Placed
  <2>2. CASE k # j
    BY <1>1, <1>2, <2>2 DEF Pooled, Placed
  <2>3. QED
    BY <2>1, <2>2
<1>7. QED
  BY <1>4, <1>5, <1>6

\* Actor a puts the job it has into the queue or the parked set.
LEMMA PutsDown ==
  ASSUME OnePlace, Unmade, NEW a \in Actors, NEW j \in Jobs, Others(a),
         Distinct(queue)', (Image(queue) \cap parked = {})',
         Out(a), has[a] = j, ~Out(a)', Placed' = Placed \cup {j},
         \A b \in Actors \ {a} : has'[b] = has[b],
         \A k \in Jobs : move'[k] = "unmade" => move[k] = "unmade"
  PROVE  /\ OnePlace' /\ Unmade'
         /\ \A k \in Jobs \ {j} : Pooled(k)' <=> Pooled(k)
         /\ Pooled(j)' /\ (InHand(a) <=> Pooled(j))
<1>1. \A b \in Actors \ {a} : (Out(b)' <=> Out(b)) /\ (InHand(b)' <=> InHand(b))
  BY OthersBusy
<1>2. ~InHand(a)'
  BY DEF Out
<1>3. \A b \in Actors \ {a} : Out(b) => has[b] \notin Placed /\ has[b] # j
  BY DEF OnePlace, Placed
<1>4. OnePlace'
  <2>1. \A b \in Actors : Out(b)' => has'[b] \notin Placed'
    BY <1>1, <1>3
  <2>2. \A b, c \in Actors : Out(b)' /\ Out(c)' /\ has'[b] = has'[c] => b = c
    BY <1>1 DEF OnePlace
  <2>3. QED
    BY <2>1, <2>2 DEF OnePlace, Placed, Distinct
<1>5. Unmade'
  <2>1. \A k \in Jobs : move[k] = "unmade" => k \notin Placed /\ k # j
    BY DEF Unmade, Placed
  <2>2. QED
    BY <1>1, <2>1 DEF Unmade, Placed
<1>6. \A k \in Jobs \ {j} : Pooled(k)' <=> Pooled(k)
  BY <1>1, <1>2 DEF Pooled, Placed
<1>7. Pooled(j)'
  BY DEF Pooled, Placed
<1>8. InHand(a) <=> Pooled(j)
  <2>1. j \notin Placed
    BY DEF OnePlace, Placed
  <2>2. \A b \in Actors : InHand(b) => Out(b)
    BY DEF Out
  <2>3. QED
    BY <1>3, <2>1, <2>2 DEF Pooled, Placed
<1>9. QED
  BY <1>4, <1>5, <1>6, <1>7, <1>8

\* A step that leaves the pool's hold of every job as it was.
SamePool == \A k \in Jobs : Pooled(k)' <=> Pooled(k)

LEMMA TakePlaces ==
  ASSUME TypeOK, OnePlace, Unmade, NEW w \in Workers, Take(w)
  PROVE  OnePlace' /\ Unmade' /\ SamePool
<1>1. PICK moved \in Seq(Jobs) :
           /\ Distinct(moved) /\ Image(moved) \subseteq parked
           /\ parked' = parked \ Image(moved)
           /\ queue' = IF queue \o moved = <<>> THEN <<>> ELSE Tail(queue \o moved)
           /\ has' = [has EXCEPT ![w] = IF queue \o moved = <<>> THEN None
                                        ELSE Head(queue \o moved)]
           /\ \E woken \in Signalled(Len(moved)) :
                Goes(w, IF queue \o moved # <<>> THEN "turn"
                        ELSE IF parked' # {} THEN "nap" ELSE "asleep", woken)
  BY TakeFacts
<1> DEFINE line == queue \o moved
<1>2. /\ line \in Seq(Jobs) /\ Distinct(line)
      /\ Image(line) = Image(queue) \cup Image(moved)
  <2>1. queue \in Seq(Jobs)
    BY DEF TypeOK
  <2>2. Distinct(queue) /\ Image(queue) \cap Image(moved) = {}
    BY <1>1 DEF OnePlace, Distinct
  <2>3. QED
    BY <1>1, <2>1, <2>2, DistinctBoth, ImageOfBoth
<1>3. /\ pc'[w] = IF line # <<>> THEN "turn" ELSE IF parked' # {} THEN "nap" ELSE "asleep"
      /\ Others(w)
  BY <1>1, GoesFacts, Woken, Apart DEF Places, WorkerPlaces
<1>4. w \in Actors /\ ~Out(w) /\ UNCHANGED move
  BY Apart DEF Take, Out, InHand, turnVars
<1>5. \A b \in Actors \ {w} : has'[b] = has[b]
  BY <1>1 DEF TypeOK
<1>6. CASE line = <<>>
  <2>1. Image(line) = {}
    BY <1>6 DEF Image
  <2>2. queue' = <<>> /\ parked' = parked /\ Image(queue) = {}
    BY <1>1, <1>2, <1>6, <2>1
  <2>3. queue = <<>>
    <3>1. queue \in Seq(Jobs) /\ moved \in Seq(Jobs)
      BY DEF TypeOK
    <3>2. Len(queue) + Len(moved) = Len(line) /\ Len(queue) \in Nat /\ Len(moved) \in Nat
      BY <3>1
    <3>3. Len(line) = 0
      BY <1>6
    <3>4. QED
      BY <3>1, <3>2, <3>3
  <2>4. ~Out(w)'
    BY <1>3, <1>6 DEF Out, InHand
  <2>5. \A b \in Actors : (Out(b)' <=> Out(b)) /\ (InHand(b)' <=> InHand(b))
    BY <1>3, <1>4, <2>4, OthersBusy DEF Out
  <2>6. Quiet
    BY <1>4, <1>5, <2>2, <2>3, <2>5 DEF Quiet
  <2>7. SamePool
    BY <1>4, <1>5, <2>2, <2>3, <2>5 DEF SamePool, Pooled, Out
  <2>8. QED
    BY <2>6, <2>7, QuietStep
<1>7. CASE line # <<>>
  <2> DEFINE j == Head(line)
  <2>1. /\ j \in Jobs /\ queue' = Tail(line) /\ Distinct(Tail(line))
        /\ j \in Image(line) /\ Image(Tail(line)) = Image(line) \ {j}
    BY <1>1, <1>2, <1>7, TailFacts
  <2>2. Placed' = Placed \ {j} /\ j \in Placed /\ Image(queue') \cap parked' = {}
    <3>1. Image(queue) \cap parked = {}
      BY DEF OnePlace
    <3>2. QED
      BY <1>1, <1>2, <2>1, <3>1 DEF Placed
  <2>3. has'[w] = j
    BY <1>1, <1>4, <1>7 DEF TypeOK
  <2>4. InHand(w)'
    BY <1>3, <1>7 DEF InHand
  <2>5. Distinct(queue)'
    BY <2>1 DEF Distinct
  <2>6. (Image(queue) \cap parked = {})'
    BY <2>2
  <2>7. QED
    BY <1>3, <1>4, <1>5, <2>1, <2>2, <2>3, <2>4, <2>5, <2>6, PicksUp DEF SamePool
<1>8. QED
  BY <1>6, <1>7

LEMMA FilePlaces ==
  ASSUME TypeOK, OnePlace, Unmade, NEW w \in Workers, File(w)
  PROVE  OnePlace' /\ Unmade' /\ SamePool
<1> DEFINE j == has[w]
<1>1. /\ Others(w) /\ pc'[w] = "take" /\ j \in Jobs /\ InHand(w)
      /\ \A b \in Actors \ {w} : has'[b] = has[b]
  BY FileMoves
<1>2. w \in Actors /\ Out(w) /\ ~Out(w)' /\ UNCHANGED move
  BY <1>1, Apart DEF File, Out, InHand, turnVars
<1>3. j \notin Image(queue) \cup parked /\ queue \in Seq(Jobs) /\ Distinct(queue)
  BY <1>2 DEF OnePlace, TypeOK, Distinct
<1>4. Distinct(queue') /\ Image(queue') \cap parked' = {} /\ Placed' = Placed \cup {j}
  <2>1. CASE pc[w] = "again"
    <3>1. queue' = Append(queue, j) /\ parked' = parked
      BY <2>1 DEF File
    <3>2. Distinct(queue') /\ Image(queue') = Image(queue) \cup {j}
      BY <1>3, <3>1, ImageOfAppend, DistinctAppend
    <3>3. QED
      BY <1>3, <3>1, <3>2 DEF Placed, OnePlace
  <2>2. CASE pc[w] # "again"
    <3>1. queue' = queue /\ parked' = parked \cup {j}
      BY <2>2 DEF File
    <3>2. QED
      BY <1>3, <3>1 DEF Placed, OnePlace
  <2>3. QED
    BY <2>1, <2>2
<1>5. Distinct(queue)' /\ (Image(queue) \cap parked = {})'
  BY <1>4 DEF Distinct
<1>6. QED
  BY <1>1, <1>2, <1>4, <1>5, PutsDown DEF SamePool

LEMMA DropPlaces ==
  ASSUME TypeOK, OnePlace, Unmade, NEW m \in Masters, DropQueued(m) \/ DropParked(m)
  PROVE  OnePlace' /\ Unmade' /\ SamePool
<1>1. /\ queue \in Seq(Jobs) /\ parked \subseteq Jobs /\ Distinct(queue)
      /\ Image(queue) \cap parked = {}
  BY DEF TypeOK, OnePlace, Distinct
<1>2. \E j \in Jobs :
         /\ has' = [has EXCEPT ![m] = j] /\ pc[m] = "drain" /\ Goes(m, "dropped", {})
         /\ j \in Placed /\ Placed' = Placed \ {j}
         /\ Distinct(queue') /\ Image(queue') \cap parked' = {}
  <2>1. CASE DropQueued(m)
    <3>1. /\ queue # <<>> /\ queue' = Tail(queue) /\ parked' = parked
          /\ has' = [has EXCEPT ![m] = Head(queue)]
          /\ pc[m] = "drain" /\ Goes(m, "dropped", {})
      BY <2>1 DEF DropQueued
    <3>2. /\ Head(queue) \in Jobs /\ Distinct(Tail(queue))
          /\ Head(queue) \in Image(queue)
          /\ Image(Tail(queue)) = Image(queue) \ {Head(queue)}
      BY <1>1, <3>1, TailFacts
    <3>3. QED
      BY <1>1, <3>1, <3>2 DEF Placed
  <2>2. CASE DropParked(m)
    <3>1. PICK j \in parked : parked' = parked \ {j} /\ has' = [has EXCEPT ![m] = j]
      BY <2>2 DEF DropParked
    <3>2. queue' = queue /\ pc[m] = "drain" /\ Goes(m, "dropped", {})
      BY <2>2 DEF DropParked
    <3>3. QED
      BY <1>1, <3>1, <3>2 DEF Placed
  <2>3. QED
    BY <2>1, <2>2
<1>3. PICK j \in Jobs :
         /\ has' = [has EXCEPT ![m] = j] /\ pc[m] = "drain" /\ Goes(m, "dropped", {})
         /\ j \in Placed /\ Placed' = Placed \ {j}
         /\ Distinct(queue') /\ Image(queue') \cap parked' = {}
  BY <1>2
<1>4. /\ Others(m) /\ pc'[m] = "dropped" /\ has'[m] = j
      /\ \A b \in Actors \ {m} : has'[b] = has[b]
  BY <1>3, DropMoves
<1>5. ~Out(m) /\ InHand(m)' /\ m \in Actors /\ UNCHANGED move
  BY <1>3, <1>4, Apart DEF Out, InHand, DropQueued, DropParked, turnVars
<1>6. Distinct(queue)' /\ (Image(queue) \cap parked = {})'
  BY <1>3 DEF Distinct
<1>7. QED
  BY <1>3, <1>4, <1>5, <1>6, PicksUp DEF SamePool

-----------------------------------------------------------------------------
(* The holds of a task.                                                    *)
HoldAgrees(j) ==
    /\ IsFiniteSet(wrappers[j])
    /\ holds[j] = Cardinality(wrappers[j]) + (IF Pooled(j) THEN 1 ELSE 0)

LEMMA SameHolds ==
  ASSUME HoldsAgree, SamePool, UNCHANGED holdVars
  PROVE  HoldsAgree'
BY DEF HoldsAgree, SamePool, holdVars

\* Nobody but the one that moves picks up or puts down, and nothing else in
\* the pool moves.
LEMMA StaysOut ==
  ASSUME OnePlace, Unmade, NEW a \in Actors, Others(a), UNCHANGED <<queue, parked>>,
         Out(a)' => Out(a) /\ has'[a] = has[a],
         \A b \in Actors \ {a} : has'[b] = has[b],
         \A k \in Jobs : move'[k] = "unmade" => move[k] = "unmade"
  PROVE  OnePlace' /\ Unmade'
<1>1. \A b \in Actors \ {a} : (Out(b)' <=> Out(b)) /\ (InHand(b)' <=> InHand(b))
  BY OthersBusy
<1>2. Quiet
  BY <1>1 DEF Quiet
<1>3. QED
  BY <1>2, QuietStep

LEMMA StaysInPool ==
  ASSUME NEW a \in Actors, Others(a), UNCHANGED <<queue, parked>>,
         InHand(a)' <=> InHand(a), InHand(a) => has'[a] = has[a],
         \A b \in Actors \ {a} : has'[b] = has[b]
  PROVE  SamePool
<1>1. \A b \in Actors \ {a} : InHand(b)' <=> InHand(b)
  BY OthersBusy
<1>2. \A b \in Actors : (InHand(b)' <=> InHand(b)) /\ (InHand(b) => has'[b] = has[b])
  BY <1>1
<1>3. QED
  BY <1>2 DEF SamePool, Pooled

LEMMA LetGoHolds ==
  ASSUME TypeOK, OnePlace, Unmade, HoldsAgree, NEW a \in Actors, PushAndLetGo(a)
  PROVE  OnePlace' /\ Unmade' /\ HoldsAgree'
<1>0. PICK j \in Jobs : j = has[a]
  BY LetGoMoves
<1>1. /\ Others(a) /\ pc'[a] = IF a \in Workers THEN "take" ELSE "drain"
      /\ j \in Jobs /\ InHand(a)
      /\ \A b \in Actors \ {a} : has'[b] = has[b]
  BY <1>0, LetGoMoves
<1>2. ~Out(a)' /\ ~InHand(a)' /\ Out(a)
  BY <1>1 DEF Out, InHand
<1>3. UNCHANGED <<queue, parked, move, wrappers>>
  BY DEF PushAndLetGo, poolVars, turnVars
<1>4. OnePlace' /\ Unmade'
  BY <1>1, <1>2, <1>3, StaysOut
<1>5. \A b \in Actors \ {a} : (InHand(b)' <=> InHand(b))
  BY <1>1, OthersBusy
<1>6. Pooled(j) /\ ~Pooled(j)'
  <2>1. \A b \in Actors \ {a} : InHand(b) => has[b] # j
    BY <1>0, <1>2 DEF OnePlace, Out
  <2>2. j \notin Image(queue) \cup parked
    BY <1>0, <1>2 DEF OnePlace
  <2>3. QED
    BY <1>0, <1>1, <1>2, <1>3, <1>5, <2>1, <2>2 DEF Pooled
<1>7. \A k \in Jobs \ {j} : Pooled(k)' <=> Pooled(k)
  BY <1>0, <1>1, <1>2, <1>3, <1>5 DEF Pooled
<1>8. /\ holds'[j] = holds[j] - 1
      /\ \A k \in Jobs \ {j} : holds'[k] = holds[k]
  BY <1>0, <1>1 DEF PushAndLetGo, TypeOK
<1>9. ASSUME NEW k \in Jobs
      PROVE  HoldAgrees(k)'
  <2>1. HoldAgrees(k)
    BY DEF HoldsAgree, HoldAgrees
  <2>2. CASE k = j
    <3>1. Cardinality(wrappers[j]) \in Nat
      BY <2>1, <2>2, FS_CardinalityType DEF HoldAgrees
    <3>2. QED
      BY <1>3, <1>6, <1>8, <2>1, <2>2, <3>1 DEF HoldAgrees
  <2>3. CASE k # j
    BY <1>3, <1>7, <1>8, <2>1, <2>3 DEF HoldAgrees
  <2>4. QED
    BY <2>2, <2>3
<1>10. QED
  BY <1>4, <1>9 DEF HoldsAgree, HoldAgrees

LEMMA QueueItHolds ==
  ASSUME TypeOK, OnePlace, Unmade, HoldsAgree, NEW m \in Masters, QueueIt(m)
  PROVE  OnePlace' /\ Unmade' /\ HoldsAgree'
<1>0. PICK j \in Jobs : j = has[m]
  BY QueueItMoves
<1>1. /\ Others(m) /\ pc'[m] = "idle" /\ j \in Jobs /\ pc[m] = "spawn"
      /\ \A b \in Actors \ {m} : has'[b] = has[b]
  BY <1>0, QueueItMoves
<1>2. m \in Actors /\ Out(m) /\ ~Out(m)' /\ ~InHand(m)
  BY <1>1, Apart DEF Out, InHand
<1>3. j \notin Image(queue) \cup parked /\ queue \in Seq(Jobs) /\ Distinct(queue)
  BY <1>0, <1>2 DEF OnePlace, TypeOK, Distinct
<1>4. queue' = Append(queue, j) /\ UNCHANGED <<parked, move, wrappers>>
  BY <1>0 DEF QueueIt, turnVars
<1>5. Distinct(queue') /\ Image(queue') \cap parked' = {} /\ Placed' = Placed \cup {j}
  <2>1. Distinct(queue') /\ Image(queue') = Image(queue) \cup {j}
    BY <1>3, <1>4, ImageOfAppend, DistinctAppend
  <2>2. QED
    BY <1>3, <1>4, <2>1 DEF Placed, OnePlace
<1>6. Distinct(queue)' /\ (Image(queue) \cap parked = {})'
  BY <1>5 DEF Distinct
<1>7. /\ OnePlace' /\ Unmade'
      /\ \A k \in Jobs \ {j} : Pooled(k)' <=> Pooled(k)
      /\ Pooled(j)' /\ (InHand(m) <=> Pooled(j))
  BY <1>0, <1>1, <1>2, <1>4, <1>5, <1>6, PutsDown
<1>8. /\ holds'[j] = holds[j] + 1
      /\ \A k \in Jobs \ {j} : holds'[k] = holds[k]
  BY <1>0, <1>1 DEF QueueIt, TypeOK
<1>9. ASSUME NEW k \in Jobs
      PROVE  HoldAgrees(k)'
  <2>1. HoldAgrees(k)
    BY DEF HoldsAgree, HoldAgrees
  <2>2. CASE k = j
    <3>1. Cardinality(wrappers[j]) \in Nat
      BY <2>1, <2>2, FS_CardinalityType DEF HoldAgrees
    <3>2. QED
      BY <1>2, <1>4, <1>7, <1>8, <2>1, <2>2, <3>1 DEF HoldAgrees
  <2>3. CASE k # j
    BY <1>4, <1>7, <1>8, <2>1, <2>3 DEF HoldAgrees
  <2>4. QED
    BY <2>2, <2>3
<1>10. QED
  BY <1>7, <1>9 DEF HoldsAgree, HoldAgrees

LEMMA AsyncHolds ==
  ASSUME TypeOK, OnePlace, Unmade, HoldsAgree, NEW m \in Masters, NEW j \in Jobs,
         Async(m, j)
  PROVE  OnePlace' /\ Unmade' /\ HoldsAgree'
<1>1. /\ Others(m) /\ pc'[m] = "spawn" /\ pc[m] = "idle" /\ has'[m] = j
      /\ \A b \in Actors \ {m} : has'[b] = has[b]
  BY AsyncMoves
<1>2. m \in Actors /\ ~Out(m) /\ Out(m)' /\ ~InHand(m) /\ ~InHand(m)'
  BY <1>1, Apart DEF Out, InHand
<1>3. \A b \in Actors \ {m} : (Out(b)' <=> Out(b)) /\ (InHand(b)' <=> InHand(b))
  BY <1>1, <1>2, OthersBusy
<1>4. UNCHANGED <<queue, parked>> /\ move[j] = "unmade"
  BY DEF Async, poolVars
<1>5. j \notin Image(queue) \cup parked /\ \A b \in Actors : Out(b) => has[b] # j
  BY <1>4 DEF Unmade
<1>6. OnePlace'
  <2>1. \A b \in Actors : Out(b)' => has'[b] \notin Image(queue') \cup parked'
    BY <1>1, <1>3, <1>4, <1>5 DEF OnePlace
  <2>2. \A b, c \in Actors : Out(b)' /\ Out(c)' /\ has'[b] = has'[c] => b = c
    BY <1>1, <1>3, <1>5 DEF OnePlace
  <2>3. QED
    BY <1>4, <2>1, <2>2 DEF OnePlace
<1>7. Unmade'
  <2>1. move'[j] # "unmade" /\ \A k \in Jobs \ {j} : move'[k] = move[k]
    BY DEF Async, TypeOK
  <2>2. QED
    BY <1>1, <1>3, <1>4, <2>1 DEF Unmade
<1>8. SamePool
  BY <1>1, <1>2, <1>4, StaysInPool
<1>9. /\ holds'[j] = 1 /\ \A k \in Jobs \ {j} : holds'[k] = holds[k]
      /\ wrappers'[j] = {m} /\ \A k \in Jobs \ {j} : wrappers'[k] = wrappers[k]
  BY DEF Async, TypeOK
<1>10. ~Pooled(j)
  BY <1>5 DEF Pooled, Out
<1>11. ASSUME NEW k \in Jobs
       PROVE  HoldAgrees(k)'
  <2>1. HoldAgrees(k)
    BY DEF HoldsAgree, HoldAgrees
  <2>2. CASE k = j
    <3>1. IsFiniteSet({m}) /\ Cardinality({m}) = 1
      BY FS_Singleton
    <3>2. QED
      BY <1>8, <1>9, <1>10, <2>2, <3>1 DEF HoldAgrees, SamePool
  <2>3. CASE k # j
    BY <1>8, <1>9, <2>1, <2>3 DEF HoldAgrees, SamePool
  <2>4. QED
    BY <2>2, <2>3
<1>12. QED
  BY <1>6, <1>7, <1>11 DEF HoldsAgree, HoldAgrees

LEMMA ValueHolds ==
  ASSUME TypeOK, OnePlace, Unmade, HoldsAgree, NEW n \in Masters \cup Elsewhere,
         NEW j \in Jobs, (\E m \in Masters : Share(m, n, j)) \/ DropTask(n, j)
  PROVE  OnePlace' /\ Unmade' /\ HoldsAgree'
<1>1. UNCHANGED <<queue, parked, pc, has, move>>
  BY DEF Share, DropTask, poolVars, turnVars
<1>2. Quiet /\ SamePool
  BY <1>1 DEF Quiet, SamePool, Pooled, Out, InHand
<1>3. OnePlace' /\ Unmade'
  BY <1>2, QuietStep
<1>4. \/ /\ n \notin wrappers[j] /\ holds'[j] = holds[j] + 1
         /\ wrappers'[j] = wrappers[j] \cup {n}
      \/ /\ n \in wrappers[j] /\ holds'[j] = holds[j] - 1
         /\ wrappers'[j] = wrappers[j] \ {n}
  BY DEF Share, DropTask, TypeOK
<1>5. \A k \in Jobs \ {j} : holds'[k] = holds[k] /\ wrappers'[k] = wrappers[k]
  BY DEF Share, DropTask, TypeOK
<1>6. ASSUME NEW k \in Jobs
      PROVE  HoldAgrees(k)'
  <2>1. HoldAgrees(k)
    BY DEF HoldsAgree, HoldAgrees
  <2>2. CASE k = j
    <3>1. IsFiniteSet(wrappers[j]) /\ Cardinality(wrappers[j]) \in Nat
      BY <2>1, <2>2, FS_CardinalityType DEF HoldAgrees
    <3>2. /\ IsFiniteSet(wrappers[j] \cup {n}) /\ IsFiniteSet(wrappers[j] \ {n})
          /\ n \notin wrappers[j] =>
                 Cardinality(wrappers[j] \cup {n}) = Cardinality(wrappers[j]) + 1
          /\ n \in wrappers[j] =>
                 Cardinality(wrappers[j] \ {n}) = Cardinality(wrappers[j]) - 1
      BY <3>1, FS_AddElement, FS_RemoveElement
    <3>3. QED
      <4>1. Pooled(j)' <=> Pooled(j)
        BY <1>2 DEF SamePool
      <4>2. PICK p \in {0, 1} :
               /\ p = IF Pooled(j) THEN 1 ELSE 0
               /\ p = IF Pooled(j)' THEN 1 ELSE 0
        BY <4>1
      <4>3. holds[j] = Cardinality(wrappers[j]) + p
        BY <2>1, <2>2, <4>2 DEF HoldAgrees
      <4>4. IsFiniteSet(wrappers'[j]) /\ holds'[j] = Cardinality(wrappers'[j]) + p
        <5>1. CASE /\ n \notin wrappers[j] /\ holds'[j] = holds[j] + 1
                   /\ wrappers'[j] = wrappers[j] \cup {n}
          <6>1. /\ IsFiniteSet(wrappers'[j])
                /\ Cardinality(wrappers'[j]) = Cardinality(wrappers[j]) + 1
            BY <3>2, <5>1
          <6>2. QED
            BY <3>1, <4>3, <5>1, <6>1
        <5>2. CASE /\ n \in wrappers[j] /\ holds'[j] = holds[j] - 1
                   /\ wrappers'[j] = wrappers[j] \ {n}
          <6>1. /\ IsFiniteSet(wrappers'[j])
                /\ Cardinality(wrappers'[j]) = Cardinality(wrappers[j]) - 1
            BY <3>2, <5>2
          <6>2. QED
            BY <3>1, <4>3, <5>2, <6>1
        <5>3. QED
          BY <1>4, <5>1, <5>2
      <4>5. QED
        BY <2>2, <4>2, <4>4 DEF HoldAgrees
  <2>3. CASE k # j
    BY <1>2, <1>5, <2>1, <2>3 DEF HoldAgrees, SamePool
  <2>4. QED
    BY <2>2, <2>3
<1>7. QED
  BY <1>3, <1>6 DEF HoldsAgree, HoldAgrees

-----------------------------------------------------------------------------
(* The step, and the theorems.                                             *)
PoolInv == OnePlace /\ Unmade /\ HoldsAgree

LEMMA PoolStep ==
  ASSUME TypeOK, PoolInv, [Next]_vars
  PROVE  PoolInv'
<1> USE DEF PoolInv
<1>1. ASSUME NEW w \in Workers, Take(w) \/ File(w)
      PROVE  PoolInv'
  <2>1. OnePlace' /\ Unmade' /\ SamePool
    BY <1>1, TakePlaces, FilePlaces
  <2>2. UNCHANGED holdVars
    BY <1>1 DEF Take, File, holdVars
  <2>3. QED
    BY <2>1, <2>2, SameHolds
<1>2. ASSUME NEW w \in Workers,
             Leave(w) \/ NapOver(w) \/ WakeByItself(w) \/ Turn(w) \/ LeaveStanding(w)
      PROVE  PoolInv'
  <2>1. Others(w) /\ UNCHANGED has /\ w \in Actors
    BY <1>2, WorkerMoves, Apart
  <2>2. UNCHANGED <<queue, parked, holdVars>>
    BY <1>2 DEF Leave, NapOver, WakeByItself, Turn, LeaveStanding, poolVars
  <2>3. \A k \in Jobs : move'[k] = "unmade" => move[k] = "unmade"
    <3>1. CASE Turn(w)
      BY <3>1 DEF Turn, RunOn, WaitOn, End, TypeOK
    <3>2. CASE ~Turn(w)
      BY <1>2, <3>2 DEF Leave, NapOver, WakeByItself, LeaveStanding, turnVars
    <3>3. QED
      BY <3>1, <3>2
  <2>4. (Out(w)' <=> Out(w)) /\ (InHand(w)' <=> InHand(w))
    <3>1. w \in Actors /\ pc \in [Actors -> Places]
      BY <2>1 DEF TypeOK
    <3>2. CASE Leave(w) \/ NapOver(w) \/ WakeByItself(w)
      BY <3>1, <3>2 DEF Leave, NapOver, WakeByItself, Goes, Out, InHand
    <3>3. CASE Turn(w)
      BY <3>1, <3>3 DEF Turn, RunOn, WaitOn, End, Goes, Out, InHand
    <3>4. CASE LeaveStanding(w)
      BY <3>1, <3>4 DEF LeaveStanding, Goes, Out, InHand
    <3>5. QED
      BY <1>2, <3>2, <3>3, <3>4
  <2>5. QED
    BY <2>1, <2>2, <2>3, <2>4, StaysOut, StaysInPool, SameHolds
<1>3. ASSUME NEW a \in Actors, Finish(a)
      PROVE  PoolInv'
  <2>1. Others(a) /\ UNCHANGED has /\ pc'[a] = "push" /\ InHand(a)
    BY <1>3, FinishMoves
  <2>2. UNCHANGED <<queue, parked, move, holdVars>>
    BY <1>3 DEF Finish, poolVars, turnVars
  <2>3. Out(a) /\ Out(a)' /\ InHand(a)'
    BY <2>1 DEF Out, InHand
  <2>4. QED
    BY <2>1, <2>2, <2>3, StaysOut, StaysInPool, SameHolds
<1>4. ASSUME NEW a \in Actors, PushAndLetGo(a)
      PROVE  PoolInv'
  BY <1>4, LetGoHolds
<1>5. ASSUME NEW m \in Masters,
             \/ Start(m) \/ Stop(m) \/ LaunchedNone(m) \/ TellWorkers(m) \/ Join(m)
             \/ Launch(m) \/ LaunchNoRoom(m) \/ Launched(m)
      PROVE  PoolInv'
  <2>1. /\ Others(m) /\ UNCHANGED has /\ m \in Actors
        /\ pc[m] \in {"idle", "launching", "drain", "join", "launch"}
        /\ pc'[m] \in {"drain", "idle", "launch", "join", "launching"}
    BY <1>5, MasterMoves, Apart
  <2>2. UNCHANGED <<queue, parked, move, holdVars>>
    BY <1>5 DEF Start, Stop, LaunchedNone, BeginStop, TellWorkers, Join, Launch,
                LaunchNoRoom, Launched, poolVars, turnVars
  <2>3. ~Out(m) /\ ~Out(m)' /\ ~InHand(m) /\ ~InHand(m)'
    BY <2>1 DEF Out, InHand
  <2>4. QED
    BY <2>1, <2>2, <2>3, StaysOut, StaysInPool, SameHolds
<1>6. ASSUME NEW m \in Masters, DropQueued(m) \/ DropParked(m)
      PROVE  PoolInv'
  <2>1. OnePlace' /\ Unmade' /\ SamePool
    BY <1>6, DropPlaces
  <2>2. UNCHANGED holdVars
    BY <1>6 DEF DropQueued, DropParked
  <2>3. QED
    BY <2>1, <2>2, SameHolds
<1>7. ASSUME NEW m \in Masters, LaunchOne(m)
      PROVE  PoolInv'
  <2>1. PICK w \in Workers : /\ pc[w] = "gone" /\ pc'[w] = "take"
                             /\ \A b \in Actors \ {w} : pc'[b] = pc[b]
    BY <1>7, LaunchOneMoves
  <2>2. UNCHANGED <<has, queue, parked, move, holdVars>> /\ w \in Actors /\ Others(w)
    BY <1>7, <2>1, Apart DEF LaunchOne, turnVars, Others
  <2>3. ~Out(w) /\ ~Out(w)' /\ ~InHand(w) /\ ~InHand(w)'
    BY <2>1 DEF Out, InHand
  <2>4. QED
    BY <2>2, <2>3, StaysOut, StaysInPool, SameHolds
<1>8. ASSUME NEW m \in Masters, NEW j \in Jobs, Async(m, j)
      PROVE  PoolInv'
  BY <1>8, AsyncHolds
<1>9. ASSUME NEW m \in Masters, QueueIt(m)
      PROVE  PoolInv'
  BY <1>9, QueueItHolds
<1>10. ASSUME NEW m \in Masters, NotQueued(m) \/ Awaited(m) \/ Tell(m)
       PROVE  PoolInv'
  <2>1. /\ Others(m) /\ pc'[m] = "idle" /\ pc[m] \in {"spawn", "await", "tell"}
        /\ m \in Actors /\ \A b \in Actors \ {m} : has'[b] = has[b]
    BY <1>10, QueueItMoves, AnswerMoves, Apart
  <2>2. UNCHANGED <<queue, parked, move, holdVars>>
    BY <1>10 DEF NotQueued, Awaited, Tell, poolVars, turnVars
  <2>3. ~Out(m)' /\ ~InHand(m) /\ ~InHand(m)'
    BY <2>1 DEF Out, InHand
  <2>4. QED
    BY <2>1, <2>2, <2>3, StaysOut, StaysInPool, SameHolds
<1>11. ASSUME NEW m \in Masters, NEW j \in Jobs, Await(m, j) \/ Awaitable(m, j)
       PROVE  PoolInv'
  <2>1. /\ Others(m) /\ pc[m] = "idle" /\ pc'[m] \in {"idle", "await", "tell"}
        /\ m \in Actors /\ \A b \in Actors \ {m} : has'[b] = has[b]
    BY <1>11, AwaitMoves, AwaitableMoves, Apart
  <2>2. UNCHANGED <<queue, parked, move, holdVars>>
    BY <1>11 DEF Await, Awaitable, poolVars, turnVars
  <2>3. ~Out(m)' /\ ~InHand(m) /\ ~InHand(m)'
    BY <2>1 DEF Out, InHand
  <2>4. QED
    BY <2>1, <2>2, <2>3, StaysOut, StaysInPool, SameHolds
<1>12. ASSUME NEW n \in Masters \cup Elsewhere, NEW j \in Jobs,
              (\E m \in Masters : Share(m, n, j)) \/ DropTask(n, j)
       PROVE  PoolInv'
  BY <1>12, ValueHolds
<1>13. ASSUME TimePasses \/ (\E j \in Jobs : Arrives(j)) \/ UNCHANGED vars
       PROVE  PoolInv'
  <2>1. UNCHANGED <<queue, parked, pc, has, move, holdVars>>
    BY <1>13 DEF TimePasses, Arrives, vars, poolVars, turnVars, holdVars
  <2>2. Quiet /\ SamePool
    BY <2>1 DEF Quiet, SamePool, Pooled, Out, InHand
  <2>3. QED
    BY <2>1, <2>2, QuietStep, SameHolds
<1>14. QED
  <2>1. Workers \subseteq Actors /\ Masters \subseteq Actors
    BY Apart
  <2>2. QED
    BY <1>1, <1>2, <1>3, <1>4, <1>5, <1>6, <1>7, <1>8, <1>9, <1>10, <1>11, <1>12,
       <1>13, <2>1 DEF Next, WorkerStep, MasterStep, MasterCall

LEMMA PoolInit == Init => PoolInv
<1> SUFFICES ASSUME Init
             PROVE  PoolInv
  OBVIOUS
<1>1. \A a \in Actors : pc[a] \in {"gone", "idle"}
  BY DEF Init
<1>2. Image(queue) = {} /\ parked = {} /\ \A a \in Actors : ~Out(a) /\ ~InHand(a)
  BY <1>1 DEF Init, Image, Out, InHand
<1>3. OnePlace /\ Unmade
  BY <1>2 DEF Init, OnePlace, Unmade
<1>4. ASSUME NEW j \in Jobs
      PROVE  HoldAgrees(j)
  <2>1. ~Pooled(j) /\ wrappers[j] = {} /\ holds[j] = 0
    BY <1>2 DEF Init, Pooled
  <2>2. IsFiniteSet({}) /\ Cardinality({}) = 0
    BY FS_EmptySet
  <2>3. QED
    BY <2>1, <2>2 DEF HoldAgrees
<1>5. QED
  BY <1>3, <1>4 DEF PoolInv, HoldsAgree, HoldAgrees

LEMMA PoolHolds == Spec => [](TypeOK /\ PoolInv)
<1>1. Init => TypeOK /\ PoolInv
  BY TypeInit, PoolInit
<1>2. TypeOK /\ PoolInv /\ [Next]_vars => (TypeOK /\ PoolInv)'
  BY TypeStep, PoolStep
<1>3. QED
  BY <1>1, <1>2, PTL DEF Spec

(* A set whose members are all equal has at most one.                      *)
LEMMA AtMostOne ==
  ASSUME NEW S, \A x, y \in S : x = y
  PROVE  IsFiniteSet(S) /\ Cardinality(S) \in {0, 1} /\ (Cardinality(S) = 0 <=> S = {})
<1>1. CASE S = {}
  BY <1>1, FS_EmptySet
<1>2. CASE S # {}
  <2>1. PICK x \in S : S = {x}
    BY <1>2
  <2>2. IsFiniteSet(S) /\ Cardinality(S) = 1
    BY <2>1, FS_Singleton
  <2>3. QED
    BY <1>2, <2>2
<1>3. QED
  BY <1>1, <1>2

LEMMA SomewhereFollows == TypeOK /\ PoolInv => JobIsSomewhere
<1> SUFFICES ASSUME TypeOK, PoolInv, NEW j \in Jobs
             PROVE  /\ Cardinality(PlacesInQueue(j)) + Cardinality(Carriers(j))
                         + (IF j \in parked THEN 1 ELSE 0) <= 1
                    /\ holds[j] > Cardinality(wrappers[j]) /\ ~finished[j] =>
                         Carriers(j) # {} \/ j \in parked \/ PlacesInQueue(j) # {}
  BY DEF JobIsSomewhere
<1>1. /\ PlacesInQueue(j) # {} <=> j \in Image(queue)
      /\ Carriers(j) # {} <=> \E a \in Actors : InHand(a) /\ has[a] = j
  BY DEF PlacesInQueue, Carriers, Image
<1>2. /\ Cardinality(PlacesInQueue(j)) \in {0, 1}
      /\ Cardinality(PlacesInQueue(j)) = 0 <=> PlacesInQueue(j) = {}
  <2>1. \A x, y \in PlacesInQueue(j) : x = y
    BY DEF PlacesInQueue, PoolInv, OnePlace
  <2>2. QED
    BY <2>1, AtMostOne
<1>3. /\ Cardinality(Carriers(j)) \in {0, 1}
      /\ Cardinality(Carriers(j)) = 0 <=> Carriers(j) = {}
  <2>1. \A x, y \in Carriers(j) : x = y
    BY DEF Carriers, PoolInv, OnePlace, Out
  <2>2. QED
    BY <2>1, AtMostOne
<1>4. /\ ~(PlacesInQueue(j) # {} /\ Carriers(j) # {})
      /\ j \in parked => PlacesInQueue(j) = {} /\ Carriers(j) = {}
  BY <1>1 DEF PoolInv, OnePlace, Out
<1>5. Cardinality(PlacesInQueue(j)) + Cardinality(Carriers(j))
        + (IF j \in parked THEN 1 ELSE 0) <= 1
  BY <1>2, <1>3, <1>4
<1>6. ASSUME holds[j] > Cardinality(wrappers[j])
      PROVE  Carriers(j) # {} \/ j \in parked \/ PlacesInQueue(j) # {}
  <2>1. IsFiniteSet(wrappers[j]) /\ Cardinality(wrappers[j]) \in Nat
    BY FS_CardinalityType DEF PoolInv, HoldsAgree
  <2>2. Pooled(j)
    BY <1>6, <2>1 DEF PoolInv, HoldsAgree
  <2>3. QED
    BY <1>1, <2>2 DEF Pooled
<1>7. QED
  BY <1>5, <1>6

LEMMA HeldFollows == PoolInv => HeldWhileUsed
<1> SUFFICES ASSUME PoolInv, NEW j \in Jobs
             PROVE  holds[j] = Cardinality(wrappers[j])
                                 + (IF j \in Image(queue) \cup parked \/ Carriers(j) # {}
                                    THEN 1 ELSE 0)
  BY DEF HeldWhileUsed
<1>1. Pooled(j) <=> j \in Image(queue) \cup parked \/ Carriers(j) # {}
  BY DEF Pooled, Carriers
<1>2. QED
  BY <1>1 DEF PoolInv, HoldsAgree

\* A job the pool has taken over is in one place and one place only, however
\* many machines start, stop and share (task.c:114-116).
THEOREM NeverLostNorCopied == Spec => []JobIsSomewhere
BY PoolHolds, SomewhereFollows, PTL

\* A task is held by each Task value and by the pool, once each, so that
\* nobody finds it freed (task.c:149-151).
THEOREM HeldByItsUsers == Spec => []HeldWhileUsed
BY PoolHolds, HeldFollows, PTL

-----------------------------------------------------------------------------
(* The wait that awaitable() hands out.                                    *)
PushInv == Pushing /\ PushedOnceDone

\* A step of actor a that pushes nothing and ends no job.
LEMMA PushesNothing ==
  ASSUME TypeOK, PushInv, NEW a \in Actors, Others(a),
         UNCHANGED <<owes, finished, await_id>>, a \notin owes,
         \A b \in Actors \ {a} : has'[b] = has[b]
  PROVE  PushInv'
<1>1. \A b \in owes : b \in Actors \ {a}
  BY DEF TypeOK
<1>2. Pushing'
  BY <1>1 DEF PushInv, Pushing, Others
<1>3. PushedOnceDone'
  BY <1>1 DEF PushInv, PushedOnceDone
<1>4. QED
  BY <1>2, <1>3 DEF PushInv

LEMMA PushStep ==
  ASSUME TypeOK, PushInv, [Next]_vars
  PROVE  PushInv'
<1>1. ASSUME NEW a \in Actors, Finish(a)
      PROVE  PushInv'
  <2>1. /\ Others(a) /\ pc'[a] = "push" /\ UNCHANGED <<has, await_id>>
        /\ has[a] \in Jobs
        /\ finished' = [finished EXCEPT ![has[a]] = TRUE]
        /\ owes' = IF await_id[has[a]] = "none" THEN owes ELSE owes \cup {a}
    BY <1>1, FinishMoves DEF Finish
  <2>2. Pushing'
    <3>1. \A b \in owes \ {a} : pc'[b] = pc[b]
      BY <2>1 DEF Others, PushInv, Pushing, TypeOK
    <3>2. QED
      BY <2>1, <3>1 DEF PushInv, Pushing
  <2>3. ASSUME NEW j \in Jobs, finished'[j], await_id'[j] = "armed"
        PROVE  \E b \in owes' : has'[b] = j
    <3>1. CASE j = has[a]
      BY <2>1, <2>3, <3>1
    <3>2. CASE j # has[a]
      BY <2>1, <2>3, <3>2 DEF PushInv, PushedOnceDone, TypeOK
    <3>3. QED
      BY <3>1, <3>2
  <2>4. QED
    BY <2>2, <2>3 DEF PushInv, PushedOnceDone
<1>2. ASSUME NEW a \in Actors, PushAndLetGo(a) \/ (a \in Masters /\ Tell(a))
      PROVE  PushInv'
  <2>1. /\ Others(a) /\ has[a] \in Jobs
        /\ \A b \in Actors \ {a} : has'[b] = has[b]
        /\ owes' = owes \ {a} /\ UNCHANGED finished
        /\ \/ await_id' = [await_id EXCEPT ![has[a]] = "ready"]
           \/ a \notin owes /\ await_id' = await_id
    BY <1>2, LetGoMoves, AnswerMoves DEF PushAndLetGo, Tell
  <2>2. Pushing'
    BY <2>1 DEF PushInv, Pushing, Others, TypeOK
  <2>3. ASSUME NEW j \in Jobs, finished'[j], await_id'[j] = "armed"
        PROVE  \E b \in owes' : has'[b] = j
    <3>1. await_id[j] = "armed" /\ (a \in owes => j # has[a])
      BY <2>1, <2>3 DEF TypeOK
    <3>2. PICK b \in owes : has[b] = j
      BY <2>1, <2>3, <3>1 DEF PushInv, PushedOnceDone
    <3>3. b \in Actors \ {a}
      BY <3>1, <3>2 DEF TypeOK
    <3>4. QED
      BY <2>1, <3>2, <3>3
  <2>4. QED
    BY <2>2, <2>3 DEF PushInv, PushedOnceDone
<1>3. ASSUME NEW m \in Masters, NEW j \in Jobs, Awaitable(m, j)
      PROVE  PushInv'
  <2>1. /\ Others(m) /\ pc[m] = "idle" /\ m \in Actors
        /\ \/ /\ finished[j] /\ await_id'[j] # "none" /\ owes' = owes \cup {m}
              /\ pc'[m] = "tell" /\ has'[m] = j
              /\ \A b \in Actors \ {m} : has'[b] = has[b]
           \/ /\ ~(finished[j] /\ await_id'[j] # "none")
              /\ UNCHANGED <<owes, has, pc>>
    BY <1>3, AwaitableMoves, Apart
  <2>2. /\ UNCHANGED finished
        /\ \A k \in Jobs \ {j} : await_id'[k] = await_id[k]
    BY <1>3 DEF Awaitable, TypeOK
  <2>3. m \notin owes /\ owes \subseteq Actors
    BY <2>1 DEF PushInv, Pushing, TypeOK
  <2>4. Pushing'
    BY <2>1, <2>3 DEF PushInv, Pushing, Others
  <2>5. ASSUME NEW k \in Jobs, finished'[k], await_id'[k] = "armed"
        PROVE  \E b \in owes' : has'[b] = k
    <3>1. CASE k = j
      BY <2>1, <2>2, <2>5, <3>1
    <3>2. CASE k # j
      <4>1. PICK b \in owes : has[b] = k
        BY <2>2, <2>5, <3>2 DEF PushInv, PushedOnceDone
      <4>2. QED
        BY <2>1, <2>3, <4>1
    <3>3. QED
      BY <3>1, <3>2
  <2>6. QED
    BY <2>4, <2>5 DEF PushInv, PushedOnceDone
<1>4. ASSUME NEW w \in Workers,
             \/ Take(w) \/ Leave(w) \/ NapOver(w) \/ WakeByItself(w) \/ Turn(w)
             \/ File(w) \/ LeaveStanding(w)
      PROVE  PushInv'
  <2>1. w \in Actors /\ w \notin owes
    BY <1>4, Apart DEF Take, Leave, NapOver, WakeByItself, Turn, File, LeaveStanding,
                       PushInv, Pushing
  <2>2. UNCHANGED <<owes, finished, await_id>>
    BY <1>4 DEF Take, Leave, NapOver, WakeByItself, Turn, File, LeaveStanding, endVars
  <2>3. Others(w) /\ \A b \in Actors \ {w} : has'[b] = has[b]
    <3>1. CASE Take(w)
      BY <3>1, TakeMoves
    <3>2. CASE ~Take(w)
      BY <1>4, <3>2, WorkerMoves, FileMoves
    <3>3. QED
      BY <3>1, <3>2
  <2>4. QED
    BY <2>1, <2>2, <2>3, PushesNothing
<1>5. ASSUME NEW m \in Masters,
             \/ Start(m) \/ Stop(m) \/ LaunchedNone(m) \/ TellWorkers(m) \/ Join(m)
             \/ Launch(m) \/ LaunchNoRoom(m) \/ Launched(m)
      PROVE  PushInv'
  <2>1. /\ Others(m) /\ UNCHANGED has /\ m \in Actors
        /\ pc[m] \in {"idle", "launching", "drain", "join", "launch"}
    BY <1>5, MasterMoves, Apart
  <2>2. UNCHANGED <<owes, finished, await_id>>
    BY <1>5 DEF Start, Stop, LaunchedNone, BeginStop, TellWorkers, Join, Launch,
                LaunchNoRoom, Launched, endVars
  <2>3. m \notin owes
    BY <2>1 DEF PushInv, Pushing
  <2>4. QED
    BY <2>1, <2>2, <2>3, PushesNothing
<1>6. ASSUME NEW m \in Masters, DropQueued(m) \/ DropParked(m)
      PROVE  PushInv'
  <2>1. Others(m) /\ m \in Actors /\ \A b \in Actors \ {m} : has'[b] = has[b]
    BY <1>6, DroppedMoves, Apart
  <2>2. UNCHANGED <<owes, finished, await_id>> /\ m \notin owes
    BY <1>6 DEF DropQueued, DropParked, endVars, PushInv, Pushing
  <2>3. QED
    BY <2>1, <2>2, PushesNothing
<1>7. ASSUME NEW m \in Masters, LaunchOne(m)
      PROVE  PushInv'
  <2>1. PICK w \in Workers : /\ pc[w] = "gone" /\ pc'[w] = "take"
                             /\ \A b \in Actors \ {w} : pc'[b] = pc[b]
    BY <1>7, LaunchOneMoves
  <2>2. UNCHANGED <<has, owes, finished, await_id>> /\ w \in Actors /\ Others(w)
    BY <1>7, <2>1, Apart DEF LaunchOne, endVars, Others
  <2>3. w \notin owes
    BY <2>1 DEF PushInv, Pushing
  <2>4. QED
    BY <2>2, <2>3, PushesNothing
<1>8. ASSUME NEW m \in Masters, NEW j \in Jobs, Async(m, j) \/ Await(m, j)
      PROVE  PushInv'
  <2>1. /\ Others(m) /\ m \in Actors /\ pc[m] = "idle"
        /\ \A b \in Actors \ {m} : has'[b] = has[b]
    BY <1>8, AsyncMoves, AwaitMoves, Apart
  <2>2. UNCHANGED <<owes, finished, await_id>> /\ m \notin owes
    BY <1>8, <2>1 DEF Async, Await, endVars, PushInv, Pushing
  <2>3. QED
    BY <2>1, <2>2, PushesNothing
<1>9. ASSUME NEW m \in Masters, QueueIt(m) \/ NotQueued(m) \/ Awaited(m)
      PROVE  PushInv'
  <2>1. /\ Others(m) /\ m \in Actors /\ pc[m] \in {"spawn", "await"}
        /\ \A b \in Actors \ {m} : has'[b] = has[b]
    <3>1. CASE Awaited(m)
      BY <3>1, AnswerMoves, Apart DEF Awaited
    <3>2. CASE QueueIt(m) \/ NotQueued(m)
      BY <3>2, QueueItMoves, Apart
    <3>3. QED
      BY <1>9, <3>1, <3>2
  <2>2. UNCHANGED <<owes, finished, await_id>> /\ m \notin owes
    BY <1>9, <2>1 DEF QueueIt, NotQueued, Awaited, endVars, PushInv, Pushing
  <2>3. QED
    BY <2>1, <2>2, PushesNothing
<1>10. ASSUME \/ \E n \in Masters \cup Elsewhere, j \in Jobs :
                     (\E m \in Masters : Share(m, n, j)) \/ DropTask(n, j)
              \/ TimePasses \/ (\E j \in Jobs : Arrives(j)) \/ UNCHANGED vars
       PROVE  PushInv'
  <2>1. UNCHANGED <<pc, has, owes, finished, await_id>>
    BY <1>10 DEF Share, DropTask, TimePasses, Arrives, vars, endVars
  <2>2. QED
    BY <2>1 DEF PushInv, Pushing, PushedOnceDone
<1>11. QED
  <2>1. Workers \subseteq Actors /\ Masters \subseteq Actors
    BY Apart
  <2>2. QED
    BY <1>1, <1>2, <1>3, <1>4, <1>5, <1>6, <1>7, <1>8, <1>9, <1>10, <2>1
       DEF Next, WorkerStep, MasterStep, MasterCall

\* A wait that awaitable() handed out is pushed once the job has ended, or is
\* about to be (task.c:205-216, 932-957).
THEOREM PushedWhenDone == Spec => []PushedOnceDone
<1>1. Init => PushInv
  BY DEF Init, PushInv, Pushing, PushedOnceDone
<1>2. TypeOK /\ PushInv /\ [Next]_vars => PushInv'
  BY PushStep
<1>3. PushInv => PushedOnceDone
  BY DEF PushInv
<1>4. QED
  BY <1>1, <1>2, <1>3, TypeCorrect, PTL DEF Spec

-----------------------------------------------------------------------------
(* The workers of the pool.                                                *)

\* A step that starts and stops nothing.
LEMMA SameCrew ==
  ASSUME Crew, NEW a \in Actors, Others(a), UNCHANGED <<running, threads, joining>>,
         a \in Workers => pc[a] # "gone",
         a \in Masters => /\ Stopping(a)' <=> Stopping(a)
                          /\ pc'[a] = "join" <=> pc[a] = "join"
                          /\ pc'[a] = "launch" => pc[a] = "launch"
                          /\ pc'[a] = "launching" => pc[a] = "launching"
  PROVE  Crew'
<1>1. ASSUME NEW m \in Masters
      PROVE  /\ Stopping(m)' <=> Stopping(m)
             /\ pc'[m] = "join" <=> pc[m] = "join"
             /\ pc'[m] = "launch" => pc[m] = "launch"
             /\ pc'[m] = "launching" => pc[m] = "launching"
  <2>1. CASE m = a
    BY <2>1
  <2>2. CASE m # a
    BY <2>2, Apart DEF Others, Stopping
  <2>3. QED
    BY <2>1, <2>2
<1>2. ASSUME NEW w \in Workers
      PROVE  pc[w] = "gone" => pc'[w] = "gone"
  BY Apart DEF Others
<1>3. ASSUME NEW w \in Workers, pc'[w] # "gone"
      PROVE  pc[w] # "gone"
  BY <1>2, <1>3
<1>4. Starters \subseteq Masters
  BY TaskAssumption DEF TaskAssumption
<1>5. \A m \in Masters : pc[m] \in {"drain", "dropped", "push", "join", "launch",
                                    "launching"}
                           <=> Stopping(m) \/ pc[m] \in {"launch", "launching"}
  BY DEF Stopping
<1>6. \A m \in Masters : (pc[m] \in {"drain", "dropped", "push", "join", "launch",
                                    "launching"})'
                           <=> Stopping(m)' \/ pc'[m] \in {"launch", "launching"}
  BY DEF Stopping
<1>7. \A m \in Masters : (pc[m] \in {"drain", "dropped", "push", "join", "launch",
                                     "launching"} => m \in Starters)'
  BY <1>1, <1>5, <1>6 DEF Crew
<1>8. /\ \A m \in Masters : (Stopping(m) \/ pc[m] = "launch" => ~running)'
      /\ \A m \in Masters : (pc[m] = "launching" => running)'
      /\ \A m \in Masters : (joining[m] # {} => pc[m] = "join")'
      /\ \A m \in Masters : (pc[m] = "join" => threads = {})'
  BY <1>1 DEF Crew
<1>9. \A w \in Workers : (pc[w] # "gone" =>
          w \in threads \/ \E m \in Starters : w \in joining[m])'
  BY <1>3 DEF Crew
<1>10. (~running => \/ \E m \in Starters : Stopping(m)
                    \/ \A w \in Workers : pc[w] = "gone")'
  BY <1>1, <1>2, <1>4 DEF Crew
<1>11. QED
  BY <1>7, <1>8, <1>9, <1>10 DEF Crew

LEMMA StopCrew ==
  ASSUME OneStarter, TypeOK, Crew, NEW m \in Starters, NEW next \in {"idle", "launch"},
         pc[m] \in {"idle", "launching"}, BeginStop(m, next)
  PROVE  Crew'
<1>1. Starters \subseteq Masters /\ m \in Masters /\ m \in Actors
  BY TaskAssumption, Apart DEF TaskAssumption
<1>2. /\ running' = FALSE /\ UNCHANGED <<threads, joining>>
      /\ Goes(m, IF running THEN "drain" ELSE next, {})
  BY DEF BeginStop
<1>3. \A b \in Actors : pc'[b] = IF b = m THEN IF running THEN "drain" ELSE next
                                 ELSE pc[b]
  BY <1>2 DEF Goes
<1>4. \A n \in Masters \ {m} : pc'[n] = pc[n] /\ n \notin Starters
  BY <1>1, <1>3, Apart DEF OneStarter
<1>5. \A w \in Workers : pc'[w] = pc[w]
  BY <1>1, <1>3, Apart
<1>6. pc'[m] = IF running THEN "drain" ELSE next
  BY <1>1, <1>3
<1>7. /\ \A n \in Masters : (pc[n] \in {"drain", "dropped", "push", "join", "launch",
                                        "launching"} => n \in Starters)'
      /\ \A n \in Masters : pc'[n] # "launching" /\ pc'[n] # "join"
  <2>1. \A n \in Masters \ {m} : pc'[n] \notin {"drain", "dropped", "push", "join",
                                                "launch", "launching"}
    BY <1>4 DEF Crew
  <2>2. QED
    BY <1>6, <2>1
<1>8. \A n \in Masters : (joining[n] # {} => pc[n] = "join")'
  <2>1. \A n \in Masters \ {m} : (joining[n] # {} => pc[n] = "join")'
    BY <1>2, <1>4 DEF Crew
  <2>2. joining[m] = {}
    BY <1>1 DEF Crew
  <2>3. QED
    BY <1>2, <2>1, <2>2
<1>9. \A w \in Workers : (pc[w] # "gone" =>
          w \in threads \/ \E n \in Starters : w \in joining[n])'
  BY <1>2, <1>5 DEF Crew
<1>10. (\E n \in Starters : Stopping(n)) \/ (\A w \in Workers : pc[w] = "gone") \/ running
  BY DEF Crew
<1>11. (\E n \in Starters : Stopping(n) \/ \A w \in Workers : pc[w] = "gone")'
  <2>1. CASE running
    BY <1>6, <2>1 DEF Stopping
  <2>2. CASE ~running
    <3>1. ~Stopping(m)
      BY DEF Stopping
    <3>2. \A n \in Starters : ~Stopping(n)
      BY <3>1 DEF OneStarter
    <3>3. QED
      BY <1>5, <1>10, <2>2, <3>2
  <2>3. QED
    BY <2>1, <2>2
<1>12. QED
  BY <1>2, <1>7, <1>8, <1>9, <1>11 DEF Crew

LEMMA TellCrew ==
  ASSUME OneStarter, TypeOK, Crew, NEW m \in Masters, TellWorkers(m)
  PROVE  Crew'
<1>1. /\ pc[m] = "drain" /\ joining' = [joining EXCEPT ![m] = threads]
      /\ threads' = {} /\ UNCHANGED running /\ Goes(m, "join", Asleep)
  BY DEF TellWorkers
<1>2. m \in Actors /\ m \in Starters /\ ~running /\ joining[m] = {}
  BY <1>1, Apart DEF Crew, Stopping
<1>3. Others(m) /\ pc'[m] = "join"
  BY <1>1, <1>2, GoesFacts, Apart DEF Places, WorkerPlaces
<1>4. \A n \in Masters \ {m} : pc'[n] = pc[n] /\ n \notin Starters
  <2>1. \A n \in Masters \ {m} : n \in Actors \ {m} /\ n \notin Workers
    BY Apart
  <2>2. QED
    BY <1>2, <1>3, <2>1 DEF OneStarter, Others
<1>5. joining'[m] = threads /\ \A n \in Masters \ {m} : joining'[n] = joining[n]
  BY <1>1 DEF TypeOK
<1>6. \A w \in Workers : pc'[w] # "gone" => pc[w] # "gone"
  BY <1>3, Apart DEF Others
<1>7. \A n \in Masters \ {m} : pc'[n] \notin {"drain", "dropped", "push", "join",
                                              "launch", "launching"}
  BY <1>4 DEF Crew
<1>8. \A n \in Masters : /\ (Stopping(n) \/ pc[n] = "launch" => ~running)'
                         /\ (pc[n] = "launching" => running)'
                         /\ (pc[n] \in {"drain", "dropped", "push", "join", "launch",
                                        "launching"} => n \in Starters)'
  BY <1>1, <1>2, <1>3, <1>7
<1>9. \A n \in Masters : (joining[n] # {} => pc[n] = "join")'
  BY <1>3, <1>4, <1>5 DEF Crew
<1>10. \A w \in Workers : (pc[w] # "gone" =>
          w \in threads \/ \E n \in Starters : w \in joining[n])'
  <2>1. \A w \in Workers : pc'[w] # "gone" => w \in threads
    BY <1>2, <1>6 DEF Crew, OneStarter
  <2>2. QED
    BY <1>2, <1>5, <2>1
<1>11. (\E n \in Starters : Stopping(n))'
  BY <1>2, <1>3 DEF Stopping
<1>12. QED
  BY <1>1, <1>8, <1>9, <1>10, <1>11 DEF Crew

LEMMA JoinCrew ==
  ASSUME OneStarter, TypeOK, Crew, NEW m \in Masters, Join(m)
  PROVE  Crew' /\ \A w \in Workers : pc'[w] = "gone"
<1>1. /\ pc[m] = "join" /\ joining' = [joining EXCEPT ![m] = {}]
      /\ UNCHANGED <<threads, running>> /\ Goes(m, after[m], {})
      /\ \A w \in joining[m] : pc[w] = "gone"
  BY DEF Join, poolVars
<1>2. m \in Actors /\ m \in Starters /\ ~running /\ threads = {}
  BY <1>1, Apart DEF Crew, Stopping
<1>3. after[m] \in {"idle", "launch"}
  BY DEF TypeOK
<1>4. \A b \in Actors : pc'[b] = IF b = m THEN after[m] ELSE pc[b]
  BY <1>1 DEF Goes
<1>5. \A n \in Masters \ {m} : pc'[n] = pc[n] /\ n \notin Starters
  BY <1>2, <1>4, Apart DEF OneStarter
<1>6. \A w \in Workers : pc'[w] = "gone"
  <2>1. \A w \in Workers : pc[w] = "gone"
    BY <1>1, <1>2 DEF Crew, OneStarter
  <2>2. QED
    BY <1>4, <2>1, Apart
<1>7. \A n \in Masters \ {m} : pc'[n] \notin {"drain", "dropped", "push", "join",
                                              "launch", "launching"}
  BY <1>5 DEF Crew
<1>8. pc'[m] \in {"idle", "launch"}
  BY <1>2, <1>3, <1>4
<1>9. \A n \in Masters : /\ (Stopping(n) \/ pc[n] = "launch" => ~running)'
                         /\ (pc[n] = "launching" => running)'
                         /\ (pc[n] = "join" => threads = {})'
                         /\ (pc[n] \in {"drain", "dropped", "push", "join", "launch",
                                        "launching"} => n \in Starters)'
  BY <1>1, <1>2, <1>7, <1>8
<1>10. \A n \in Masters : (joining[n] # {} => pc[n] = "join")'
  <2>1. joining'[m] = {} /\ \A n \in Masters \ {m} : joining'[n] = joining[n]
    BY <1>1 DEF TypeOK
  <2>2. QED
    BY <1>5, <2>1 DEF Crew
<1>11. QED
  BY <1>6, <1>9, <1>10 DEF Crew

LEMMA LaunchCrew ==
  ASSUME OneStarter, TypeOK, Crew, NEW m \in Masters, Launch(m)
  PROVE  Crew' /\ \A w \in Workers : pc'[w] = "gone"
<1>1. /\ pc[m] = "launch" /\ running' = TRUE /\ threads' = {}
      /\ UNCHANGED joining /\ Goes(m, "launching", {})
  BY DEF Launch, masterVars
<1>2. m \in Actors /\ m \in Starters /\ ~running
  BY <1>1, Apart DEF Crew
<1>3. \A b \in Actors : pc'[b] = IF b = m THEN "launching" ELSE pc[b]
  BY <1>1 DEF Goes
<1>4. \A n \in Masters \ {m} : pc'[n] = pc[n] /\ n \notin Starters
  BY <1>2, <1>3, Apart DEF OneStarter
<1>5. \A w \in Workers : pc'[w] = "gone"
  <2>1. \A n \in Starters : ~Stopping(n)
    BY <1>1, <1>2 DEF OneStarter, Stopping
  <2>2. \A w \in Workers : pc[w] = "gone"
    BY <1>2, <2>1 DEF Crew
  <2>3. QED
    BY <1>3, <2>2, Apart
<1>6. \A n \in Masters \ {m} : pc'[n] \notin {"drain", "dropped", "push", "join",
                                              "launch", "launching"}
  BY <1>4 DEF Crew
<1>7. pc'[m] = "launching"
  BY <1>2, <1>3
<1>8. \A n \in Masters : /\ ~Stopping(n)' /\ pc'[n] # "launch" /\ pc'[n] # "join"
                         /\ (pc[n] \in {"drain", "dropped", "push", "join", "launch",
                                        "launching"} => n \in Starters)'
  BY <1>2, <1>6, <1>7 DEF Stopping
<1>9. \A n \in Masters : (joining[n] # {} => pc[n] = "join")'
  BY <1>1, <1>2, <1>4 DEF Crew
<1>10. QED
  BY <1>1, <1>5, <1>8, <1>9 DEF Crew

LEMMA LaunchOneCrew ==
  ASSUME OneStarter, TypeOK, Crew, NEW m \in Masters, LaunchOne(m)
  PROVE  Crew'
<1>1. PICK w \in Workers : /\ pc[w] = "gone" /\ pc'[w] = "take"
                           /\ threads' = threads \cup {w}
                           /\ \A b \in Actors \ {w} : pc'[b] = pc[b]
  BY LaunchOneMoves
<1>2. UNCHANGED <<running, joining>> /\ pc[m] = "launching" /\ running
  BY DEF LaunchOne, masterVars, Crew
<1>3. \A n \in Masters : pc'[n] = pc[n]
  BY <1>1, Apart
<1>4. \A n \in Masters : pc[n] # "join"
  BY <1>2 DEF Crew, Stopping
<1>5. \A v \in Workers : (pc[v] # "gone" =>
          v \in threads \/ \E n \in Starters : v \in joining[n])'
  BY <1>1, <1>2, Apart DEF Crew
<1>6. \A n \in Masters : Stopping(n)' <=> Stopping(n)
  BY <1>3 DEF Stopping
<1>7. QED
  BY <1>2, <1>3, <1>4, <1>5, <1>6 DEF Crew

LEMMA CrewStep ==
  ASSUME OneStarter, TypeOK, Crew, [Next]_vars
  PROVE  Crew'
<1>1. ASSUME NEW w \in Workers,
             \/ Take(w) \/ Leave(w) \/ NapOver(w) \/ WakeByItself(w) \/ Turn(w)
             \/ File(w) \/ LeaveStanding(w) \/ Finish(w) \/ PushAndLetGo(w)
      PROVE  Crew'
  <2>1. w \in Actors /\ Others(w) /\ w \notin Masters
    BY <1>1, Apart, TakeMoves, WorkerMoves, FileMoves, FinishMoves, LetGoMoves
  <2>2. pc[w] # "gone"
    BY <1>1 DEF Take, Leave, NapOver, WakeByItself, Turn, File, LeaveStanding, Finish,
                PushAndLetGo
  <2>3. UNCHANGED <<running, threads, joining>>
    BY <1>1 DEF Take, Leave, NapOver, WakeByItself, Turn, File, LeaveStanding, Finish,
                PushAndLetGo, poolVars, masterVars
  <2>4. QED
    BY <2>1, <2>2, <2>3, SameCrew
<1>2. ASSUME NEW m \in Masters,
             DropQueued(m) \/ DropParked(m) \/ Finish(m) \/ PushAndLetGo(m)
      PROVE  Crew'
  <2>1. /\ m \in Actors /\ Others(m) /\ m \notin Workers
        /\ pc[m] \in {"drain", "dropped", "ended", "push"}
        /\ pc'[m] \in {"dropped", "push", "drain"}
    BY <1>2, Apart, DroppedMoves, FinishMoves, LetGoMoves DEF Finish
  <2>2. pc[m] # "ended"
    BY DEF TypeOK, WorkerPlaces
  <2>3. Stopping(m) /\ Stopping(m)'
    BY <2>1, <2>2 DEF Stopping
  <2>4. UNCHANGED <<running, threads, joining>>
    BY <1>2 DEF DropQueued, DropParked, Finish, PushAndLetGo, poolVars, masterVars
  <2>5. QED
    BY <2>1, <2>3, <2>4, SameCrew
<1>3. ASSUME NEW m \in Masters,
             \/ LaunchNoRoom(m) \/ Launched(m) \/ QueueIt(m) \/ NotQueued(m)
             \/ Awaited(m) \/ Tell(m)
             \/ \E j \in Jobs : Async(m, j) \/ Await(m, j) \/ Awaitable(m, j)
      PROVE  Crew'
  <2>1. m \in Actors /\ Others(m) /\ m \notin Workers
    BY <1>3, Apart, MasterMoves, QueueItMoves, AnswerMoves, AsyncMoves, AwaitMoves,
       AwaitableMoves
  <2>2. /\ pc[m] \in {"launch", "launching", "spawn", "await", "tell", "idle"}
        /\ pc'[m] \in {"idle", "spawn", "await", "tell"}
    <3>1. CASE LaunchNoRoom(m) \/ Launched(m)
      BY <2>1, <3>1 DEF LaunchNoRoom, Launched, Goes
    <3>2. CASE QueueIt(m) \/ NotQueued(m) \/ Awaited(m) \/ Tell(m)
      BY <3>2, QueueItMoves, AnswerMoves
    <3>3. CASE \E j \in Jobs : Async(m, j) \/ Await(m, j) \/ Awaitable(m, j)
      BY <3>3, AsyncMoves, AwaitMoves, AwaitableMoves
    <3>4. QED
      BY <1>3, <3>1, <3>2, <3>3
  <2>3. ~Stopping(m) /\ ~Stopping(m)' /\ pc[m] # "join" /\ pc'[m] # "join"
    BY <2>2 DEF Stopping
  <2>4. UNCHANGED <<running, threads, joining>>
    BY <1>3 DEF LaunchNoRoom, Launched, QueueIt, NotQueued, Awaited, Tell, Async, Await,
                Awaitable, poolVars, masterVars
  <2>5. QED
    BY <2>1, <2>2, <2>3, <2>4, SameCrew
<1>4. ASSUME NEW m \in Starters, Start(m) \/ Stop(m)
      PROVE  Crew'
  BY <1>4, StopCrew DEF Start, Stop
<1>5. ASSUME NEW m \in Masters, LaunchedNone(m)
      PROVE  Crew'
  <2>1. m \in Starters /\ pc[m] = "launching" /\ BeginStop(m, "idle")
    BY <1>5 DEF LaunchedNone, Crew
  <2>2. QED
    BY <2>1, StopCrew
<1>6. ASSUME NEW m \in Masters, TellWorkers(m) \/ Join(m) \/ Launch(m) \/ LaunchOne(m)
      PROVE  Crew'
  BY <1>6, TellCrew, JoinCrew, LaunchCrew, LaunchOneCrew
<1>7. ASSUME \/ \E n \in Masters \cup Elsewhere, j \in Jobs :
                     (\E m \in Masters : Share(m, n, j)) \/ DropTask(n, j)
             \/ TimePasses \/ (\E j \in Jobs : Arrives(j)) \/ UNCHANGED vars
      PROVE  Crew'
  <2>1. UNCHANGED <<pc, running, threads, joining>>
    BY <1>7 DEF Share, DropTask, TimePasses, Arrives, vars, poolVars, masterVars
  <2>2. QED
    BY <2>1 DEF Crew, Stopping
<1>8. QED
  BY <1>1, <1>2, <1>3, <1>4, <1>5, <1>6, <1>7 DEF Next, WorkerStep, MasterStep, MasterCall

LEMMA CrewInit == Init => Crew
BY Apart DEF Init, Crew, Stopping

-----------------------------------------------------------------------------
(* Who watches the queue and the parked jobs.                              *)
LEMMA WatchFacts ==
  ASSUME NEW S \in SUBSET Workers
  PROVE  /\ IsFiniteSet(S) /\ Cardinality(S) \in Nat
         /\ \A T \in SUBSET S : IsFiniteSet(T) /\ Cardinality(T) <= Cardinality(S)
BY TaskAssumption, FS_Subset, FS_CardinalityType DEF TaskAssumption

\* Who is asleep and who watches, after a step of actor a to `place`.
LEMMA WatchersAfter ==
  ASSUME TypeOK, NEW a \in Actors, NEW place, NEW woken \in SUBSET Asleep,
         Goes(a, place, woken), pc[a] # "asleep"
  PROVE  /\ a \notin Workers \/ place \notin {"take", "nap"} =>
              Watching' = (Watching \ {a}) \cup woken
         /\ a \in Workers /\ place \in {"take", "nap"} =>
              Watching' = Watching \cup {a} \cup woken
         /\ a \notin Workers \/ place # "asleep" => Asleep' = Asleep \ woken
         /\ Asleep \cap Watching = {}
<1>1. \A b \in Workers : pc'[b] = IF b = a THEN place
                                  ELSE IF b \in woken THEN "take" ELSE pc[b]
  BY Apart DEF Goes
<1>2. a \notin woken /\ woken \subseteq Workers
  BY DEF Asleep
<1>3. \A b \in Workers \ {a} : b \in Watching' <=> b \in Watching \/ b \in woken
  BY <1>1, <1>2 DEF Watching
<1>4. \A b \in Workers \ {a} : b \in Asleep' <=> b \in Asleep /\ b \notin woken
  BY <1>1, <1>2 DEF Asleep
<1>5. /\ Watching \subseteq Workers /\ Watching' \subseteq Workers
      /\ Asleep \subseteq Workers /\ Asleep' \subseteq Workers
  BY DEF Watching, Asleep
<1>6. a \notin Asleep /\ Asleep \cap Watching = {}
  BY DEF Watching, Asleep
<1>7. a \in Workers => /\ a \in Watching' <=> place \in {"take", "nap"}
                       /\ a \in Asleep' <=> place = "asleep"
  BY <1>1 DEF Watching, Asleep
<1>8. QED
  BY <1>2, <1>3, <1>4, <1>5, <1>6, <1>7

\* A step that leaves no less to watch over it, and no more to be watched.
LEMMA MoreWatch ==
  ASSUME TypeOK, TypeOK', WorkIsWatched, Watching \subseteq Watching',
         Asleep' # {} => Asleep # {}, Len(queue') <= Len(queue),
         parked' # {} => parked # {}, running' => running
  PROVE  WorkIsWatched'
<1> SUFFICES ASSUME running', Asleep' # {}
             PROVE  Cardinality(Watching') >= Len(queue') + (IF parked' # {} THEN 1 ELSE 0)
  BY DEF WorkIsWatched
<1>1. Cardinality(Watching) >= Len(queue) + (IF parked # {} THEN 1 ELSE 0)
  BY DEF WorkIsWatched
<1>2. /\ Cardinality(Watching) <= Cardinality(Watching')
      /\ Cardinality(Watching) \in Nat /\ Cardinality(Watching') \in Nat
  <2>1. Watching \in SUBSET Workers /\ Watching' \in SUBSET Workers
    BY DEF Watching
  <2>2. QED
    BY <2>1, WatchFacts
<1>3. Len(queue) \in Nat /\ Len(queue') \in Nat
  BY DEF TypeOK
<1>4. QED
  BY <1>1, <1>2, <1>3

\* n signals that left somebody asleep have woken n.
LEMMA SignalFacts ==
  ASSUME NEW n \in Nat, NEW woken \in Signalled(n)
  PROVE  /\ woken \in SUBSET Asleep /\ IsFiniteSet(woken) /\ Cardinality(woken) \in Nat
         /\ Asleep \ woken # {} => Cardinality(woken) = n
         /\ n = 0 => woken = {}
<1>1. woken \in SUBSET Asleep /\ Asleep \in SUBSET Workers
  BY DEF Signalled, Asleep
<1>2. /\ IsFiniteSet(woken) /\ Cardinality(woken) \in Nat
      /\ IsFiniteSet(Asleep) /\ Cardinality(Asleep) \in Nat
  BY <1>1, WatchFacts
<1>3. Cardinality(woken) = IF n < Cardinality(Asleep) THEN n ELSE Cardinality(Asleep)
  BY DEF Signalled
<1>4. Asleep \ woken # {} => Cardinality(woken) = n
  <2>1. SUFFICES ASSUME Cardinality(woken) = Cardinality(Asleep)
                 PROVE  woken = Asleep
    BY <1>1, <1>2, <1>3
  <2>2. QED
    BY <1>1, <1>2, <2>1, FS_Subset
<1>5. n = 0 => woken = {}
  BY <1>2, <1>3, FS_EmptySet
<1>6. QED
  BY <1>1, <1>2, <1>4, <1>5

\* Workers joining those that watch are counted.
LEMMA AddedWatch ==
  ASSUME NEW S \in SUBSET Workers, NEW T \in SUBSET Workers, S \cap T = {}
  PROVE  Cardinality(S \cup T) = Cardinality(S) + Cardinality(T)
<1>1. IsFiniteSet(S) /\ IsFiniteSet(T)
  BY WatchFacts
<1>2. /\ Cardinality(S \cup T) = Cardinality(S) + Cardinality(T) - Cardinality(S \cap T)
      /\ Cardinality(S \cap T) = 0
  BY <1>1, FS_Union, FS_EmptySet
<1>3. Cardinality(S) \in Nat /\ Cardinality(T) \in Nat
  BY WatchFacts
<1>4. QED
  BY <1>2, <1>3

LEMMA TakeWatched ==
  ASSUME TypeOK, TypeOK', WorkIsWatched, NEW w \in Workers, Take(w)
  PROVE  WorkIsWatched'
<1>1. PICK moved \in Seq(Jobs) :
           /\ Distinct(moved) /\ Image(moved) \subseteq parked
           /\ parked' = parked \ Image(moved)
           /\ queue' = IF queue \o moved = <<>> THEN <<>> ELSE Tail(queue \o moved)
           /\ has' = [has EXCEPT ![w] = IF queue \o moved = <<>> THEN None
                                        ELSE Head(queue \o moved)]
           /\ \E woken \in Signalled(Len(moved)) :
                Goes(w, IF queue \o moved # <<>> THEN "turn"
                        ELSE IF parked' # {} THEN "nap" ELSE "asleep", woken)
  BY TakeFacts
<1>2. PICK woken \in Signalled(Len(moved)) :
         Goes(w, IF queue \o moved # <<>> THEN "turn"
                 ELSE IF parked' # {} THEN "nap" ELSE "asleep", woken)
  BY <1>1
<1> DEFINE line == queue \o moved
<1>3. /\ queue \in Seq(Jobs) /\ Len(queue) \in Nat /\ Len(moved) \in Nat
      /\ line \in Seq(Jobs) /\ Len(line) = Len(queue) + Len(moved)
  BY DEF TypeOK
<1>4. /\ woken \in SUBSET Asleep /\ IsFiniteSet(woken) /\ Cardinality(woken) \in Nat
      /\ Asleep \ woken # {} => Cardinality(woken) = Len(moved)
      /\ Len(moved) = 0 => woken = {}
  BY <1>2, <1>3, SignalFacts
<1>5. pc[w] = "take" /\ running /\ w \in Actors /\ running' = running
  BY Apart DEF Take
<1>6. /\ Watching \in SUBSET Workers /\ Watching' \in SUBSET Workers
      /\ Asleep \in SUBSET Workers /\ w \in Watching
  BY <1>5 DEF Watching, Asleep
<1>7. CASE line = <<>>
  <2>1. Len(queue) = 0 /\ Len(moved) = 0
    <3>1. Len(line) = 0
      BY <1>7
    <3>2. QED
      BY <1>3, <3>1
  <2>2. queue' = <<>> /\ Len(queue') = 0 /\ woken = {}
    BY <1>1, <1>4, <1>7, <2>1
  <2>3. Image(moved) = {} /\ parked' = parked
    <3>1. moved = <<>>
      BY <2>1
    <3>2. Image(moved) = {}
      BY <3>1 DEF Image
    <3>3. QED
      BY <1>1, <3>2
  <2>4. CASE parked' # {}
    <3>1. Goes(w, "nap", {})
      BY <1>2, <1>7, <2>2, <2>4
    <3>2. Watching' = Watching \cup {w} /\ Asleep' = Asleep
      <4>1. {} \in SUBSET Asleep /\ pc[w] # "asleep"
        BY <1>5
      <4>2. Watching' = Watching \cup {w} \cup {} /\ Asleep' = Asleep \ {}
        BY <1>5, <3>1, <4>1, WatchersAfter
      <4>3. QED
        BY <4>2
    <3>3. QED
      BY <1>5, <2>1, <2>2, <2>3, <3>2, MoreWatch
  <2>5. CASE parked' = {}
    <3>1. Cardinality(Watching') \in Nat
      BY <1>6, WatchFacts
    <3>2. QED
      BY <2>2, <2>5, <3>1 DEF WorkIsWatched
  <2>6. QED
    BY <2>4, <2>5
<1>8. CASE line # <<>>
  <2>1. Len(queue') = Len(queue) + Len(moved) - 1
    <3>1. queue' = Tail(line) /\ Len(Tail(line)) = Len(line) - 1
      BY <1>1, <1>3, <1>8
    <3>2. QED
      BY <1>3, <3>1
  <2>2. Goes(w, "turn", woken)
    BY <1>2, <1>8
  <2>3. Watching' = (Watching \ {w}) \cup woken /\ Asleep' = Asleep \ woken
    BY <1>4, <1>5, <2>2, WatchersAfter
  <2>4. Asleep \cap Watching = {}
    BY <1>4, <1>5, <2>2, WatchersAfter
  <2>5. /\ Cardinality(Watching \ {w}) = Cardinality(Watching) - 1
        /\ Cardinality(Watching) \in Nat
    BY <1>6, WatchFacts, FS_RemoveElement
  <2>6. Cardinality((Watching \ {w}) \cup woken)
          = Cardinality(Watching \ {w}) + Cardinality(woken)
    <3>1. (Watching \ {w}) \cap woken = {} /\ woken \in SUBSET Workers
      BY <1>4, <1>6, <2>4
    <3>2. QED
      BY <1>6, <3>1, AddedWatch
  <2>7. SUFFICES ASSUME Asleep' # {}
                 PROVE  Cardinality(Watching')
                          >= Len(queue') + (IF parked' # {} THEN 1 ELSE 0)
    BY DEF WorkIsWatched
  <2>8. Cardinality(woken) = Len(moved) /\ Asleep # {}
    BY <1>4, <2>3, <2>7
  <2>9. Cardinality(Watching) >= Len(queue) + (IF parked # {} THEN 1 ELSE 0)
    BY <1>5, <2>8 DEF WorkIsWatched
  <2>10. Cardinality(Watching') = Cardinality(Watching) - 1 + Len(moved)
    BY <2>3, <2>5, <2>6, <2>8
  <2>11. parked' # {} => parked # {}
    BY <1>1
  <2>12. QED
    BY <1>3, <2>1, <2>5, <2>9, <2>10, <2>11
<1>9. QED
  BY <1>7, <1>8

LEMMA FileWatched ==
  ASSUME TypeOK, TypeOK', WorkIsWatched, NEW w \in Workers, File(w)
  PROVE  WorkIsWatched'
<1>1. PICK woken \in SUBSET Asleep : Goes(w, "take", woken)
  BY Woken DEF File
<1>2. pc[w] \in {"again", "park"} /\ w \in Actors /\ running' = running
  BY Apart DEF File
<1>3. Watching' = Watching \cup {w} \cup woken /\ Asleep' = Asleep \ woken
  BY <1>1, <1>2, WatchersAfter
<1>4. w \notin Watching /\ Watching \in SUBSET Workers /\ Watching' \in SUBSET Workers
  BY <1>2 DEF Watching
<1>5. /\ Cardinality(Watching) \in Nat /\ Cardinality(Watching') \in Nat
      /\ Cardinality(Watching') >= Cardinality(Watching) + 1
  <2>1. IsFiniteSet(Watching) /\ Cardinality(Watching \cup {w}) = Cardinality(Watching) + 1
    BY <1>4, WatchFacts, FS_AddElement
  <2>2. Cardinality(Watching \cup {w}) <= Cardinality(Watching')
    BY <1>3, <1>4, WatchFacts
  <2>3. Cardinality(Watching) \in Nat /\ Cardinality(Watching') \in Nat
    BY <1>4, WatchFacts
  <2>4. QED
    BY <2>1, <2>2, <2>3
<1>6. queue \in Seq(Jobs) /\ Len(queue) \in Nat /\ has[w] \in Jobs
  BY FileMoves DEF TypeOK
<1>7. \/ Len(queue') = Len(queue) + 1 /\ parked' = parked
      \/ Len(queue') = Len(queue)
  <2>1. \/ queue' = Append(queue, has[w]) /\ parked' = parked
        \/ queue' = queue
    BY DEF File
  <2>2. Len(Append(queue, has[w])) = Len(queue) + 1
    BY <1>6
  <2>3. QED
    BY <2>1, <2>2
<1>8. SUFFICES ASSUME running', Asleep' # {}
               PROVE  Cardinality(Watching')
                        >= Len(queue') + (IF parked' # {} THEN 1 ELSE 0)
  BY DEF WorkIsWatched
<1>9. Cardinality(Watching) >= Len(queue) + (IF parked # {} THEN 1 ELSE 0)
  BY <1>2, <1>3, <1>8 DEF WorkIsWatched
<1>10. QED
  BY <1>5, <1>6, <1>7, <1>9

LEMMA QueueItWatched ==
  ASSUME TypeOK, TypeOK', WorkIsWatched, NEW m \in Masters, QueueIt(m)
  PROVE  WorkIsWatched'
<1>1. PICK woken \in Signalled(1) : Goes(m, "idle", woken)
  BY DEF QueueIt
<1>2. /\ woken \in SUBSET Asleep /\ Cardinality(woken) \in Nat
      /\ Asleep \ woken # {} => Cardinality(woken) = 1
  BY <1>1, SignalFacts
<1>3. pc[m] = "spawn" /\ m \in Actors /\ m \notin Workers /\ running' = running
  BY Apart DEF QueueIt
<1>4. /\ Watching' = (Watching \ {m}) \cup woken /\ Asleep' = Asleep \ woken
      /\ Asleep \cap Watching = {}
  BY <1>1, <1>2, <1>3, WatchersAfter
<1>5. Watching \in SUBSET Workers /\ woken \in SUBSET Workers
  BY <1>2 DEF Watching, Asleep
<1>6. Watching' = Watching \cup woken /\ Watching \cap woken = {}
  BY <1>2, <1>3, <1>4, <1>5
<1>7. /\ Cardinality(Watching') = Cardinality(Watching) + Cardinality(woken)
      /\ Cardinality(Watching) \in Nat
  BY <1>5, <1>6, AddedWatch, WatchFacts
<1>8. Len(queue') = Len(queue) + 1 /\ Len(queue) \in Nat /\ parked' = parked
  <2>1. /\ queue' = Append(queue, has[m]) /\ parked' = parked
        /\ queue \in Seq(Jobs) /\ has[m] \in Jobs
    BY QueueItMoves DEF QueueIt, TypeOK
  <2>2. QED
    BY <2>1
<1>9. SUFFICES ASSUME running', Asleep' # {}
               PROVE  Cardinality(Watching')
                        >= Len(queue') + (IF parked' # {} THEN 1 ELSE 0)
  BY DEF WorkIsWatched
<1>10. Cardinality(Watching) >= Len(queue) + (IF parked # {} THEN 1 ELSE 0)
  BY <1>3, <1>4, <1>9 DEF WorkIsWatched
<1>11. QED
  BY <1>2, <1>4, <1>7, <1>8, <1>9, <1>10

LEMMA WatchStep ==
  ASSUME OneStarter, TypeOK, TypeOK', Crew, WorkIsWatched, [Next]_vars
  PROVE  WorkIsWatched'
<1>1. ASSUME NEW w \in Workers, Take(w) \/ File(w)
      PROVE  WorkIsWatched'
  BY <1>1, TakeWatched, FileWatched
<1>2. ASSUME NEW w \in Workers, Leave(w)
      PROVE  WorkIsWatched'
  <2>1. ~running'
    BY <1>2 DEF Leave, poolVars
  <2>2. QED
    BY <2>1 DEF WorkIsWatched
<1>3. ASSUME NEW w \in Workers,
             NapOver(w) \/ WakeByItself(w) \/ Turn(w) \/ LeaveStanding(w) \/ Finish(w)
               \/ PushAndLetGo(w)
      PROVE  WorkIsWatched'
  <2>1. /\ w \in Actors /\ Others(w)
        /\ UNCHANGED <<running, queue, parked>>
    BY <1>3, Apart, WorkerMoves, FinishMoves, LetGoMoves
       DEF NapOver, WakeByItself, Turn, LeaveStanding, Finish, PushAndLetGo, poolVars
  <2>2. /\ pc'[w] \in {"take", "again", "park", "ended", "push"}
        /\ pc[w] \in {"nap", "take"} => pc'[w] = "take"
    <3>1. CASE NapOver(w) \/ WakeByItself(w)
      BY <2>1, <3>1 DEF NapOver, WakeByItself, Goes
    <3>2. CASE Turn(w)
      BY <2>1, <3>2 DEF Turn, RunOn, WaitOn, End, Goes
    <3>3. CASE LeaveStanding(w)
      BY <2>1, <3>3 DEF LeaveStanding, Goes
    <3>4. CASE Finish(w) \/ PushAndLetGo(w)
      BY <2>1, <3>4, FinishMoves, LetGoMoves DEF Finish
    <3>5. QED
      BY <1>3, <3>1, <3>2, <3>3, <3>4
  <2>3. Watching \subseteq Watching' /\ Asleep' \subseteq Asleep
    <3>1. \A b \in Workers \ {w} : pc'[b] = pc[b] \/ (pc[b] = "asleep" /\ pc'[b] = "take")
      BY <2>1, Apart DEF Others
    <3>2. QED
      BY <2>2, <3>1 DEF Watching, Asleep
  <2>4. Len(queue) \in Nat
    BY DEF TypeOK
  <2>5. QED
    BY <2>1, <2>3, <2>4, MoreWatch
<1>4. ASSUME NEW m \in Masters,
             \/ DropQueued(m) \/ DropParked(m) \/ Finish(m) \/ PushAndLetGo(m)
             \/ TellWorkers(m) \/ LaunchNoRoom(m) \/ Launched(m) \/ NotQueued(m)
             \/ Awaited(m) \/ Tell(m)
             \/ \E j \in Jobs : Async(m, j) \/ Await(m, j) \/ Awaitable(m, j)
      PROVE  WorkIsWatched'
  <2>1. Others(m) /\ m \in Actors /\ m \notin Workers
    BY <1>4, Apart, DroppedMoves, FinishMoves, LetGoMoves, MasterMoves, QueueItMoves,
       AnswerMoves, AsyncMoves, AwaitMoves, AwaitableMoves
  <2>2. \A b \in Workers : pc'[b] = pc[b] \/ (pc[b] = "asleep" /\ pc'[b] = "take")
    BY <2>1, Apart DEF Others
  <2>3. Watching \subseteq Watching' /\ Asleep' \subseteq Asleep
    BY <2>2 DEF Watching, Asleep
  <2>4. UNCHANGED running /\ (parked' # {} => parked # {})
    BY <1>4 DEF DropQueued, DropParked, Finish, PushAndLetGo, TellWorkers, LaunchNoRoom,
                Launched, NotQueued, Awaited, Tell, Async, Await, Awaitable, poolVars
  <2>5. Len(queue') <= Len(queue)
    <3>1. queue \in Seq(Jobs) /\ Len(queue) \in Nat
      BY DEF TypeOK
    <3>2. CASE DropQueued(m)
      <4>1. queue # <<>> /\ queue' = Tail(queue)
        BY <3>2 DEF DropQueued
      <4>2. Len(Tail(queue)) = Len(queue) - 1
        BY <3>1, <4>1
      <4>3. QED
        BY <3>1, <4>1, <4>2
    <3>3. CASE ~DropQueued(m)
      <4>1. queue' = queue
        BY <1>4, <3>3
           DEF DropParked, Finish, PushAndLetGo, TellWorkers, LaunchNoRoom, Launched,
               NotQueued, Awaited, Tell, Async, Await, Awaitable, poolVars
      <4>2. QED
        BY <3>1, <4>1
    <3>4. QED
      BY <3>2, <3>3
  <2>6. QED
    BY <2>3, <2>4, <2>5, MoreWatch
<1>5. ASSUME NEW m \in Masters, Start(m) \/ Stop(m) \/ LaunchedNone(m) \/ Join(m)
      PROVE  WorkIsWatched'
  <2>1. ~running'
    <3>1. CASE Join(m)
      BY <3>1 DEF Join, poolVars, Crew, Stopping
    <3>2. CASE ~Join(m)
      BY <1>5, <3>2 DEF Start, Stop, LaunchedNone, BeginStop
    <3>3. QED
      BY <3>1, <3>2
  <2>2. QED
    BY <2>1 DEF WorkIsWatched
<1>6. ASSUME NEW m \in Masters, Launch(m)
      PROVE  WorkIsWatched'
  <2>1. Asleep' = {}
    BY <1>6, LaunchCrew DEF Asleep
  <2>2. QED
    BY <2>1 DEF WorkIsWatched
<1>7. ASSUME NEW m \in Masters, LaunchOne(m)
      PROVE  WorkIsWatched'
  <2>1. PICK w \in Workers : /\ pc[w] = "gone" /\ pc'[w] = "take"
                             /\ \A b \in Actors \ {w} : pc'[b] = pc[b]
    BY <1>7, LaunchOneMoves
  <2>2. Watching \subseteq Watching' /\ Asleep' \subseteq Asleep
    BY <2>1, Apart DEF Watching, Asleep
  <2>3. UNCHANGED <<running, queue, parked>> /\ Len(queue) \in Nat
    BY <1>7 DEF LaunchOne, TypeOK
  <2>4. QED
    BY <2>2, <2>3, MoreWatch
<1>8. ASSUME NEW m \in Masters, QueueIt(m)
      PROVE  WorkIsWatched'
  BY <1>8, QueueItWatched
<1>9. ASSUME \/ \E n \in Masters \cup Elsewhere, j \in Jobs :
                     (\E m \in Masters : Share(m, n, j)) \/ DropTask(n, j)
             \/ TimePasses \/ (\E j \in Jobs : Arrives(j)) \/ UNCHANGED vars
      PROVE  WorkIsWatched'
  <2>1. UNCHANGED <<pc, running, queue, parked>>
    BY <1>9 DEF Share, DropTask, TimePasses, Arrives, vars, poolVars
  <2>2. QED
    BY <2>1 DEF WorkIsWatched, Watching, Asleep
<1>10. QED
  BY <1>1, <1>2, <1>3, <1>4, <1>5, <1>6, <1>7, <1>8, <1>9
     DEF Next, WorkerStep, MasterStep, MasterCall

\* While a worker sleeps, others are awake for each job of the queue and for
\* the parked jobs (task.c:512-550), as long as one machine alone starts and
\* stops the pool: with two of them a worker of the old pool may be asleep
\* while the new one is launched.
THEOREM SleepersMissNothing == OneStarter /\ Spec => []WorkIsWatched
<1> DEFINE Inv == TypeOK /\ Crew /\ WorkIsWatched
<1>1. Init => Inv
  <2>1. ASSUME Init
        PROVE  WorkIsWatched
    BY <2>1 DEF Init, WorkIsWatched
  <2>2. QED
    BY <2>1, TypeInit, CrewInit
<1>2. OneStarter /\ Inv /\ [Next]_vars => Inv'
  BY TypeStep, CrewStep, WatchStep
<1>3. QED
  <2>1. Inv => WorkIsWatched
    OBVIOUS
  <2>2. CASE OneStarter
    BY <1>1, <1>2, <2>1, <2>2, PTL DEF Spec
  <2>3. QED
    BY <2>2
=============================================================================
