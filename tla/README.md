# L^ in TLA+

This directory keeps a verification of the L^ implementation (`src/`): TLA+
modules translated from the C sources, configurations for TLC, and proofs for
TLAPS. Eight parts are modelled so far, each the part of its layer where an
order of events, or a combination of cases, nobody wrote a test for does the
damage:

| part | sources | modules |
|---|---|---|
| the incremental collector, with everything a running program does to its heap between two steps of it | `src/gc.c`, `vm.c`, `vm_call.c`, `vm_table.c`, `object.c`, `code.c` | `LhatGc`, `LhatGcProps`, `LhatGcProofs`, `MCLhatGc` |
| the frame stack: blocks with a `finally^`, coroutines, disposal, the queue of dropped coroutines, the end of a run | `src/vm.c`, `vm_call.c`, `vm_internal.h`, `machine.h`, `vm_native.c` | `LhatFrames`, `LhatFramesProps`, `LhatFramesProofs`, `MCLhatFrames` |
| `std.channel` between machines, with the `std.async` waits its takers park on | `stdlib/channel.c`, `async.c`, `task.c` | `LhatChannel`, `LhatChannelProps`, `LhatChannelProofs`, `LhatMailbox`, `MCLhatChannel` |
| `std.task`: the pool of workers, its jobs, `start()` and `stop()` | `stdlib/task.c` | `LhatTask`, `LhatTaskProps`, `LhatTaskProofs`, `MCLhatTask` |
| the unit graph: checking, compiling, reloading and discarding beside machines that run old code | `src/program.c`, `program_require.c`, `vm_host.c`, `vm_machine.c` | `LhatProgram`, `LhatProgramProps`, `LhatProgramProofs`, `MCLhatProgram` |
| the language server: the reader, the queue, the worker, what the editor shows | `lsp/` | `LhatServer`, `LhatServerProps`, `LhatServerProofs`, `MCLhatServer` |
| the debug adapter: machines that stop and go on together, the reader, the end of a session | `dap/adapter.c`, `src/debug.c` | `LhatDebugger`, `LhatDebuggerProps`, `LhatDebuggerProofs`, `MCLhatDebugger` |
| types read twice: by the checker, which narrows, and by the machine, which tests values | `src/type.c`, `check_narrow.c`, `check_stmt.c`, `object.c`, `compile.c` | `LhatTypes`, `LhatNarrow`, `LhatTypesProps`, `LhatTypesProofs`, `MCLhatTypes` |

`PROJECT.json` lists the runs, the lines each definition stands for, the
hazards, the mutants and the theorems. A model-checking run is
`tlc -config gc_heap.cfg MCLhatGc` (the run's name is its `.cfg`, the module is
the `MC` module of its part); a proof run is `tlapm LhatGcProofs.tla`.


## 1. The system

L^ is an embeddable scripting language. A *program* holds loaded modules
(units), compiled to *protos* in *chunks*; a *machine* runs them on one thread
with a heap of its own; the standard library carries values from machine to
machine. Around them stand a language server, a debug adapter and a command
line.

### Components

**Collector** (`src/gc.c`). State: the list of all objects, their colours, the
current white, `gcstate`, the gray list, the place the sweep has reached, the
queue `pending_dispose`. Operations: one step (`single_step`), a full
collection, the two barriers, `hold_pending_disposals`, the cleaning of the
weak references. It is called by the run loop at instruction boundaries and by
the host; it writes the queue the run loop takes from. Hard: the heap changes
between any two steps. Right when nothing reachable is freed, all garbage is in
the end, and a coroutine that owes its cleanups is never lost.

**Heap operations** (`vm.c`, `vm_table.c`, `object.c`, `vm_call.c`,
`vm_machine.c`, `vm_host.c`). State: registers, tables, captured places (open
while their slot lives, then closed), coroutines with their saved registers,
the spare list, the weak caches. Every write of a reference into an object has
to call the right barrier; a `yield^` moves a whole register window into an
object at once.

**Frames, cleanups, coroutines** (`vm.c` run loop, `vm_call.c`). State: the
frame array with each frame's remembered cleanups, `drain_target`, `resume`,
`returning`, `disposing`, `derive`; each coroutine's saved frame; the count
`cleanup_carriers`. Operations: call, tail call, callback from C, comparison,
PUSHCLEANUP/POPCLEANUP/ENDCLEANUP, yield, resume, return, dispose, save, load,
the host's `run` and `gc_collect`. Hard: the queue is served between any two
instructions; a cleanup may itself call, yield, dispose or resume; a run may
fault half way. Right when each block entered has its `finally^` run exactly
once however it is left, and each run ends.

**Bytecode, operators, values** (`vm_hot.h`, `value.c`, `number.c`,
`operators.h`). No state across an instruction. Hard: the integer edges of a
numeric `for^`.

**Tables and members** (`vm_table.c`, `vm_member.c`, `rttype.c`). An array part,
an open-addressed hash part and the machine's weak cache. Right when they agree
with a partial function.

**Checker** (`type.c`, `check*.c`). Two relations between types, conformance and
disjointness, unions, and the walk that infers types and reports. State of the
walk: the scopes, and the list `narrowings` of what tests have established of a
path. Hard: both relations are decided by cases for each pair of kinds, over
types that hold themselves; a narrowing is a claim about a value that may have
changed since. Right when what is believed of a name is true of its value.

**Satisfaction at run time** (`object.c`, `rttype.c`). The same types, lowered to
descriptors and read by other code: does a value satisfy one, does a signature
fit another. Right when it answers as the checker believed it would.

**Compiler** (`compile.c`). A function of the checked tree. Modelled of it: the
shape of a block with a `finally^` (`Block` in `LhatFrames`), and when a `fits^` test
is answered ahead of the run (`Answer` in `LhatNarrow`).

**Lexer, parser, serialiser, formatter** (`lexer.c`, `parser.c`, `serialize.c`,
`format.c`, ...). Functions of their input.

**Program, modules, registry** (`program*.c`, `registry.c`). State: the units and
the stage each has reached, the set a change reaches, retired units kept until
no machine runs them, the process-wide identities of host types and error
kinds. Operations: load, require, invalidate, reload, discard. Hard: cycles of
requires, a reload while old code is running. Right when a retired unit
outlives its last user and a failed load leaves no half-placed unit.

**`std.async`** (`stdlib/async.c`). State: the table of outstanding waits (id,
owner, ready, deadline), one per program, under a lock. Operations: `add_wait`,
`complete` (make ready, from any thread), take the next or a given id, drop.

**`std.channel`** (`stdlib/channel.c`). State: a ring that doubles, the numbers
`sent` and `received`, the list of waits to tell of an arrival, a mutex that
`atomic()` holds across a callback, a condition for those that sleep on their
thread, holds. Operations: push, supply, pop, demand, clear, peek, count,
hasRead, awaitable, take, atomic, named. Hard: the telling happens outside the
lock; two kinds of sleepers; a lock that does not nest.

**`std.task`** (`stdlib/task.c`). State: the queue of jobs, the parked ones, the
workers, `running`; per job its machine, its holds, what came of it. Operations:
start, stop, async, await, awaitable, a worker's turn. Hard: jobs go from queue
to worker to parked and back; stopping while others start; the wait of a job's
end, armed once.

**`std.thread`** (`stdlib/thread.c`). A thread per spawn with a machine of its
own; join, done, awaitable, `join_all`. Hard: the last of wrapper and thread
frees the handle; `join_all` joins with the list's lock held.

**Carrying** (`stdlib/carry.c`). A value becomes a flat graph of nodes and is
rebuilt on another machine; sharing and cycles survive; holds are counted.

**Other standard modules** (`io`, `json`, `lton`, `regex`, `net`, `binary`,
`random`, `math`, `stream`, `load`, `sys`). One call each; no protocol.

**Language server** (`lsp/`). A reader thread and one worker share a queue of
dirty paths (a set, debounced, drained whole) and the workspace's trees. Right
when every dirtied path is checked after its last change, a diagnostic once
published is cleared when it goes, and a shutdown ends the worker.

**Debug adapter** (`src/debug.c`, `dap/`). One reader thread; a machine that
stops parks its thread on the session's condition until the debugger resumes
it. Right when a parked machine is resumed, disconnect releases all of them,
and nobody walks the frames of a machine that runs.

**Ports, just-in-time compiler, command line, bindings** (`port/`, `jit/`,
`cli/`, `bindings/`). Thin wrappers, generated stencils and callers.

### How they meet

The collector meets the program at instruction boundaries (`LhatGc` interleaves
the two there). It meets the frame stack in one place, `pending_dispose`: the
collector puts dropped coroutines on it, the run loop takes them off.
`LhatFrames` keeps of the collector exactly that moment (`HoldBack`), and
`LhatGc` keeps of the frames exactly which coroutines are on one (`onFrame`,
`disposing`). Machines meet in `std.channel` and `std.async` alone; a machine is
there one of the `Machines`, and a job is the machine that drives it. `LhatTask`
is the same meeting seen from the pool: of `std.async` it keeps that the wait of a
parked job is armed or ready and may become ready at any moment; `LhatChannel`
keeps of the pool that a parked job is asked after again (`LookAgain`) or dropped.
The program meets its machines when a unit is required, forgotten or discarded:
`LhatProgram` keeps of a machine the tables in its registry and the bodies something
on it holds. The language server meets the program through one check at a time
(`LhatServer` keeps of a check what texts it read). The debug adapter meets
machines at the line hook and where they are born and die. The checker and the
machine meet in types, and `LhatNarrow` runs the two beside each other.


## 2. The collector: `LhatGc`

*State.* `heap`, `refs`, `color`, `white`, `gcstate`, `gray`, `unswept` are the
fields of the same names (`m->objects`, the header's colour, `m->sweep`). A
chunk's constants are in `chunk`: they are born black, no sweep visits them,
and they join `heap` when the sweep frees the body that owns them. `stack`
stands for what any register, answer or host root holds; `open`, `onFrame`,
`pending` and `spare` are the other roots the code marks one by one. `atomicAt`
says how far `atomic` has got: its marking, its holding back of coroutines with
the second marking, and the swap of the whites are separate steps of the model,
so that the states `check_invariant` asks about exist; the program cannot run
between them.

*The gray list* is threaded through the objects. An object pushed while it is
already on it closes the list into a ring; `Pushed` then lets any part of the
list be lost, which is what the traversal of a ring may amount to.

*Actions.* `Program` has one action per operation that changes what refers to
what: `NewTable`, `TableSet`, `TableRemove`, `Load`, `Drop`, `Capture`,
`CaptureAgain`, `CloseUpvalue`, `SetUpval`, `NewCoroutine`, `RemakeSpare`,
`GiveSpare`, `EnterFrame`, `Resume`, `Yield`, `Finish`, `Dispose`,
`TakePending`, `WeakPut`, `WeakGet`, `WeakForget`, `NewScript`, `CollectCall`,
`CollectReturn`. `Collector` has `StartCycle`, `PropagateOne`, the three parts
of `atomic`, and a sweep of one object at a time. Strings, arrays and the other
kinds are to the collector what a table is and are not told apart. When a step
is due depends on sizes; the model may take one at any boundary, which allows
every pacing.

*Program families.* Three constants say what the programs considered do:
`MaySuspendCaptured` (a `yield^` while a closure shares a local of the body),
`MayTouchCarried` (that closure written through or dropped before the resume),
`MayRemakeMarked` (a spare coroutine remade while a marking is under way). They
exist because the code breaks its own rules for the last two (section 11); the
passing runs say exactly which programs their results are about.

*Properties.* `NoDangling` (no root and no reference of a kept object names
freed memory or what the sweep under way will free), `TriColour` (gc.h's
invariant, and the gray list is exactly the gray objects), `CheckInvariant`
(what `check_invariant` asserts), `WeakIsLive`, `CarriedIsLive`,
`OnlyGarbageFreed` (judged against reachability, defined apart from the marking),
`CollectIsComplete` (what was garbage at the call of a full collection is gone
at its answer), `NoCleanupLost`, `CollectReturns`.

*Runs.*

| run | instance | shows |
|---|---|---|
| `gc_heap` | two tables, a script with one constant, weak references to it | everything but coroutines, with `CollectReturns` under fairness |
| `gc_coroutines` | a table, a captured place, a coroutine that may suspend with captures open, a spare list of one | coroutines in every state at every point of a cycle, the two barriers of a `yield^`, and `check_invariant` |
| `gc_carried` | a captured place and a coroutine | a counterexample (section 11) |

Two tables give a black parent with a white child, chains and cycles of two;
each object may hold one reference, which is what one missed barrier needs. One
coroutine and one captured place give every state of suspension against every
phase. Every mutation listed in `PROJECT.json` (a barrier left out, roots
not marked again, one cycle in place of two, the sweep not repainting, ...) is
found within these bounds, and the theorems below have no bounds at all.

*Fairness.* `FairSpec` asks that the collector goes on while a full collection
is under way. `lhat_gc_collect` is a loop on one thread with nothing else
running, so that is what the code does. Nothing is asked of incremental steps.

### What is proved of it (`LhatGcProofs`)

`TypeCorrect` (`Spec => []TypeOK`) is about every program. The rest is about every heap,
every bound and every program that is *careful*
(`Careful == (MaySuspendCaptured => ~MayTouchCarried) /\ ~MayRemakeMarked`): it may
suspend a body whose locals closures share, but leaves those captures alone until
the resume. What the others meet is in section 11.

* `NothingReadIsFreed` (`NoDangling`), `WeakNeverDangles` (`WeakIsLive`),
  `CarriedStaysLive` (`CarriedIsLive`), `MarkingEndsInOrder` (`CheckInvariant`);
* `NothingReachableIsFreed` (`OnlyGarbageFreed`) and `EveryCleanupIsHeld`
  (`NoCleanupLost`), as action properties;
* `FullCollectionIsComplete` (`CollectIsComplete`);
* `MarkingInOrder` (`TriColour`), which needs `~MaySuspendCaptured` as well: a black
  capture that travels may have a white value until its coroutine is scanned, so
  of the other programs the rule holds at the end of the marking only, where
  `check_invariant` asks.

None of the invariants is inductive alone: that the sweep frees only garbage
rests on what held when the whites were swapped, and that on the marking. `IInv`
says what is true in each phase: `AtPause` (all of one white, nothing gray),
`AtPropagate` (tri-colour and the gray list), `AtAtomic` (no root is white),
`AtSweep` (nothing gray, and what the sweep has passed is of the current white).
`RootsSafe` and `RefsSafe` carry the weight: `Safe`, what is allocated and not
doomed, holds every root, every weak reference and everything a kept object refers
to, so what is reachable lies in it. `ChunksApart` says what a chunk owns.

*Captures that travel.* While a coroutine is suspended the value of a captured
local lies in its saved registers, and marking the capture does not mark it. `Must(o)` is what
marking `o` answers for: its references, or, for a capture that travels, its
coroutine. With `Must` in place of `Children` the tri-colour rule is kept by every step, and
at the end of the marking, when nothing is gray and the coroutine is black, the two say
the same. `Carrying` is why: a capture travels with one coroutine, whose registers
hold its value (`CarriedApart`), and a coroutine with captures on its list is
suspended, on no frame and not spare (`FramesAgree`).

*Completeness.* A full collection finishes the cycle it finds and runs a second.
`Gathered` is about the second: what is marked is reachable from the roots,
and once the whites are swapped what is kept is reachable. It is proved
with a reachability defined apart from the marking (`ReachableFrom`, the least closed
set), from `StillReached` (a marking step reaches only what was reachable) and
`MarkedIsReached`.

The actions of the program that write no object share one lemma (most of them), the ones
that allocate another, those on carried captures `CarryStep`; each collector step has its
own. `NoCleanupLost` adds the invariant `CleanupsHeld`. The assumptions are those declared
in `LhatGc` (`KindsAssumption`, `BoundsAssumption`); TLC evaluates them in every run.


## 3. The frames: `LhatFrames`

*State.* Programs are small bytecode programs with the opcodes that touch frames
and cleanups (`code`). `frames`, `depth` are the frame array and its count; a
popped frame is left behind in the array as in the code, and what an entry does not
write stays the last frame's. `runs` are the activations of `run_frames_loop`,
nested through callbacks and comparisons. `ctl` is where the loop stands: at the
boundary between two instructions, at its label `drain`, or with the host.
Registers are the coroutines they name: `holds`, and `stale` for dead slots in a
window (`WideCallers`: a caller's window reaches over the popped frame's). `entered`
and `ran` are history: how often each cleanup was remembered and run.

*Actions.* `CollectorStep` (the moment coroutines are held back), `TakePending`
(serve the queue), `LeaveEnding`, `Execute` (one disjunct per opcode),
`RunCleanup`, `GoOn`, `SweepAtEnd`, `PopFrame`; and of the host `HostRun`,
`HostCollect`, `HostDispose`, `HostReclaim`. A fault unwinds nothing: it ends
the run where it stands.

*Properties.* `CarriersAgree` (`cleanup_carriers` is what it counts, on every path
through five pieces of code), `NeverTwice`, `EveryExit` (every block entered has
run its `finally^` once its coroutine is done), `InnerFirst` (cleanups run from the
inside out: once those of a block have all run, so have those of the blocks inside it and of
the subroutines it called, `02-syntax.md:2121` and `:2203`), `DroppedIsRun` (a run does not end with a
dropped coroutine that still owes), `RunEnds`.

*Runs.* `frames_exits` is every main program of three operations out of {resume,
dispose, drop, collect, call} against five bodies that leave their blocks in
every way, helpers with blocks of their own, and a second coroutine made by the
first or by a helper; `frames_any` adds comparisons, callbacks, tail calls, save and
load, panics, a frame stack of four and wide callers, for the properties that
hold of all programs. Three operations are enough to suspend, drop and collect,
or to save, resume and load, in any order; two cleanups a frame give nesting
and sequence. `MaxCount` only stops the history counters, `MaxCollects` bounds the
collections the host asks for. `frames_exits` has a stack too deep to fill,
`frames_any` one that fills.

`NeverTwice`, `DroppedIsRun` and `RunEnds` are statements about the programs of
`frames_exits`: section 11 tells which others break them. A subroutine and a
coroutine are owners of one `holds`, so no program calls a subroutine from
within itself.

*Deadlock* is not looked for (`CHECK_DEADLOCK FALSE`): the host may run its one
program, collect as often as it likes and stop.

*Fairness.* `WF_vars(Loop)`: the run loop is one thread of C and goes on to the
next instruction. The host and the collector owe nothing.

### What is proved of it (`LhatFramesProofs`)

For any number of coroutines and subroutines, any capacity of the stack and any set of
programs that are `WellLaid`: what `compile_cleanup` lays out (an instruction goes
on to one of its own body, control comes into a `finally^` by the drain alone), and
no `finally^` with a `yield^` in it, which `02-syntax.md` asks of a program and nothing looks
at. `ProgramsAreLaidOut` makes TLC say that the programs of both runs are such.

* `FramesAreTyped` (`TypeOK`) and `CarriersAreCounted` (`CarriersAgree`), where no `load()` is asked
  of a coroutine that a frame runs (`LoadsOffStack`). The invariant is `IInv`. `StackInv`: every
  frame stands in its own body and, inside a cleanup, knows where to go on; a
  suspended coroutine stands in none; the runs are nested as their bases say; a run
  that ends has returned. `CoInv`: whoever has a frame runs or is done, and a
  second frame of one coroutine is a disposal's, which never suspends. Without
  it a `Yield` could count a carrier twice.
* `CleanupsRunOnce` (`NeverTwice`) and `EveryBlockIsLeft` (`EveryExit`), where nothing is loaded and
  the queue is served for no coroutine that runs again (`TakesDropped`). The invariant is
  `OnceInv`. `Once`: a coroutine has one frame, and is done with on the stack only while
  the last frame of a run leaves (`Leaving`). `CoTally`: a cleanup was remembered as often
  as it was run and still stands, on the frame while the coroutine runs and in
  `saved` otherwise. `ProtoTally`: the same of a subroutine, as a bound, since a fault leaves
  frames behind. `StepKinds` sorts the steps into nine kinds, and each part is kept by
  each kind.

`TakesDropped` cannot be left out: `ResumingPrograms` of section 11 are laid out well, break it, and
then break `NeverTwice`. `load()` is left out there because a state loaded twice owes
its cleanups twice, as it should. TLC confirms `LoadsOffStack` on `frames_any` and `TakesDropped` on
`frames_exits`. The assumption is `FramesAssumption`.


## 4. The channel: `LhatChannel`, `LhatMailbox`

*State.* `ring`, `capacity`, `head`, `count`, `sent`, `received`, `holds`,
`waiters` are the fields of `Channel`. `atomic_owner` is also the mutex: every
critical section but the body of `atomic()` is one step, so between steps the
lock is held only there. `waits` is `std.async`'s table. Each machine has a place
`pc` (idle, telling, one of the loops of supply and demand, the states of a
`take()`, yielded, parked, letting go), `telling` (the waits a push took off the list
and has yet to make ready, outside the lock), `walk` (the coroutine of `take()`,
which has a hold of its own) and its wrapper. A value is the number its push
answered.

*Actions.* The calls `Push`, `Supply`, `Pop`, `Demand`, `Clear`, `Awaitable`,
`Atomic`/`AtomicEnd`, `Take`; what follows them: `Tell`, `SupplyLook`,
`DemandLook`, `Retain`, `TakeStep`; the worker's `AskOnce` (`after_turn`: ask for
the id before parking), `LookAgain` (`move_ready`), `DropJob` (`stop_pool`); and
`DropWrapper`, `DropWalk`, `LetGo`, the last of which tells the waiting and clears.
A wait loop's turn is one step, since the lock is let go only in its sleep; the
sleep is 20 milliseconds long at most (`HOST_PAUSE_MS`), so a lost signal costs time only and the loop
looks again whether or not it is woken.

*Abstract specification.* `LhatMailbox` is what `channel.h` promises: numbered
values that leave in order and at most once, and a `supply()` answered by what
became of its own value. `Mailbox` in `LhatChannelProps` is the refinement: the
mailbox's queue is `Contents`, the ring read from `head`; `owed` is the number of a
machine that stands in `supply()`.

*Properties.* `NumbersInOrder`, `NobodyWaitsBesideAValue`, `UsedWhileHeld`; `KeepsThePromise` (the refinement, with the liveness that a
supply whose value is gone is answered), `ParkedIsTold`, `DemandIsMet`.

*Run.* `channel_promise` has two machines and four values
through a ring that starts with one slot, so it grows twice, also while wrapped,
under fairness. The code's first ring has eight slots: the number matters to
nothing but memory, and `NumbersStay` is proved for every one. `MaxSent`,
`MaxWaits` (the table has no room after it, as when memory is short) and
`MaxCalls` bound the length of a history; six calls are a take that parks, a
push that tells it, another that wraps, and as many again. `MaySupplyParked`
keeps `supply()` from being called beside parked jobs and `MayHoldInside` keeps
`take()`, `dispose()` and collections of a wrapper out of `atomic()`: section 11.

*Deadlock* is not looked for: a `demand()` may wait for a value nobody sends.

*Fairness.* Weak fairness of each machine's steps under way: the operating
system schedules every thread, and a critical section is short. Nobody has to
begin a call. With calls bounded, contention for the lock ends, so weak fairness
is enough; the code has no more to offer than the mutex's own.

### What is proved of it (`LhatChannelProofs`)

For any number of machines, any first capacity and any bounds:

* `NumbersStay` (`NumbersInOrder`): through pushes, growth while wrapped, pops
  and clears. Invariant `QueueInv`: the slot `(head + i) % capacity` holds
  `received + 1 + i`; the arithmetic of the ring is in `ModSmall`, `ModWrap` and
  `Apart`.
* `ChannelTypes` (`TypeOK`), `NobodyForgotten` (`EveryWaitIsListed`), `UsedHeld`
  (`UsedWhileHeld`), from the one inductive invariant `IInv`: `QueueInv`,
  `MachineTypes`, `TellingRight` (a machine tells exactly while it has waits to
  tell), `OwedRight`, `PlacesRight` (what a place says of its holds),
  `HoldsCounted` (`holds` is the number of wrappers and of walks),
  `EveryWaitIsListed`. `HoldsCounted` is why the channel is freed under nobody.
* `NobodyBesideAValue` (`NobodyWaitsBesideAValue`), assuming `~MaySupplyParked`:
  a value in the channel means an empty list.
* `NeverBreaksThePromise`: `Spec => Mailbox!Safety`, every step maps to a step
  of the mailbox or none. That the answer does come is in `KeepsThePromise` and
  stays with TLC.

The assumption is `ChannelAssumption` of `LhatChannel`.


## 5. The pool: `LhatTask`

*State.* `running`, `queue`, `parked`, `threads` are the fields of the module's state
in `task.c`; `looked` says that the parked jobs were looked over a moment ago (the
code's nap between two looks). Each worker and each machine that calls the module
(a *master*) has a place `pc` and a job `has` in hand. Of a job the model keeps what
its next turn will do (`move`), whether it has finished, the wait it yielded,
the wait `awaitable()` armed, its holds and the machines with a `Task` value for it. A
section under the pool's lock, one under a task's lock, and one turn are a step
each.

*Actions.* A worker: `Take` (queue first, then the parked ones, then a nap, then
the condition), `Leave`, `NapOver`, `WakeByItself` (the condition may wake
anybody), `Turn` with what `after_turn` makes of it, `End`, `File`, `PushAndLetGo`. A
master: `Start` with the launching of each thread, which may be refused, `Stop`
with the dropping of the queue, of the parked set, the telling and the joins,
`Async`, `Await`, `Awaitable`, `Share`, `DropTask`. Outside: `Arrives` (a wait becomes
ready) and `TimePasses`.

*Properties.* `JobIsSomewhere` (in the queue, parked or out with one, and lost
nowhere), `HeldWhileUsed` (the count of holds is what it counts), `WorkIsWatched` (a
worker sleeps on the condition only while another watches what nothing
signals), `EndsOrWaits` (no runnable job starves, also beside jobs that run for
ever), `StopAnswers` (`stop()` and `start()` come back).

*Run.* `task_pool`: two workers, a machine that starts the pool twice, a second
machine that only holds a `Task`, two jobs of which one never ends, allocations and
threads that may be refused. Two workers are the least with one asleep
while another is busy; two jobs the least with one parked and one queued.

*Fairness.* Each worker's and each master's step under way, and time. Nobody has
to call anything, and nothing has to arrive.

Left out: a job's value and fault text, and whose wait a wait is.

### What is proved of it (`LhatTaskProofs`)

For any number of workers, machines and jobs, and whatever the bounds:

* `TypeCorrect`; `NeverLostNorCopied` (`JobIsSomewhere`); `HeldByItsUsers`
  (`HeldWhileUsed`); `PushedWhenDone` (`PushedOnceDone`: whoever asked for a job's end is
  told, whichever of the end and the question comes first). All of them without a
  hypothesis, so also where several machines start and stop the pool at once;
* `SleepersMissNothing` (`WorkIsWatched`), where one machine alone starts and stops the
  pool (`OneStarter`). With two it is false, for the reason section 11 gives: a
  `stop()` that answers too early leaves old workers beside a pool that is started anew.

`PoolInv` is inductive: `OnePlace` (queue, parked set and hands are disjoint, and
no two hands hold one job), `Unmade` (a job not yet made is nowhere), `HoldsAgree`
(the holds are the `Task` values and one for the pool). The first two are what the
count in `JobIsSomewhere` cannot say of a job between its making and its queueing: a
master has it in hand (`Out`) while the pool has no hold of it yet. `PushInv` adds to
`PushedOnceDone` that whoever owes a push stands where it is made. `Crew` says
whose the workers are: of the running pool, or of a `stop()` that has yet to join them, so that
a pool that is launched starts with nobody asleep. `WorkIsWatched` is kept by
counting: each step that puts a job in the queue wakes one or comes from a worker
about to look. The assumption is `TaskAssumption` of `LhatTask`.


## 6. The unit graph: `LhatProgram`

*State.* `program` is one record with the units' fields: state, text, errors,
edges, body; `said`, the program's own diagnostics, each with its path; `named`, the units
whose module name is known; `made` remembers for each body what it was checked from and its unit
table. `modules` is each machine's registry, `kept` the bodies something on it still
runs, `scripts` the loaded scripts. Every entry of `program_require.c` holds the
program's lock for its whole length and is one step; the functions below it are
operators that take the record and answer it.

*Actions.* The host's: `Write` (a text changes), `Check`, `Compile`, `Run`, `RunOn`
(a `require^` on a machine), `Reload` with all its stages, or its parts one by one
(`Invalidate`, `Forget`, `Discard`), `Load` and `RunScript`, `Keep` and `LetGo`.

*Properties.* `NothingFreedIsNamed` (no freed body can be come to from a unit, a
machine, a script or the table of any of these), `EachWorldIsWhole` (old bodies
reach only bodies made of what they were checked against, current ones only
current ones), `EveryFixTakes` (no error outlives its mending, compared with a
fresh check of the same texts, but that of a collision).

*Collisions.* A unit named under another may not stand at a name the other publishes.
Only `lhat_program_check` asks (`ReportColliding`, of all units there are), and it
blames the unit below, while a reload clears what was said of the paths it retires. So
a collision outlives its mending, and a program with one can be built: `EveryCollisionEnds` and
`NoCollisionIsBuilt` say what the code does not keep (section 11), and `EveryFixTakes`
speaks of the other errors, in the presence of collisions. The constants `Under` and `Publishes`
say who is named under whom and which texts take the name.

*Run.* `program_reload`: a root, a library and a leaf, which may be edited three
times to require more or less, not to check, not to compile, not to fit, to take the name
the leaf stands at, or to be unreadable; two machines; hosts that use `lhat_reload`, its parts, or
scripts. Three units give a requirement two steps away, three edits break, mend
and break again. A host with scripts and reloads both is `program_scripts`; what becomes of
a library that comes to require the root is told in section 11. *Deadlock* is not looked
for: a host may stop.

*Recursion.* `check_path` calls itself for what a text requires, a body runs the bodies
it requires, and a loop makes each turn of the one before. `Folded`, `Checker` and `Runner` are
these, as functions by recursion over a number: the turn of a loop, or how many
calls deep one may still go. `Checker` may go one deeper than there are paths and `Runner` as
deep as there are bodies, which is no limit of the code's: each call of the first
marks a unit that was not being checked, and a body deeper than that requires itself.

### What is proved of it (`LhatProgramProofs`)

For any units, texts, requirements, machines and bounds, and a host whose session
has no reloads if it has scripts (`ScriptsAlone`):

* `AlwaysSteady` (the invariant) and `AlwaysNothingFreedIsNamed`, without another hypothesis;
* `AlwaysEachWorldIsWhole`, where the session has no scripts, or no unit requires itself
  over others with any version of the texts (`Acyclic`);
* `AlwaysEveryFixTakes`, where `Acyclic`: of every error but a collision, whatever
  collides.

All hypotheses are true of `program_reload`, whose sessions are `whole`, `apart` and `scripts` and
whose texts have no cycle; they allow a host that reloads in both ways as well.
None can be left out: `program_scripts` breaks the first property without `ScriptsAlone`, a
cycle that is mended the third without `Acyclic`, and scripts beside a cycle the second
(section 11).

*Argument.* `Steady` is inductive. Of the record it says (`Whole`) that no unit is left
`checking` (`Shaped`); that a unit's body is its own, made of what the unit was checked
from, with a table of current bodies only, and that what a waiting body answers is
current or waits itself (`Bodied`); that each body was made of all its table's bodies
were (`Sourced`); that a unit checked has an edge to all its text requires, unless the
compiler stopped in it or a cycle was refused, and, where there are no cycles, an error
only for a reason that still stands (`Judged`, `SaidOf`). Of the machines it says (`HeldLive`) that they hold what is current or waits, so that a
discard which finds nothing waiting held frees nothing anybody comes to: a table
that named a waiting body would be a waiting body's, or a current one's.

`Whole` is not kept by the calls inside an entry, only by the entry. What a nested
check keeps is `Checked`: a unit is as it was, those being checked among them, or it was
not settled before and now is, with a text and a judgement of its own. `CheckerSound` proves
it for every depth, by an induction over the number of units that are not being
checked; a loop keeps what each turn keeps (`FoldedHolds`, `FoldedIn`). The induction is over Nat, as the
least number a set lacks (`Induct`), since the library's own theorems cannot be used here.
`ReachingClosed` says of `reaching` that what it leaves has no edge into what it takes,
so that a body that is left answers none that is retired. `AlwaysEveryFixTakes` needs the
converse too: an error has a cause now, and a fresh check would meet the same one. The
assumption is `ProgramAssumption` of `LhatProgram`.


## 7. The language server: `LhatServer`

*State.* The reader's: `documents`, `marking` (a changed path it has yet to mark),
`should_exit`. The queue's: `dirty`, `shutdown`. The worker's: where it stands, what
its debounce saw, its batch. The workspace's: the projects with their trees. And
what the editor has: `shown`, `tokens`. Whether the client takes requests to refresh
(`semantic_tokens_refresh_supported`) is part of the `session`. A diagnostic is what it was derived from,
the texts of a file and of all it requires, so that stale is told from current.

*Actions.* The reader: `Initialized`, `Edit`, `Save`, `MarkDirty`, `Ask`, `Exit`. The worker:
`Wait`, `Slice` (one wait of the debounce), `Drain`, `Rediscover`, `RecheckAll`, `Recheck`, `Publish`. A check
reads its texts in one step: what changes meanwhile is marked afterwards and
checked again. `Publish` asks a client for its tokens again only where it said it takes
such requests (`worker.c:95`); another is sent nothing and keeps what it has.

*Properties.* `QuietMeansCurrent` (once the worker sleeps and nothing is on its
way, the editor shows exactly what the present texts give), `QuietMeansRefreshed`
(and, where it takes requests to refresh, holds no semantic tokens made from older texts;
nothing is promised to one that does not), `Settles` (it does become
quiet, and an exit ends the worker).

*Run.* `server_edits`: two units and a data file of one folder, a unit outside that is not
on the disk, a configuration that leaves files out; three edits or
saves, one request for tokens. Three edits fall before, during and after a
check. A session edits the configuration or the loose units, not both (section 11);
one has neither, and its client takes no requests to refresh.

*Fairness.* The worker's thread runs, and a handler that has changed a text goes
on to mark it. The editor owes nothing.

### What is proved of it (`LhatServerProofs`)

For any files, any texts and configuration, whatever requires what, any number of
edits and requests:

* `ServerIsTyped`, and `TokensAreCurrent` (`QuietMeansRefreshed`: of the clients that take
  requests to refresh), for any files and sessions;
* `ShownIsCurrent` (`QuietMeansCurrent`), for constants with `OneOrTheOther` (no session
  edits both the configuration and the loose units), `OutsideIsNew` (files outside the
  folder come with the editor) and `OutsideRequires` (of the folder they require
  units only, none that is left out). The run evaluates all three of its own
  constants; section 11 tells what happens without the first and the last.

*Argument.* What a check comes to is the least set that holds its roots and what
its loaded units require, so no induction is needed to reason about it: a tree
that agrees with the present texts wherever it has one reaches the same files
(`ReachedAgrees`). The invariant says that each tree is such a least set (`TreesWhole`),
differs from the present texts only where a change is pending (`Fresh`: in the
queue, in the worker's batch, or changed and about to be marked), that the roots
are each project's own (`RootsOwn`) and lack only what is pending (`RootsComplete`),
and that between two rounds the editor has what the last one said
(`ShownOfRound`, `TokensOfRound`). A quiet server has nothing pending, and then the trees
are what the present texts give. `Kept` says what a session may have touched, which
`RootsComplete` needs where the projects are made anew. The assumption is
`ServerAssumption` of `LhatServer`.


## 8. The debug adapter: `LhatDebugger`

*State.* `threads`, `stopping`, `pauseAll`, `ended`, `detached`, `vars` of the session;
`at` and `stepping` of each machine; `asleep`, who waits on the one condition; where
the host and the reader stand.

*Actions.* `Hook` (a line, a host call or a fault; parks or leaves), `Wake`,
`Finish`, `Born`, `Dispose`, `Dying`; of the reader `Continue`, `StepIn`, `Pause`,
`Variables`, `Disconnect`, `Hold`, `HoldOn`; of the host `BeginEnd`, `EndWait`, `Close`,
`BeginDetach`, `DetachWait`, `Rebind`. Whether a breakpoint stands at a line is a free
choice.

*Properties.* `HandedOutIsParked`, `StandsStill` (nobody goes on while the debugger
believes all stopped), `StopsAndGoesOn` (everybody stops, everybody goes on),
`HostGoesOn` (the end of a session and the detaching return), `FreedUnderNobody`.

*Run.* `debugger`: a main machine and two workers, three places for threads, two
runs of the host. Three machines let one park, one be let go and one be born at
once. Three constants, and `Idle`, keep out what the code does not survive (section 11).

*Fairness.* A machine comes to a line or ends its run, a woken thread gets the
lock, the reader and the host go on with what they have begun. The debugger owes
nothing.

### What is proved of it (`LhatDebuggerProofs`)

For any number of machines, of places for threads and of runs of the host:

* `TypeCorrect`, and `NobodyGoesOn` (`StandsStill`), which rests on `MainLeft`: the
  host ends a run only once its main machine has left it;
* `HandedOutStaysParked` (`HandedOutIsParked`), where variables are asked for during a stop
  only (`~MayAskWhileGoing`). Invariant `HandedOut`: references are out only while the
  session is stopping, and a host between two runs has taken them all back;
* `FreedAlone` (`FreedUnderNobody`), where nobody is born late and the list has a
  place for each machine (`Roomy`). Invariant `Listed`: whoever may still come to the session's
  lock is on its list, main included, until the list is given up.

Each hypothesis is a constant of the model whose other value section 11 shows to
break the property. The assumption is `DebuggerAssumption` of `LhatDebugger`.


## 9. Types: `LhatTypes`, `LhatNarrow`

*Two readings.* `LhatTypes` has the checker's relations (`Conforming`, `Apart`, from
`type.c`), the machine's (`Holding`, with `RtFits` for signatures, from `object.c`)
and the compiler's (`Settlement`, `FitsApart`, from `compile.c`), each translated
from its own code. A type is a name of the constant `Decl`, so that it may hold
itself; the walks remember the pairs open above them as the code does. The
relations are recursive functions, no `RECURSIVE` operators.

*State.* `LhatNarrow` follows one name: its declared type `seat`, the `value` it holds,
`facts`, the checker's list of narrowings (each the arms that are left, or
emptied), and the branches and loops `open` around it.

*Actions.* The program is chosen as it runs: a step is a piece of text the
checker has read and the machine now runs. `EnterBranch`, `EnterElse`, `PassBy` (an
`if^` without an `else`, whose clauses leave or not), `EndBranch`, `EnterLoop` (a `while^` whose
condition holds, or an `until^` whose condition does not) and `EnterCounted`, `NextTurn`, `EndLoop`, `Write`, `Move` (bind another name, and follow
that). Text that is stepped over may have written the name, which the checker
has read all the same (`Read`).

*Properties.* `KnownHolds` (the value satisfies an arm the checker believes left),
`SettledTestsAgree` (a test answered ahead of the run, or turned into a comparison
with `nil^`, answers what the machine would), `MovesChain` (a value that may go
from one name to a second and on to a third could have gone there at once).

*Run.* `types`: about fifty types, recursive ones, unions, error sets, enums,
signatures, coroutines, host objects and host values among them, 26 values, 19
declared types and 21 tests, seven of which loops ask too (`LoopTests`); one fact from before, then one branch or loop.
Narrowings only meet through what stands on top of them, and each step may be
followed by a move, so chains get longer than what is open. `CHECK_DEADLOCK` is
off: a name nothing else may take can be stuck. `MayWriteInLoops = FALSE` keeps out
what section 11 tells of. `MCLhatTypes` also has two assumptions, which TLC evaluates
before the run: see below.

*What is proved of it* (`LhatTypesProofs`). `AlwaysKnownHolds` and
`AlwaysSettledTestsAgree`: `KnownHolds` and `SettledTestsAgree` for every universe of types
and values, every set of declared types and tests (`LoopTestsAssumption`: what a loop asks is
one of them), and branches and loops nested to
any depth, under `Sound(lists)` for some set of lists of arms:

* `EachTestIsSound`: one test, of a list that is true of the value, is answered as the
  machine would, and what it leaves is in the set and true of the value;
* `EachMoveIsSound`: a declared type is in the set, and a value is only put, or handed
  on, where the type is true of it;
* no loop writes a name that was narrowed around it (`~MayWriteInLoops`), without which
  the theorem is false (section 11).

The first two are about one step and mention no branch and no loop. The run's
universe has them: `MCLists` is what any number of tests leaves of its declared types,
and the assumptions of `MCLhatTypes` say they hold of it. So that run's answer does
not rest on `MaxOpen = 1`. They are themselves not proved: the two readings of a type are
recursions over what types are made of, and they are false of the types section 11 lists.

*Argument.* `Believed` is inductive: every narrowing on the list is empty or in the
set and true of the value; every loop under way keeps such a list for its next turn, as
long as the place its end pops back to; and these places never decrease from a block
to the ones inside it (`Nested`). A test appends what `EachTestIsSound` allows
(`PushCarries`), an end cuts back to a place all outer blocks stay below (`Closed`),
and a write empties the list; the lists its loops keep said no more than the declaration,
which is true of the new value too (`WriteBelieved`). What is known is the latest
narrowing that is not empty (`KnownCarries`, from `GreatestIn`), so it is true.

Left out: inference, type arguments, delegates and bases of written structures,
the open slots of coroutine types, tuples' folding, `excludes_error`, paths through
members, bounds of numbers, the clauses of a loop, `catch^` arms, `finally^`, bodies of
closures. Types kept out of the seats and tests because the two readings disagree on
them are listed in section 11.


## 10. What is checked, what is proved, what is neither

Proved for every instance, under the hypotheses its section names:

* of the collector every property but `CollectReturns`;
* of the channel `NumbersInOrder`, `UsedWhileHeld`, `NobodyWaitsBesideAValue`, and by
  theorem alone `EveryWaitIsListed` and the safety of the refinement;
* of the pool `JobIsSomewhere`, `HeldWhileUsed`, `WorkIsWatched`, and by theorem alone
  `PushedOnceDone`;
* of the debugger `HandedOutIsParked`, `StandsStill`, `FreedUnderNobody`;
* of the frames `CarriersAgree`, `NeverTwice`, `EveryExit`;
* of the server `QuietMeansCurrent` and `QuietMeansRefreshed`;
* of the unit graph `NothingFreedIsNamed`, `EachWorldIsWhole` and `EveryFixTakes`;
* of the types `KnownHolds` and `SettledTestsAgree`, from what one test and one move do;
* of the first six the types of all variables (`TypeOK`, which no run lists), and of the
  unit graph those of the record and of what names a body of it.

The inductive invariants were checked by TLC on the runs' instances before they were
proved.

Only model-checked:

* everything with liveness (`CollectReturns`, `RunEnds`, `ParkedIsTold`, `DemandIsMet`, the
  fair half of `KeepsThePromise`, `EndsOrWaits`, `StopAnswers`, `Settles`,
  `StopsAndGoesOn`, `HostGoesOn`), which the prover does not reach;
* of the frames `InnerFirst`, and `DroppedIsRun`, which is false of some programs (section 11)
  and holds of the families the run has: what sets them apart is what a window
  reaches, and a hypothesis that said so would say the property again;
* of the types `MovesChain` and the soundness of one test and one move: functions
  of the types, which want an induction over what types are made of.

Not modelled, and why: the parts that are functions of their input (lexer,
parser, inference, code generation, serialiser, formatter); input and output; the ports
and the just-in-time compiler, whose contract is that of what they wrap;
`std.thread` and `carry.c` (planned). Within
the modelled parts: sizes and pacing of the collector; cutting a run into slices
(planned); paths that run out of memory, but for a table of waits that is full
and the pool's; `std.channel`'s table of names, its type check, its plain reads and the
debugger's pause; `std.async`'s timers and program-side `wait`; binary units,
reflection, annotations and host registration; nested projects and the
requests of the server that only read; evaluating expressions in the debugger.


## 11. Where the code and its own words differ

With a run that shows it:

* `gc_carried`: a captured place whose closure is dropped while the coroutine it
  travels with is suspended is freed and then read by the resume (`gc.c:140`,
  `vm_call.c:15`).
* `program_scripts`: a loaded script that no machine holds at the moment still names
  the bodies it was compiled against; the discard frees them and the next run of
  the script reads freed memory (`program_require.c:936`, against
  `lhat/program.h:164`).

Reproducible by changing constants or the property of a run.

*Collector* (`gc_coroutines`).

* `Tables = {}`, `Upvalues = {}`, `MayRemakeMarked = TRUE`, `TriColour`: a spare coroutine remade in mid marking may be
  pushed on the gray list a second time (`vm_call.c:688`, against `gc.c:26`).
* `MayTouchCarried = TRUE`, `CheckInvariant`: a write through a capture that travels
  with a suspended coroutine has no barrier of that coroutine's (`vm.c:1355`).

*Frames* (`frames_exits`, with other `Programs`).

* `ResumingPrograms`, `NeverTwice`: a queued coroutine that another one's cleanup
  resumed to its end is entered again and its cleanups run twice (`vm.c:945`,
  against `vm.c:2457`).
* `NestedPrograms`, `RunEnds`: a `finally^` with a block that has one of its own never
  ends; the inner POPCLEANUP overwrites the frame's one `drain_target` and `resume`
  (`vm.c:2881`).
* `CallingPrograms`, `NeverOnTop`: the queue is served on top of a disposal whose
  cleanup has called a subroutine (`vm.c:929`, against the comment at `vm.c:925`).
* `YieldingPrograms`, `NoYieldInCleanup`: a `yield^` inside a `finally^` is refused in a
  disposal only (`vm.c:2999`, against `DesignDocuments/02-syntax.md:2212`).
* `ComparingPrograms`, `DerivedIsOrdinary`: entering a disposal leaves `derive` as the
  last frame had it (`vm_call.c:59`, against `machine.h:75`).
* `LeavingPrograms` with `WideCallers = TRUE`, `DroppedIsRun`: dead slots of a popped
  frame are roots again and the end of the run leaves a dropped coroutine's cleanup
  undone (`vm.c:3088`, against `vm.c:3922`).

*Channel* (`channel_promise`).

* `MaySupplyParked = TRUE`, `MaxCalls = 3`, `ParkedIsTold`: `supply()` tells nobody who is
  parked; a job on `take()` and the machine in `supply()` wait for each other
  (`channel.c:591`, against `channel.c:58`).
* `MayHoldInside = TRUE`, `NeverWaitsForItself`: `take()`, `named()` and a wrapper let go
  inside `atomic()` take the mutex their own machine holds (`channel.c:190`, against
  `channel.c:66`).

*Pool* (`task_pool`).

* Two machines in `Masters` and `Starters`, `StopAnswersLast`: a second `stop()` finds
  `running` false and answers while the first still joins (`task.c:612`, against
  `task.h:74`). A `start()` then makes workers of the pool the first no longer joins;
  and a `stop()` called from a job joins its own worker. Not modelled: the wait
  `awaitable()` hands to a second machine belongs to the first (`task.c:942`).

*Unit graph* (`program_reload`).

* `Sessions = {{"whole"}}`, `Versions <- MCVersionsCycle`, `"lib cycle"` in `Texts`, `EveryFixTakes`: a
  requirement that was refused as a cycle leaves no edge. The edit that makes the library
  require the root has the root checked inside the library's check, where it meets a
  unit still being checked: it gets an error and loses its edge. The edit that mends the
  library then retires the library alone, and the program has an error for ever, with
  nothing said of it and no text wrong (`program.c:236`, against `program_require.c:783`
  and `program.c:240`). The C library, driven through the same calls, answers the same; with the
  edge recorded TLC finds nothing in four edits.
* `EveryCollisionEnds`: a parent that takes the name its child stands at is reported by the check
  at the child's path (`program.c:2138`); mended and reloaded, the parent is retired and
  the child is not, so the error stays for ever (against `program_require.c:783`). The C
  library, driven through the same calls, still has the one error after the reload and after
  another check, and a fresh program of the same texts has none.
* `Sessions = {{"whole"}}`, `NoCollisionIsBuilt`: a reload does not ask which units collide
  (`program_require.c:990`, while `lhat_program_check` does, `program.c:2150`), so an edit by which the
  parent takes the child's name is compiled and runs; the next check refuses what has been running
  (against `DesignDocuments/05-modules.md:1119`; `tests/test_program.c:5203` asks checks
  alone). The C library answers the same.
* `Sessions = {{"scripts"}}`, `RefusedIsRefused`: a script that requires a unit whose
  errors were there before the load is accepted (against `lhat/program.h:229`).
* The two together, with `Sessions = {{"scripts"}}`, `Versions <- MCVersionsCycle`, `"lib cycle"` in
  `Texts`, `EachWorldIsWhole`: such a load compiles the units that have errors,
  and of a cycle one was checked without the other.

*Server* (`server_edits`).

* `Sessions = {{"configuration", "loose"}}`, `QuietMeansCurrent`: a batch with the
  configuration forgets its other paths, and open files outside the folder or not
  on the disk stay unchecked (`worker.c:121`, `workspace.c:882`, against `workspace.h:52`).
* `Requires` with `"out"` alone requiring `"data"`, `QuietMeansCurrent`: a data file of the
  folder, or a unit it leaves out, that only a file outside requires is checked
  with that file and its diagnostics are not published: it belongs to the folder's
  project, which has not loaded it (`workspace.c:933`).

*Debugger* (`debugger`).

* `MayAskWhileGoing = TRUE`, `HandedOutIsParked`: a request for variables after the
  resume hands out a reference of a running machine (`adapter.c:1357`).
* `MayHangUp = TRUE`, `HostGoesOn`: a detach while the debugger leaves returns early;
  the workers never leave the list and the end waits for ever (against
  `adapter.h:89`).
* `Idle = {w1}`, `HostGoesOn`: a machine that waits in the host is waited for
  (`adapter.c:1558`).
* `MayBeBornLate = TRUE`, or `MaxThreads = 2`, `FreedUnderNobody`: a machine made late or
  beyond the list keeps the hook of a session that is gone (against `debug.h:142`).
* Seen, not modelled: a step asked of a machine that is not parked stays
  pending; conditions of breakpoints are evaluated under the session's lock;
  the handshake's loop does not look at `ended`.

*Types* (`types`; all of them pass `--check`. The assumptions of `MCLhatTypes` notice the
third, fourth and fifth before the run; take them out to see the trace).

* `WideStaysWide` as an invariant: the strict reading answers yes for `any^` before the
  rule that a host value fits nothing wider (`type.c:2062`, against the comment at
  `type.c:1635` and `DesignDocuments/05-modules.md:2564`); a value of several slots
  goes into a seat of one, and the run prints garbage.
* `MayWriteInLoops = TRUE`, `KnownHolds`: what was known before a loop is believed in
  every turn of its body, also after the body wrote the name further down
  (`check_stmt.c:2852`, against `DesignDocuments/02-syntax.md` 13.11).
* `Tests` with `"MaybeList"`, `KnownHolds`: of `Y|nil^` tested for `List|nil^`, or of two structures tested for a third, an arm
  that merely overlaps the test is dropped (`check_narrow.c:34`, against the comment
  at `check_narrow.c:85`).
* `Tests` with `"Numbers"`, `SettledTestsAgree`: any error satisfies a variadic table at run time, and an
  error's fields satisfy a structure, while the checker calls errors and tables
  disjoint (`object.c:843`, against `type.c:2190`).
* A group of overloads among the values (`kind |-> "group"`, of type `Either`),
  `SettledTestsAgree`: a group known as `f^number^->D` tested for `f^string^,string^->D` is
  answered no ahead of the run and yes by the machine (`compile.c:1520`).
* Seen, not modelled: an `if^`'s own `finally^` is checked with what the last
  condition denied, though a branch that returned runs it too
  (`check_stmt.c:3009`); a closure written in a branch keeps the narrowing after the
  name is reassigned; an enum itself satisfies its own type at run time.


## 12. Plan

1. Proofs: that one test is sound (`EachTestIsSound`), for the types section 11 does not
   list; the relations remember the pairs open above them, and the induction of
   `LhatProgramProofs` over a bounded depth is the pattern.
2. `LhatThread`: spawn, join, done, `join_all` and the thread's own forgetting.
3. `LhatFrames`: run slices (`ending` and `end_swept`, lost at the end of a slice).
4. Operators against a reference over bounded inputs: the weak cache's open
   addressing and the table's hash part against a function, the numeric
   `for^` at the edges of the integers, carrying a graph with sharing and
   cycles.
5. `std.channel`'s table of names (`channel.c:423`) and `std.async`'s waits of a machine
   that is disposed of (`async.c:91`).

The runs stay few: a run that joins with a new module takes the place of a
counterexample, which then moves to the second half of section 11.
