# libkorutin in TLA+

libkorutin gives a C program coroutines: functions that call `koro_yield` to
give control back to whoever called `koro_run`, and that go on from there at
the next `koro_run`. This project models the library and its backends in TLA+,
checks small instances with TLC, and proves with TLAPS the safety of the three
backends, the handshake of the threads backend over store buffers, the layout of
a stack, its watermark, the notice of its overflow and the use of the debug
registers. It also models tinycthread, the threads library that comes with it,
as it is on Windows, and proves its mutex, its condition variable, `call_once`
and its thread-specific values.

Paths below are relative to the repository.

## The system: inventory

| component | state | operations | hard parts |
|---|---|---|---|
| library core, `src/libkorutin.c` | `koro_t`: `finished`, `fn`, `ctx`, `stack_*`, `a`, `b`, `magic` | `koro_init`, `koro_run`, `koro_yield`, `koro_calculate_stack_watermark` | nested `koro_run` must do nothing; reuse of a handle; the stack's limits |
| current coroutine, `src/scheduling.c` | `current`, one of the process or one of each thread | get, set | whose copy a thread reads |
| threads backend, `src/backends/threads/threads_backend.c` | `_thread_ctx` on the heap: `wait_run`, `wait_yield`; a thread of each coroutine | init, run, yield, `_thread_runner` | the handshake of two spinning threads; `free` against the last access; failing `thrd_create` |
| switch backend, `src/backends/switch` | `h->a`, `h->b`: saved stack pointers | init, run, yield; eight callbacks of `slp_switch` | frames popped by another call than the one that pushed them; a body that returns has nothing below it |
| context backend, `src/backends/context` | `h->a`, `h->b`: contexts | init, run, yield, `_executor`; `make_fcontext`, `jump_fcontext` | each context is good for one jump; the code behind `_executor` exits the process |
| emscripten backend | `h->a`: a coroutine of the runtime | init, run, yield | nothing of its own |
| hardware breakpoints, `src/debug.c` | `Dr0`..`Dr3`, `Dr7` of a thread | set, clear | four registers; search by address |
| tinycthread, `src/backends/threads/tinycthread.c` (vendored) | on Windows: `mtx_t`, `cnd_t`, `once_flag`, the list of thread-specific values of each thread | `mtx_*`, `cnd_*`, `thrd_*`, `call_once`, `tss_*` | signals that overlap, a waiter that takes another's event, time-outs, threads that end with a lock, destructors that set values and delete keys, nodes that are freed on a list. The library uses `thrd_create`, `thrd_exit` and `thrd_yield` |
| examples | | bodies that yield, yield from nested functions, return | they are the user code of the models |

Interaction: `koro_run` sets `current`, calls `_koro_run` of the one backend
that is compiled in, and clears `current` when it is back. A body calls
`koro_yield`, which takes the handle from `current` and calls `_koro_yield`.
There are no messages and no callbacks but the body itself; what is shared is
the handle, `current` and, in the threads backend, the `_thread_ctx`.

What makes each part correct:

- core: one `koro_run` is one segment of the body (what lies between two
  yields), of that coroutine and of no other;
- `scheduling.c`: a body finds itself in `current`;
- threads: user code never runs in two threads at once, no access after
  `free`, no leak, no spin for ever;
- stack memory: the library's loops stay inside of the memory it was given, the
  watermark is the peak use, what the backend saves on the stack included, and
  an overflow does not go on unnoticed by `koro_yield` and the breakpoints;
- debug registers: the library never takes or clears one of the debugger's, and
  leaves none set behind;
- tinycthread: mutual exclusion, a count of waiters that is never too low, an
  event for every thread that a signal found blocked, a callback that is called
  once, destructors that are called, no use of a freed node, threads that end;
- switch and context: every stack is found as it was left, no two threads on
  one stack, every assert of the code holds, `koro_run` always returns on the
  stack of its caller.

The list "hazards" of `PROJECT.json` has the places where this is at risk.

## Modules

| module | models | used by |
|---|---|---|
| `Coroutines` | the abstract promise, whatever the backend | instanced as `Promise` by the three backends |
| `ThreadsBackend` | `libkorutin.c` and `scheduling.c` over `threads_backend.c` | `MCThreads` |
| `ThreadsBackend_proofs` | its invariants and its refinement of `Coroutines`, proved | |
| `StackMachine` | what the stack-switching backends share: `libkorutin.c`, `scheduling.c`, and the machine (stacks, frames, stack pointers, threads) | `SwitchBackend`, `ContextBackend` |
| `StackMachine_proofs` | lemmas about stacks, pointers and frames; a theorem about `Coroutines` | `SwitchBackend_proofs`, `ContextBackend_proofs` |
| `SwitchBackend` | `switch_backend.c` and the `slp_switch` of x86_64 gcc | `MCSwitch` |
| `SwitchBackend_proofs` | its invariants and its refinement of `Coroutines`, proved | |
| `ContextBackend` | `context_backend.c` and the assembly of x86_64 SysV ELF | `MCContext` |
| `ContextBackend_proofs` | its invariants and its refinement of `Coroutines`, proved | |
| `ThreadsMemory` | the handshake of `threads_backend.c` over store buffers, with the loop of `examples/benchmark.c` | `MCThreadsMemory` |
| `ThreadsMemory_proofs` | proof that the handshake holds over store buffers | |
| `StackGuard` | `libkorutin.c` over the stack memory: layout, watermark, overflow; `debug.c` | `MCGuard` |
| `StackGuard_proofs` | proofs about the layout, the watermark, the overflow and the registers | |
| `TinyMtx` | `mtx_t` of `tinycthread.c` on Windows | `TinyCnd` |
| `TinyCnd` | `cnd_t` of it, with a mutex | `MCCnd` |
| `TinyCnd_proofs` | proofs about the two | |
| `TinyThreads` | `thrd_*`, `call_once` and `tss_*` of it | `MCTiny` |
| `TinyThreads_proofs` | proofs about it | |

An operator called `Action_Something` just before `Action` is a variant of it
with a plausible mistake. No specification uses it: it serves to show that a
property notices the mistake.

### Coroutines

`status` of each coroutine, `seg` (how many segments its body has begun), and
`active` (the coroutine each application thread is inside of). `Create`,
`Resume`, `Suspend`, `Finish`. What the code answers by doing nothing (a nested
`koro_run`, a `koro_yield` outside a coroutine, a run of a finished coroutine)
is a stuttering step. `FairSpec` adds that a segment that has begun ends.

### ThreadsBackend

State: the fields `magic`, `finished`, `a` of each handle; `arg`, whether
`h->ctx` still is what `koro_init` was given (`_koro_run` clears it in the end);
the heap (`live`) with the two flags at each address; `current` of each thread
(`Slot` says which copy a thread uses); of each thread its place `pc` and the
locals `h` and `ctx`; `seg` and `runs`, the counters of `examples/benchmark.c`
(`ctx[i].i` and `round`).

One action is one access to memory that two threads share: the places of
`koro_run` are `run`, `cy_wait`, `cy_clear` (`_continue_yield`), `wr_set`,
`wr_wait` (`_wait_for_run_continue`), `run_done`, `run_exit`; those of a worker
are `wy_enter`, `wy_set`, `wy_wait` (`_wait_for_yield_continue`), `user`,
`yield`, `cr_wait`, `cr_clear` (`_continue_run` from `koro_yield`), `fin_set`,
`fin_wait`, `fin_clear` (the same from `_thread_runner`), `exit`. The two
assignments of flags in `koro_init` are one action with the `malloc`, as no
other thread knows the address yet. `WAIT_UNTIL` is an action that its flag
enables.

A body is any sequence of `koro_yield`, of `koro_init` of other handles, of
calls of `koro_run` (which find a current coroutine and return: no step), and a
return.

### StackMachine, SwitchBackend, ContextBackend

A stack is the sequence of its frames; a frame has the place its return address
leads to and the `h` that the code found there has in a register. A stack
pointer is a stack and a depth; a push writes over what was above. User code
calls functions of its own (`Call`, `Return`) on whatever stack it is, so
`koro_yield` and `koro_run` happen at every depth. Several application threads
(`Runners`) run coroutines, each with its own `current`, as with
`KORO_THREAD_AWARE`; a handle is used by one at a time but may be run by
another the next time (`Idle`). The case of one thread, which is that of
`KORO_THREAD_AWARE` 0, is the same behaviour with the other threads idle.

SwitchBackend has an action for each callback (`_init_swap`, `_init_run`, ...),
for the push of the registers by the caller (`RunSwitch`, `YieldCall`,
`BodyEnd`) and for their pop (`PopFrame`). What a callback does until it
returns is one action; a body called by `_init_run` is user code above it.

ContextBackend has `JumpContext` for `jump_fcontext` (push the registers, change
stacks, pop the registers there, hand over the context left behind), and an
action for what each function does with the `transfer_t` it is handed:
`RunResume`, `Executor`, `YieldResume`. `make_fcontext` leaves two addresses:
the entry, and `finish`, which would end the process.

### ThreadsMemory

ThreadsBackend again, cut down to one coroutine and to the accesses that carry
the baton, with the same names of places and actions, and with the memory in
two parts: a store goes to `buffer` of its thread and from there, by `Commit`,
to `mem`; a load takes the youngest store of its own buffer, or `mem`. `round`
and `i` are the counters of `examples/benchmark.c`, which stand for all data of
the application and of the body.

### StackGuard

Addresses are numbers. `place` is what `koro_init` was given, any memory of at
least a word, at any address; `StackEnd`, `StackStart` and `Words` are the
arithmetic of `koro_init` and of the two loops. Memory of a few bytes may have
its start below its end, and memory that does not begin at a word has words, for
the loops, that are not those of the frames (`Overlap`): they go up to two bytes
beyond the start.

The backend is that of `backends/context`, which checks nothing itself (the
switch backend also asserts that its stack pointers are in the memory), and what
it writes on the stack is part of the model:

- `koro_init` fills the memory first, and then `make_fcontext` puts a first
  context of `Context` words below the start, of which it writes those of `Made`
  (`KoroInit`). The watermark is that of a context then, not 0; in memory that is
  too small the context is partly below it;
- the first `koro_run` goes through `trampoline` and `_executor` into the body:
  `Entry` words (`KoroRun`);
- `koro_yield` looks at the last word, and after that `_koro_yield` and
  `jump_fcontext` push a frame and a context below the frame of the body
  (`SwitchBack`). When the body ends, `_executor` does the same (`BodyReturn`).

A body pushes frames, of which it need not write the first words (`Call`), and
returns (`Return`). All of these go through `Push`. The model remembers what is
`written` and the `lowest` stack pointer since `koro_init`: the first is what
`Watermark` (`koro_calculate_stack_watermark`) and the test in `KoroYield` can
see, by `Changed`; the second is what they are to tell. `sparse` says that
something was pushed with a hole in it, or that the first context did not fit: the
end of the memory may be spared then. `Kept` is what the fill leaves of earlier
contents. If there is no word to fill, what `koro_yield` finds at the end is
anything. `h->magic` is `Magic` bytes below the memory: `koro_t` has it last for
the case that the handle is next to its stack. The debug registers are `dr` and
`on` (the L bits of Dr7); `debugger` is what another user of them believes it has
set. `Slots = {}` is a build without `KORO_SET_HARDWARE_BREAKPOINTS`.

### TinyMtx, TinyCnd

The Windows object in a `mtx_t`, a critical section or a mutex handle, is
`owner` and `depth`, with `abandoned` for a handle whose owner has ended.
`held` is what the thread was told: it differs from the object after
WAIT_ABANDONED, when `mtx_lock` answers thrd_error to a thread that now owns the
object. A call is one action from the moment it has the object, since only the
owner touches `mAlreadyLocked`. A thread unlocks only what it has locked.

`cnd_t` is `waitersCount` and the events `one` (reset by the waiter it lets go)
and `all` (reset by the last waiter). `_cnd_timedwait_win32` is `WaitCall`,
`WaitUnlock`, `Wake` or `WaitTimeOut`, `Leave`, `Reset`, `Relock`: a step for
each section under `mWaitersCountLock` and for each Windows call. `cnd_signal`
reads the count in one step and sets the event in another.

`found`, `owed` and `disturbed` are not in the code. `found` is the set of the
threads that the last call found blocked and that still are; a call owes to one of
them (`cnd_signal`), or to all, that they are let go, and `owed` is how many. Only
a thread of `found` pays: one that began to wait after the call and takes its
event leaves `owed` as it is, for that thread was not "blocked at the time of the
call". `disturbed` says that one of three things has happened that can lose a
wake-up; `NoLostWakeup` and `UndisturbedWakeups`, below, are about it.

### TinyThreads

Each thread calls `call_once`, whose callback creates the keys, then sets values
with `tss_set`, deletes keys with `tss_delete`, and ends. Destructors may set
values for any key and delete any key. There is no discipline on who deletes
what: a thread may delete any key, whether its node is the first, the second or
none, and other threads keep their nodes of it.

A node is named by its key: a thread has one node per key at most, and a key that
is deleted does not come back. The list is `head`, `tail`, `next`, `value`, with
`live` for what is allocated; `mine` (not in the code) is what a thread has set and
no destructor was given. A pointer to a node that is freed becomes `Dangling`, and
stays so even if `malloc` gives the address out again. What `tss_delete` does:

- the first node: its `next` becomes the head. If `tail` points to it, `tail`
  becomes NULL, although there may be a second node: the next node of the thread
  then hangs on nothing (`Link` with a NULL tail and a head);
- any other node: it is freed, and the node before keeps its pointer to it, as
  `prev->next` is not changed;
- a node that is not on the list: the search runs off its end
  (`TssDeleteAstray`);
- the destructor that is under way may delete its own key, and the loop then goes
  on from a freed node.

`tss_set` may fail: at `malloc` with no effect, and at `TlsSetValue` after the new
node has been linked, which frees it where it hangs (`TssSetFails`).
`_tinycthread_tss_cleanup` is `Visit`, `CallDtor`, `DtorReturn`, `NextIteration`,
`Free`; between `Visit` and `CallDtor` lie the two reads of the destructor, where
another thread may delete the key. Where a freed node is used, or a destructor
that is NULL by now is called, the behaviour is undefined and the model ends
(`Fault`, `TssDeleteAstray`). `unhandled` is history: there was one of the calls
that lead there.

## Runs

| run | specification | bounds | shows |
|---|---|---|---|
| `threads` | `Spec`, `thrd_create` may fail | 2 handles, 3 workers, 3 addresses, 3 segments, symmetry; 50,350 states | all safety properties, the inductive invariant, `ImplementsCoroutines` |
| `threads_live` | `FairSpec`, nothing fails | 2 handles, 2 workers, 2 addresses, 2 segments; 26,885 states | `RunSwitches`, `RunReturns`, `ImplementsFairCoroutines`, no deadlock |
| `threads_aware` | `KORO_THREAD_AWARE` 1 | 1 handle | violation of `WorkEqualsRuns` (below) |
| `threads_nothread` | `FairSpec`, `thrd_create` may fail | 1 handle | violation of `RunSwitches` (below) |
| `switch` | `FairSpec` | 2 handles, 2 threads, 2 functions, 1 call deep, 2 segments; 78,984 states | asserts, stacks, counts, `RunReturns`, `ImplementsFairCoroutines` |
| `context` | `FairSpec` | as `switch`, with 1 function; 84,624 states | all properties |
| `memory` | `Spec` | 8 calls of `koro_run`; 475 states | `HandshakeOrders` |
| `guard` | `Spec` | 2 handles, 4 pieces of memory, frames of 1 or 2 words, contexts of 3, 1 word below the memory, 2 debug registers; 291,977 states | `LayoutInMemory`, `WatermarkIsPeak`, `OverflowNoticed`, `BreakpointsBalanced` |
| `cnd` | `Spec` | 4 threads, 2 of them waiters, the 4 types of mutex, 2 locks held, count up to 3; 951,539 states | `MutualExclusion`, `FreeWhenUnlocked`, `NoUndercount`, `UndisturbedWakeups` |
| `cnd_lost` | `Spec` | 3 threads, 2 of them waiters | violation of `NoLostWakeup` (below) |
| `tiny` | `FairSpec` | 2 threads, 2 keys, 1 value, 2 iterations; 470,383 states | `OnceExactly`, `ValuesDestroyed`, `ListSound`, `ThreadsEnd` |
| `tiny_keys` | `Spec` | 2 threads, 3 keys, 4 iterations | violation of `ValuesDestroyed` (below) |

Why the bounds are enough to be of interest: two handles let one coroutine
create and one interfere with another; three workers let a finished worker be
still on its way out while its handle, and the address of its context, are in
use again and another coroutine is alive; three segments give a body a first
segment, a middle and a last one. Two threads and two segments let a coroutine
that was suspended in one thread be finished by another. A call of one of two
functions, on each of four stacks, tells whose frame is popped; frames of user
code below one another are pushed and popped by user code alone. `MaxSegs` bounds
the calls of `koro_yield`; a body at the bound returns. `MaxCalls` bounds the
nesting. The number of handles, workers and addresses are the other bounds;
`InitCreate` waits for a free worker and `InitCall` for a free address. With
fewer workers or addresses than coroutines that would be a restriction of its
own, so there are never fewer of them than handles.

`guard` has four pieces of memory, with an alignment of 8 and words of 4: (64, 3),
that is at 64 and of 3 bytes, which `koro_init` does not take; (68, 22), with five
words of stack; (102, 11), two bytes off the words, with a stack of ten bytes,
which is three words for the loops, the last across the start; and (140, 4), whose
start is below its end. A context of 3 words, of which `make_fcontext` writes the
first and the last, fits into (68, 22) only. Below one word of `_executor` the
context of a `koro_yield` leaves one word there: a `koro_yield` with a frame, or from
a function that the body has called, reaches the end by what it pushes after the
check, and deeper functions reach it before. One word below the memory, and what a
context adds, reach `h->magic`; with two registers the debugger can take none, one or both. In `cnd`
two waiters and two threads that only signal let calls overlap with each other and
with both waits; a count of 3 leaves room for a wait that timed out. In `tiny` both
threads can be anywhere in `call_once`; two nodes make a first and a last one, and
let `tss_delete` meet either of them, with one thread at its destructors while the
other deletes; two iterations are a last and one before; the code has 4
(TSS_DTOR_ITERATIONS), as does `tiny_keys`. `MaxRounds` of `memory` only
repeats: the sides are at most one call apart.

Deadlock is checked in `threads_live`, `switch` and `context`. Elsewhere the
system really stops: after a failed `thrd_create`, in a `koro_run` that spins,
at a failed assert, when the benchmark is over, when a freed node has been used, when
all threads have ended or
wait for a lock that nobody gives back.

### Fairness

- threads: the operating system goes on with every thread that can move, and a
  thread that spins gives up the processor (`thrd_yield` in `WAIT_UNTIL`): weak
  fairness of each thread's library steps. Nothing forces the application or a
  body to call `koro_init` or `koro_run`.
- A body comes to its next `koro_yield` or to its return: weak fairness of
  `BodyStep` in ThreadsBackend. In the stack models a body may call and return
  in between, so `BodyStep`, which is enabled again and again, is strongly fair,
  and a body's functions return (`BodyUnwinds`). The code does not guarantee
  this: it is a condition on user code, without which no cooperative scheduler
  returns from `koro_run`.

- TinyThreads: every thread goes on, and its function, the callback and the
  destructors return (they are user code); a thread that waits for a critical
  section gets it if it stays free. Creating threads, setting values and deleting
  keys are not forced: no thread needs another to do so.

### What four runs found

- `threads_aware`: `libkorutin.h` 13-15 tells users of several threads to define
  `KORO_THREAD_AWARE`. In the threads backend the body runs in another thread
  than the `koro_run` that set `current`; with a thread-local `current` every
  `koro_yield` returns at once, and a body runs to its end (or for ever) in the
  first `koro_run`. (With C11 and a recent gcc `scheduling.c` does not get that
  far: `_koro_Thread_local` is defined in neither branch of lines 30-38.)
- `threads_nothread`: `threads_backend.c` 84 ignores the result of
  `thrd_create`; the handle looks initialised and the first `koro_run` spins
  for ever.

- `cnd_lost`: `tinycthread.h` 275-278 says that `cnd_signal` unblocks one of the
  threads that are blocked at the time of the call. On Windows it need not: in
  the shortest execution a thread that begins to wait after the call consumes the
  event, and the one that the call found stays blocked. In two other ways two
  signals set the same event before anybody has consumed it, or the last waiter
  of a broadcast resets the event that the next broadcast has just set.
  `UndisturbedWakeups` (run `cnd`) says that there is no fourth way.
- `tiny_keys`: `tss_set` never moves `_tinycthread_tss_tail`, so the third node
  of a thread takes the place of the second in its list: the destructor of that
  value is never called, against `tinycthread.h` 422. With three keys a value is
  also lost without a third node, when the first of two keys is deleted (the
  tail is NULL then) and the third key is set. With two keys every value gets its
  destructor, whatever is set and deleted (run `tiny`).

The variant `Commit_AnyOrder` of ThreadsMemory is no mistake but another
processor: on ARM, which the README of the library lists for the threads
backend, stores may become visible in any order, and then `HandshakeOrders` is
false: back from `koro_run` the application may read data that is older than the
body's last store, or miss `h->finished`. The handshake needs a release store
and an acquire load there.

## Proofs

The proofs about ThreadsBackend are for any number of coroutines, workers and
addresses, and any `MaxSegs`, from the assumptions `Distinct` (None is no
handle, worker or address; the application's thread is no worker) and `Flags`,
and for the build with one `current` (`~ThreadAware`, an assumption of each
theorem: with `KORO_THREAD_AWARE` the claims are false, as the run shows).

`ThreadsBackend_proofs`: `IInv` is inductive (`InitInvariant`, `NextInvariant`),
hence `Invariant`, and from it `TypeCorrect`, `MutualExclusion`, `NoUseAfterFree`,
`NoLeak`, `YieldFindsItself` and `OneSegmentPerRun`, which state the invariants
of the run `threads`. None of these is inductive alone: that two bodies do not
run at once depends on where `koro_run` is parked, that on who clears which
flag, and that on no two open handles sharing a context. The parts of `IInv`:

- `HandlesInv`, `LiveInv`: a handle that is open (initialised, and not yet
  cleaned up by the `koro_run` that saw it finish) has a live context of its
  own, and every live context is that of an open handle;
- `InitInv`, `AppInv`, `WorkerInv`: what is known at each place of a
  `koro_init`, of the application's thread, and of a worker. One coroutine has
  one worker at most; the flag `wait_yield` of a context is clear unless its
  worker is parked at `wy_wait`;
- `BatonInv`: a worker that was woken and has not cleared `wait_run` has its
  `koro_run` parked, with `wait_run` set. The application is at one place, so
  there is one such worker at most (`OneBaton`), and none when the application
  is in user code;
- `CountInv`: `runs[k]` is `seg[k]`, or one more between the moment `koro_run`
  counts and the moment the worker leaves its wait.

In the same module, `Implementation`: `Spec => ImplementsCoroutines`. A
coroutine is `UnderWay` from the moment its worker leaves
`_wait_for_yield_continue` until it clears `wait_run`. `IInv` makes it the only
one, so the mapped `active` changes exactly when `UnderWay` does: at
`WaitForYieldWait` (Resume) and at `ContinueRunClear` or `FinishedClear`
(Suspend, Finish). `koro_init` maps to Create where it clears `finished`, or,
for a new handle, where it writes `magic`. All the other steps are stuttering.

`ThreadsMemory_proofs`: `BatonCarriesStores` is `HandshakeOrders` of the run
`memory`, for any number of calls of `koro_run` (any `MaxRounds`) and with no
assumption. It is not inductive: what a thread reads on return from a wait
depends on the stores that were, and were not, in the memory when the flag was.
The parts of `IInv`:

- `BufferInv`: `Order` is the list of the variables that a thread stores to from
  the end of one round to the end of the next, three at most, and its buffer holds
  an end of that list. A round ends with `wr_wait` or with `wy_wait`: the thread
  has itself stored last to the flag that it waits for there, and the other
  stores back only when it has seen that, so its buffer is empty when the wait is
  over;
- `TurnInv`: what is known of the worker at each place of `koro_run` and for each
  length of its buffer. The worker is `Parked`, has been `Seen` to be, is
  `AtWork`, or is `Returning` the baton in a store that `koro_run` cannot see
  yet; with each goes whether `round` or `i` is ahead;
- `FinishedInv`: `h->finished` gets to the memory before the baton does.

The lemmas `Moves`, `StoreMoves` and `CommitMoves` do what all steps share (a
store makes one buffer longer, a commit moves its head to the memory and changes
nothing that the thread itself reads), and each action has a lemma on top of
them. A commit of the oldest store is where the order of x86 is used: with
`Commit_AnyOrder` a buffer no longer holds an end of `Order`.

`StackGuard_proofs`: everything from `GuardAssumption` alone, for any number of
handles and registers, any sizes of words, contexts and frames, and any pieces of
memory: nothing is assumed of their size or their alignment.

- `StackInMemory` is `LayoutInMemory` of the run `guard`. A handle has a piece
  that `koro_init` accepted (`PlaceInv`, the invariant); the rest is the
  arithmetic of `_align_ptr_low`. In memory that begins at a word the loops stay
  below the start, which is a multiple of the word too, so no word of them sticks
  out over it. In other memory they go one byte less beyond it than it is off.
  That the start is above the end is not claimed, and is false of small memory.
- `RegistersBalanced` is `BreakpointsBalanced`. It is not inductive: that
  `_koro_clear_hw_break` frees the register that `_koro_set_hw_break_at` took
  needs `OursIsFound`: no register before it has the same address, not even
  one that is free and has it from an earlier run. `koro_run` takes the first
  free one, so all before it hold an address of the debugger's, which watches
  no end of a stack, and keep it when the debugger stops using them.
- `WatermarkTellsPeak` is `WatermarkIsPeak`. It needs `StackInv`: what is written
  lies between the lowest stack pointer and the start, and if nothing was sparse
  it is all the words of the frames from the lowest up to the bottom of the first
  context. That context itself has holes (`Made`), but its lowest word is written,
  so they do not matter. The first word that `koro_calculate_stack_watermark`
  finds changed is then at the lowest place, or less than a word off it where the
  words of the loop lie across those of the frames.
- `OverflowStops` is `OverflowNoticed`, with `GuardInv` as the invariant.
  `YieldLooks`: only `koro_yield` and the end of a body come back, and a
  `koro_yield` that finds the last word unchanged has, by `StackInv` and if
  nothing was sparse, nothing at the end or below it at the moment it looks. What
  it pushes afterwards may be there: the theorem says nothing of that, and the next
  `koro_yield` finds it. `GuardHits`: a push that takes the lowest place to the end
  without a hole has a word there, so a breakpoint that is set stops it; the body's
  place is at `Base` or below it (`BodyInv`), so this is so of its end too.

`StackMachine_proofs`, `SwitchBackend_proofs`, `ContextBackend_proofs`: for any
number of coroutines, threads, functions and segments and any depth of calls,
from `Distinct` and the other assumptions of `StackMachine` alone. In each of the
two backends `IInv` is inductive (`Invariant`). Its parts:

- `Apart`: no coroutine is `current` in two threads;
- `ThreadInv`: a thread outside of `koro_run` has user code, and nothing else,
  on its own stack; a thread inside is at a place of `InRun`, which says of that
  place where the thread's stack pointer is, what the caller's stack and the
  coroutine's stack hold, where `h->a` and `h->b` lead, and whether this
  `koro_run` has been counted in `runs` but not yet in `seg`;
- `RestInv`: a coroutine that no thread runs is fresh, suspended or finished,
  with what each of these leaves on its stack and in its handle.

`AssertsHold`, `JumpsLand` and `StackIntact` are read off it. They are not
inductive, as they say nothing of coroutines at rest: that a later `koro_run`
finds the right stack is due to what the last one left there. The proof has a
lemma for each action; `ThreadStep` does the part they share (a step of one
`koro_run` touches two stacks and one handle, all other threads and coroutines
stay where they are), and `UserMove` of `StackMachine_proofs` what calls and
returns of user code do to whatever is below them. `Implementation`,
`Spec => Promise!Spec`, goes through the actions again: for the switch backend
`koro_init` is Create, the callbacks that let user code run are Resume, the two
that note on the stack of `koro_run` how the segment ended are Suspend and
Finish; for the context backend the jumps are. The rest are stutters.
`OneRunnerHolds`, at the end of `StackMachine_proofs`, is about the promise that
both implement: a coroutine under way is so in exactly one thread.

`TinyCnd_proofs`: for any number of threads and waiters, all types of mutex, any
bounds, and with or without threads that end while they hold it. A process has
finitely many threads, which `CndAssumption` says: the counts need it.

- `MutexInv` is why `OneHolder` and `NothingLeftLocked` hold. What a thread was
  told and what Windows knows agree: `depth` is the number of locks the owner was
  told of, but for one more when the owner sleeps for ever in the loop of
  `mtx_lock`, or was refused after WAIT_ABANDONED. Either way somebody still
  holds a lock of which he will never be rid, so a mutex that all have unlocked
  is free.
- `CountCoversWaiters` is inductive with `WaitInv`.
- `UndisturbedCallsWake` is `UndisturbedWakeups`: there are three ways only in
  which a thread that a call found blocked is left without an event. `CallsInv` is
  the invariant: as long as none of the three has happened and a wake-up is owed,
  either ALL is set or announced and nobody is about to reset it, or ONE is, for a
  single thread, and every thread that is blocked is one that the call found. So
  whoever takes ONE pays; and a waiter that is to reset ALL found the count at
  zero, so (by `NoUndercount`) nobody was blocked.

`TinyThreads_proofs`: for any number of threads, keys, values and iterations,
from `TinyAssumption` alone. `IInv` is inductive (`Invariant`). Its parts:

- `OnceInv`, for `CallbackOnce` (`OnceExactly` of the run `tiny`): who is in
  `call_once`, and what each place says of `status` and of the critical section.
  The claim alone is not inductive: that nobody is past `call_once` before the
  callback has returned depends on `status` being 2 only while somebody is at
  the callback with the lock, and 1 only while one thread initialises that lock.
- `ListInv`: only the node that `tail` points to has a next one, and that is
  allocated, or freed and `Dangling`. `tss_set` hangs every new node on `tail`,
  which stays where it is, and takes whatever was there off the list; `tss_delete`
  takes `tail` off the list, or makes it NULL. So a list has two nodes at most,
  whatever the number of keys and whatever is deleted (`NoThirdNode`). The second
  may have been freed. `Chain` is a recursive function; on two nodes it can be
  solved by unfolding (`ChainIsOnList`), and no induction is needed.
- `LoopInv`, `ValuesInv`: a value is in its node until a destructor is given it or
  its key is deleted; while an iteration has not called a destructor, the nodes
  that it has passed hold no value. A destructor may set values for those, but
  then `again` is true, and the loop ends with it true only after the last
  iteration.

Two more invariants are for a part of the executions:

- `Sound`, for `NoFreedNode` (`ListSound` of the run `tiny`): as long as nobody
  makes one of the calls of `Unhandled` or has `TlsSetValue` fail, none of the
  pointers of a thread that is going to be used is `Dangling`. Deleting the first
  node is no such call: it takes the node off the list and `tail` off the node.
- `Whole`, for `DestructorsGetAll`: all nodes of a thread are on its list, and
  `tail` is the head, or NULL with no key left that could need another node. It is
  kept by every step that is `Careful`: no third node, and no `tss_delete` of the
  first of two nodes while another key exists that has none. Those are the
  conditions under which the list loses a node; the theorem takes them as its
  hypothesis, `[][Careful]_vars`, and what it concludes is false without either.

What the comments of tinycthread promise, that all values are destroyed, is
false for three keys (`tiny_keys`). `DestructorsGetAll` proves `ValuesDestroyed`
of every careful execution, and `TwoKeysSuffice` of every execution when there are
two keys at most: with two keys each step is careful, whatever is set and deleted
and whichever call fails. `LostOnlyWithNode` needs no condition: a thread that has
ended without leaving a node behind has given the destructors all it had, but for
what they set in the last iteration.

`EndIsLimited` is the part of `ThreadsEnd` that needs no fairness. `StepsLeft` is
a bound on the steps to the end of a thread: `7 * Iterations + 4` when it leaves
its function, less with every step of `Exit` and `Cleanup`, and never more: a
destructor may set values and delete keys, but `Ahead`, the nodes that the
iteration has still to go to, does not grow, as a node is hung behind `tail` only
and replaces what was there. So however many keys there are, and whatever the
destructors do, a thread takes no more than that many steps to end, or uses a
freed node.

Checked by TLC only: liveness (`RunSwitches`, `RunReturns`, `ThreadsEnd`, and
the fairness in `ImplementsFairCoroutines`, whose safety half is proved), which
is out of the prover's reach: it takes ENABLED to say that the fair steps are
possible. The violations that four runs show have nothing to prove.

## What is not modelled, and why

- What a compiler may do to the data race on the flags of the handshake, and
  loads that a processor makes ahead of time: ThreadsMemory has the order in
  which stores are committed.
- `malloc` returning null in `_koro_backend_init` of the threads backend: the
  next line writes through it.
- Threads that are never joined nor detached: the resources that the operating
  system keeps for them are no state of the library.
- `koro_init`, in the threads backend, of a handle whose coroutine is not
  finished: it abandons a worker and a context for ever, and is left out by the
  guard of `InitCall`. The stack backends allow it whenever the coroutine is
  not under way, and so do their models.
- Use of one handle by two threads at the same time, and of the threads backend
  by several application threads: `libkorutin.h` 13-15 offers that only with
  `KORO_THREAD_AWARE`, which that backend does not support.
- What an overflow does to memory further below than `h->magic`, and a body that
  writes the watermark's value itself. Memory that is too small for the first
  context or off the words is modelled; what the overwritten neighbours of such
  memory are is not.
- A debugger that watches `stack_end` itself, or that changes debug registers
  between the GetThreadContext and the SetThreadContext of `debug.c`.
- The emscripten backend: three functions of one statement each; all that
  happens is in a runtime that is not in the repository.
- The assembly of other platforms, of the switch and of the context backend:
  they do what that of x86_64 does, with other registers.
- tinycthread: the arithmetic of time limits (a time limit is a time-out at any
  moment), `mtx_destroy` and `cnd_destroy`, `tss_get`, `thrd_sleep`, failures of
  Windows calls other than WAIT_ABANDONED and the time-outs, `mtx_trylock` of a
  timed mutex that the caller has (LeaveCriticalSection of a handle is not
  defined), `thrd_join` and `thrd_detach` (one waits for the end of a thread,
  which `ThreadsEnd` is about, both close its handle), what a program does after
  it has used a freed node, `malloc` giving such a node's address out again (a
  pointer to it stays `Dangling`), and the code for POSIX, where a function is a
  call of pthreads.
- The measuring and printing of the examples, the applications for Android and
  iOS, the build files.

## Plan

1. Done: `Coroutines`, `ThreadsBackend` with its proofs and its refinement,
   `StackMachine`, `SwitchBackend`, `ContextBackend`.
2. Done: `ThreadsMemory`, `StackGuard`, `TinyMtx`, `TinyCnd`, `TinyThreads`.
   Done: `StackGuard_proofs`.
3. Done: proofs about the stack backends (`SwitchBackend_proofs`,
   `ContextBackend_proofs`) and about `TinyMtx` and `TinyCnd`
   (`TinyCnd_proofs`).
   Done: the watermark and the overflow (`StackGuard_proofs`), and
   `HandshakeOrders` for any number of rounds (`ThreadsMemory_proofs`).
4. Done: `TinyThreads_proofs`.
