---------------------------- MODULE ThreadsBackend ----------------------------
(***************************************************************************)
(* libkorutin built with KORO_BACKEND_THREADS: libkorutin.c and            *)
(* scheduling.c over backends/threads/threads_backend.c.                   *)
(*                                                                         *)
(* Every coroutine has an operating system thread of its own (a worker).   *)
(* The thread that calls koro_run and the worker pass a baton through two  *)
(* spin flags of a malloc'ed _thread_ctx:                                  *)
(*   wait_yield: "the worker is parked"; koro_run clears it to wake it,    *)
(*   wait_run:   "koro_run is parked"; the worker clears it to give back.  *)
(* Each access to memory that two threads share is an action of its own    *)
(* (the load of h->a by CTX(h) goes with the access next to it), and the   *)
(* accesses take effect in the order the program makes them: the module    *)
(* says nothing of a build that reorders them.  A WAIT_UNTIL is an action  *)
(* that its flag enables: a failed test of the flag only calls thrd_yield  *)
(* and tests again.                                                        *)
(***************************************************************************)
EXTENDS Naturals

CONSTANTS
  Koros,          \* the koro_t handles
  Workers,        \* identities of the threads thrd_create makes
  App,            \* the application's thread
  Ctxs,           \* addresses malloc may return for a _thread_ctx
  None,           \* NULL
  ThreadAware,    \* KORO_THREAD_AWARE: is `current` thread local?
  CreateMayFail,  \* may thrd_create fail (its result is not looked at)?
  MaxSegs         \* bound: segments of a body between koro_init and its return

ASSUME Distinct ==
  /\ None \notin Koros \union Workers \union Ctxs
  /\ App \notin Workers
ASSUME Flags == ThreadAware \in BOOLEAN /\ CreateMayFail \in BOOLEAN
ASSUME Bounds == MaxSegs \in Nat \ {0}

Threads == Workers \union {App}

VARIABLES
  \* the koro_t handles
  magic,      \* h->magic = koro_magic: koro_init has completed once
  finished,   \* h->finished
  a,          \* h->a: the address of the _thread_ctx
  arg,        \* is h->ctx still the pointer that koro_init was given?
  \* the heap
  live,       \* the _thread_ctx that are malloc'ed and not yet freed
  waitRun,    \* ctx->wait_run, for each address
  waitYield,  \* ctx->wait_yield, for each address
  \* scheduling.c
  current,    \* `current`, for each thread that has a copy of it
  \* the threads
  pc,         \* where the thread is
  h,          \* the `h` of the library call that the thread is executing
  ctx,        \* the local `ctx` of that call
  koro,       \* the handle a worker was created for
  \* user code
  seg,        \* segments that the body has begun: benchmark.c's ctx[i].i
  runs        \* koro_run calls that found it unfinished: benchmark.c's round

handleVars == <<magic, finished, a, arg>>
heapVars   == <<live, waitRun, waitYield>>
threadVars == <<pc, h, ctx, koro>>
userVars   == <<seg, runs>>
vars       == <<handleVars, heapVars, current, threadVars, userVars>>

(* The places where a thread can be.                                       *)
InitPcs  == {"init_create", "init_magic"}
RunPcs   == {"run", "cy_wait", "cy_clear", "wr_set", "wr_wait", "run_done",
             "run_exit"}
YieldPcs == {"yield", "cr_wait", "cr_clear", "wy_enter", "wy_set", "wy_wait"}
EndPcs   == {"fin_set", "fin_wait", "fin_clear", "exit"}
Pcs      == {"none", "user"} \union InitPcs \union RunPcs
              \union YieldPcs \union EndPcs

TypeOK ==
  /\ magic \in [Koros -> BOOLEAN]
  /\ finished \in [Koros -> BOOLEAN]
  /\ a \in [Koros -> Ctxs \union {None}]
  /\ arg \in [Koros -> BOOLEAN]
  /\ live \in SUBSET Ctxs
  /\ waitRun \in [Ctxs -> BOOLEAN]
  /\ waitYield \in [Ctxs -> BOOLEAN]
  /\ current \in [Threads -> Koros \union {None}]
  /\ pc \in [Threads -> Pcs]
  /\ h \in [Threads -> Koros \union {None}]
  /\ ctx \in [Threads -> Ctxs \union {None}]
  /\ koro \in [Workers -> Koros \union {None}]
  /\ seg \in [Koros -> Nat]
  /\ runs \in [Koros -> Nat]

(* Which copy of `current` thread t reads and writes: one per thread with  *)
(* _Thread_local, otherwise the one of the process.                        *)
Slot(t) == IF ThreadAware THEN t ELSE App

Goto(t, label) == pc' = [pc EXCEPT ![t] = label]

Init ==
  /\ magic = [k \in Koros |-> FALSE]
  /\ finished = [k \in Koros |-> FALSE]
  /\ a = [k \in Koros |-> None]
  /\ arg = [k \in Koros |-> FALSE]
  /\ live = {}
  /\ waitRun = [c \in Ctxs |-> FALSE]
  /\ waitYield = [c \in Ctxs |-> FALSE]
  /\ current = [t \in Threads |-> None]
  /\ pc = [t \in Threads |-> IF t = App THEN "user" ELSE "none"]
  /\ h = [t \in Threads |-> None]
  /\ ctx = [t \in Threads |-> None]
  /\ koro = [w \in Workers |-> None]
  /\ seg = [k \in Koros |-> 0]
  /\ runs = [k \in Koros |-> 0]

-------------------------------------------------------------------------------
(* koro_init, called by user code on a handle that holds no coroutine yet  *)
(* or a finished one.                                                      *)

(* Variant: koro_init leaves `finished` of the coroutine before.           *)
InitCall_KeepsFinished(t, k) ==
  /\ pc[t] = "user"
  /\ ~magic[k] \/ finished[k]
  /\ arg' = [arg EXCEPT ![k] = TRUE]
  /\ \E c \in Ctxs \ live :
       /\ live' = live \union {c}
       /\ a' = [a EXCEPT ![k] = c]
       /\ waitRun' = [waitRun EXCEPT ![c] = FALSE]
       /\ waitYield' = [waitYield EXCEPT ![c] = FALSE]
  /\ seg' = [seg EXCEPT ![k] = 0]
  /\ runs' = [runs EXCEPT ![k] = 0]
  /\ h' = [h EXCEPT ![t] = k]
  /\ Goto(t, "init_create")
  /\ UNCHANGED <<magic, finished, current, ctx, koro>>

(* The fields of the handle, then malloc and the flags of the context.     *)
InitCall(t, k) ==
  /\ pc[t] = "user"
  /\ ~magic[k] \/ finished[k]
  /\ finished' = [finished EXCEPT ![k] = FALSE]
  /\ arg' = [arg EXCEPT ![k] = TRUE]
  /\ \E c \in Ctxs \ live :
       /\ live' = live \union {c}
       /\ a' = [a EXCEPT ![k] = c]
       /\ waitRun' = [waitRun EXCEPT ![c] = FALSE]
       /\ waitYield' = [waitYield EXCEPT ![c] = FALSE]
  /\ seg' = [seg EXCEPT ![k] = 0]
  /\ runs' = [runs EXCEPT ![k] = 0]
  /\ h' = [h EXCEPT ![t] = k]
  /\ Goto(t, "init_create")
  /\ UNCHANGED <<magic, current, ctx, koro>>

(* thrd_create: a new worker whose thread function is _thread_runner(h).   *)
InitCreate(t) ==
  /\ pc[t] = "init_create"
  /\ \E w \in Workers :
       /\ pc[w] = "none"
       /\ koro' = [koro EXCEPT ![w] = h[t]]
       /\ h' = [h EXCEPT ![w] = h[t]]
       /\ pc' = [pc EXCEPT ![t] = "init_magic", ![w] = "wy_enter"]
  /\ UNCHANGED <<handleVars, heapVars, current, ctx, userVars>>

(* thrd_create fails and koro_init goes on as if it had not.               *)
InitCreateFails(t) ==
  /\ pc[t] = "init_create"
  /\ CreateMayFail
  /\ Goto(t, "init_magic")
  /\ UNCHANGED <<handleVars, heapVars, current, h, ctx, koro, userVars>>

InitMagic(t) ==
  /\ pc[t] = "init_magic"
  /\ magic' = [magic EXCEPT ![h[t]] = TRUE]
  /\ Goto(t, "user")
  /\ UNCHANGED <<finished, a, arg, heapVars, current, h, ctx, koro, userVars>>

-------------------------------------------------------------------------------
(* koro_run                                                                *)

(* Variant: koro_run does not look for a current coroutine.                *)
RunCall_Nested(t, k) ==
  /\ pc[t] = "user"
  /\ magic[k]
  /\ current' = [current EXCEPT ![Slot(t)] = k]
  /\ h' = [h EXCEPT ![t] = k]
  /\ Goto(t, "run")
  /\ UNCHANGED <<handleVars, heapVars, ctx, koro, userVars>>

(* koro_run returns at once when a coroutine is current; otherwise the     *)
(* handle becomes the current one.                                         *)
RunCall(t, k) ==
  /\ pc[t] = "user"
  /\ magic[k]
  /\ current[Slot(t)] = None
  /\ current' = [current EXCEPT ![Slot(t)] = k]
  /\ h' = [h EXCEPT ![t] = k]
  /\ Goto(t, "run")
  /\ UNCHANGED <<handleVars, heapVars, ctx, koro, userVars>>

(* Variant: _koro_run does not look at `finished`.                         *)
RunCheck_Finished(t) ==
  /\ pc[t] = "run"
  /\ Goto(t, "cy_wait")
  /\ ctx' = [ctx EXCEPT ![t] = a[h[t]]]
  /\ runs' = [runs EXCEPT ![h[t]] = @ + 1]
  /\ UNCHANGED <<handleVars, heapVars, current, h, koro, seg>>

(* _koro_run returns at once when the coroutine is finished.               *)
RunCheck(t) ==
  /\ pc[t] = "run"
  /\ IF finished[h[t]]
     THEN /\ Goto(t, "run_exit")
          /\ UNCHANGED <<ctx, runs>>
     ELSE /\ Goto(t, "cy_wait")
          /\ ctx' = [ctx EXCEPT ![t] = a[h[t]]]
          /\ runs' = [runs EXCEPT ![h[t]] = @ + 1]
  /\ UNCHANGED <<handleVars, heapVars, current, h, koro, seg>>

(* Variant: _continue_yield does not wait for the worker to park.          *)
ContinueYieldWait_AtOnce(t) ==
  /\ pc[t] = "cy_wait"
  /\ Goto(t, "cy_clear")
  /\ UNCHANGED <<handleVars, heapVars, current, h, ctx, koro, userVars>>

(* _continue_yield: wait until the worker is parked, and wake it.          *)
ContinueYieldWait(t) ==
  /\ pc[t] = "cy_wait"
  /\ waitYield[ctx[t]]
  /\ Goto(t, "cy_clear")
  /\ UNCHANGED <<handleVars, heapVars, current, h, ctx, koro, userVars>>

ContinueYieldClear(t) ==
  /\ pc[t] = "cy_clear"
  /\ waitYield' = [waitYield EXCEPT ![ctx[t]] = FALSE]
  /\ Goto(t, "wr_set")
  /\ UNCHANGED <<handleVars, live, waitRun, current, h, ctx, koro, userVars>>

(* _wait_for_run_continue: park until the worker yields or ends.           *)
WaitForRunSet(t) ==
  /\ pc[t] = "wr_set"
  /\ waitRun' = [waitRun EXCEPT ![ctx[t]] = TRUE]
  /\ Goto(t, "wr_wait")
  /\ UNCHANGED <<handleVars, live, waitYield, current, h, ctx, koro, userVars>>

(* Variant: _wait_for_run_continue does not wait.                          *)
WaitForRunWait_AtOnce(t) ==
  /\ pc[t] = "wr_wait"
  /\ Goto(t, "run_done")
  /\ UNCHANGED <<handleVars, heapVars, current, h, ctx, koro, userVars>>

WaitForRunWait(t) ==
  /\ pc[t] = "wr_wait"
  /\ ~waitRun[ctx[t]]
  /\ Goto(t, "run_done")
  /\ UNCHANGED <<handleVars, heapVars, current, h, ctx, koro, userVars>>

(* Variant: _koro_run does not free the context.                           *)
RunDone_Leaks(t) ==
  /\ pc[t] = "run_done"
  /\ Goto(t, "run_exit")
  /\ UNCHANGED <<handleVars, heapVars, current, h, ctx, koro, userVars>>

(* The end of _koro_run: the context of a finished coroutine is freed, and *)
(* h->ctx, the pointer for the body, is cleared (h->a is left as it is).   *)
RunDone(t) ==
  /\ pc[t] = "run_done"
  /\ IF finished[h[t]]
     THEN /\ live' = live \ {ctx[t]}
          /\ arg' = [arg EXCEPT ![h[t]] = FALSE]
     ELSE UNCHANGED <<live, arg>>
  /\ Goto(t, "run_exit")
  /\ UNCHANGED <<magic, finished, a, waitRun, waitYield, current, h, ctx,
                 koro, userVars>>

(* Variant: koro_run leaves the coroutine current.                         *)
RunExit_KeepsCurrent(t) ==
  /\ pc[t] = "run_exit"
  /\ Goto(t, "user")
  /\ UNCHANGED <<handleVars, heapVars, current, h, ctx, koro, userVars>>

RunExit(t) ==
  /\ pc[t] = "run_exit"
  /\ current' = [current EXCEPT ![Slot(t)] = None]
  /\ Goto(t, "user")
  /\ UNCHANGED <<handleVars, heapVars, h, ctx, koro, userVars>>

-------------------------------------------------------------------------------
(* The worker: _thread_runner, the body, and the koro_yield it calls.      *)

(* Variant: CTX(h) casts h instead of h->a.                                *)
WaitForYieldEnter_Handle(w) ==
  /\ pc[w] = "wy_enter"
  /\ ctx' = [ctx EXCEPT ![w] = h[w]]
  /\ Goto(w, "wy_set")
  /\ UNCHANGED <<handleVars, heapVars, current, h, koro, userVars>>

(* _wait_for_yield_continue, entered by a new thread and by koro_yield:    *)
(* park, and go on with the body once koro_run clears the flag.            *)
WaitForYieldEnter(w) ==
  /\ pc[w] = "wy_enter"
  /\ ctx' = [ctx EXCEPT ![w] = a[h[w]]]
  /\ Goto(w, "wy_set")
  /\ UNCHANGED <<handleVars, heapVars, current, h, koro, userVars>>

WaitForYieldSet(w) ==
  /\ pc[w] = "wy_set"
  /\ waitYield' = [waitYield EXCEPT ![ctx[w]] = TRUE]
  /\ Goto(w, "wy_wait")
  /\ UNCHANGED <<handleVars, live, waitRun, current, h, ctx, koro, userVars>>

(* Variant: _wait_for_yield_continue does not wait.                        *)
WaitForYieldWait_AtOnce(w) ==
  /\ pc[w] = "wy_wait"
  /\ seg' = [seg EXCEPT ![koro[w]] = @ + 1]
  /\ Goto(w, "user")
  /\ UNCHANGED <<handleVars, heapVars, current, h, ctx, koro, runs>>

WaitForYieldWait(w) ==
  /\ pc[w] = "wy_wait"
  /\ ~waitYield[ctx[w]]
  /\ seg' = [seg EXCEPT ![koro[w]] = @ + 1]
  /\ Goto(w, "user")
  /\ UNCHANGED <<handleVars, heapVars, current, h, ctx, koro, runs>>

(* The body calls koro_yield.  With no current coroutine the call returns  *)
(* at once and the body begins its next segment.                           *)
YieldCall(w) ==
  /\ pc[w] = "user"
  /\ seg[koro[w]] < MaxSegs
  /\ IF current[Slot(w)] = None
     THEN /\ seg' = [seg EXCEPT ![koro[w]] = @ + 1]
          /\ UNCHANGED pc
     ELSE /\ Goto(w, "yield")
          /\ UNCHANGED seg
  /\ UNCHANGED <<handleVars, heapVars, current, h, ctx, koro, runs>>

(* koro_yield reads `current` a second time and enters _continue_run.      *)
YieldCurrent(w) ==
  /\ pc[w] = "yield"
  /\ LET k == current[Slot(w)] IN
       /\ k # None
       /\ h' = [h EXCEPT ![w] = k]
       /\ ctx' = [ctx EXCEPT ![w] = a[k]]
  /\ Goto(w, "cr_wait")
  /\ UNCHANGED <<handleVars, heapVars, current, koro, userVars>>

(* Variant: _continue_run does not wait for koro_run to park.              *)
ContinueRunWait_AtOnce(w) ==
  /\ pc[w] = "cr_wait"
  /\ Goto(w, "cr_clear")
  /\ UNCHANGED <<handleVars, heapVars, current, h, ctx, koro, userVars>>

(* _continue_run, called by koro_yield: wait until koro_run is parked,     *)
(* give the baton back, and go on to _wait_for_yield_continue.             *)
ContinueRunWait(w) ==
  /\ pc[w] = "cr_wait"
  /\ waitRun[ctx[w]]
  /\ Goto(w, "cr_clear")
  /\ UNCHANGED <<handleVars, heapVars, current, h, ctx, koro, userVars>>

ContinueRunClear(w) ==
  /\ pc[w] = "cr_clear"
  /\ waitRun' = [waitRun EXCEPT ![ctx[w]] = FALSE]
  /\ Goto(w, "wy_enter")
  /\ UNCHANGED <<handleVars, live, waitYield, current, h, ctx, koro, userVars>>

(* The body returns to _thread_runner.                                     *)
BodyReturn(w) ==
  /\ pc[w] = "user"
  /\ Goto(w, "fin_set")
  /\ UNCHANGED <<handleVars, heapVars, current, h, ctx, koro, userVars>>

FinishedSet(w) ==
  /\ pc[w] = "fin_set"
  /\ finished' = [finished EXCEPT ![koro[w]] = TRUE]
  /\ h' = [h EXCEPT ![w] = koro[w]]
  /\ ctx' = [ctx EXCEPT ![w] = a[koro[w]]]
  /\ Goto(w, "fin_wait")
  /\ UNCHANGED <<magic, a, arg, heapVars, current, koro, userVars>>

(* _continue_run, called by _thread_runner.                                *)
FinishedWait(w) ==
  /\ pc[w] = "fin_wait"
  /\ waitRun[ctx[w]]
  /\ Goto(w, "fin_clear")
  /\ UNCHANGED <<handleVars, heapVars, current, h, ctx, koro, userVars>>

FinishedClear(w) ==
  /\ pc[w] = "fin_clear"
  /\ waitRun' = [waitRun EXCEPT ![ctx[w]] = FALSE]
  /\ Goto(w, "exit")
  /\ UNCHANGED <<handleVars, live, waitYield, current, h, ctx, koro, userVars>>

(* thrd_exit.  There is no end of identities: one that is no longer in use *)
(* is taken for another thread.                                            *)
ThreadExit(w) ==
  /\ pc[w] = "exit"
  /\ koro' = [koro EXCEPT ![w] = None]
  /\ h' = [h EXCEPT ![w] = None]
  /\ ctx' = [ctx EXCEPT ![w] = None]
  /\ Goto(w, "none")
  /\ UNCHANGED <<handleVars, heapVars, current, userVars>>

-------------------------------------------------------------------------------
InitStep(t) == InitCreate(t) \/ InitCreateFails(t) \/ InitMagic(t)

RunStep(t) ==
  \/ RunCheck(t)
  \/ ContinueYieldWait(t) \/ ContinueYieldClear(t)
  \/ WaitForRunSet(t) \/ WaitForRunWait(t)
  \/ RunDone(t) \/ RunExit(t)

WorkerStep(w) ==
  \/ WaitForYieldEnter(w) \/ WaitForYieldSet(w)
  \/ WaitForYieldWait(w)
  \/ YieldCurrent(w)
  \/ ContinueRunWait(w) \/ ContinueRunClear(w)
  \/ FinishedSet(w) \/ FinishedWait(w) \/ FinishedClear(w)
  \/ ThreadExit(w)

(* What a body does to end its segment.                                    *)
BodyStep(w) == YieldCall(w) \/ BodyReturn(w)

Next ==
  \/ \E t \in Threads :
       \/ \E k \in Koros : InitCall(t, k) \/ RunCall(t, k)
       \/ InitStep(t)
       \/ RunStep(t)
  \/ \E w \in Workers : WorkerStep(w) \/ BodyStep(w)

Spec == Init /\ [][Next]_vars

(* The operating system runs every thread that can go on, a spinning one   *)
(* gives up the processor (thrd_yield), and a body that runs reaches its   *)
(* next yield or returns.  Nothing makes the application call anything.    *)
Fairness ==
  /\ \A t \in Threads : WF_vars(InitStep(t)) /\ WF_vars(RunStep(t))
  /\ \A w \in Workers : WF_vars(WorkerStep(w)) /\ WF_vars(BodyStep(w))

FairSpec == Spec /\ Fairness

-------------------------------------------------------------------------------
(* Properties                                                              *)

InUserCode(t) == pc[t] = "user"

(* A coroutine is a coroutine and not a thread: the application and the    *)
(* bodies never execute at the same time, although each has a thread, so   *)
(* user code needs no locks.  The two spin flags of threads_backend.c      *)
(* arrange it.                                                             *)
OneAtATime ==
  \A t, u \in Threads : InUserCode(t) /\ InUserCode(u) => t = u

(* Where a thread is about to read or write its ctx->wait_...              *)
UsesCtx == {"cy_wait", "cy_clear", "wr_set", "wr_wait", "cr_wait",
            "cr_clear", "wy_set", "wy_wait", "fin_wait", "fin_clear"}

(* The free at the end of _koro_run comes after the last access that the   *)
(* finished worker makes to its context, and no thread touches the context *)
(* of another coroutine: a context in use is malloc'ed and is the one of   *)
(* the coroutine that the thread is working for.                           *)
CtxInUseIsLive ==
  \A t \in Threads :
    pc[t] \in UsesCtx =>
      /\ ctx[t] \in live
      /\ ctx[t] = a[h[t]]
      /\ t \in Workers => h[t] = koro[t]

(* While the application runs, the heap holds exactly the contexts of the  *)
(* unfinished coroutines, one each, and the body of each of them will find *)
(* its h->ctx: _koro_run frees what koro_init allocated, once, and not     *)
(* while it is needed.                                                     *)
HeapIsUnfinished ==
  InUserCode(App) =>
    LET unfinished == {k \in Koros : magic[k] /\ ~finished[k]} IN
    /\ live = {a[k] : k \in unfinished}
    /\ \A k, j \in unfinished : a[k] = a[j] => k = j
    /\ \A k \in unfinished : arg[k]

(* koro_yield finds its own coroutine: while a body runs, and inside its   *)
(* koro_yield, `current` is that coroutine, and while the application runs *)
(* no coroutine is current.                                                *)
CurrentIsRunning ==
  /\ InUserCode(App) => current[Slot(App)] = None
  /\ \A w \in Workers :
       InUserCode(w) \/ pc[w] = "yield" => current[Slot(w)] = koro[w]

(* examples/benchmark.c, "check that all coroutines executed equal         *)
(* amount": a body never gets ahead of the koro_run calls made on it, and  *)
(* back in the application it has executed one segment for each of them.   *)
WorkEqualsRuns ==
  \A k \in Koros :
    /\ seg[k] <= runs[k]
    /\ InUserCode(App) => seg[k] = runs[k]

(* koro_run switches to an unfinished coroutine: its worker gets to        *)
(* execute the body.                                                       *)
RunSwitches ==
  \A k \in Koros :
    pc[App] = "run" /\ h[App] = k /\ ~finished[k]
      ~> \E w \in Workers : koro[w] = k /\ InUserCode(w)

(* koro_run comes back to its caller, whether the body yields or returns.  *)
RunReturns == pc[App] = "run" ~> InUserCode(App)

-------------------------------------------------------------------------------
(* The inductive invariant of the build with one `current`.                *)

(* The context of the handle is in use: koro_init has allocated it, and    *)
(* the koro_run that sees the coroutine finish has not freed it yet.       *)
Open(k) ==
  /\ a[k] # None
  /\ \/ ~finished[k]
     \/ pc[App] \in {"wr_set", "wr_wait", "run_done"} /\ h[App] = k

AtWork(w) == pc[w] \notin {"none", "exit"}

(* The worker has the baton: it was woken and has not cleared wait_run.    *)
HoldPcs == {"user", "yield", "cr_wait", "cr_clear", "fin_set", "fin_wait",
            "fin_clear"} \union InitPcs

Awake(w) ==
  \/ pc[w] \in HoldPcs
  \/ pc[w] = "wy_wait" /\ ~waitYield[ctx[w]]

(* Open handles have a context each, and only an init under way can leave  *)
(* a handle with a context but no magic.                                   *)
HandlesInv ==
  \A k \in Koros :
    /\ Open(k) => a[k] \in live /\ arg[k]
    /\ \A j \in Koros : Open(k) /\ Open(j) /\ a[k] = a[j] => k = j
    /\ magic[k] => a[k] # None
    /\ ~magic[k] => seg[k] = 0
    /\ a[k] # None /\ ~magic[k] =>
         \E t \in Threads : pc[t] \in InitPcs /\ h[t] = k

LiveInv == \A c \in live : \E k \in Koros : Open(k) /\ a[k] = c

InitInv ==
  \A t \in Threads :
    pc[t] \in InitPcs =>
      /\ h[t] \in Koros
      /\ a[h[t]] # None
      /\ ~finished[h[t]]
      /\ pc[t] = "init_create" =>
           \A w \in Workers : AtWork(w) => koro[w] # h[t]

AppInv ==
  /\ pc[App] \in {"user"} \union InitPcs \union RunPcs
  /\ pc[App] \in RunPcs => h[App] \in Koros /\ magic[h[App]]
  /\ pc[App] \in {"cy_wait", "cy_clear", "wr_set", "wr_wait", "run_done"} =>
       ctx[App] = a[h[App]]
  /\ pc[App] \in {"cy_wait", "cy_clear"} => ~finished[h[App]]
  /\ pc[App] = "cy_clear" => waitYield[ctx[App]]
  /\ current[App] = IF pc[App] \in RunPcs THEN h[App] ELSE None

WorkerInv ==
  \A w \in Workers :
    /\ pc[w] \in {"none", "user"} \union InitPcs \union YieldPcs \union EndPcs
    /\ koro[w] = None <=> pc[w] = "none"
    /\ AtWork(w) =>
         /\ a[koro[w]] # None
         /\ finished[koro[w]] => pc[w] \in {"fin_wait", "fin_clear"}
         /\ pc[w] # "wy_wait" => ~waitYield[a[koro[w]]]
         /\ \A v \in Workers : AtWork(v) /\ koro[v] = koro[w] => v = w
    /\ pc[w] = "wy_enter" \/ pc[w] \in UsesCtx => h[w] = koro[w]
    /\ pc[w] \in UsesCtx => ctx[w] = a[koro[w]]

(* A woken worker is the one that the parked koro_run works for, and       *)
(* wait_run stays set until that worker clears it.                         *)
BatonInv ==
  /\ \A w \in Workers :
       Awake(w) => /\ pc[App] \in {"wr_set", "wr_wait"}
                   /\ h[App] = koro[w]
                   /\ pc[App] = "wr_wait" => waitRun[ctx[App]]
  /\ \A c \in Ctxs : waitRun[c] => pc[App] = "wr_wait" /\ ctx[App] = c

(* A koro_run has counted and its worker has not begun the segment yet.    *)
Pending(k) ==
  \/ pc[App] \in {"cy_wait", "cy_clear"} /\ h[App] = k
  \/ \E w \in Workers :
       koro[w] = k /\ pc[w] = "wy_wait" /\ ~waitYield[ctx[w]]

(* A set wait_yield is that of a parked worker, and only such a worker is  *)
(* ever woken: each koro_run that counts begins one segment.               *)
CountInv ==
  /\ \A c \in Ctxs :
       waitYield[c] => \E w \in Workers : pc[w] = "wy_wait" /\ ctx[w] = c
  /\ \A k \in Koros : runs[k] = IF Pending(k) THEN seg[k] + 1 ELSE seg[k]

IInv ==
  /\ TypeOK
  /\ HandlesInv
  /\ LiveInv
  /\ InitInv
  /\ AppInv
  /\ WorkerInv
  /\ BatonInv
  /\ CountInv

-------------------------------------------------------------------------------
(* The library over this backend implements Coroutines: a segment is under *)
(* way from the moment its worker leaves _wait_for_yield_continue until it *)
(* clears wait_run.                                                        *)
UnderWay(k) ==
  \E w \in Workers :
    /\ koro[w] = k
    /\ pc[w] \in HoldPcs

statusMap ==
  [k \in Koros |->
     IF UnderWay(k) THEN "running"
     ELSE IF ~magic[k] THEN "none"
     ELSE IF finished[k] THEN "finished" ELSE "suspended"]

activeMap ==
  [r \in {App} |->
     IF \E k \in Koros : UnderWay(k)
     THEN CHOOSE k \in Koros : UnderWay(k) ELSE None]

Promise == INSTANCE Coroutines
             WITH Runners <- {App}, status <- statusMap, active <- activeMap

(* The application may rely on Coroutines, the safety and the liveness of  *)
(* it, whatever the threads interleave: each koro_run executes exactly one *)
(* segment of its coroutine, which suspends or finishes it.                *)
ImplementsCoroutines == Promise!Spec

ImplementsFairCoroutines == Promise!FairSpec
===============================================================================
