------------------------- MODULE ThreadsBackend_proofs -------------------------
(***************************************************************************)
(* What ThreadsBackend does for any number of coroutines, workers and      *)
(* contexts, in the build with one `current`: KORO_THREAD_AWARE is 0.      *)
(* (With KORO_THREAD_AWARE, CurrentIsRunning does not hold.)               *)
(*                                                                         *)
(* The argument: IInv is inductive.  Its heart is BatonInv: a worker that  *)
(* was woken and has not given the baton back has its koro_run parked at   *)
(* wr_set or wr_wait, with h[App] its own coroutine; as the application    *)
(* is at one place, there is one such worker at most, and none while the   *)
(* application is anywhere else.  From IInv follow the safety invariants,  *)
(* and that the backend implements Coroutines.                             *)
(***************************************************************************)
EXTENDS ThreadsBackend, TLAPS

USE Distinct, Flags
    DEF Threads, Slot, Goto, handleVars, heapVars, threadVars, userVars,
        Pcs, InitPcs, RunPcs, YieldPcs, EndPcs, UsesCtx, HoldPcs

(* One thread has the baton: what threads_backend.c's two flags are for.   *)
LEMMA OneBaton ==
  ASSUME IInv, NEW t \in Threads, NEW u \in Threads,
         pc[t] \in HoldPcs, pc[u] \in HoldPcs
  PROVE  t = u
BY DEF IInv, AppInv, WorkerInv, BatonInv, AtWork, Awake

(* A handle that user code may give to koro_init has neither a context nor *)
(* a worker that could still touch one.                                    *)
LEMMA Available ==
  ASSUME IInv, NEW t \in Threads, NEW k \in Koros,
         pc[t] = "user", ~magic[k] \/ finished[k]
  PROVE  /\ ~Open(k)
         /\ \A w \in Workers : AtWork(w) => koro[w] # k
<1>1. CASE finished[k]
  BY <1>1, OneBaton
     DEF IInv, AppInv, WorkerInv, BatonInv, AtWork, Awake, Open
<1>2. CASE ~magic[k]
  BY <1>2, OneBaton
     DEF IInv, AppInv, WorkerInv, BatonInv, HandlesInv, AtWork, Open
<1> QED BY <1>1, <1>2

(* What HandlesInv says is about the handles and who initialises them.     *)
LEMMA HandlesKept ==
  ASSUME HandlesInv, UNCHANGED <<handleVars, live, seg>>,
         \A k \in Koros : Open(k)' => Open(k),
         \A t \in Threads :
           pc[t] \in InitPcs => pc'[t] \in InitPcs /\ h'[t] = h[t]
  PROVE  HandlesInv'
<1> SUFFICES ASSUME NEW k \in Koros
             PROVE  /\ Open(k)' => a'[k] \in live' /\ arg'[k]
                    /\ \A j \in Koros :
                         Open(k)' /\ Open(j)' /\ a'[k] = a'[j] => k = j
                    /\ magic'[k] => a'[k] # None
                    /\ ~magic'[k] => seg'[k] = 0
                    /\ a'[k] # None /\ ~magic'[k] =>
                         \E t \in Threads : pc'[t] \in InitPcs /\ h'[t] = k
  BY DEF HandlesInv
<1>1. /\ Open(k)' => a'[k] \in live' /\ arg'[k]
      /\ \A j \in Koros :
           Open(k)' /\ Open(j)' /\ a'[k] = a'[j] => k = j
      /\ magic'[k] => a'[k] # None
      /\ ~magic'[k] => seg'[k] = 0
  BY DEF HandlesInv
<1>2. ASSUME a'[k] # None, ~magic'[k]
      PROVE  \E t \in Threads : pc'[t] \in InitPcs /\ h'[t] = k
  <2>1. PICK t \in Threads : pc[t] \in InitPcs /\ h[t] = k
    BY <1>2 DEF HandlesInv
  <2> QED BY <2>1
<1> QED BY <1>1, <1>2

(* Nothing holds the baton and no handle is in use before the first call.  *)
LEMMA InitInvariant == Init => IInv
<1> SUFFICES ASSUME Init PROVE IInv
  OBVIOUS
<1>1. TypeOK BY DEF Init, TypeOK
<1>2. HandlesInv BY DEF Init, HandlesInv, Open
<1>3. LiveInv BY DEF Init, LiveInv
<1>4. InitInv BY DEF Init, InitInv
<1>5. AppInv BY DEF Init, AppInv
<1>6. WorkerInv BY DEF Init, WorkerInv, AtWork
<1>7. BatonInv BY DEF Init, BatonInv, Awake
<1>8. CountInv BY DEF Init, CountInv, Pending
<1> QED BY <1>1, <1>2, <1>3, <1>4, <1>5, <1>6, <1>7, <1>8 DEF IInv

(* Every step of the library and of user code keeps the invariant.         *)
LEMMA NextInvariant ==
  ASSUME ~ThreadAware, IInv, [Next]_vars
  PROVE  IInv'
<1> USE DEF IInv
\* koro_init: the new context is nobody else's, and the handle has no worker.
<1>1. ASSUME NEW t \in Threads, NEW k \in Koros, InitCall(t, k) PROVE IInv'
  <2> PICK c \in Ctxs \ live :
        /\ live' = live \union {c}
        /\ a' = [a EXCEPT ![k] = c]
        /\ waitRun' = [waitRun EXCEPT ![c] = FALSE]
        /\ waitYield' = [waitYield EXCEPT ![c] = FALSE]
    BY <1>1 DEF InitCall
  <2>a. /\ ~Open(k)
        /\ \A w \in Workers : AtWork(w) => koro[w] # k
    BY <1>1, Available DEF InitCall
  <2>b. \A j \in Koros \ {k} : Open(j)' <=> Open(j)
    BY <1>1 DEF InitCall, TypeOK, Open
  <2>1. TypeOK' BY <1>1 DEF InitCall, TypeOK
  <2>2. HandlesInv' BY <1>1, <2>a, <2>b DEF InitCall, TypeOK, HandlesInv
  <2>3. LiveInv' BY <1>1, <2>a, <2>b DEF InitCall, TypeOK, LiveInv, Open
  <2>4. InitInv' BY <1>1, <2>a, <2>b, OneBaton DEF InitCall, TypeOK, InitInv,
        AtWork
  <2>5. AppInv' BY <1>1, <2>a, <2>b, OneBaton DEF InitCall, AppInv, BatonInv,
        AtWork, Awake
  <2>6. WorkerInv' BY <1>1, <2>a, <2>b DEF InitCall, WorkerInv, AtWork
  <2>7. BatonInv' BY <1>1, <2>a, <2>b, OneBaton DEF InitCall, TypeOK,
        HandlesInv, AppInv, WorkerInv, BatonInv, Open, AtWork, Awake
  <2>8. CountInv' BY <1>1, <2>a, <2>b, OneBaton DEF InitCall, TypeOK,
        HandlesInv, WorkerInv, BatonInv, CountInv, Open, AtWork, Awake,
        Pending
  <2> QED BY <2>1, <2>2, <2>3, <2>4, <2>5, <2>6, <2>7, <2>8
\* The worker is the only one of its handle, and not awake.
<1>2. ASSUME NEW t \in Threads, InitCreate(t) PROVE IInv'
  <2> PICK w \in Workers :
        /\ pc[w] = "none"
        /\ koro' = [koro EXCEPT ![w] = h[t]]
        /\ h' = [h EXCEPT ![w] = h[t]]
        /\ pc' = [pc EXCEPT ![t] = "init_magic", ![w] = "wy_enter"]
    BY <1>2 DEF InitCreate
  <2>a. /\ koro' \in [Workers -> Koros \union {None}]
        /\ h' \in [Threads -> Koros \union {None}]
    BY DEF TypeOK
  <2>b. pc' \in [Threads -> Pcs]
    BY DEF TypeOK
  <2>1. TypeOK' BY <1>2, <2>a, <2>b DEF InitCreate, TypeOK
  <2>c. \A k \in Koros : Open(k)' <=> Open(k)
    BY <1>2, <2>b DEF InitCreate, TypeOK, Open
  <2>d. \A u \in Threads :
          pc[u] \in InitPcs => pc'[u] \in InitPcs /\ h'[u] = h[u]
    BY <1>2, <2>b DEF InitCreate, TypeOK
  <2>e. UNCHANGED <<handleVars, live, seg>>
    BY <1>2 DEF InitCreate
  <2>2. HandlesInv' BY <2>c, <2>d, <2>e, HandlesKept
  <2>3. LiveInv' BY <1>2 DEF InitCreate, TypeOK, LiveInv, Open
  <2>4. InitInv' BY <1>2 DEF InitCreate, TypeOK, InitInv, WorkerInv, BatonInv,
        AtWork, Awake
  <2>5. AppInv' BY <1>2 DEF InitCreate, TypeOK, AppInv
  <2>6. WorkerInv'
    <3>1. \A v \in Workers : AtWork(v)' <=> AtWork(v) \/ v = w
      BY <1>2, <2>5 DEF InitCreate, TypeOK, AppInv, AtWork
    <3>2. \A v \in Workers : AtWork(v) => koro[v] # h[t] /\ v # w
      BY <1>2 DEF InitCreate, InitInv, AtWork
    <3>3. ~waitYield[a[h[t]]]
      <4>1. \A v \in Workers : AtWork(v) => a[koro[v]] # a[h[t]]
        BY <1>2, <3>2
           DEF InitCreate, TypeOK, HandlesInv, InitInv, WorkerInv, BatonInv,
               Open, AtWork, Awake
      <4> QED BY <1>2, <4>1
            DEF InitCreate, TypeOK, InitInv, WorkerInv, CountInv, AtWork
    <3>4. /\ t # w
          /\ h[t] \in Koros
          /\ a[h[t]] # None
          /\ ~finished[h[t]]
      BY <1>2 DEF InitCreate, InitInv
    <3> QED BY <1>2, <3>1, <3>2, <3>3, <3>4
          DEF InitCreate, TypeOK, WorkerInv
  <2>7. BatonInv' BY <1>2 DEF InitCreate, TypeOK, BatonInv, Awake
  <2>8. CountInv' BY <1>2 DEF InitCreate, TypeOK, CountInv, Pending
  <2> QED BY <2>1, <2>2, <2>3, <2>4, <2>5, <2>6, <2>7, <2>8
<1>3. ASSUME NEW t \in Threads, InitCreateFails(t) PROVE IInv'
  <2>1. TypeOK' BY <1>3 DEF InitCreateFails, TypeOK
  <2>2. HandlesInv' BY <1>3 DEF InitCreateFails, HandlesInv, Open
  <2>3. LiveInv' BY <1>3 DEF InitCreateFails, LiveInv, Open
  <2>4. InitInv' BY <1>3 DEF InitCreateFails, InitInv, AtWork
  <2>5. AppInv' BY <1>3 DEF InitCreateFails, AppInv
  <2>6. WorkerInv' BY <1>3 DEF InitCreateFails, WorkerInv, AtWork
  <2>7. BatonInv' BY <1>3 DEF InitCreateFails, BatonInv, Awake
  <2>8. CountInv' BY <1>3 DEF InitCreateFails, CountInv, Pending
  <2> QED BY <2>1, <2>2, <2>3, <2>4, <2>5, <2>6, <2>7, <2>8
<1>4. ASSUME NEW t \in Threads, InitMagic(t) PROVE IInv'
  <2>1. TypeOK' BY <1>4 DEF InitMagic, TypeOK, InitInv
  <2>2. HandlesInv' BY <1>4 DEF InitMagic, TypeOK, HandlesInv, InitInv, Open
  <2>3. LiveInv' BY <1>4 DEF InitMagic, LiveInv, Open
  <2>4. InitInv' BY <1>4 DEF InitMagic, InitInv, AtWork
  <2>5. AppInv' BY <1>4 DEF InitMagic, AppInv
  <2>6. WorkerInv' BY <1>4 DEF InitMagic, WorkerInv, AtWork
  <2>7. BatonInv' BY <1>4 DEF InitMagic, BatonInv, Awake
  <2>8. CountInv' BY <1>4 DEF InitMagic, CountInv, Pending
  <2> QED BY <2>1, <2>2, <2>3, <2>4, <2>5, <2>6, <2>7, <2>8
<1>5. ASSUME NEW t \in Threads, NEW k \in Koros, RunCall(t, k) PROVE IInv'
  <2>1. TypeOK' BY <1>5 DEF RunCall, TypeOK
  <2>2. HandlesInv' BY <1>5 DEF RunCall, HandlesInv, Open
  <2>3. LiveInv' BY <1>5 DEF RunCall, LiveInv, Open
  <2>4. InitInv' BY <1>5 DEF RunCall, InitInv, AtWork
  <2>5. AppInv' BY <1>5 DEF RunCall, TypeOK, AppInv, BatonInv, Awake
  <2>6. WorkerInv' BY <1>5 DEF RunCall, AppInv, WorkerInv, BatonInv, AtWork,
        Awake
  <2>7. BatonInv' BY <1>5 DEF RunCall, BatonInv, Awake
  <2>8. CountInv' BY <1>5 DEF RunCall, CountInv, Pending
  <2> QED BY <2>1, <2>2, <2>3, <2>4, <2>5, <2>6, <2>7, <2>8
\* A coroutine is under way only if the application is in koro_run.
<1>6. ASSUME NEW t \in Threads, RunCheck(t) PROVE IInv'
  <2>1. TypeOK' BY <1>6 DEF RunCheck, TypeOK, AppInv, WorkerInv
  <2>2. HandlesInv' BY <1>6 DEF RunCheck, TypeOK, HandlesInv, Open
  <2>3. LiveInv' BY <1>6 DEF RunCheck, TypeOK, LiveInv, Open
  <2>4. InitInv' BY <1>6 DEF RunCheck, TypeOK, InitInv, AtWork
  <2>5. AppInv' BY <1>6 DEF RunCheck, TypeOK, AppInv
  <2>6. WorkerInv' BY <1>6 DEF RunCheck, TypeOK, WorkerInv, AtWork
  <2>7. BatonInv' BY <1>6 DEF RunCheck, TypeOK, BatonInv, Awake
  <2>8. CountInv' BY <1>6 DEF RunCheck, TypeOK, WorkerInv, BatonInv, CountInv,
        Awake, Pending
  <2> QED BY <2>1, <2>2, <2>3, <2>4, <2>5, <2>6, <2>7, <2>8
<1>7. ASSUME NEW t \in Threads, ContinueYieldWait(t) PROVE IInv'
  <2>1. TypeOK' BY <1>7 DEF ContinueYieldWait, TypeOK
  <2>2. HandlesInv' BY <1>7 DEF ContinueYieldWait, HandlesInv, Open
  <2>3. LiveInv' BY <1>7 DEF ContinueYieldWait, LiveInv, Open
  <2>4. InitInv' BY <1>7 DEF ContinueYieldWait, InitInv, AtWork
  <2>5. AppInv' BY <1>7 DEF ContinueYieldWait, AppInv
  <2>6. WorkerInv' BY <1>7 DEF ContinueYieldWait, WorkerInv, AtWork
  <2>7. BatonInv' BY <1>7 DEF ContinueYieldWait, BatonInv, Awake
  <2>8. CountInv' BY <1>7 DEF ContinueYieldWait, CountInv, Pending
  <2> QED BY <2>1, <2>2, <2>3, <2>4, <2>5, <2>6, <2>7, <2>8
\* wait_yield is set, so there is a worker to wake, and it is that of h.
<1>8. ASSUME NEW t \in Threads, ContinueYieldClear(t) PROVE IInv'
  <2>a. t = App BY <1>8 DEF ContinueYieldClear, WorkerInv
  <2>1. TypeOK' BY <1>8 DEF ContinueYieldClear, TypeOK, HandlesInv, AppInv,
        WorkerInv
  <2>b. \A k \in Koros : Open(k)' <=> Open(k)
    BY <1>8, <2>a DEF ContinueYieldClear, TypeOK, AppInv, Open
  <2>c. \A u \in Threads : pc[u] \in InitPcs => pc'[u] = pc[u]
    BY <1>8, <2>a DEF ContinueYieldClear, TypeOK
  <2>2. HandlesInv' BY <1>8, <2>b, <2>c, HandlesKept DEF ContinueYieldClear
  <2>3. LiveInv' BY <1>8 DEF ContinueYieldClear, LiveInv, Open
  <2>4. InitInv' BY <1>8 DEF ContinueYieldClear, InitInv, AtWork
  <2>5. AppInv' BY <1>8, <2>a DEF ContinueYieldClear, TypeOK, AppInv
  <2>6. WorkerInv' BY <1>8 DEF ContinueYieldClear, WorkerInv, AtWork
  <2>7. BatonInv' BY <1>8, <2>a DEF ContinueYieldClear, TypeOK, HandlesInv,
        AppInv, WorkerInv, BatonInv, Open, AtWork, Awake
  <2>8. CountInv' BY <1>8, <2>a DEF ContinueYieldClear, TypeOK, HandlesInv,
        AppInv, WorkerInv, CountInv, Open, AtWork, Pending
  <2> QED BY <2>1, <2>2, <2>3, <2>4, <2>5, <2>6, <2>7, <2>8
<1>9. ASSUME NEW t \in Threads, WaitForRunSet(t) PROVE IInv'
  <2>1. TypeOK' BY <1>9 DEF WaitForRunSet, TypeOK, HandlesInv, AppInv,
        WorkerInv
  <2>2. HandlesInv' BY <1>9 DEF WaitForRunSet, HandlesInv, Open
  <2>3. LiveInv' BY <1>9 DEF WaitForRunSet, LiveInv, Open
  <2>4. InitInv' BY <1>9 DEF WaitForRunSet, InitInv, AtWork
  <2>5. AppInv' BY <1>9 DEF WaitForRunSet, AppInv
  <2>6. WorkerInv' BY <1>9 DEF WaitForRunSet, WorkerInv, AtWork
  <2>7. BatonInv' BY <1>9 DEF WaitForRunSet, TypeOK, AppInv, WorkerInv,
        BatonInv, AtWork, Awake
  <2>8. CountInv' BY <1>9 DEF WaitForRunSet, CountInv, Pending
  <2> QED BY <2>1, <2>2, <2>3, <2>4, <2>5, <2>6, <2>7, <2>8
<1>10. ASSUME NEW t \in Threads, WaitForRunWait(t) PROVE IInv'
  <2>1. TypeOK' BY <1>10 DEF WaitForRunWait, TypeOK
  <2>2. HandlesInv' BY <1>10 DEF WaitForRunWait, HandlesInv, Open
  <2>3. LiveInv' BY <1>10 DEF WaitForRunWait, LiveInv, Open
  <2>4. InitInv' BY <1>10 DEF WaitForRunWait, InitInv, AtWork
  <2>5. AppInv' BY <1>10 DEF WaitForRunWait, AppInv
  <2>6. WorkerInv' BY <1>10 DEF WaitForRunWait, WorkerInv, AtWork
  <2>7. BatonInv' BY <1>10 DEF WaitForRunWait, BatonInv, Awake
  <2>8. CountInv' BY <1>10 DEF WaitForRunWait, CountInv, Pending
  <2> QED BY <2>1, <2>2, <2>3, <2>4, <2>5, <2>6, <2>7, <2>8
\* No worker is awake, so none of a finished coroutine is left at work.
<1>11. ASSUME NEW t \in Threads, RunDone(t) PROVE IInv'
  <2>1. TypeOK'
    <3>1. live' \in SUBSET Ctxs BY <1>11 DEF RunDone, TypeOK
    <3>2. arg' \in [Koros -> BOOLEAN] BY <1>11 DEF RunDone, TypeOK
    <3> QED BY <1>11, <3>1, <3>2 DEF RunDone, TypeOK
  <2>2. HandlesInv' BY <1>11 DEF RunDone, TypeOK, HandlesInv, AppInv,
        WorkerInv, Open
  <2>3. LiveInv' BY <1>11 DEF RunDone, LiveInv, AppInv, Open
  <2>4. InitInv' BY <1>11 DEF RunDone, InitInv, AtWork
  <2>5. AppInv' BY <1>11 DEF RunDone, AppInv
  <2>6. WorkerInv' BY <1>11 DEF RunDone, WorkerInv, AtWork
  <2>7. BatonInv' BY <1>11 DEF RunDone, BatonInv, Awake
  <2>8. CountInv' BY <1>11 DEF RunDone, CountInv, Pending
  <2> QED BY <2>1, <2>2, <2>3, <2>4, <2>5, <2>6, <2>7, <2>8
<1>12. ASSUME NEW t \in Threads, RunExit(t) PROVE IInv'
  <2>1. TypeOK' BY <1>12 DEF RunExit, TypeOK
  <2>2. HandlesInv' BY <1>12 DEF RunExit, HandlesInv, Open
  <2>3. LiveInv' BY <1>12 DEF RunExit, LiveInv, Open
  <2>4. InitInv' BY <1>12 DEF RunExit, InitInv, AtWork
  <2>5. AppInv' BY <1>12 DEF RunExit, TypeOK, AppInv, WorkerInv
  <2>6. WorkerInv' BY <1>12 DEF RunExit, WorkerInv, AtWork
  <2>7. BatonInv' BY <1>12 DEF RunExit, WorkerInv, BatonInv, Awake
  <2>8. CountInv' BY <1>12 DEF RunExit, CountInv, Pending
  <2> QED BY <2>1, <2>2, <2>3, <2>4, <2>5, <2>6, <2>7, <2>8
<1>13. ASSUME NEW w \in Workers, WaitForYieldEnter(w) PROVE IInv'
  <2>1. TypeOK' BY <1>13 DEF WaitForYieldEnter, TypeOK, WorkerInv
  <2>2. HandlesInv' BY <1>13 DEF WaitForYieldEnter, HandlesInv, Open
  <2>3. LiveInv' BY <1>13 DEF WaitForYieldEnter, LiveInv, Open
  <2>4. InitInv' BY <1>13 DEF WaitForYieldEnter, InitInv, AtWork
  <2>5. AppInv' BY <1>13 DEF WaitForYieldEnter, AppInv
  <2>6. WorkerInv' BY <1>13 DEF WaitForYieldEnter, TypeOK, WorkerInv, AtWork
  <2>7. BatonInv' BY <1>13 DEF WaitForYieldEnter, BatonInv, Awake
  <2>8. CountInv' BY <1>13 DEF WaitForYieldEnter, CountInv, Pending
  <2> QED BY <2>1, <2>2, <2>3, <2>4, <2>5, <2>6, <2>7, <2>8
\* No other worker of the coroutine is there to be woken by mistake.
<1>14. ASSUME NEW w \in Workers, WaitForYieldSet(w) PROVE IInv'
  <2>1. TypeOK' BY <1>14 DEF WaitForYieldSet, TypeOK, WorkerInv, AtWork
  <2>2. HandlesInv' BY <1>14 DEF WaitForYieldSet, HandlesInv, Open
  <2>3. LiveInv' BY <1>14 DEF WaitForYieldSet, LiveInv, Open
  <2>4. InitInv' BY <1>14 DEF WaitForYieldSet, InitInv, AtWork
  <2>5. AppInv' BY <1>14 DEF WaitForYieldSet, AppInv
  <2>6. WorkerInv' BY <1>14 DEF WaitForYieldSet, TypeOK, HandlesInv,
        WorkerInv, BatonInv, Open, AtWork, Awake
  <2>7. BatonInv' BY <1>14 DEF WaitForYieldSet, TypeOK, WorkerInv, BatonInv,
        AtWork, Awake
  <2>8. CountInv'
    <3>1. \A v \in Workers \ {w} : pc[v] = "wy_wait" => ctx[v] # ctx[w]
      <4> SUFFICES ASSUME NEW v \in Workers \ {w}, pc[v] = "wy_wait"
                   PROVE  ctx[v] # ctx[w]
        OBVIOUS
      <4>1. /\ koro[v] \in Koros /\ koro[w] \in Koros
            /\ koro[v] # koro[w]
        BY <1>14 DEF WaitForYieldSet, TypeOK, WorkerInv, AtWork
      <4>2. Open(koro[v]) /\ Open(koro[w])
        BY <1>14, <4>1 DEF WaitForYieldSet, WorkerInv, Open, AtWork
      <4> QED BY <1>14, <4>1, <4>2 DEF WaitForYieldSet, HandlesInv, WorkerInv
    <3>2. \A k \in Koros : Pending(k)' <=> Pending(k)
      BY <1>14, <3>1 DEF WaitForYieldSet, TypeOK, WorkerInv, Pending, AtWork
    <3> QED BY <1>14, <3>1, <3>2 DEF WaitForYieldSet, TypeOK, CountInv
  <2> QED BY <2>1, <2>2, <2>3, <2>4, <2>5, <2>6, <2>7, <2>8
\* The worker was woken by the koro_run that is parked now.
<1>15. ASSUME NEW w \in Workers, WaitForYieldWait(w) PROVE IInv'
  <2>1. TypeOK' BY <1>15 DEF WaitForYieldWait, TypeOK, WorkerInv
  <2>2. HandlesInv' BY <1>15 DEF WaitForYieldWait, TypeOK, HandlesInv, AppInv,
        WorkerInv, BatonInv, Open, AtWork, Awake
  <2>3. LiveInv' BY <1>15 DEF WaitForYieldWait, LiveInv, Open
  <2>4. InitInv' BY <1>15 DEF WaitForYieldWait, InitInv, AtWork
  <2>5. AppInv' BY <1>15 DEF WaitForYieldWait, AppInv
  <2>6. WorkerInv' BY <1>15 DEF WaitForYieldWait, WorkerInv, AtWork
  <2>7. BatonInv' BY <1>15 DEF WaitForYieldWait, BatonInv, Awake
  <2>8. CountInv' BY <1>15 DEF WaitForYieldWait, TypeOK, WorkerInv, BatonInv,
        CountInv, AtWork, Awake, Pending
  <2> QED BY <2>1, <2>2, <2>3, <2>4, <2>5, <2>6, <2>7, <2>8
<1>16. ASSUME NEW w \in Workers, YieldCall(w) PROVE IInv'
  <2>1. TypeOK' BY <1>16 DEF YieldCall, TypeOK
  <2>2. HandlesInv' BY <1>16 DEF YieldCall, TypeOK, HandlesInv, AppInv,
        WorkerInv, BatonInv, Open, AtWork, Awake
  <2>3. LiveInv' BY <1>16 DEF YieldCall, TypeOK, LiveInv, Open
  <2>4. InitInv' BY <1>16 DEF YieldCall, TypeOK, InitInv, AtWork
  <2>5. AppInv' BY <1>16 DEF YieldCall, TypeOK, AppInv
  <2>6. WorkerInv' BY <1>16 DEF YieldCall, TypeOK, WorkerInv, AtWork
  <2>7. BatonInv' BY <1>16 DEF YieldCall, TypeOK, BatonInv, Awake
  <2>8. CountInv' BY <1>16 DEF YieldCall, TypeOK, AppInv, BatonInv, CountInv,
        Awake, Pending
  <2> QED BY <2>1, <2>2, <2>3, <2>4, <2>5, <2>6, <2>7, <2>8
<1>17. ASSUME NEW w \in Workers, YieldCurrent(w) PROVE IInv'
  <2>1. TypeOK' BY <1>17 DEF YieldCurrent, TypeOK
  <2>2. HandlesInv' BY <1>17 DEF YieldCurrent, TypeOK, HandlesInv, Open
  <2>3. LiveInv' BY <1>17 DEF YieldCurrent, LiveInv, Open
  <2>4. InitInv' BY <1>17 DEF YieldCurrent, InitInv, AtWork
  <2>5. AppInv' BY <1>17 DEF YieldCurrent, AppInv
  <2>6. WorkerInv' BY <1>17 DEF YieldCurrent, TypeOK, AppInv, WorkerInv,
        BatonInv, AtWork, Awake
  <2>7. BatonInv' BY <1>17 DEF YieldCurrent, BatonInv, Awake
  <2>8. CountInv' BY <1>17 DEF YieldCurrent, CountInv, Pending
  <2> QED BY <2>1, <2>2, <2>3, <2>4, <2>5, <2>6, <2>7, <2>8
<1>18. ASSUME NEW w \in Workers, ContinueRunWait(w) PROVE IInv'
  <2>1. TypeOK' BY <1>18 DEF ContinueRunWait, TypeOK
  <2>2. HandlesInv' BY <1>18 DEF ContinueRunWait, HandlesInv, Open
  <2>3. LiveInv' BY <1>18 DEF ContinueRunWait, LiveInv, Open
  <2>4. InitInv' BY <1>18 DEF ContinueRunWait, InitInv, AtWork
  <2>5. AppInv' BY <1>18 DEF ContinueRunWait, AppInv
  <2>6. WorkerInv' BY <1>18 DEF ContinueRunWait, WorkerInv, AtWork
  <2>7. BatonInv' BY <1>18 DEF ContinueRunWait, BatonInv, Awake
  <2>8. CountInv' BY <1>18 DEF ContinueRunWait, CountInv, Pending
  <2> QED BY <2>1, <2>2, <2>3, <2>4, <2>5, <2>6, <2>7, <2>8
\* The worker that clears wait_run is the one that was awake.
<1>19. ASSUME NEW w \in Workers, ContinueRunClear(w) PROVE IInv'
  <2>1. TypeOK' BY <1>19 DEF ContinueRunClear, TypeOK, WorkerInv, AtWork
  <2>2. HandlesInv' BY <1>19 DEF ContinueRunClear, HandlesInv, Open
  <2>3. LiveInv' BY <1>19 DEF ContinueRunClear, LiveInv, Open
  <2>4. InitInv' BY <1>19 DEF ContinueRunClear, InitInv, AtWork
  <2>5. AppInv' BY <1>19 DEF ContinueRunClear, AppInv
  <2>6. WorkerInv' BY <1>19 DEF ContinueRunClear, WorkerInv, AtWork
  <2>7. BatonInv' BY <1>19 DEF ContinueRunClear, TypeOK, WorkerInv, BatonInv,
        AtWork, Awake
  <2>8. CountInv' BY <1>19 DEF ContinueRunClear, CountInv, Pending
  <2> QED BY <2>1, <2>2, <2>3, <2>4, <2>5, <2>6, <2>7, <2>8
<1>20. ASSUME NEW w \in Workers, BodyReturn(w) PROVE IInv'
  <2>1. TypeOK' BY <1>20 DEF BodyReturn, TypeOK
  <2>2. HandlesInv' BY <1>20 DEF BodyReturn, HandlesInv, Open
  <2>3. LiveInv' BY <1>20 DEF BodyReturn, LiveInv, Open
  <2>4. InitInv' BY <1>20 DEF BodyReturn, InitInv, AtWork
  <2>5. AppInv' BY <1>20 DEF BodyReturn, AppInv
  <2>6. WorkerInv' BY <1>20 DEF BodyReturn, WorkerInv, AtWork
  <2>7. BatonInv' BY <1>20 DEF BodyReturn, BatonInv, Awake
  <2>8. CountInv' BY <1>20 DEF BodyReturn, CountInv, Pending
  <2> QED BY <2>1, <2>2, <2>3, <2>4, <2>5, <2>6, <2>7, <2>8
<1>21. ASSUME NEW w \in Workers, FinishedSet(w) PROVE IInv'
  <2>1. TypeOK' BY <1>21 DEF FinishedSet, TypeOK, WorkerInv
  <2>2. HandlesInv' BY <1>21 DEF FinishedSet, HandlesInv, Open
  <2>3. LiveInv' BY <1>21 DEF FinishedSet, LiveInv, BatonInv, Open, Awake
  <2>4. InitInv' BY <1>21 DEF FinishedSet, InitInv, WorkerInv, BatonInv,
        AtWork, Awake
  <2>5. AppInv' BY <1>21 DEF FinishedSet, AppInv, BatonInv, Awake
  <2>6. WorkerInv' BY <1>21 DEF FinishedSet, TypeOK, WorkerInv, AtWork
  <2>7. BatonInv' BY <1>21 DEF FinishedSet, BatonInv, Awake
  <2>8. CountInv' BY <1>21 DEF FinishedSet, CountInv, Pending
  <2> QED BY <2>1, <2>2, <2>3, <2>4, <2>5, <2>6, <2>7, <2>8
<1>22. ASSUME NEW w \in Workers, FinishedWait(w) PROVE IInv'
  <2>1. TypeOK' BY <1>22 DEF FinishedWait, TypeOK
  <2>2. HandlesInv' BY <1>22 DEF FinishedWait, HandlesInv, Open
  <2>3. LiveInv' BY <1>22 DEF FinishedWait, LiveInv, Open
  <2>4. InitInv' BY <1>22 DEF FinishedWait, InitInv, AtWork
  <2>5. AppInv' BY <1>22 DEF FinishedWait, AppInv
  <2>6. WorkerInv' BY <1>22 DEF FinishedWait, WorkerInv, AtWork
  <2>7. BatonInv' BY <1>22 DEF FinishedWait, BatonInv, Awake
  <2>8. CountInv' BY <1>22 DEF FinishedWait, CountInv, Pending
  <2> QED BY <2>1, <2>2, <2>3, <2>4, <2>5, <2>6, <2>7, <2>8
\* As for ContinueRunClear, and the worker is done with its context.
<1>23. ASSUME NEW w \in Workers, FinishedClear(w) PROVE IInv'
  <2>1. TypeOK' BY <1>23 DEF FinishedClear, TypeOK, WorkerInv, AtWork
  <2>2. HandlesInv' BY <1>23 DEF FinishedClear, HandlesInv, Open
  <2>3. LiveInv' BY <1>23 DEF FinishedClear, LiveInv, Open
  <2>4. InitInv' BY <1>23 DEF FinishedClear, InitInv, AtWork
  <2>5. AppInv' BY <1>23 DEF FinishedClear, AppInv
  <2>6. WorkerInv' BY <1>23 DEF FinishedClear, WorkerInv, AtWork
  <2>7. BatonInv' BY <1>23 DEF FinishedClear, TypeOK, WorkerInv, BatonInv,
        AtWork, Awake
  <2>8. CountInv' BY <1>23 DEF FinishedClear, CountInv, Pending
  <2> QED BY <2>1, <2>2, <2>3, <2>4, <2>5, <2>6, <2>7, <2>8
<1>24. ASSUME NEW w \in Workers, ThreadExit(w) PROVE IInv'
  <2>1. TypeOK' BY <1>24 DEF ThreadExit, TypeOK
  <2>2. HandlesInv' BY <1>24 DEF ThreadExit, HandlesInv, Open
  <2>3. LiveInv' BY <1>24 DEF ThreadExit, LiveInv, Open
  <2>4. InitInv' BY <1>24 DEF ThreadExit, InitInv, AtWork
  <2>5. AppInv' BY <1>24 DEF ThreadExit, AppInv
  <2>6. WorkerInv' BY <1>24 DEF ThreadExit, TypeOK, WorkerInv, AtWork
  <2>7. BatonInv' BY <1>24 DEF ThreadExit, BatonInv, Awake
  <2>8. CountInv' BY <1>24 DEF ThreadExit, CountInv, Pending
  <2> QED BY <2>1, <2>2, <2>3, <2>4, <2>5, <2>6, <2>7, <2>8
<1>25. CASE UNCHANGED vars
  BY <1>25 DEF vars, TypeOK, HandlesInv, LiveInv, InitInv, AppInv, WorkerInv,
               BatonInv, CountInv, Open, AtWork, Awake, Pending
<1> QED
  BY <1>1, <1>2, <1>3, <1>4, <1>5, <1>6, <1>7, <1>8, <1>9, <1>10, <1>11,
     <1>12, <1>13, <1>14, <1>15, <1>16, <1>17, <1>18, <1>19, <1>20, <1>21,
     <1>22, <1>23, <1>24, <1>25
     DEF Next, InitStep, RunStep, WorkerStep, BodyStep

-------------------------------------------------------------------------------
(* IInv, the inductive invariant, holds in every reachable state.          *)
THEOREM Invariant == ASSUME ~ThreadAware PROVE Spec => []IInv
<1>1. Init => IInv BY InitInvariant
<1>2. IInv /\ [Next]_vars => IInv' BY NextInvariant
<1> QED BY <1>1, <1>2, PTL DEF Spec

(* Every variable keeps its type.                                          *)
THEOREM TypeCorrect == ASSUME ~ThreadAware PROVE Spec => []TypeOK
<1>1. IInv => TypeOK BY DEF IInv
<1> QED BY <1>1, Invariant, PTL

(* The application and the bodies never execute at the same time.          *)
THEOREM MutualExclusion == ASSUME ~ThreadAware PROVE Spec => []OneAtATime
<1>1. IInv => OneAtATime BY OneBaton DEF OneAtATime, InUserCode
<1> QED BY <1>1, Invariant, PTL

(* No thread reads or writes a freed _thread_ctx, nor that of another      *)
(* coroutine.                                                              *)
THEOREM NoUseAfterFree == ASSUME ~ThreadAware PROVE Spec => []CtxInUseIsLive
<1>1. IInv => CtxInUseIsLive
  BY DEF IInv, CtxInUseIsLive, TypeOK, AppInv, WorkerInv, BatonInv,
         HandlesInv, Open, AtWork, Awake
<1> QED BY <1>1, Invariant, PTL

(* Back in the application, no _thread_ctx has leaked or is missing.       *)
THEOREM NoLeak == ASSUME ~ThreadAware PROVE Spec => []HeapIsUnfinished
<1>1. IInv => HeapIsUnfinished
  BY OneBaton DEF IInv, HeapIsUnfinished, InUserCode, HandlesInv, LiveInv, Open
<1> QED BY <1>1, Invariant, PTL

(* koro_yield finds its own coroutine in `current`.                        *)
THEOREM YieldFindsItself ==
  ASSUME ~ThreadAware PROVE Spec => []CurrentIsRunning
<1>1. IInv => CurrentIsRunning
  BY DEF IInv, CurrentIsRunning, InUserCode, AppInv, BatonInv, Awake
<1> QED BY <1>1, Invariant, PTL

(* Each koro_run of an unfinished coroutine executes one segment of it.    *)
THEOREM OneSegmentPerRun == ASSUME ~ThreadAware PROVE Spec => []WorkEqualsRuns
<1>1. ASSUME IInv, NEW k \in Koros PROVE seg[k] <= runs[k]
  BY <1>1 DEF IInv, TypeOK, CountInv
<1>2. ASSUME IInv, InUserCode(App), NEW k \in Koros PROVE ~Pending(k)
  BY <1>2 DEF IInv, BatonInv, Awake, Pending, InUserCode
<1>3. IInv => WorkEqualsRuns
  BY <1>1, <1>2 DEF IInv, CountInv, WorkEqualsRuns
<1> QED BY <1>3, Invariant, PTL

-------------------------------------------------------------------------------
(* The refinement                                                          *)
(*                                                                         *)
(* In every state of IInv at most one coroutine is under way, so activeMap *)
(* is a function of UnderWay.  Four actions move the mapped state: a       *)
(* koro_init (at `finished` or at h->magic), the worker's exit from        *)
(* _wait_for_yield_continue and its clearing of wait_run.  All the others  *)
(* are stuttering steps of Coroutines.                                     *)

(* No two coroutines are under way.                                        *)
LEMMA OneUnderWay ==
  ASSUME IInv, NEW j \in Koros, NEW k \in Koros, UnderWay(j), UnderWay(k)
  PROVE  j = k
BY DEF IInv, BatonInv, Awake, UnderWay

(* The application is inside of the coroutine that is under way.           *)
LEMMA ActiveMap ==
  ASSUME IInv
  PROVE  /\ \A k \in Koros : UnderWay(k) => activeMap = [r \in {App} |-> k]
         /\ (\A k \in Koros : ~UnderWay(k)) =>
              activeMap = [r \in {App} |-> None]
BY OneUnderWay DEF activeMap

(* The same of the state after a step.                                     *)
LEMMA ActiveMapNext ==
  ASSUME IInv'
  PROVE  /\ \A k \in Koros : UnderWay(k)' => activeMap' = [r \in {App} |-> k]
         /\ (\A k \in Koros : ~UnderWay(k)') =>
              activeMap' = [r \in {App} |-> None]
<1>1. \A j, k \in Koros : UnderWay(j)' /\ UnderWay(k)' => j = k
  BY DEF IInv, BatonInv, Awake, UnderWay
<1> QED BY <1>1 DEF activeMap

(* A step that neither begins nor ends a segment, nor changes what the     *)
(* promise sees of the other handles, is a stuttering step.                *)
LEMMA SameMap ==
  ASSUME IInv, IInv', seg' = seg,
         \A k \in Koros :
           /\ UnderWay(k)' <=> UnderWay(k)
           /\ ~UnderWay(k) =>
                /\ magic'[k] = magic[k]
                /\ magic[k] => finished'[k] = finished[k]
  PROVE  UNCHANGED Promise!vars
<1>1. statusMap' = statusMap
  BY DEF statusMap
<1>2. activeMap' = activeMap
  BY ActiveMap, ActiveMapNext
<1> QED BY <1>1, <1>2 DEF Promise!vars

(* Before the first call there is no coroutine.                            *)
LEMMA InitMaps == Init => Promise!Init
BY DEF Init, Promise!Init, statusMap, activeMap, UnderWay

(* koro_init of a finished handle creates the coroutine where `finished`   *)
(* is cleared; of a new one, where h->magic is written.                    *)
LEMMA InitCallMaps ==
  ASSUME ~ThreadAware, IInv, IInv', NEW t \in Threads, NEW k \in Koros,
         InitCall(t,k)
  PROVE  [Promise!Next]_(Promise!vars)
<1>1. \A j \in Koros : UnderWay(j)' <=> UnderWay(j)
  BY DEF InitCall, IInv, TypeOK, UnderWay, AppInv
<1>2. ~UnderWay(k)
  BY DEF InitCall, IInv, AppInv, BatonInv, WorkerInv, HandlesInv, UnderWay,
     AtWork, Awake
<1>3. CASE magic[k]
  <2>1. activeMap' = activeMap BY <1>1, ActiveMap, ActiveMapNext
  <2>b. finished' = [finished EXCEPT ![k] = FALSE] /\ magic' = magic
    BY DEF InitCall
  <2>2. statusMap' = [statusMap EXCEPT ![k] = "suspended"]
    BY <1>1, <1>2, <1>3, <2>b DEF IInv, TypeOK, statusMap
  <2>3. statusMap[k] # "running"
    BY <1>2 DEF statusMap
  <2>4. seg' = [seg EXCEPT ![k] = 0]
    BY DEF InitCall
  <2>5. Promise!Create(k)
    BY <2>1, <2>2, <2>3, <2>4 DEF Promise!Create
  <2> QED BY <2>5 DEF Promise!Next
<1>4. CASE ~magic[k]
  <2>1. seg' = seg
    BY <1>4 DEF InitCall, IInv, TypeOK, HandlesInv
  <2>2. \A j \in Koros : magic[j] => finished'[j] = finished[j]
    BY <1>4 DEF InitCall, IInv, TypeOK
  <2>3. magic' = magic
    BY DEF InitCall
  <2> QED BY <1>1, <2>1, <2>2, <2>3, SameMap
<1> QED BY <1>3, <1>4

(* The write of h->magic creates the coroutine of a new handle.            *)
LEMMA InitMagicMaps ==
  ASSUME ~ThreadAware, IInv, IInv', NEW t \in Threads, InitMagic(t)
  PROVE  [Promise!Next]_(Promise!vars)
<1> DEFINE k == h[t]
<1>0. k \in Koros BY DEF InitMagic, IInv, InitInv
<1>1. \A j \in Koros : UnderWay(j)' <=> UnderWay(j)
  BY DEF InitMagic, IInv, TypeOK, UnderWay, AppInv
<1>2. magic \in [Koros -> BOOLEAN]
  BY DEF IInv, TypeOK
<1>3. CASE ~magic[k]
  <2>0. seg[k] = 0 BY <1>0, <1>3 DEF IInv, HandlesInv
  <2>a. ~UnderWay(k)
    BY <1>0, <1>3 DEF InitMagic, IInv, AppInv, BatonInv, Awake, UnderWay
  <2>1. activeMap' = activeMap BY <1>1, ActiveMap, ActiveMapNext
  <2>b. ~finished[k] /\ finished' = finished
    BY DEF InitMagic, IInv, InitInv
  <2>c. magic' = [magic EXCEPT ![k] = TRUE] BY DEF InitMagic
  <2>2. statusMap' = [statusMap EXCEPT ![k] = "suspended"]
    BY <1>0, <1>1, <1>2, <2>a, <2>b, <2>c DEF statusMap
  <2>3. statusMap[k] # "running"
    BY <1>0, <2>a DEF statusMap
  <2>4. seg' = [seg EXCEPT ![k] = 0]
    BY <1>0, <2>0 DEF InitMagic, IInv, TypeOK
  <2>5. Promise!Create(k)
    BY <2>1, <2>2, <2>3, <2>4 DEF Promise!Create
  <2> QED BY <1>0, <2>5 DEF Promise!Next
<1>4. CASE magic[k]
  <2>1. \A j \in Koros : magic'[j] = magic[j]
    BY <1>0, <1>2, <1>4 DEF InitMagic
  <2> QED BY <1>1, <2>1, SameMap DEF InitMagic
<1> QED BY <1>3, <1>4

(* A worker that leaves _wait_for_yield_continue begins a segment.         *)
LEMMA ResumeMaps ==
  ASSUME ~ThreadAware, IInv, IInv', NEW w \in Workers, WaitForYieldWait(w)
  PROVE  [Promise!Next]_(Promise!vars)
<1> DEFINE k == koro[w]
<1>0. k \in Koros BY DEF WaitForYieldWait, IInv, TypeOK, WorkerInv
<1>1. \A j \in Koros : ~UnderWay(j)
  BY <1>0 DEF WaitForYieldWait, IInv, BatonInv, WorkerInv, Awake, AtWork,
     UnderWay
<1>2. \A j \in Koros : UnderWay(j)' <=> j = k
  BY <1>0, <1>1 DEF WaitForYieldWait, IInv, TypeOK, UnderWay
<1>3. activeMap = [r \in {App} |-> None] BY <1>1, ActiveMap
<1>4. activeMap' = [activeMap EXCEPT ![App] = k] BY <1>0, <1>2, <1>3,
       ActiveMapNext
<1>5. magic[k] /\ ~finished[k] BY DEF WaitForYieldWait, IInv, AppInv,
       BatonInv, WorkerInv, Awake, AtWork
<1>6. statusMap[k] = "suspended" BY <1>0, <1>1, <1>5 DEF statusMap
<1>7. statusMap' = [statusMap EXCEPT ![k] = "running"]
  BY <1>0, <1>1, <1>2 DEF WaitForYieldWait, statusMap
<1>8. Promise!Resume(App, k)
  BY <1>3, <1>4, <1>6, <1>7 DEF WaitForYieldWait, Promise!Resume
<1> QED BY <1>0, <1>8 DEF Promise!Next

(* A worker that clears wait_run ends the segment: the coroutine is        *)
(* suspended, or finished if the body has returned.                        *)
LEMMA EndSegmentMaps ==
  ASSUME ~ThreadAware, IInv, IInv', NEW w \in Workers,
         ContinueRunClear(w) \/ FinishedClear(w)
  PROVE  [Promise!Next]_(Promise!vars)
<1> DEFINE k == koro[w]
           outcome == IF finished[k] THEN "finished" ELSE "suspended"
<1>0. k \in Koros BY DEF ContinueRunClear, FinishedClear, IInv, TypeOK,
       WorkerInv
<1>1. UnderWay(k)
  BY <1>0 DEF ContinueRunClear, FinishedClear, UnderWay
<1>2. \A j \in Koros : ~UnderWay(j)'
  BY <1>0, OneUnderWay DEF ContinueRunClear, FinishedClear, IInv, TypeOK,
     WorkerInv, BatonInv, AppInv, AtWork, Awake, UnderWay
<1>3. activeMap = [r \in {App} |-> k] BY <1>0, <1>1, ActiveMap
<1>4. activeMap' = [activeMap EXCEPT ![App] = None] BY <1>2, <1>3,
       ActiveMapNext
<1>5. magic[k] BY DEF ContinueRunClear, FinishedClear, IInv, AppInv,
       BatonInv, Awake
<1>7. statusMap' = [statusMap EXCEPT ![k] = outcome]
  <2>1. \A j \in Koros : UnderWay(j) <=> j = k
    BY <1>0, <1>1, OneUnderWay
  <2>2. magic' = magic /\ finished' = finished
    BY DEF ContinueRunClear, FinishedClear
  <2> QED BY <1>0, <1>2, <1>5, <2>1, <2>2 DEF statusMap
<1>8. k # None BY <1>0
<1>9. Promise!EndSegment(App, outcome)
  BY <1>3, <1>4, <1>7, <1>8 DEF ContinueRunClear, FinishedClear,
     Promise!EndSegment
<1> QED BY <1>9 DEF Promise!Next, Promise!Suspend, Promise!Finish

(* `finished` is set while the coroutine is under way: the promise sees    *)
(* it when the segment ends.                                               *)
LEMMA FinishedSetMaps ==
  ASSUME ~ThreadAware, IInv, IInv', NEW w \in Workers, FinishedSet(w)
  PROVE  [Promise!Next]_(Promise!vars)
<1>1. \A j \in Koros : UnderWay(j)' <=> UnderWay(j)
  BY DEF FinishedSet, IInv, TypeOK, UnderWay
<1>2. UnderWay(koro[w]) BY DEF FinishedSet, UnderWay
<1> QED BY <1>1, <1>2, SameMap DEF FinishedSet, IInv, TypeOK

(* Every step is a step of Coroutines or a stuttering step of it.          *)
LEMMA NextMaps ==
  ASSUME ~ThreadAware, IInv, IInv', [Next]_vars
  PROVE  [Promise!Next]_(Promise!vars)
<1>1. ASSUME NEW t \in Threads, NEW k \in Koros, InitCall(t, k)
      PROVE [Promise!Next]_(Promise!vars)
  BY <1>1, InitCallMaps
<1>2. ASSUME NEW t \in Threads, NEW k \in Koros, RunCall(t, k)
      PROVE [Promise!Next]_(Promise!vars)
  <2>1. \A j \in Koros : UnderWay(j)' <=> UnderWay(j)
    BY <1>2 DEF RunCall, IInv, TypeOK, AppInv, WorkerInv, UnderWay
  <2> QED BY <1>2, <2>1, SameMap DEF RunCall
<1>3. ASSUME NEW t \in Threads, InitMagic(t)
      PROVE [Promise!Next]_(Promise!vars)
  BY <1>3, InitMagicMaps
<1>4. ASSUME NEW t \in Threads, InitCreate(t)
      PROVE [Promise!Next]_(Promise!vars)
  <2>1. \A j \in Koros : UnderWay(j)' <=> UnderWay(j)
    BY <1>4 DEF InitCreate, IInv, TypeOK, AppInv, WorkerInv, BatonInv,
       AtWork, Awake, UnderWay
  <2> QED BY <1>4, <2>1, SameMap DEF InitCreate
<1>5. ASSUME NEW t \in Threads, InitCreateFails(t)
      PROVE [Promise!Next]_(Promise!vars)
  <2>1. \A j \in Koros : UnderWay(j)' <=> UnderWay(j)
    BY <1>5 DEF InitCreateFails, IInv, TypeOK, AppInv, WorkerInv, BatonInv,
       AtWork, Awake, UnderWay
  <2> QED BY <1>5, <2>1, SameMap DEF InitCreateFails
<1>6. ASSUME NEW t \in Threads, RunCheck(t)
      PROVE [Promise!Next]_(Promise!vars)
  <2>1. \A j \in Koros : UnderWay(j)' <=> UnderWay(j)
    BY <1>6 DEF RunCheck, IInv, TypeOK, AppInv, WorkerInv, BatonInv, AtWork,
       Awake, UnderWay
  <2> QED BY <1>6, <2>1, SameMap DEF RunCheck
<1>7. ASSUME NEW t \in Threads, ContinueYieldWait(t)
      PROVE [Promise!Next]_(Promise!vars)
  <2>1. \A j \in Koros : UnderWay(j)' <=> UnderWay(j)
    BY <1>7 DEF ContinueYieldWait, IInv, TypeOK, AppInv, WorkerInv, BatonInv,
       AtWork, Awake, UnderWay
  <2> QED BY <1>7, <2>1, SameMap DEF ContinueYieldWait
<1>8. ASSUME NEW t \in Threads, ContinueYieldClear(t)
      PROVE [Promise!Next]_(Promise!vars)
  <2>1. \A j \in Koros : UnderWay(j)' <=> UnderWay(j)
    BY <1>8 DEF ContinueYieldClear, IInv, TypeOK, AppInv, WorkerInv,
       BatonInv, AtWork, Awake, UnderWay
  <2> QED BY <1>8, <2>1, SameMap DEF ContinueYieldClear
<1>9. ASSUME NEW t \in Threads, WaitForRunSet(t)
      PROVE [Promise!Next]_(Promise!vars)
  <2>1. \A j \in Koros : UnderWay(j)' <=> UnderWay(j)
    BY <1>9 DEF WaitForRunSet, IInv, TypeOK, AppInv, WorkerInv, BatonInv,
       AtWork, Awake, UnderWay
  <2> QED BY <1>9, <2>1, SameMap DEF WaitForRunSet
<1>10. ASSUME NEW t \in Threads, WaitForRunWait(t)
      PROVE [Promise!Next]_(Promise!vars)
  <2>1. \A j \in Koros : UnderWay(j)' <=> UnderWay(j)
    BY <1>10 DEF WaitForRunWait, IInv, TypeOK, AppInv, WorkerInv, BatonInv,
       AtWork, Awake, UnderWay
  <2> QED BY <1>10, <2>1, SameMap DEF WaitForRunWait
<1>11. ASSUME NEW t \in Threads, RunDone(t)
      PROVE [Promise!Next]_(Promise!vars)
  <2>1. \A j \in Koros : UnderWay(j)' <=> UnderWay(j)
    BY <1>11 DEF RunDone, IInv, TypeOK, AppInv, WorkerInv, BatonInv, AtWork,
       Awake, UnderWay
  <2> QED BY <1>11, <2>1, SameMap DEF RunDone
<1>12. ASSUME NEW t \in Threads, RunExit(t)
      PROVE [Promise!Next]_(Promise!vars)
  <2>1. \A j \in Koros : UnderWay(j)' <=> UnderWay(j)
    BY <1>12 DEF RunExit, IInv, TypeOK, AppInv, WorkerInv, BatonInv, AtWork,
       Awake, UnderWay
  <2> QED BY <1>12, <2>1, SameMap DEF RunExit
<1>13. ASSUME NEW w \in Workers, WaitForYieldEnter(w)
      PROVE [Promise!Next]_(Promise!vars)
  <2>1. \A j \in Koros : UnderWay(j)' <=> UnderWay(j)
    BY <1>13 DEF WaitForYieldEnter, IInv, TypeOK, AppInv, WorkerInv,
       BatonInv, AtWork, Awake, UnderWay
  <2> QED BY <1>13, <2>1, SameMap DEF WaitForYieldEnter
<1>14. ASSUME NEW w \in Workers, WaitForYieldSet(w)
      PROVE [Promise!Next]_(Promise!vars)
  <2>1. \A j \in Koros : UnderWay(j)' <=> UnderWay(j)
    BY <1>14 DEF WaitForYieldSet, IInv, TypeOK, AppInv, WorkerInv, BatonInv,
       AtWork, Awake, UnderWay
  <2> QED BY <1>14, <2>1, SameMap DEF WaitForYieldSet
<1>15. ASSUME NEW w \in Workers, YieldCall(w)
      PROVE [Promise!Next]_(Promise!vars)
  <2>1. \A j \in Koros : UnderWay(j)' <=> UnderWay(j)
    BY <1>15 DEF YieldCall, IInv, TypeOK, AppInv, WorkerInv, BatonInv,
       AtWork, Awake, UnderWay
  <2> QED BY <1>15, <2>1, SameMap DEF YieldCall, IInv, AppInv, WorkerInv,
  BatonInv, AtWork, Awake
<1>16. ASSUME NEW w \in Workers, YieldCurrent(w)
      PROVE [Promise!Next]_(Promise!vars)
  <2>1. \A j \in Koros : UnderWay(j)' <=> UnderWay(j)
    BY <1>16 DEF YieldCurrent, IInv, TypeOK, AppInv, WorkerInv, BatonInv,
       AtWork, Awake, UnderWay
  <2> QED BY <1>16, <2>1, SameMap DEF YieldCurrent
<1>17. ASSUME NEW w \in Workers, ContinueRunWait(w)
      PROVE [Promise!Next]_(Promise!vars)
  <2>1. \A j \in Koros : UnderWay(j)' <=> UnderWay(j)
    BY <1>17 DEF ContinueRunWait, IInv, TypeOK, AppInv, WorkerInv, BatonInv,
       AtWork, Awake, UnderWay
  <2> QED BY <1>17, <2>1, SameMap DEF ContinueRunWait
<1>18. ASSUME NEW w \in Workers, BodyReturn(w)
      PROVE [Promise!Next]_(Promise!vars)
  <2>1. \A j \in Koros : UnderWay(j)' <=> UnderWay(j)
    BY <1>18 DEF BodyReturn, IInv, TypeOK, AppInv, WorkerInv, BatonInv,
       AtWork, Awake, UnderWay
  <2> QED BY <1>18, <2>1, SameMap DEF BodyReturn
<1>19. ASSUME NEW w \in Workers, FinishedWait(w)
      PROVE [Promise!Next]_(Promise!vars)
  <2>1. \A j \in Koros : UnderWay(j)' <=> UnderWay(j)
    BY <1>19 DEF FinishedWait, IInv, TypeOK, AppInv, WorkerInv, BatonInv,
       AtWork, Awake, UnderWay
  <2> QED BY <1>19, <2>1, SameMap DEF FinishedWait
<1>20. ASSUME NEW w \in Workers, ThreadExit(w)
      PROVE [Promise!Next]_(Promise!vars)
  <2>1. \A j \in Koros : UnderWay(j)' <=> UnderWay(j)
    BY <1>20 DEF ThreadExit, IInv, TypeOK, AppInv, WorkerInv, BatonInv,
       AtWork, Awake, UnderWay
  <2> QED BY <1>20, <2>1, SameMap DEF ThreadExit
<1>21. ASSUME NEW w \in Workers, WaitForYieldWait(w)
      PROVE [Promise!Next]_(Promise!vars)
  BY <1>21, ResumeMaps
<1>22. ASSUME NEW w \in Workers, ContinueRunClear(w) \/ FinishedClear(w)
      PROVE [Promise!Next]_(Promise!vars)
  BY <1>22, EndSegmentMaps
<1>23. ASSUME NEW w \in Workers, FinishedSet(w)
      PROVE [Promise!Next]_(Promise!vars)
  BY <1>23, FinishedSetMaps
<1>24. CASE UNCHANGED vars
  <2>1. \A j \in Koros : UnderWay(j)' <=> UnderWay(j)
    BY <1>24 DEF vars, UnderWay
  <2> QED BY <1>24, <2>1, SameMap DEF vars
<1> QED
  BY <1>1, <1>2, <1>3, <1>4, <1>5, <1>6, <1>7, <1>8, <1>9, <1>10, <1>11,
     <1>12, <1>13, <1>14, <1>15, <1>16, <1>17, <1>18, <1>19, <1>20, <1>21,
            <1>22, <1>23, <1>24
     DEF Next, InitStep, RunStep, WorkerStep, BodyStep

-------------------------------------------------------------------------------
(* The application may rely on Coroutines: whatever the threads            *)
(* interleave, a koro_run of an unfinished coroutine executes one segment  *)
(* of it, from where the last one ended, and no other body meanwhile.      *)
THEOREM Implementation ==
  ASSUME ~ThreadAware PROVE Spec => ImplementsCoroutines
<1>1. Init => Promise!Init
  BY InitMaps
<1>2. IInv /\ IInv' /\ [Next]_vars => [Promise!Next]_(Promise!vars)
  BY NextMaps
<1> QED
  BY <1>1, <1>2, Invariant, PTL DEF Spec, ImplementsCoroutines, Promise!Spec

===============================================================================
