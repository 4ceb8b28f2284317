-------------------------- MODULE SwitchBackend_proofs --------------------------
(***************************************************************************)
(* Proofs about SwitchBackend, for any number of handles, threads and      *)
(* functions, and any depth of calls.                                      *)
(*                                                                         *)
(* IInv says where each pointer leads, and what is on each stack, at every *)
(* place of a thread and for every coroutine that no thread is inside of.  *)
(***************************************************************************)
EXTENDS SwitchBackend, StackMachine_proofs

(* The labels of frames.                                                   *)
Labels == {"run_exit", "yield_exit", "body_end", "never"}

(* The frames that the backend pushes: of a koro_run that waits, of a      *)
(* koro_yield, and of _init_run.                                           *)
RunFrame(k)   == [to |-> "run_exit", h |-> k]
YieldFrame(k) == [to |-> "yield_exit", h |-> k]
BodyFrame(k)  == [to |-> "body_end", h |-> k]

BodyFrames(k) == <<BodyFrame(k)>> \o UserFrames(k)

-------------------------------------------------------------------------------
(* The inductive invariant                                                 *)

(* What a coroutine is while its body does not run: it has not been run,   *)
(* it is in a koro_yield, or it is finished.                               *)
Fresh(k) ==
  /\ ~finished[k] /\ b[k] = Null
  /\ mem[k] = <<>> /\ calls[k] = <<>>

Suspended(k) ==
  /\ ~finished[k] /\ b[k] = Top(k)
  /\ mem[k] = Append(BodyFrames(k), YieldFrame(k))

Done(k) == finished[k] /\ b[k] = Null

(* Its stack is in use.                                                    *)
Running(k) == ~finished[k] /\ b[k] = Null

(* Where thread r is, in a koro_run of k: on its own stack before and      *)
(* after the switch, on that of the coroutine, and on its own stack after  *)
(* the switch back.                                                        *)
Outside(r, k) == sp[r] = Top(r) /\ mem[r] = UserFrames(r) /\ a[k] = Null

Waits(r, k) == mem[r] = Append(UserFrames(r), RunFrame(k))

Leaving(r, k) == sp[r] = Top(r) /\ Waits(r, k) /\ a[k] = Null
Inside(r, k)  == sp[r] = Top(k) /\ Waits(r, k) /\ a[k] = Top(r) /\ Running(k)
Back(r, k)    == sp[r] = Top(r) /\ Waits(r, k) /\ a[k] = Top(r)

(* Has the segment that koro_run has counted not begun?                    *)
Ahead(k) == runs[k] = seg[k] + 1
Even(k)  == runs[k] = seg[k]

(* The places of thread r inside of koro_run for k.                        *)
InRun(r, k) ==
  \/ pc[r] = "run" /\ Outside(r, k) /\ Even(k)
       /\ (Fresh(k) \/ Suspended(k) \/ Done(k))
  \/ pc[r] = "run_exit" /\ Outside(r, k) /\ Even(k)
       /\ (Suspended(k) \/ Done(k))
  \/ pc[r] = "init_swap" /\ Leaving(r, k) /\ Ahead(k) /\ Fresh(k)
  \/ pc[r] = "run_swap" /\ Leaving(r, k) /\ Ahead(k) /\ Suspended(k)
  \/ pc[r] = "init_run" /\ Inside(r, k) /\ Ahead(k) /\ Fresh(k)
  \/ pc[r] = "restore_noop" /\ sp[r] = Top(k) /\ Waits(r, k)
       /\ a[k] = Top(r) /\ Ahead(k) /\ Suspended(k)
  \/ pc[r] = "pop" /\ Inside(r, k) /\ Ahead(k)
       /\ mem[k] = Append(BodyFrames(k), YieldFrame(k))
  \/ pc[r] = "yield_exit" /\ Inside(r, k) /\ Ahead(k)
       /\ mem[k] = BodyFrames(k)
  \/ pc[r] = "user" /\ Inside(r, k) /\ Even(k) /\ mem[k] = BodyFrames(k)
  \/ pc[r] = "yield_swap" /\ Inside(r, k) /\ Even(k)
       /\ mem[k] = Append(BodyFrames(k), YieldFrame(k))
  \/ pc[r] = "yield_cleanup" /\ Back(r, k) /\ Even(k) /\ Suspended(k)
  \/ pc[r] = "body_end" /\ Inside(r, k) /\ Even(k) /\ mem[k] = <<>>
  \/ pc[r] = "finished_swap" /\ Inside(r, k) /\ Even(k)
  \/ pc[r] = "finished_cleanup" /\ Back(r, k) /\ Even(k) /\ Running(k)
  \/ pc[r] = "pop" /\ Leaving(r, k) /\ Even(k) /\ (Suspended(k) \/ Done(k))

(* A thread outside of koro_run is in the application.                     *)
InApp(r) == pc[r] = "user" /\ sp[r] = Top(r) /\ mem[r] = UserFrames(r)

ThreadOK(r) ==
  IF current[r] = None THEN InApp(r)
  ELSE h[r] = current[r] /\ magic[current[r]] /\ InRun(r, current[r])

ThreadInv == \A r \in Runners : ThreadOK(r)

(* A coroutine that no thread is inside of.                                *)
AtRest(k) ==
  magic[k] => a[k] = Null /\ (Fresh(k) \/ Suspended(k) \/ Done(k))

RestInv == \A k \in Koros : Idle(k) => Even(k) /\ AtRest(k)

(* Two threads are never inside of the same coroutine.                     *)
Apart == \A r, q \in Runners :
           current[r] = current[q] /\ current[r] # None => r = q

IInv == TypeOK /\ Apart /\ ThreadInv /\ RestInv

-------------------------------------------------------------------------------
(* What a step leaves alone                                                *)

(* What the code pushes are frames.                                        *)
LEMMA FrameTypes ==
  ASSUME NEW k \in Koros
  PROVE  /\ RunFrame(k) \in Frames(Labels)
         /\ YieldFrame(k) \in Frames(Labels)
         /\ BodyFrame(k) \in Frames(Labels)
         /\ [to |-> "never", h |-> k] \in Frames(Labels)
  BY DEF Frames, Labels, RunFrame, YieldFrame, BodyFrame

(* TypeOK has what the lemmas about stacks need.                           *)
LEMMA TypesOfStacks ==
  ASSUME TypeOK
  PROVE  StacksOK(Labels)
  BY DEF TypeOK, MachineTypeOK, StacksOK, Labels

(* Each coroutine and each thread has a stack of its own.                  *)
LEMMA StacksDiffer ==
  /\ \A k \in Koros : k \in Stacks /\ k # None
  /\ \A r \in Runners : r \in Stacks /\ r # None
  /\ \A r \in Runners, k \in Koros : r # k
  BY Distinct DEF Stacks

(* A thread that is not in user code is in a koro_run.                     *)
LEMMA LibraryPlace ==
  ASSUME IInv, NEW r \in Runners, pc[r] # "user"
  PROVE  /\ current[r] \in Koros /\ h[r] = current[r]
         /\ magic[current[r]] /\ InRun(r, current[r])
<1>1. current[r] # None
  BY DEF IInv, ThreadInv, ThreadOK, InApp
<1>2. current[r] \in Koros
  BY <1>1 DEF IInv, TypeOK, MachineTypeOK
<1> QED
  BY <1>1, <1>2 DEF IInv, ThreadInv, ThreadOK

(* The state that the place of a thread in a koro_run is about.            *)
SameStack(s) == mem'[s] = mem[s] /\ calls'[s] = calls[s]

SameHandle(k) ==
  /\ finished'[k] = finished[k] /\ a'[k] = a[k] /\ b'[k] = b[k]
  /\ seg'[k] = seg[k] /\ runs'[k] = runs[k]

SameThread(r) == pc'[r] = pc[r] /\ h'[r] = h[r] /\ sp'[r] = sp[r]

(* A stack that a step leaves alone has the same top and the same frames   *)
(* of user code,                                                           *)
LEMMA SameTop ==
  ASSUME NEW s, SameStack(s)
  PROVE  Top(s)' = Top(s) /\ UserFrames(s)' = UserFrames(s)
  BY DEF SameStack, Top, UserFrames

(* a coroutine whose stack and handle it leaves alone is where it was,     *)
LEMMA SameCoroutine ==
  ASSUME NEW k \in Koros, SameStack(k), SameHandle(k)
  PROVE  /\ Fresh(k)' = Fresh(k)
         /\ Suspended(k)' = Suspended(k)
         /\ Done(k)' = Done(k)
         /\ Running(k)' = Running(k)
         /\ Even(k)' = Even(k)
         /\ Ahead(k)' = Ahead(k)
         /\ BodyFrames(k)' = BodyFrames(k)
<1>1. Top(k)' = Top(k) /\ BodyFrames(k)' = BodyFrames(k)
  BY SameTop DEF BodyFrames, BodyFrame
<1> QED
  BY <1>1 DEF SameStack, SameHandle, Fresh, Suspended, Done, Running, Even,
              Ahead, YieldFrame

(* and so is a koro_run whose two stacks it leaves alone.                  *)
LEMMA SameInRun ==
  ASSUME NEW r \in Runners, NEW k \in Koros,
         SameThread(r), SameStack(r), SameStack(k), SameHandle(k)
  PROVE  InRun(r, k)' = InRun(r, k)
<1>1. /\ Top(r)' = Top(r) /\ UserFrames(r)' = UserFrames(r)
      /\ Top(k)' = Top(k)
  BY SameTop
<1>2. /\ Outside(r, k)' = Outside(r, k)
      /\ Leaving(r, k)' = Leaving(r, k)
      /\ Back(r, k)' = Back(r, k)
      /\ Waits(r, k)' = Waits(r, k)
      /\ Inside(r, k)' = Inside(r, k)
  BY <1>1, SameCoroutine
  DEF SameThread, SameStack, SameHandle, Outside, Leaving, Back, Inside, Waits,
      RunFrame
<1> QED
  BY <1>1, <1>2, SameCoroutine
  DEF SameThread, SameStack, SameHandle, InRun, YieldFrame

(* A thread and a coroutine that a step does not touch.                    *)
LEMMA OtherThread ==
  ASSUME IInv, NEW r \in Runners, current'[r] = current[r],
         SameThread(r), SameStack(r),
         \A k \in Koros : current[r] = k =>
           SameStack(k) /\ SameHandle(k) /\ magic'[k] = magic[k]
  PROVE  ThreadOK(r)'
<1>1. ThreadOK(r)
  BY DEF IInv, ThreadInv
<1>2. CASE current[r] = None
  <2>1. InApp(r)'
    BY <1>1, <1>2, SameTop DEF ThreadOK, InApp, SameThread, SameStack
  <2> QED
    BY <1>2, <2>1 DEF ThreadOK
<1>3. CASE current[r] # None
  <2>1. PICK k \in Koros : current[r] = k
    BY <1>3 DEF IInv, TypeOK, MachineTypeOK
  <2>2. h[r] = k /\ magic[k] /\ InRun(r, k)
    BY <1>1, <1>3, <2>1 DEF ThreadOK
  <2>3. SameStack(k) /\ SameHandle(k) /\ magic'[k] = magic[k]
    BY <2>1
  <2>4. InRun(r, k)'
    BY <2>2, <2>3, SameInRun
  <2> QED
    BY <1>3, <2>1, <2>2, <2>3, <2>4 DEF ThreadOK, SameThread
<1> QED
  BY <1>2, <1>3

(* A coroutine that no thread runs stays at rest when a step leaves it     *)
(* alone.                                                                  *)
LEMMA OtherCoroutine ==
  ASSUME IInv, NEW k \in Koros, Idle(k),
         SameStack(k), SameHandle(k), magic'[k] = magic[k]
  PROVE  Even(k)' /\ AtRest(k)'
<1>1. Even(k) /\ AtRest(k)
  BY DEF IInv, RestInv
<1> QED
  BY <1>1, SameCoroutine DEF AtRest, SameHandle

(* A step of thread r in a koro_run of k touches no other thread, stack    *)
(* or coroutine: what remains to be shown is the place it comes to.        *)
OnlyOf(r, k) ==
  /\ \A q \in Runners \ {r} : SameThread(q)
  /\ \A s \in Stacks \ {r, k} : SameStack(s)
  /\ \A j \in Koros \ {k} : SameHandle(j)

(* A step of a thread inside of koro_run, that touches nothing but its own *)
(* stack and those of its coroutine, keeps IInv if it leaves that koro_run *)
(* at one of the places that InRun describes.                              *)
LEMMA ThreadStep ==
  ASSUME IInv, TypeOK', NEW r \in Runners, NEW k \in Koros, current[r] = k,
         current' = current, magic' = magic, h'[r] = k,
         OnlyOf(r, k), InRun(r, k)'
  PROVE  IInv'
<1>1. Apart'
  BY DEF IInv, Apart
<1>2. \A q \in Runners \ {r} : current[q] # k
  BY StacksDiffer DEF IInv, Apart
<1>3. ThreadInv'
  <2> SUFFICES ASSUME NEW q \in Runners
               PROVE  ThreadOK(q)'
    BY DEF ThreadInv
  <2>1. CASE q = r
    <3>1. magic[k] /\ k # None
      BY StacksDiffer DEF IInv, ThreadInv, ThreadOK
    <3> QED
      BY <2>1, <3>1 DEF ThreadOK
  <2>2. CASE q # r
    <3>1. SameThread(q) /\ SameStack(q)
      BY <2>2, StacksDiffer DEF OnlyOf
    <3>2. \A j \in Koros : current[q] = j => SameStack(j) /\ SameHandle(j)
      BY <1>2, <2>2, StacksDiffer DEF OnlyOf
    <3> QED
      BY <3>1, <3>2, OtherThread
  <2> QED
    BY <2>1, <2>2
<1>4. RestInv'
  <2> SUFFICES ASSUME NEW j \in Koros, Idle(j)'
               PROVE  Even(j)' /\ AtRest(j)'
    BY DEF RestInv
  <2>1. Idle(j) /\ j # k
    BY DEF Idle
  <2>2. SameStack(j) /\ SameHandle(j)
    BY <2>1, StacksDiffer DEF OnlyOf
  <2> QED
    BY <2>1, <2>2, OtherCoroutine
<1> QED
  BY <1>1, <1>3, <1>4 DEF IInv

-------------------------------------------------------------------------------
(* Steps that push and pop nothing                                         *)

LEMMA RunFinishedStep ==
  ASSUME IInv, NEW r \in Runners, RunFinished(r)
  PROVE  IInv'
<1>1. PICK k \in Koros : current[r] = k /\ h[r] = k /\ InRun(r, k)
  BY LibraryPlace DEF RunFinished
<1>2. Outside(r, k) /\ Even(k) /\ Done(k)
  BY <1>1 DEF RunFinished, InRun, Fresh, Suspended
<1>3. /\ pc' = [pc EXCEPT ![r] = "run_exit"]
      /\ UNCHANGED <<handleVars, current, h, sp, mem, userVars>>
  BY DEF RunFinished, Goto
<1>4. TypeOK'
  BY <1>3 DEF IInv, TypeOK, MachineTypeOK, KoroPcs, handleVars, userVars
<1>5. OnlyOf(r, k) /\ SameStack(r) /\ SameStack(k) /\ SameHandle(k)
  BY <1>3 DEF OnlyOf, SameThread, SameStack, SameHandle, handleVars, userVars
<1>6. pc'[r] = "run_exit" /\ sp'[r] = sp[r] /\ a'[k] = a[k] /\ h'[r] = k
  BY <1>1, <1>3 DEF IInv, TypeOK, MachineTypeOK, handleVars
<1>7. Outside(r, k)'
  BY <1>2, <1>5, <1>6, SameTop DEF Outside, SameStack
<1>8. Even(k)' /\ Done(k)'
  BY <1>1, <1>2, <1>5, SameCoroutine
<1> QED
  BY <1>1, <1>3, <1>4, <1>5, <1>6, <1>7, <1>8, ThreadStep
  DEF InRun, handleVars

(* koro_yield is back in the body.                                         *)
LEMMA YieldExitStep ==
  ASSUME IInv, NEW r \in Runners, YieldExit(r)
  PROVE  IInv'
<1>1. PICK k \in Koros : current[r] = k /\ h[r] = k /\ InRun(r, k)
  BY LibraryPlace DEF YieldExit
<1>2. Inside(r, k) /\ Ahead(k) /\ mem[k] = BodyFrames(k)
  BY <1>1 DEF YieldExit, InRun
<1>3. /\ pc' = [pc EXCEPT ![r] = "user"]
      /\ seg' = [seg EXCEPT ![k] = @ + 1]
      /\ UNCHANGED <<handleVars, current, h, sp, mem, calls, runs>>
  BY <1>1 DEF YieldExit, Goto
<1>4. TypeOK'
  BY <1>1, <1>3 DEF IInv, TypeOK, MachineTypeOK, KoroPcs, handleVars
<1>5. OnlyOf(r, k) /\ SameStack(r) /\ SameStack(k)
  BY <1>3 DEF OnlyOf, SameThread, SameStack, SameHandle, handleVars
<1>6. pc'[r] = "user" /\ h'[r] = k
  BY <1>1, <1>3 DEF IInv, TypeOK, MachineTypeOK
<1>7. Inside(r, k)' /\ mem'[k] = BodyFrames(k)'
  BY <1>1, <1>2, <1>3, <1>5, SameTop
  DEF Inside, Waits, Running, SameStack, handleVars, BodyFrames, BodyFrame,
      RunFrame
<1>8. Even(k)'
  BY <1>1, <1>2, <1>3 DEF Even, Ahead, IInv, TypeOK, MachineTypeOK
<1> QED
  BY <1>1, <1>3, <1>4, <1>5, <1>6, <1>7, <1>8, ThreadStep DEF InRun, handleVars

(* After _run_swap: the registers are those of the yield.                  *)
LEMMA RestoreNoopStep ==
  ASSUME IInv, NEW r \in Runners, RestoreNoop(r)
  PROVE  IInv'
<1>1. PICK k \in Koros : current[r] = k /\ h[r] = k /\ InRun(r, k)
  BY LibraryPlace DEF RestoreNoop
<1>2. /\ sp[r] = Top(k) /\ Waits(r, k) /\ a[k] = Top(r)
      /\ Ahead(k) /\ Suspended(k)
  BY <1>1 DEF RestoreNoop, InRun
<1>3. /\ pc' = [pc EXCEPT ![r] = "pop"]
      /\ b' = [b EXCEPT ![k] = Null]
      /\ UNCHANGED <<magic, finished, a, current, h, sp, mem, userVars>>
  BY <1>1 DEF RestoreNoop, Goto
<1>4. TypeOK'
  BY <1>1, <1>3 DEF IInv, TypeOK, MachineTypeOK, userVars, Pointers
<1>5. OnlyOf(r, k) /\ SameStack(r) /\ SameStack(k)
  BY <1>3 DEF OnlyOf, SameThread, SameStack, SameHandle, userVars
<1>6. pc'[r] = "pop" /\ h'[r] = k /\ b'[k] = Null
  BY <1>1, <1>3 DEF IInv, TypeOK, MachineTypeOK
<1>7. /\ Inside(r, k)' /\ Ahead(k)'
      /\ mem'[k] = Append(BodyFrames(k), YieldFrame(k))'
  BY <1>1, <1>2, <1>3, <1>5, <1>6, SameTop
  DEF Inside, Waits, Running, Suspended, SameStack, userVars, BodyFrames,
      BodyFrame, RunFrame, YieldFrame, Ahead
<1> QED
  BY <1>1, <1>3, <1>4, <1>5, <1>6, <1>7, ThreadStep DEF InRun

(* After the swap of a yield, in koro_run.                                 *)
LEMMA YieldCleanupStep ==
  ASSUME IInv, NEW r \in Runners, YieldCleanup(r)
  PROVE  IInv'
<1>1. PICK k \in Koros : current[r] = k /\ h[r] = k /\ InRun(r, k)
  BY LibraryPlace DEF YieldCleanup
<1>2. Back(r, k) /\ Even(k) /\ Suspended(k)
  BY <1>1 DEF YieldCleanup, InRun
<1>3. /\ pc' = [pc EXCEPT ![r] = "pop"]
      /\ a' = [a EXCEPT ![k] = Null]
      /\ UNCHANGED <<magic, finished, b, current, h, sp, mem, userVars>>
  BY <1>1 DEF YieldCleanup, Goto
<1>4. TypeOK'
  BY <1>1, <1>3 DEF IInv, TypeOK, MachineTypeOK, userVars, Pointers
<1>5. OnlyOf(r, k) /\ SameStack(r) /\ SameStack(k)
  BY <1>3 DEF OnlyOf, SameThread, SameStack, SameHandle, userVars
<1>6. pc'[r] = "pop" /\ h'[r] = k /\ a'[k] = Null
  BY <1>1, <1>3 DEF IInv, TypeOK, MachineTypeOK
<1>7. Leaving(r, k)' /\ Even(k)' /\ Suspended(k)'
  BY <1>1, <1>2, <1>3, <1>5, <1>6, SameTop
  DEF Leaving, Back, Waits, Suspended, SameStack, userVars, BodyFrames,
      BodyFrame, RunFrame, YieldFrame, Even
<1> QED
  BY <1>1, <1>3, <1>4, <1>5, <1>6, <1>7, ThreadStep DEF InRun

(* After the swap of a body that has returned, in koro_run.                *)
LEMMA FinishedCleanupStep ==
  ASSUME IInv, NEW r \in Runners, FinishedCleanup(r)
  PROVE  IInv'
<1>1. PICK k \in Koros : current[r] = k /\ h[r] = k /\ InRun(r, k)
  BY LibraryPlace DEF FinishedCleanup
<1>2. Back(r, k) /\ Even(k) /\ Running(k)
  BY <1>1 DEF FinishedCleanup, InRun
<1>3. /\ pc' = [pc EXCEPT ![r] = "pop"]
      /\ finished' = [finished EXCEPT ![k] = TRUE]
      /\ a' = [a EXCEPT ![k] = Null]
      /\ UNCHANGED <<magic, b, current, h, sp, mem, userVars>>
  BY <1>1 DEF FinishedCleanup, Goto
<1>4. TypeOK'
  BY <1>1, <1>3 DEF IInv, TypeOK, MachineTypeOK, userVars, Pointers
<1>5. OnlyOf(r, k) /\ SameStack(r) /\ SameStack(k)
  <2>1. \A q \in Runners \ {r} : SameThread(q)
    BY <1>3 DEF SameThread, IInv, TypeOK, MachineTypeOK
  <2>2. \A s \in Stacks : SameStack(s)
    BY <1>3 DEF SameStack, userVars
  <2>3. \A j \in Koros \ {k} : SameHandle(j)
    BY <1>3 DEF SameHandle, userVars, IInv, TypeOK, MachineTypeOK
  <2> QED
    BY <1>1, <2>1, <2>2, <2>3, StacksDiffer DEF OnlyOf
<1>6. pc'[r] = "pop" /\ h'[r] = k /\ a'[k] = Null /\ finished'[k]
  BY <1>1, <1>3 DEF IInv, TypeOK, MachineTypeOK
<1>7. Leaving(r, k)' /\ Even(k)' /\ Done(k)'
  BY <1>1, <1>2, <1>3, <1>5, <1>6, SameTop
  DEF Leaving, Back, Waits, Running, Done, SameStack, userVars, RunFrame, Even
<1> QED
  BY <1>1, <1>3, <1>4, <1>5, <1>6, <1>7, ThreadStep DEF InRun

-------------------------------------------------------------------------------
(* slp_switch: from one stack to the other                                 *)

LEMMA TopTypes ==
  ASSUME TypeOK, NEW s \in Stacks
  PROVE  Top(s) \in Pointers /\ Top(s) # Null
<1>1. mem[s] \in Seq(Frames(Labels))
  BY TypesOfStacks DEF StacksOK
<1> QED
  BY <1>1, TopIsPointer DEF Top

(* The first run goes over to the new stack, which is empty.               *)
LEMMA InitSwapStep ==
  ASSUME IInv, NEW r \in Runners, InitSwap(r)
  PROVE  IInv'
<1>1. PICK k \in Koros : current[r] = k /\ h[r] = k /\ InRun(r, k)
  BY LibraryPlace DEF InitSwap
<1>2. Leaving(r, k) /\ Ahead(k) /\ Fresh(k)
  BY <1>1 DEF InitSwap, InRun
<1>3. Top(k) = Pointer(k, 0)
  BY <1>2 DEF Top, Fresh
<1>4. Top(k) # Null /\ Top(k) \in Pointers
  BY TopTypes, StacksDiffer DEF IInv
<1>5. /\ pc' = [pc EXCEPT ![r] = "init_run"]
      /\ sp' = [sp EXCEPT ![r] = Top(k)]
      /\ a' = [a EXCEPT ![k] = sp[r]]
      /\ UNCHANGED <<magic, finished, b, current, h, mem, userVars>>
  BY <1>1, <1>3, <1>4 DEF InitSwap, SwitchTo, Goto
<1>6. TypeOK'
  BY <1>1, <1>4, <1>5 DEF IInv, TypeOK, MachineTypeOK, RestoreOps, userVars
<1>7. OnlyOf(r, k) /\ SameStack(r) /\ SameStack(k)
  BY <1>5 DEF OnlyOf, SameThread, SameStack, SameHandle, userVars
<1>8. pc'[r] = "init_run" /\ h'[r] = k /\ a'[k] = sp[r] /\ sp'[r] = Top(k)
  BY <1>1, <1>5 DEF IInv, TypeOK, MachineTypeOK
<1>9. Inside(r, k)' /\ Ahead(k)' /\ Fresh(k)'
  BY <1>2, <1>5, <1>7, <1>8, SameTop
  DEF Leaving, Inside, Waits, Running, Fresh, SameStack, userVars, RunFrame,
      Ahead
<1> QED
  BY <1>1, <1>5, <1>6, <1>7, <1>8, <1>9, ThreadStep DEF InRun

(* A later run goes over to where the coroutine has yielded.               *)
LEMMA RunSwapStep ==
  ASSUME IInv, NEW r \in Runners, RunSwap(r)
  PROVE  IInv'
<1>1. PICK k \in Koros : current[r] = k /\ h[r] = k /\ InRun(r, k)
  BY LibraryPlace DEF RunSwap
<1>2. Leaving(r, k) /\ Ahead(k) /\ Suspended(k)
  BY <1>1 DEF RunSwap, InRun
<1>3. b[k] = Top(k)
  BY <1>2 DEF Suspended
<1>4. Top(k) # Null /\ Top(k) \in Pointers
  BY TopTypes, StacksDiffer DEF IInv
<1>5. /\ pc' = [pc EXCEPT ![r] = "restore_noop"]
      /\ sp' = [sp EXCEPT ![r] = Top(k)]
      /\ a' = [a EXCEPT ![k] = sp[r]]
      /\ UNCHANGED <<magic, finished, b, current, h, mem, userVars>>
  BY <1>1, <1>3, <1>4 DEF RunSwap, SwitchTo, Goto
<1>6. TypeOK'
  BY <1>1, <1>4, <1>5 DEF IInv, TypeOK, MachineTypeOK, RestoreOps, userVars
<1>7. OnlyOf(r, k) /\ SameStack(r) /\ SameStack(k)
  BY <1>5 DEF OnlyOf, SameThread, SameStack, SameHandle, userVars
<1>8. /\ pc'[r] = "restore_noop" /\ h'[r] = k
      /\ a'[k] = sp[r] /\ sp'[r] = Top(k)
  BY <1>1, <1>5 DEF IInv, TypeOK, MachineTypeOK
<1>9. /\ sp'[r] = Top(k)' /\ Waits(r, k)' /\ a'[k] = Top(r)'
      /\ Ahead(k)' /\ Suspended(k)'
  BY <1>2, <1>5, <1>7, <1>8, SameTop
  DEF Leaving, Waits, Suspended, SameStack, userVars, RunFrame, Ahead,
      BodyFrames, BodyFrame, YieldFrame
<1> QED
  BY <1>1, <1>5, <1>6, <1>7, <1>8, <1>9, ThreadStep DEF InRun

(* A yield goes back to the stack of koro_run,                             *)
LEMMA YieldSwapStep ==
  ASSUME IInv, NEW r \in Runners, YieldSwap(r)
  PROVE  IInv'
<1>1. PICK k \in Koros : current[r] = k /\ h[r] = k /\ InRun(r, k)
  BY LibraryPlace DEF YieldSwap
<1>2. /\ Inside(r, k) /\ Even(k)
      /\ mem[k] = Append(BodyFrames(k), YieldFrame(k))
  BY <1>1 DEF YieldSwap, InRun
<1>3. a[k] = Top(r)
  BY <1>2 DEF Inside
<1>4. Top(r) # Null /\ Top(r) \in Pointers
  BY TopTypes, StacksDiffer DEF IInv
<1>5. /\ pc' = [pc EXCEPT ![r] = "yield_cleanup"]
      /\ sp' = [sp EXCEPT ![r] = Top(r)]
      /\ b' = [b EXCEPT ![k] = sp[r]]
      /\ UNCHANGED <<magic, finished, a, current, h, mem, userVars>>
  BY <1>1, <1>3, <1>4 DEF YieldSwap, SwitchTo, Goto
<1>6. TypeOK'
  BY <1>1, <1>4, <1>5 DEF IInv, TypeOK, MachineTypeOK, RestoreOps, userVars
<1>7. OnlyOf(r, k) /\ SameStack(r) /\ SameStack(k)
  BY <1>5 DEF OnlyOf, SameThread, SameStack, SameHandle, userVars
<1>8. /\ pc'[r] = "yield_cleanup" /\ h'[r] = k
      /\ b'[k] = sp[r] /\ sp'[r] = Top(r)
  BY <1>1, <1>5 DEF IInv, TypeOK, MachineTypeOK
<1>9. Back(r, k)' /\ Even(k)' /\ Suspended(k)'
  BY <1>2, <1>5, <1>7, <1>8, SameTop
  DEF Inside, Back, Waits, Running, Suspended, SameStack, userVars, RunFrame,
      Even, BodyFrames, BodyFrame, YieldFrame
<1> QED
  BY <1>1, <1>5, <1>6, <1>7, <1>8, <1>9, ThreadStep DEF InRun

(* and so does the end of the body, for good.                              *)
LEMMA FinishedSwapStep ==
  ASSUME IInv, NEW r \in Runners, FinishedSwap(r)
  PROVE  IInv'
<1>1. PICK k \in Koros : current[r] = k /\ h[r] = k /\ InRun(r, k)
  BY LibraryPlace DEF FinishedSwap
<1>2. Inside(r, k) /\ Even(k)
  BY <1>1 DEF FinishedSwap, InRun
<1>3. a[k] = Top(r)
  BY <1>2 DEF Inside
<1>4. Top(r) # Null /\ Top(r) \in Pointers
  BY TopTypes, StacksDiffer DEF IInv
<1>5. /\ pc' = [pc EXCEPT ![r] = "finished_cleanup"]
      /\ sp' = [sp EXCEPT ![r] = Top(r)]
      /\ UNCHANGED <<handleVars, current, h, mem, userVars>>
  BY <1>1, <1>3, <1>4 DEF FinishedSwap, SwitchTo, Goto
<1>6. TypeOK'
  BY <1>1, <1>4, <1>5
  DEF IInv, TypeOK, MachineTypeOK, RestoreOps, handleVars, userVars
<1>7. OnlyOf(r, k) /\ SameStack(r) /\ SameStack(k)
  BY <1>5 DEF OnlyOf, SameThread, SameStack, SameHandle, handleVars, userVars
<1>8. pc'[r] = "finished_cleanup" /\ h'[r] = k /\ sp'[r] = Top(r)
  BY <1>1, <1>5 DEF IInv, TypeOK, MachineTypeOK
<1>9. Back(r, k)' /\ Even(k)' /\ Running(k)'
  BY <1>2, <1>5, <1>7, <1>8, SameTop
  DEF Inside, Back, Waits, Running, SameStack, handleVars, userVars, RunFrame,
      Even
<1> QED
  BY <1>1, <1>5, <1>6, <1>7, <1>8, <1>9, ThreadStep DEF InRun, handleVars

-------------------------------------------------------------------------------
(* Steps that push a frame                                                 *)

LEMMA RunSwitchStep ==
  ASSUME IInv, NEW r \in Runners, RunSwitch(r)
  PROVE  IInv'
<1>1. PICK k \in Koros : current[r] = k /\ h[r] = k /\ InRun(r, k)
  BY LibraryPlace DEF RunSwitch
<1>2. Outside(r, k) /\ Even(k) /\ (Fresh(k) \/ Suspended(k))
  BY <1>1 DEF RunSwitch, InRun, Done
<1> DEFINE label == IF b[k] # Null THEN "run_swap" ELSE "init_swap"
<1>3. IF Suspended(k) THEN label = "run_swap" ELSE label = "init_swap"
  BY <1>2, TopTypes, StacksDiffer DEF Suspended, Fresh, IInv
<1>4. /\ Push(r, RunFrame(k), label)
      /\ runs' = [runs EXCEPT ![k] = @ + 1]
      /\ UNCHANGED <<handleVars, current, h, calls, seg>>
  BY <1>1 DEF RunSwitch, RunFrame
<1> HIDE DEF label
<1>5. /\ mem' = [mem EXCEPT ![r] = Append(mem[r], RunFrame(k))]
      /\ mem' \in [Stacks -> Seq(Frames(Labels))]
      /\ sp' = [sp EXCEPT ![r] = Pointer(r, Len(mem'[r]))]
      /\ sp' \in [Runners -> Pointers \ {Null}]
      /\ pc' = [pc EXCEPT ![r] = label]
  <2>1. sp[r] = Top(r) /\ r \in Stacks /\ StacksOK(Labels)
    BY <1>2, StacksDiffer, TypesOfStacks DEF Outside, IInv
  <2>2. RunFrame(k) \in Frames(Labels)
    BY FrameTypes
  <2> QED
    BY <1>4, <2>1, <2>2, PushOnTop
<1>6. TypeOK'
  BY <1>1, <1>3, <1>4, <1>5
  DEF IInv, TypeOK, MachineTypeOK, SaveOps, handleVars, Labels
<1>7. OnlyOf(r, k) /\ SameStack(k)
  BY <1>4, <1>5, StacksDiffer
  DEF OnlyOf, SameThread, SameStack, SameHandle, handleVars, IInv, TypeOK,
      MachineTypeOK
<1>8. /\ pc'[r] = label /\ h'[r] = k /\ a'[k] = a[k]
      /\ sp'[r] = Top(r)' /\ mem'[r] = Append(mem[r], RunFrame(k))
  BY <1>1, <1>4, <1>5, StacksDiffer
  DEF IInv, TypeOK, MachineTypeOK, Top, handleVars
<1>9. Leaving(r, k)'
  <2>1. UserFrames(r)' = UserFrames(r)
    BY <1>4 DEF UserFrames
  <2> QED
    BY <1>2, <1>8, <2>1 DEF Outside, Leaving, Waits, RunFrame
<1>10. Ahead(k)'
  BY <1>2, <1>4 DEF Even, Ahead, IInv, TypeOK, MachineTypeOK
<1>11. Fresh(k)' = Fresh(k) /\ Suspended(k)' = Suspended(k)
  BY <1>4, <1>7, SameTop
  DEF Fresh, Suspended, SameStack, handleVars, BodyFrames, BodyFrame,
      YieldFrame
<1>12. InRun(r, k)'
  BY <1>2, <1>3, <1>8, <1>9, <1>10, <1>11 DEF InRun
<1> QED
  BY <1>1, <1>4, <1>6, <1>7, <1>8, <1>12, ThreadStep DEF handleVars

(* koro_yield pushes the registers of the body.                            *)
LEMMA YieldCallStep ==
  ASSUME IInv, NEW r \in Runners, YieldCall(r)
  PROVE  IInv'
<1>1. PICK k \in Koros : current[r] = k /\ InRun(r, k)
  BY DEF YieldCall, MayYield, IInv, TypeOK, MachineTypeOK, ThreadInv, ThreadOK
<1>2. Inside(r, k) /\ Even(k) /\ mem[k] = BodyFrames(k)
  BY <1>1 DEF YieldCall, MayYield, InRun
<1>3. /\ Push(r, YieldFrame(k), "yield_swap")
      /\ h' = [h EXCEPT ![r] = k]
      /\ UNCHANGED <<handleVars, current, userVars>>
  BY <1>1 DEF YieldCall, YieldFrame
<1>4. /\ mem' = [mem EXCEPT ![k] = Append(mem[k], YieldFrame(k))]
      /\ mem' \in [Stacks -> Seq(Frames(Labels))]
      /\ sp' = [sp EXCEPT ![r] = Pointer(k, Len(mem'[k]))]
      /\ sp' \in [Runners -> Pointers \ {Null}]
      /\ pc' = [pc EXCEPT ![r] = "yield_swap"]
  <2>1. sp[r] = Top(k) /\ k \in Stacks /\ StacksOK(Labels)
    BY <1>2, StacksDiffer, TypesOfStacks DEF Inside, IInv
  <2>2. YieldFrame(k) \in Frames(Labels)
    BY FrameTypes
  <2> QED
    BY <1>3, <2>1, <2>2, PushOnTop
<1>5. TypeOK'
  BY <1>1, <1>3, <1>4
  DEF IInv, TypeOK, MachineTypeOK, SaveOps, handleVars, userVars, Labels
<1>6. OnlyOf(r, k) /\ SameStack(r)
  BY <1>3, <1>4, StacksDiffer
  DEF OnlyOf, SameThread, SameStack, SameHandle, handleVars, userVars, IInv,
      TypeOK, MachineTypeOK
<1>7. /\ pc'[r] = "yield_swap" /\ h'[r] = k /\ a'[k] = a[k]
      /\ sp'[r] = Top(k)' /\ mem'[k] = Append(mem[k], YieldFrame(k))
  BY <1>3, <1>4, StacksDiffer
  DEF IInv, TypeOK, MachineTypeOK, Top, handleVars
<1>8. Inside(r, k)' /\ Even(k)'
  BY <1>2, <1>3, <1>6, <1>7, SameTop
  DEF Inside, Waits, Running, SameStack, handleVars, userVars, RunFrame, Even
<1>9. BodyFrames(k)' = BodyFrames(k)
  BY <1>3 DEF BodyFrames, BodyFrame, UserFrames, userVars
<1>10. InRun(r, k)'
  BY <1>2, <1>7, <1>8, <1>9 DEF InRun, YieldFrame
<1> QED
  BY <1>1, <1>3, <1>5, <1>6, <1>7, <1>10, ThreadStep DEF handleVars

(* The body returns: below its frame there is nothing.                     *)
LEMMA BodyEndStep ==
  ASSUME IInv, NEW r \in Runners, BodyEnd(r)
  PROVE  IInv'
<1>1. PICK k \in Koros : current[r] = k /\ h[r] = k /\ InRun(r, k)
  BY LibraryPlace DEF BodyEnd
<1>2. Inside(r, k) /\ Even(k)
  BY <1>1 DEF BodyEnd, InRun
<1> DEFINE frame == [to |-> "never", h |-> k]
<1>3. /\ Push(r, frame, "finished_swap")
      /\ UNCHANGED <<handleVars, current, h, userVars>>
  BY <1>1 DEF BodyEnd
<1>4. /\ mem' = [mem EXCEPT ![k] = Append(mem[k], frame)]
      /\ mem' \in [Stacks -> Seq(Frames(Labels))]
      /\ sp' = [sp EXCEPT ![r] = Pointer(k, Len(mem'[k]))]
      /\ sp' \in [Runners -> Pointers \ {Null}]
      /\ pc' = [pc EXCEPT ![r] = "finished_swap"]
  <2>1. sp[r] = Top(k) /\ k \in Stacks /\ StacksOK(Labels)
    BY <1>2, StacksDiffer, TypesOfStacks DEF Inside, IInv
  <2>2. frame \in Frames(Labels)
    BY FrameTypes
  <2> HIDE DEF frame
  <2> QED
    BY <1>3, <2>1, <2>2, PushOnTop
<1>5. TypeOK'
  BY <1>1, <1>3, <1>4
  DEF IInv, TypeOK, MachineTypeOK, SaveOps, handleVars, userVars, Labels
<1>6. OnlyOf(r, k) /\ SameStack(r)
  BY <1>3, <1>4, StacksDiffer
  DEF OnlyOf, SameThread, SameStack, SameHandle, handleVars, userVars, IInv,
      TypeOK, MachineTypeOK
<1>7. /\ pc'[r] = "finished_swap" /\ h'[r] = k /\ a'[k] = a[k]
      /\ sp'[r] = Top(k)'
  BY <1>1, <1>3, <1>4, StacksDiffer
  DEF IInv, TypeOK, MachineTypeOK, Top, handleVars
<1>8. Inside(r, k)' /\ Even(k)'
  BY <1>2, <1>3, <1>6, <1>7, SameTop
  DEF Inside, Waits, Running, SameStack, handleVars, userVars, RunFrame, Even
<1> QED
  BY <1>1, <1>3, <1>5, <1>6, <1>7, <1>8, ThreadStep DEF InRun, handleVars

(* The stack of a body that has called nothing.                            *)
LEMMA NothingCalled ==
  ASSUME NEW k \in Koros, calls[k] = <<>>
  PROVE  /\ UserFrames(k) = <<>>
         /\ BodyFrames(k) = Append(<<>>, BodyFrame(k))
<1>1. UserFrames(k) = <<>>
  BY DEF UserFrames
<1>2. <<>> \in Seq(Frames(Labels)) /\ BodyFrame(k) \in Frames(Labels)
  BY FrameTypes, EmptySeq
<1>3. <<BodyFrame(k)>> \in Seq(Frames(Labels))
  BY <1>2
<1>4. BodyFrames(k) = <<BodyFrame(k)>>
  BY <1>1, <1>3, ConcatEmptySeq DEF BodyFrames
<1>5. Append(<<>>, BodyFrame(k)) = <<>> \o <<BodyFrame(k)>>
  BY <1>2, AppendIsConcat
<1> QED
  BY <1>1, <1>3, <1>4, <1>5, ConcatEmptySeq

(* _init_run calls the body.                                               *)
LEMMA InitRunStep ==
  ASSUME IInv, NEW r \in Runners, InitRun(r)
  PROVE  IInv'
<1>1. PICK k \in Koros : current[r] = k /\ h[r] = k /\ InRun(r, k)
  BY LibraryPlace DEF InitRun
<1>2. Inside(r, k) /\ Ahead(k) /\ Fresh(k)
  BY <1>1 DEF InitRun, InRun
<1>3. /\ Push(r, BodyFrame(k), "user")
      /\ seg' = [seg EXCEPT ![k] = @ + 1]
      /\ UNCHANGED <<handleVars, current, h, calls, runs>>
  BY <1>1 DEF InitRun, BodyFrame
<1>4. /\ mem' = [mem EXCEPT ![k] = Append(mem[k], BodyFrame(k))]
      /\ mem' \in [Stacks -> Seq(Frames(Labels))]
      /\ sp' = [sp EXCEPT ![r] = Pointer(k, Len(mem'[k]))]
      /\ sp' \in [Runners -> Pointers \ {Null}]
      /\ pc' = [pc EXCEPT ![r] = "user"]
  <2>1. sp[r] = Top(k) /\ k \in Stacks /\ StacksOK(Labels)
    BY <1>2, StacksDiffer, TypesOfStacks DEF Inside, IInv
  <2>2. BodyFrame(k) \in Frames(Labels)
    BY FrameTypes
  <2> QED
    BY <1>3, <2>1, <2>2, PushOnTop
<1>5. TypeOK'
  BY <1>1, <1>3, <1>4
  DEF IInv, TypeOK, MachineTypeOK, KoroPcs, handleVars, Labels
<1>6. OnlyOf(r, k) /\ SameStack(r)
  BY <1>3, <1>4, StacksDiffer
  DEF OnlyOf, SameThread, SameStack, SameHandle, handleVars, IInv,
      TypeOK, MachineTypeOK
<1>7. /\ pc'[r] = "user" /\ h'[r] = k /\ a'[k] = a[k]
      /\ sp'[r] = Top(k)' /\ mem'[k] = Append(mem[k], BodyFrame(k))
  BY <1>1, <1>3, <1>4, StacksDiffer
  DEF IInv, TypeOK, MachineTypeOK, Top, handleVars
<1>8. Inside(r, k)'
  BY <1>2, <1>3, <1>6, <1>7, SameTop
  DEF Inside, Waits, Running, SameStack, handleVars, RunFrame
<1>9. Even(k)'
  BY <1>2, <1>3 DEF Even, Ahead, IInv, TypeOK, MachineTypeOK
<1>10. mem'[k] = BodyFrames(k)'
  <2>1. mem'[k] = BodyFrames(k)
    BY <1>2, <1>7, NothingCalled DEF Fresh
  <2> QED
    BY <1>3, <2>1 DEF BodyFrames, BodyFrame, UserFrames
<1> QED
  BY <1>1, <1>3, <1>5, <1>6, <1>7, <1>8, <1>9, <1>10, ThreadStep
  DEF InRun, handleVars

-------------------------------------------------------------------------------
(* Steps that pop a frame                                                  *)

LEMMA UserFramesType ==
  ASSUME TypeOK, NEW s \in Stacks
  PROVE  UserFrames(s) \in Seq(Frames(Labels))
<1>1. calls[s] \in Seq(Functions)
  BY TypesOfStacks DEF StacksOK
<1> QED
  BY <1>1, FramesType, UserFramesOf

(* What a body has on its stack are frames.                                *)
LEMMA BodyFramesType ==
  ASSUME TypeOK, NEW k \in Koros
  PROVE  BodyFrames(k) \in Seq(Frames(Labels))
<1>1. UserFrames(k) \in Seq(Frames(Labels))
  BY UserFramesType, StacksDiffer
<1>2. BodyFrame(k) \in Frames(Labels)
  BY FrameTypes
<1>3. <<BodyFrame(k)>> \in Seq(Frames(Labels))
  BY <1>2
<1> QED
  BY <1>1, <1>3, ConcatProperties DEF BodyFrames

(* slp_switch returns on the stack of the coroutine, into _koro_yield.     *)
LEMMA PopInsideStep ==
  ASSUME IInv, NEW r \in Runners, NEW k \in Koros, PopFrame(r),
         current[r] = k, h[r] = k, Inside(r, k), Ahead(k),
         mem[k] = Append(BodyFrames(k), YieldFrame(k))
  PROVE  IInv' /\ pc'[r] = "yield_exit"
<1>1. /\ Pop(r)
      /\ h' = [h EXCEPT ![r] = SavedH(r)]
      /\ UNCHANGED <<handleVars, current, userVars>>
  BY DEF PopFrame
<1> DEFINE m == BodyFrames(k)
<1> HIDE DEF m
<1>2. /\ mem' = [mem EXCEPT ![k] = m]
      /\ mem' \in [Stacks -> Seq(Frames(Labels))]
      /\ sp' = [sp EXCEPT ![r] = Pointer(k, Len(mem'[k]))]
      /\ sp' \in [Runners -> Pointers \ {Null}]
      /\ pc' = [pc EXCEPT ![r] = YieldFrame(k).to]
      /\ SavedH(r) = YieldFrame(k).h
  <2>1. sp[r] = Top(k) /\ k \in Stacks /\ StacksOK(Labels)
    BY StacksDiffer, TypesOfStacks DEF Inside, IInv
  <2>2. m \in Seq(Frames(Labels)) /\ YieldFrame(k) \in Frames(Labels)
    BY FrameTypes, BodyFramesType DEF IInv, m
  <2>3. mem[k] = Append(m, YieldFrame(k))
    BY DEF m
  <2> QED
    BY <1>1, <2>1, <2>2, <2>3, PopFromTop
<1>3. YieldFrame(k).to = "yield_exit" /\ YieldFrame(k).h = k
  BY DEF YieldFrame
<1>4. TypeOK'
  BY <1>1, <1>2, <1>3
  DEF IInv, TypeOK, MachineTypeOK, KoroPcs, handleVars, userVars, Labels
<1>5. OnlyOf(r, k) /\ SameStack(r)
  BY <1>1, <1>2, StacksDiffer
  DEF OnlyOf, SameThread, SameStack, SameHandle, handleVars, userVars, IInv,
      TypeOK, MachineTypeOK
<1>6. /\ pc'[r] = "yield_exit" /\ h'[r] = k /\ a'[k] = a[k]
      /\ sp'[r] = Top(k)' /\ mem'[k] = m
  BY <1>1, <1>2, <1>3, StacksDiffer
  DEF IInv, TypeOK, MachineTypeOK, Top, handleVars
<1>7. Inside(r, k)' /\ Ahead(k)'
  BY <1>1, <1>5, <1>6, SameTop
  DEF Inside, Waits, Running, SameStack, handleVars, userVars, RunFrame, Ahead
<1>8. BodyFrames(k)' = m
  BY <1>1 DEF BodyFrames, BodyFrame, UserFrames, userVars, m
<1> QED
  BY <1>1, <1>4, <1>5, <1>6, <1>7, <1>8, ThreadStep DEF InRun, handleVars

(* slp_switch returns on the thread's own stack, into _koro_run.           *)
LEMMA PopLeavingStep ==
  ASSUME IInv, NEW r \in Runners, NEW k \in Koros, PopFrame(r),
         current[r] = k, h[r] = k, Leaving(r, k), Even(k),
         Suspended(k) \/ Done(k)
  PROVE  IInv' /\ pc'[r] = "run_exit"
<1>1. /\ Pop(r)
      /\ h' = [h EXCEPT ![r] = SavedH(r)]
      /\ UNCHANGED <<handleVars, current, userVars>>
  BY DEF PopFrame
<1> DEFINE m == UserFrames(r)
<1> HIDE DEF m
<1>2. /\ mem' = [mem EXCEPT ![r] = m]
      /\ mem' \in [Stacks -> Seq(Frames(Labels))]
      /\ sp' = [sp EXCEPT ![r] = Pointer(r, Len(mem'[r]))]
      /\ sp' \in [Runners -> Pointers \ {Null}]
      /\ pc' = [pc EXCEPT ![r] = RunFrame(k).to]
      /\ SavedH(r) = RunFrame(k).h
  <2>1. sp[r] = Top(r) /\ r \in Stacks /\ StacksOK(Labels)
    BY StacksDiffer, TypesOfStacks DEF Leaving, IInv
  <2>2. m \in Seq(Frames(Labels)) /\ RunFrame(k) \in Frames(Labels)
    BY FrameTypes, UserFramesType, StacksDiffer DEF IInv, m
  <2>3. mem[r] = Append(m, RunFrame(k))
    BY DEF m, Leaving, Waits
  <2> QED
    BY <1>1, <2>1, <2>2, <2>3, PopFromTop
<1>3. RunFrame(k).to = "run_exit" /\ RunFrame(k).h = k
  BY DEF RunFrame
<1>4. TypeOK'
  BY <1>1, <1>2, <1>3
  DEF IInv, TypeOK, MachineTypeOK, KoroPcs, handleVars, userVars, Labels
<1>5. OnlyOf(r, k) /\ SameStack(k)
  BY <1>1, <1>2, StacksDiffer
  DEF OnlyOf, SameThread, SameStack, SameHandle, handleVars, userVars, IInv,
      TypeOK, MachineTypeOK
<1>6. /\ pc'[r] = "run_exit" /\ h'[r] = k /\ a'[k] = a[k]
      /\ sp'[r] = Top(r)' /\ mem'[r] = m
  BY <1>1, <1>2, <1>3, StacksDiffer
  DEF IInv, TypeOK, MachineTypeOK, Top, handleVars
<1>7. UserFrames(r)' = m
  BY <1>1 DEF UserFrames, userVars, m
<1>8. Outside(r, k)'
  BY <1>6, <1>7 DEF Leaving, Outside
<1>9. Even(k)' /\ (Suspended(k) \/ Done(k))'
  BY <1>1, <1>5, SameCoroutine DEF SameHandle, handleVars, userVars
<1> QED
  BY <1>1, <1>4, <1>5, <1>6, <1>8, <1>9, ThreadStep DEF InRun, handleVars

(* slp_switch pops the registers and returns: in the body what koro_yield  *)
(* has pushed, outside what koro_run has.                                  *)
LEMMA PopFrameStep ==
  ASSUME IInv, NEW r \in Runners, PopFrame(r)
  PROVE  IInv' /\ pc'[r] \in {"yield_exit", "run_exit"}
<1>1. PICK k \in Koros : current[r] = k /\ h[r] = k /\ InRun(r, k)
  BY LibraryPlace DEF PopFrame
<1>2. CASE Inside(r, k) /\ Ahead(k)
             /\ mem[k] = Append(BodyFrames(k), YieldFrame(k))
  BY <1>1, <1>2, PopInsideStep
<1>3. CASE Leaving(r, k) /\ Even(k) /\ (Suspended(k) \/ Done(k))
  BY <1>1, <1>3, PopLeavingStep
<1> QED
  BY <1>1, <1>2, <1>3 DEF InRun, PopFrame

-------------------------------------------------------------------------------
(* User code                                                               *)

LEMMA UserPlace ==
  ASSUME IInv, NEW r \in Runners, pc[r] = "user"
  PROVE  \/ current[r] = None /\ sp[r] = Top(r) /\ mem[r] = UserFrames(r)
         \/ \E k \in Koros :
              /\ current[r] = k /\ h[r] = k /\ Inside(r, k) /\ Even(k)
              /\ mem[k] = BodyFrames(k)
<1>1. CASE current[r] = None
  BY <1>1 DEF IInv, ThreadInv, ThreadOK, InApp
<1>2. CASE current[r] # None
  <2>1. PICK k \in Koros : current[r] = k /\ h[r] = k /\ InRun(r, k)
    BY <1>2 DEF IInv, TypeOK, MachineTypeOK, ThreadInv, ThreadOK
  <2>2. Inside(r, k) /\ Even(k) /\ mem[k] = BodyFrames(k)
    BY <2>1 DEF InRun
  <2> QED
    BY <2>1, <2>2
<1> QED
  BY <1>1, <1>2

(* A call or a return of user code.                                         *)
LEMMA UserMoveTypes ==
  ASSUME IInv, NEW r \in Runners, NEW s \in Stacks, NEW base,
         UserMove(Labels, r, s, base)
  PROVE  TypeOK'
  BY DEF UserMove, IInv, TypeOK, MachineTypeOK, KoroPcs, handleVars, Labels

(* User code that calls and returns stays user code.                       *)
LEMMA UserMovePlace ==
  ASSUME IInv, NEW r \in Runners, NEW s \in Stacks, NEW base,
         UserMove(Labels, r, s, base)
  PROVE  pc'[r] = "user"
  BY DEF UserMove, IInv, TypeOK, MachineTypeOK

(* Calls and returns in the application,                                   *)
LEMMA AppMove ==
  ASSUME IInv, NEW r \in Runners, current[r] = None,
         UserMove(Labels, r, r, <<>>)
  PROVE  IInv'
<1>1. TypeOK'
  BY UserMoveTypes, StacksDiffer
<1>2. /\ \A s \in Stacks \ {r} : SameStack(s)
      /\ \A q \in Runners \ {r} : SameThread(q)
      /\ \A k \in Koros : SameHandle(k) /\ magic'[k] = magic[k]
      /\ current' = current
  BY DEF UserMove, SameStack, SameThread, SameHandle, handleVars, IInv, TypeOK,
         MachineTypeOK
<1>3. InApp(r)'
  <2>1. pc'[r] = "user" /\ sp'[r] = Top(r)'
    BY DEF UserMove, IInv, TypeOK, MachineTypeOK, Top
  <2>2. mem'[r] = <<>> \o FramesOf(calls'[r])
    BY StacksDiffer DEF UserMove, IInv, TypeOK, MachineTypeOK
  <2>3. FramesOf(calls'[r]) \in Seq(Frames(Labels))
    <3>1. calls'[r] \in Seq(Functions)
      BY StacksDiffer DEF UserMove
    <3> QED
      BY <3>1, FramesType
  <2>4. mem'[r] = FramesOf(calls'[r])
    BY <2>2, <2>3, ConcatEmptySeq
  <2>5. UserFrames(r)' = FramesOf(calls'[r])
    BY DEF UserFrames, FramesOf, UserFrame
  <2> QED
    BY <2>1, <2>4, <2>5 DEF InApp
<1>4. ThreadInv'
  <2> SUFFICES ASSUME NEW q \in Runners
               PROVE  ThreadOK(q)'
    BY DEF ThreadInv
  <2>1. CASE q = r
    BY <1>2, <1>3, <2>1 DEF ThreadOK
  <2>2. CASE q # r
    <3>1. SameThread(q) /\ SameStack(q)
      BY <1>2, <2>2, StacksDiffer
    <3>2. \A j \in Koros :
            SameStack(j) /\ SameHandle(j) /\ magic'[j] = magic[j]
      BY <1>2, StacksDiffer
    <3> QED
      BY <1>2, <3>1, <3>2, OtherThread
  <2> QED
    BY <2>1, <2>2
<1>5. RestInv'
  <2> SUFFICES ASSUME NEW j \in Koros, Idle(j)'
               PROVE  Even(j)' /\ AtRest(j)'
    BY DEF RestInv
  <2>1. Idle(j) /\ SameStack(j) /\ SameHandle(j) /\ magic'[j] = magic[j]
    BY <1>2, StacksDiffer DEF Idle
  <2> QED
    BY <2>1, OtherCoroutine
<1>6. Apart'
  BY <1>2 DEF IInv, Apart
<1> QED
  BY <1>1, <1>4, <1>5, <1>6 DEF IInv

(* in a body,                                                              *)
LEMMA BodyMove ==
  ASSUME IInv, NEW r \in Runners, NEW k \in Koros, current[r] = k, h[r] = k,
         Inside(r, k), Even(k), UserMove(Labels, r, k, <<BodyFrame(k)>>)
  PROVE  IInv'
<1>1. TypeOK'
  BY UserMoveTypes, StacksDiffer
<1>2. OnlyOf(r, k) /\ SameStack(r)
  BY StacksDiffer
  DEF UserMove, OnlyOf, SameThread, SameStack, SameHandle, handleVars, IInv,
      TypeOK, MachineTypeOK
<1>3. /\ pc'[r] = "user" /\ h'[r] = k /\ sp'[r] = Top(k)'
      /\ current' = current /\ magic' = magic
  BY DEF UserMove, IInv, TypeOK, MachineTypeOK, Top, handleVars
<1>4. mem'[k] = BodyFrames(k)'
  <2>1. mem'[k] = <<BodyFrame(k)>> \o FramesOf(calls'[k])
    BY StacksDiffer DEF UserMove, IInv, TypeOK, MachineTypeOK
  <2> QED
    BY <2>1 DEF BodyFrames, BodyFrame, UserFrames, FramesOf, UserFrame
<1>5. Inside(r, k)' /\ Even(k)'
  BY <1>2, <1>3, SameTop
  DEF Inside, Waits, Running, SameStack, UserMove, handleVars, RunFrame, Even
<1> QED
  BY <1>1, <1>2, <1>3, <1>4, <1>5, ThreadStep DEF InRun

(* and so wherever user code is: it calls a function                       *)
LEMMA CallStep ==
  ASSUME IInv, NEW r \in Runners, NEW f \in Functions, Call(r, f)
  PROVE  IInv' /\ pc'[r] = "user"
<1>1. /\ pc[r] = "user" /\ StacksOK(Labels)
      /\ UNCHANGED <<handleVars, current, h, seg, runs>>
  BY TypesOfStacks DEF IInv, Call
<1>2. CASE current[r] = None /\ sp[r] = Top(r) /\ mem[r] = UserFrames(r)
  <2>1. <<>> \in Seq(Frames(Labels)) /\ r \in Stacks
    BY EmptySeq, StacksDiffer
  <2>2. mem[r] = <<>> \o UserFrames(r)
    BY <1>2, UserFramesType, ConcatEmptySeq, <2>1 DEF IInv
  <2>3. UserMove(Labels, r, r, <<>>)
    BY <1>1, <1>2, <2>1, <2>2, CallKeepsStack
  <2> QED
    BY <1>1, <1>2, <2>1, <2>3, AppMove, UserMovePlace
<1>3. ASSUME NEW k \in Koros, current[r] = k, h[r] = k, Inside(r, k),
             Even(k), mem[k] = BodyFrames(k)
      PROVE  IInv' /\ pc'[r] = "user"
  <2>1. BodyFrame(k) \in Frames(Labels) /\ k \in Stacks
    BY FrameTypes, StacksDiffer
  <2>2. <<BodyFrame(k)>> \in Seq(Frames(Labels))
    BY <2>1
  <2>3. sp[r] = Top(k) /\ mem[k] = <<BodyFrame(k)>> \o UserFrames(k)
    BY <1>3 DEF Inside, BodyFrames
  <2>4. UserMove(Labels, r, k, <<BodyFrame(k)>>)
    BY <1>1, <2>1, <2>2, <2>3, CallKeepsStack
  <2> QED
    BY <1>1, <1>3, <2>1, <2>4, BodyMove, UserMovePlace
<1> QED
  BY <1>1, <1>2, <1>3, UserPlace

(* or returns from one.                                                    *)
LEMMA ReturnStep ==
  ASSUME IInv, NEW r \in Runners, Return(r)
  PROVE  IInv' /\ pc'[r] = "user"
<1>1. /\ pc[r] = "user" /\ StacksOK(Labels)
      /\ UNCHANGED <<handleVars, current, h, seg, runs>>
  BY TypesOfStacks DEF IInv, Return
<1>2. CASE current[r] = None /\ sp[r] = Top(r) /\ mem[r] = UserFrames(r)
  <2>1. <<>> \in Seq(Frames(Labels)) /\ r \in Stacks
    BY EmptySeq, StacksDiffer
  <2>2. mem[r] = <<>> \o UserFrames(r)
    BY <1>2, UserFramesType, ConcatEmptySeq, <2>1 DEF IInv
  <2>3. UserMove(Labels, r, r, <<>>)
    BY <1>1, <1>2, <2>1, <2>2, ReturnKeepsStack
  <2> QED
    BY <1>1, <1>2, <2>1, <2>3, AppMove, UserMovePlace
<1>3. ASSUME NEW k \in Koros, current[r] = k, h[r] = k, Inside(r, k),
             Even(k), mem[k] = BodyFrames(k)
      PROVE  IInv' /\ pc'[r] = "user"
  <2>1. BodyFrame(k) \in Frames(Labels) /\ k \in Stacks
    BY FrameTypes, StacksDiffer
  <2>2. <<BodyFrame(k)>> \in Seq(Frames(Labels))
    BY <2>1
  <2>3. sp[r] = Top(k) /\ mem[k] = <<BodyFrame(k)>> \o UserFrames(k)
    BY <1>3 DEF Inside, BodyFrames
  <2>4. UserMove(Labels, r, k, <<BodyFrame(k)>>)
    BY <1>1, <2>1, <2>2, <2>3, ReturnKeepsStack
  <2> QED
    BY <1>1, <1>3, <2>1, <2>4, BodyMove, UserMovePlace
<1> QED
  BY <1>1, <1>2, <1>3, UserPlace

(* A body returns into _init_run; the application has nothing to return    *)
(* from but its functions.                                                 *)
LEMMA BodyReturnStep ==
  ASSUME IInv, NEW r \in Runners, BodyReturn(r)
  PROVE  IInv' /\ pc'[r] = "body_end" /\ current[r] # None
<1>1. /\ pc[r] = "user" /\ Pop(r) /\ calls[sp[r].stack] = <<>>
      /\ sp[r].depth > 0 /\ h' = [h EXCEPT ![r] = SavedH(r)]
      /\ UNCHANGED <<handleVars, current, userVars>>
  BY DEF BodyReturn
<1>2. CASE current[r] = None /\ sp[r] = Top(r) /\ mem[r] = UserFrames(r)
  <2>1. sp[r].stack = r /\ sp[r].depth = Len(mem[r])
    BY <1>2 DEF Top, Pointer
  <2>2. mem[r] = <<>>
    BY <1>1, <1>2, <2>1 DEF UserFrames
  <2> QED
    BY <1>1, <2>1, <2>2
<1>3. ASSUME NEW k \in Koros, current[r] = k, h[r] = k, Inside(r, k),
             Even(k), mem[k] = BodyFrames(k)
      PROVE  IInv' /\ pc'[r] = "body_end" /\ current[r] # None
  <2>1. sp[r] = Top(k) /\ k \in Stacks /\ StacksOK(Labels)
    BY <1>3, StacksDiffer, TypesOfStacks DEF Inside, IInv
  <2>2. calls[k] = <<>>
    BY <1>1, <2>1 DEF Top, Pointer
  <2>3. mem[k] = Append(<<>>, BodyFrame(k))
    BY <1>3, <2>2, NothingCalled
  <2>4. <<>> \in Seq(Frames(Labels)) /\ BodyFrame(k) \in Frames(Labels)
    BY FrameTypes, EmptySeq
  <2>5. /\ mem' = [mem EXCEPT ![k] = <<>>]
        /\ mem' \in [Stacks -> Seq(Frames(Labels))]
        /\ sp' = [sp EXCEPT ![r] = Pointer(k, Len(mem'[k]))]
        /\ sp' \in [Runners -> Pointers \ {Null}]
        /\ pc' = [pc EXCEPT ![r] = BodyFrame(k).to]
        /\ SavedH(r) = BodyFrame(k).h
    <3> DEFINE m == <<>>
    <3>1. m \in Seq(Frames(Labels)) /\ mem[k] = Append(m, BodyFrame(k))
      BY <2>3, <2>4
    <3> HIDE DEF m
    <3>2. /\ mem' = [mem EXCEPT ![k] = m]
          /\ mem' \in [Stacks -> Seq(Frames(Labels))]
          /\ sp' = [sp EXCEPT ![r] = Pointer(k, Len(mem'[k]))]
          /\ sp' \in [Runners -> Pointers \ {Null}]
          /\ pc' = [pc EXCEPT ![r] = BodyFrame(k).to]
          /\ SavedH(r) = BodyFrame(k).h
      BY <1>1, <2>1, <2>4, <3>1, PopFromTop
    <3> QED
      BY <3>2 DEF m
  <2>6. BodyFrame(k).to = "body_end" /\ BodyFrame(k).h = k
    BY DEF BodyFrame
  <2>7. TypeOK'
    BY <1>1, <2>5, <2>6
    DEF IInv, TypeOK, MachineTypeOK, handleVars, userVars, Labels
  <2>8. OnlyOf(r, k) /\ SameStack(r)
    BY <1>1, <2>5, StacksDiffer
    DEF OnlyOf, SameThread, SameStack, SameHandle, handleVars, userVars, IInv,
        TypeOK, MachineTypeOK
  <2>9. /\ pc'[r] = "body_end" /\ h'[r] = k /\ a'[k] = a[k]
        /\ sp'[r] = Top(k)' /\ mem'[k] = <<>>
    BY <1>1, <2>5, <2>6, StacksDiffer
    DEF IInv, TypeOK, MachineTypeOK, Top, handleVars
  <2>10. Inside(r, k)' /\ Even(k)'
    BY <1>1, <1>3, <2>8, <2>9, SameTop
    DEF Inside, Waits, Running, SameStack, handleVars, userVars, RunFrame,
        Even
  <2> QED
    BY <1>1, <1>3, <2>7, <2>8, <2>9, <2>10, ThreadStep, StacksDiffer
    DEF InRun, handleVars
<1> QED
  BY <1>1, <1>2, <1>3, UserPlace

-------------------------------------------------------------------------------
(* koro_init, and the ends of koro_run                                     *)

LEMMA InitCallStep ==
  ASSUME IInv, NEW r \in Runners, NEW k \in Koros, InitCall(r, k)
  PROVE  IInv'
<1>1. /\ Idle(k)
      /\ finished' = [finished EXCEPT ![k] = FALSE]
      /\ magic' = [magic EXCEPT ![k] = TRUE]
      /\ calls' = [calls EXCEPT ![k] = <<>>]
      /\ seg' = [seg EXCEPT ![k] = 0]
      /\ runs' = [runs EXCEPT ![k] = 0]
      /\ a' = [a EXCEPT ![k] = Null]
      /\ b' = [b EXCEPT ![k] = Null]
      /\ mem' = [mem EXCEPT ![k] = <<>>]
      /\ UNCHANGED <<current, pc, h, sp>>
  BY DEF InitCall, InitHandle
<1>2. TypeOK'
  <2>1. mem' \in [Stacks -> Seq(Frames(Labels))]
    BY <1>1, TypesOfStacks, EmptySeq DEF IInv, StacksOK
  <2>2. calls' \in [Stacks -> Seq(Functions)]
    BY <1>1, TypesOfStacks, EmptySeq DEF IInv, StacksOK
  <2>3. a' \in [Koros -> Pointers] /\ b' \in [Koros -> Pointers]
    BY <1>1 DEF IInv, TypeOK, MachineTypeOK, Pointers
  <2>4. /\ magic' \in [Koros -> BOOLEAN] /\ finished' \in [Koros -> BOOLEAN]
        /\ seg' \in [Koros -> Nat] /\ runs' \in [Koros -> Nat]
    BY <1>1 DEF IInv, TypeOK, MachineTypeOK
  <2> QED
    BY <1>1, <2>1, <2>2, <2>3, <2>4 DEF IInv, TypeOK, MachineTypeOK, Labels
<1>3. /\ \A s \in Stacks \ {k} : SameStack(s)
      /\ \A q \in Runners : SameThread(q)
      /\ \A j \in Koros \ {k} : SameHandle(j) /\ magic'[j] = magic[j]
  BY <1>1 DEF SameStack, SameThread, SameHandle, IInv, TypeOK, MachineTypeOK
<1>4. ThreadInv'
  <2> SUFFICES ASSUME NEW q \in Runners
               PROVE  ThreadOK(q)'
    BY DEF ThreadInv
  <2>1. SameThread(q) /\ SameStack(q) /\ current'[q] = current[q]
    BY <1>1, <1>3, StacksDiffer
  <2>2. \A j \in Koros : current[q] = j =>
          SameStack(j) /\ SameHandle(j) /\ magic'[j] = magic[j]
    BY <1>1, <1>3, StacksDiffer DEF Idle
  <2> QED
    BY <2>1, <2>2, OtherThread
<1>5. RestInv'
  <2> SUFFICES ASSUME NEW j \in Koros, Idle(j)'
               PROVE  Even(j)' /\ AtRest(j)'
    BY DEF RestInv
  <2>1. CASE j = k
    <3>1. Even(k)'
      BY <1>1 DEF Even, IInv, TypeOK, MachineTypeOK
    <3>2. /\ finished'[k] = FALSE /\ a'[k] = Null /\ b'[k] = Null
          /\ mem'[k] = <<>> /\ calls'[k] = <<>>
      BY <1>1, StacksDiffer DEF IInv, TypeOK, MachineTypeOK
    <3>3. Fresh(k)'
      BY <3>2 DEF Fresh
    <3> QED
      BY <2>1, <3>1, <3>2, <3>3 DEF AtRest
  <2>2. CASE j # k
    <3>1. SameStack(j) /\ SameHandle(j) /\ magic'[j] = magic[j] /\ Idle(j)
      BY <1>1, <1>3, <2>2, StacksDiffer DEF Idle
    <3> QED
      BY <3>1, OtherCoroutine
  <2> QED
    BY <2>1, <2>2
<1>6. Apart'
  BY <1>1 DEF IInv, Apart
<1> QED
  BY <1>2, <1>4, <1>5, <1>6 DEF IInv

(* koro_run of a coroutine that nobody runs begins.                        *)
LEMMA RunCallStep ==
  ASSUME IInv, NEW r \in Runners, NEW k \in Koros, RunCall(r, k)
  PROVE  IInv'
<1>1. /\ pc[r] = "user" /\ magic[k] /\ current[r] = None /\ Idle(k)
      /\ current' = [current EXCEPT ![r] = k]
      /\ h' = [h EXCEPT ![r] = k]
      /\ pc' = [pc EXCEPT ![r] = "run"]
      /\ UNCHANGED <<handleVars, sp, mem, userVars>>
  BY DEF RunCall, Goto
<1>2. TypeOK'
  BY <1>1 DEF IInv, TypeOK, MachineTypeOK, KoroPcs, handleVars, userVars
<1>3. /\ \A s \in Stacks : SameStack(s)
      /\ \A q \in Runners \ {r} : SameThread(q) /\ current'[q] = current[q]
      /\ \A j \in Koros : SameHandle(j) /\ magic'[j] = magic[j]
      /\ current'[r] = k /\ h'[r] = k /\ pc'[r] = "run" /\ sp'[r] = sp[r]
      /\ a'[k] = a[k]
  BY <1>1 DEF SameStack, SameThread, SameHandle, handleVars, userVars, IInv,
              TypeOK, MachineTypeOK
<1>4. ThreadOK(r)'
  <2>1. sp[r] = Top(r) /\ mem[r] = UserFrames(r)
    BY <1>1, StacksDiffer, UserPlace
  <2>2. Even(k) /\ a[k] = Null /\ (Fresh(k) \/ Suspended(k) \/ Done(k))
    BY <1>1 DEF IInv, RestInv, AtRest
  <2>3. Outside(r, k)'
    BY <1>3, <2>1, <2>2, StacksDiffer, SameTop DEF Outside, SameStack
  <2>4. Even(k)' /\ (Fresh(k) \/ Suspended(k) \/ Done(k))'
    BY <1>3, <2>2, StacksDiffer, SameCoroutine
  <2>5. InRun(r, k)'
    BY <1>3, <2>3, <2>4 DEF InRun
  <2> QED
    BY <1>1, <1>3, <2>5, StacksDiffer DEF ThreadOK
<1>5. ThreadInv'
  <2> SUFFICES ASSUME NEW q \in Runners
               PROVE  ThreadOK(q)'
    BY DEF ThreadInv
  <2>1. CASE q = r
    BY <1>4, <2>1
  <2>2. CASE q # r
    <3>1. SameThread(q) /\ SameStack(q) /\ current'[q] = current[q]
      BY <1>3, <2>2, StacksDiffer
    <3>2. \A j \in Koros :
            SameStack(j) /\ SameHandle(j) /\ magic'[j] = magic[j]
      BY <1>3, StacksDiffer
    <3> QED
      BY <3>1, <3>2, OtherThread
  <2> QED
    BY <2>1, <2>2
<1>6. RestInv'
  <2> SUFFICES ASSUME NEW j \in Koros, Idle(j)'
               PROVE  Even(j)' /\ AtRest(j)'
    BY DEF RestInv
  <2>1. Idle(j)
    BY <1>1, <1>3, StacksDiffer DEF Idle
  <2>2. SameStack(j) /\ SameHandle(j) /\ magic'[j] = magic[j]
    BY <1>3, StacksDiffer
  <2> QED
    BY <2>1, <2>2, OtherCoroutine
<1>7. Apart'
  BY <1>1, <1>3 DEF IInv, Apart, Idle
<1> QED
  BY <1>2, <1>5, <1>6, <1>7 DEF IInv

(* koro_run returns and leaves the coroutine at rest.                      *)
LEMMA RunExitStep ==
  ASSUME IInv, NEW r \in Runners, RunExit(r)
  PROVE  IInv'
<1>1. PICK k \in Koros : current[r] = k /\ h[r] = k /\ InRun(r, k)
  BY LibraryPlace DEF RunExit
<1>2. Outside(r, k) /\ Even(k) /\ (Suspended(k) \/ Done(k))
  BY <1>1 DEF RunExit, InRun
<1>3. /\ current' = [current EXCEPT ![r] = None]
      /\ pc' = [pc EXCEPT ![r] = "user"]
      /\ UNCHANGED <<handleVars, h, sp, mem, userVars>>
  BY DEF RunExit, Goto
<1>4. TypeOK'
  BY <1>3 DEF IInv, TypeOK, MachineTypeOK, KoroPcs, handleVars, userVars
<1>5. /\ \A s \in Stacks : SameStack(s)
      /\ \A q \in Runners \ {r} : SameThread(q) /\ current'[q] = current[q]
      /\ \A j \in Koros : SameHandle(j) /\ magic'[j] = magic[j]
      /\ current'[r] = None /\ pc'[r] = "user" /\ sp'[r] = sp[r]
  BY <1>3 DEF SameStack, SameThread, SameHandle, handleVars, userVars, IInv,
              TypeOK, MachineTypeOK
<1>6. ThreadOK(r)'
  <2>1. InApp(r)'
    BY <1>2, <1>5, StacksDiffer, SameTop DEF InApp, Outside, SameStack
  <2> QED
    BY <1>5, <2>1 DEF ThreadOK
<1>7. ThreadInv'
  <2> SUFFICES ASSUME NEW q \in Runners
               PROVE  ThreadOK(q)'
    BY DEF ThreadInv
  <2>1. CASE q = r
    BY <1>6, <2>1
  <2>2. CASE q # r
    <3>1. SameThread(q) /\ SameStack(q) /\ current'[q] = current[q]
      BY <1>5, <2>2, StacksDiffer
    <3>2. \A j \in Koros :
            SameStack(j) /\ SameHandle(j) /\ magic'[j] = magic[j]
      BY <1>5, StacksDiffer
    <3> QED
      BY <3>1, <3>2, OtherThread
  <2> QED
    BY <2>1, <2>2
<1>8. RestInv'
  <2> SUFFICES ASSUME NEW j \in Koros, Idle(j)'
               PROVE  Even(j)' /\ AtRest(j)'
    BY DEF RestInv
  <2>1. CASE j = k
    <3>1. Even(k)' /\ (Suspended(k) \/ Done(k))' /\ a'[k] = Null
      BY <1>2, <1>5, StacksDiffer, SameCoroutine DEF Outside, SameHandle
    <3> QED
      BY <2>1, <3>1 DEF AtRest
  <2>2. CASE j # k
    <3>1. Idle(j)
      BY <1>1, <1>5, <2>2 DEF Idle
    <3>2. SameStack(j) /\ SameHandle(j) /\ magic'[j] = magic[j]
      BY <1>5, StacksDiffer
    <3> QED
      BY <3>1, <3>2, OtherCoroutine
  <2> QED
    BY <2>1, <2>2
<1>9. Apart'
  BY <1>1, <1>5, StacksDiffer DEF IInv, Apart, TypeOK, MachineTypeOK
<1> QED
  BY <1>4, <1>7, <1>8, <1>9 DEF IInv

-------------------------------------------------------------------------------
(* The invariant                                                           *)

LEMMA InitInv ==
  ASSUME Init
  PROVE  IInv
<1> USE DEF Init, MachineInit
<1>1. TypeOK
  <2>1. mem \in [Stacks -> Seq(Frames(Labels))]
    BY EmptySeq
  <2>2. calls \in [Stacks -> Seq(Functions)]
    BY EmptySeq
  <2>3. sp \in [Runners -> Pointers \ {Null}]
    BY StacksDiffer DEF Pointers, Null, Pointer
  <2>4. a \in [Koros -> Pointers] /\ b \in [Koros -> Pointers]
    BY DEF Pointers
  <2> QED
    BY <2>1, <2>2, <2>3, <2>4 DEF TypeOK, MachineTypeOK, KoroPcs, Labels
<1>2. ThreadInv
  <2> SUFFICES ASSUME NEW r \in Runners
               PROVE  current[r] = None /\ InApp(r)
    BY DEF ThreadInv, ThreadOK
  <2>1. /\ current[r] = None /\ pc[r] = "user" /\ sp[r] = Pointer(r, 0)
        /\ mem[r] = <<>> /\ calls[r] = <<>>
    BY StacksDiffer
  <2> QED
    BY <2>1 DEF InApp, Top, UserFrames
<1>3. RestInv
  BY DEF RestInv, AtRest, Even
<1>4. Apart
  BY DEF Apart
<1> QED
  BY <1>1, <1>2, <1>3, <1>4 DEF IInv

(* Every step keeps the invariant.                                         *)
LEMMA NextInv ==
  ASSUME IInv, [Next]_vars
  PROVE  IInv'
<1>1. CASE UNCHANGED vars
  <2> USE <1>1 DEF vars, machineVars, handleVars, userVars
  <2>1. TypeOK'
    BY DEF IInv, TypeOK, MachineTypeOK
  <2>2. Apart'
    BY DEF IInv, Apart
  <2>3. ThreadInv'
    BY OtherThread
    DEF ThreadInv, SameThread, SameStack, SameHandle, IInv
  <2>4. RestInv'
    BY OtherCoroutine DEF RestInv, Idle, SameStack, SameHandle
  <2> QED
    BY <2>1, <2>2, <2>3, <2>4 DEF IInv
<1>2. CASE Next
  <2> PICK r \in Runners :
        \/ \E f \in Functions : Call(r, f)
        \/ Return(r)
        \/ \E k \in Koros : InitCall(r, k) \/ RunCall(r, k)
        \/ YieldCall(r) \/ BodyReturn(r)
        \/ LibraryStep(r)
    BY <1>2 DEF Next
  <2>1. CASE \E f \in Functions : Call(r, f)
    BY <2>1, CallStep
  <2>2. CASE Return(r)
    BY <2>2, ReturnStep
  <2>3. CASE \E k \in Koros : InitCall(r, k) \/ RunCall(r, k)
    BY <2>3, InitCallStep, RunCallStep
  <2>4. CASE YieldCall(r) \/ BodyReturn(r)
    BY <2>4, YieldCallStep, BodyReturnStep
  <2>5. CASE LibraryStep(r)
    <3>1. CASE RunFinished(r) \/ RunSwitch(r) \/ RunExit(r)
      BY <3>1, RunFinishedStep, RunSwitchStep, RunExitStep
    <3>2. CASE YieldExit(r) \/ BodyEnd(r) \/ PopFrame(r)
      BY <3>2, YieldExitStep, BodyEndStep, PopFrameStep
    <3>3. CASE SaveState(r)
      BY <3>3, InitSwapStep, RunSwapStep, YieldSwapStep, FinishedSwapStep
      DEF SaveState
    <3>4. CASE RestoreState(r)
      BY <3>4, InitRunStep, RestoreNoopStep, YieldCleanupStep,
         FinishedCleanupStep
      DEF RestoreState
    <3> QED
      BY <2>5, <3>1, <3>2, <3>3, <3>4 DEF LibraryStep
  <2> QED
    BY <2>1, <2>2, <2>3, <2>4, <2>5
<1> QED
  BY <1>1, <1>2

(* Every pointer leads where IInv says, in every state that the library    *)
(* over backends/switch can reach.                                         *)
THEOREM Invariant == Spec => []IInv
BY InitInv, NextInv, PTL DEF Spec

(* The handles, the threads and the stacks keep their types: in particular *)
(* a thread's stack pointer is never the null pointer.                     *)
THEOREM TypeCorrect == Spec => []TypeOK
<1>1. IInv => TypeOK
  BY DEF IInv
<1> QED
  BY <1>1, Invariant, PTL

(* No assert of switch_backend.c about the pointers fails, and nothing     *)
(* ever comes back to the stack of a finished coroutine.                   *)
THEOREM AssertsNeverFail == Spec => []AssertsHold
<1>1. ASSUME IInv
      PROVE  AssertsHold
  <2> SUFFICES ASSUME NEW r \in Runners, NEW k, k = h[r]
               PROVE
        /\ pc[r] # "never"
        /\ pc[r] \notin {"user", "run_exit", "yield_exit", "pop"} => magic[k]
        /\ pc[r] = "init_swap" => a[k] = Null /\ b[k] = Null
        /\ pc[r] = "init_run" =>
             sp[r] = Pointer(k, 0) /\ a[k] # Null /\ ~finished[k]
        /\ pc[r] = "run_swap" => a[k] = Null /\ b[k] # Null
        /\ pc[r] = "restore_noop" => a[k] # Null /\ b[k] = sp[r]
        /\ pc[r] \in {"yield_swap", "finished_swap"} =>
             sp[r].stack = k /\ a[k] # Null /\ b[k] = Null
        /\ pc[r] = "yield_cleanup" => a[k] = sp[r] /\ b[k] # Null
        /\ pc[r] = "finished_cleanup" => a[k] = sp[r] /\ b[k] = Null
    BY DEF AssertsHold
  <2>1. CASE pc[r] = "user"
    BY <2>1
  <2>2. CASE pc[r] # "user"
    <3>1. k \in Koros /\ magic[k] /\ InRun(r, k)
      BY <1>1, <2>2, LibraryPlace
    <3>2. Top(r) # Null /\ Top(k) # Null
      BY <1>1, <3>1, TopTypes, StacksDiffer DEF IInv
    <3>3. Top(k).stack = k
      BY DEF Top, Pointer
    <3>4. pc[r] = "init_run" => Top(k) = Pointer(k, 0)
      BY <3>1 DEF InRun, Fresh, Top
    <3> QED
      BY <3>1, <3>2, <3>3, <3>4
      DEF InRun, Outside, Leaving, Inside, Back, Fresh, Suspended, Running
  <2> QED
    BY <2>1, <2>2
<1> QED
  BY <1>1, Invariant, PTL

(* User code finds its stack as it left it, on the stack where it was,     *)
(* whatever was run and yielded in between.                                *)
THEOREM StackStaysIntact == Spec => []StackIntact
<1>1. ASSUME IInv
      PROVE  StackIntact
  <2> DEFINE base == [k \in Koros |-> <<[to |-> "body_end", h |-> k]>>]
  <2> SUFFICES ASSUME NEW r \in Runners, pc[r] = "user", NEW s,
                      s = IF current[r] = None THEN r ELSE current[r]
               PROVE  /\ sp[r] = Pointer(s, Len(mem[s]))
                      /\ mem[s] = IF s = r THEN UserFrames(s)
                                  ELSE base[s] \o UserFrames(s)
    BY DEF StackIntact, UserStacksIntact
  <2>1. CASE current[r] = None /\ sp[r] = Top(r) /\ mem[r] = UserFrames(r)
    BY <2>1 DEF Top
  <2>2. ASSUME NEW k \in Koros, current[r] = k, h[r] = k, Inside(r, k),
               Even(k), mem[k] = BodyFrames(k)
        PROVE  /\ sp[r] = Pointer(s, Len(mem[s]))
               /\ mem[s] = IF s = r THEN UserFrames(s)
                           ELSE base[s] \o UserFrames(s)
    <3>1. s = k /\ s # r
      BY <2>2, StacksDiffer
    <3>2. base[k] = <<BodyFrame(k)>>
      BY DEF BodyFrame
    <3> HIDE DEF base
    <3> QED
      BY <2>2, <3>1, <3>2 DEF Inside, Top, BodyFrames
  <2> QED
    BY <1>1, <2>1, <2>2, UserPlace
<1> QED
  BY <1>1, Invariant, PTL

(* Where the stack pointer of a thread leads.                              *)
LEMMA StackOfThread ==
  ASSUME IInv, NEW r \in Runners
  PROVE  \/ sp[r].stack = r
         \/ current[r] \in Koros /\ sp[r].stack = current[r]
<1>1. \A s : Top(s).stack = s
  BY DEF Top, Pointer
<1>2. CASE current[r] = None
  BY <1>1, <1>2 DEF IInv, ThreadInv, ThreadOK, InApp
<1>3. CASE current[r] # None
  <2>1. PICK k \in Koros : current[r] = k /\ InRun(r, k)
    BY <1>3 DEF IInv, TypeOK, MachineTypeOK, ThreadInv, ThreadOK
  <2>2. sp[r] = Top(r) \/ sp[r] = Top(k)
    BY <2>1 DEF InRun, Outside, Leaving, Inside, Back
  <2> QED
    BY <1>1, <2>1, <2>2
<1> QED
  BY <1>2, <1>3

(* No two threads are ever on the same stack.                              *)
THEOREM StacksStayApart == Spec => []StacksApart
<1>1. ASSUME IInv
      PROVE  StacksApart
  <2> SUFFICES ASSUME NEW r \in Runners, NEW q \in Runners,
                      sp[r].stack = sp[q].stack
               PROVE  r = q
    BY DEF StacksApart
  <2> QED
    BY <1>1, StackOfThread, StacksDiffer DEF IInv, Apart
<1> QED
  BY <1>1, Invariant, PTL

(* A body never gets ahead of the koro_run calls made on it, and has       *)
(* executed one segment for each of them when none is under way.           *)
THEOREM WorkMatchesRuns == Spec => []WorkEqualsRuns
<1>1. ASSUME IInv
      PROVE  WorkEqualsRuns
  <2> SUFFICES ASSUME NEW k \in Koros
               PROVE  seg[k] <= runs[k] /\ (Idle(k) => seg[k] = runs[k])
    BY DEF WorkEqualsRuns
  <2>1. seg[k] \in Nat /\ runs[k] \in Nat
    BY <1>1 DEF IInv, TypeOK, MachineTypeOK
  <2>2. CASE Idle(k)
    BY <1>1, <2>1, <2>2 DEF IInv, RestInv, Even
  <2>3. CASE ~Idle(k)
    <3>1. PICK r \in Runners : current[r] = k
      BY <2>3 DEF Idle
    <3>2. InRun(r, k)
      BY <1>1, <3>1, StacksDiffer DEF IInv, ThreadInv, ThreadOK
    <3>3. Even(k) \/ Ahead(k)
      BY <3>2 DEF InRun
    <3> QED
      BY <2>1, <2>3, <3>3 DEF Even, Ahead
  <2> QED
    BY <2>2, <2>3
<1> QED
  BY <1>1, Invariant, PTL

-------------------------------------------------------------------------------
(* The refinement of Coroutines                                            *)

(* Before the first call there is no coroutine.                            *)
LEMMA InitMaps ==
  ASSUME Init
  PROVE  Promise!Init
<1>1. \A r \in Runners : activeMap[r] = None
  BY DEF Init, MachineInit, activeMap, InBody
<1>2. activeMap = [r \in Runners |-> None]
  BY <1>1 DEF activeMap
<1>3. statusMap = [k \in Koros |-> "none"]
  BY <1>1, StacksDiffer DEF Init, MachineInit, statusMap
<1> QED
  BY <1>2, <1>3 DEF Promise!Init, Init, MachineInit

(* What the promise sees of a thread.                                      *)
Active(r) == IF InBody(r) THEN current[r] ELSE None

(* A step that neither begins nor ends a segment.                          *)
LEMMA SameMap ==
  ASSUME \A r \in Runners : Active(r)' = Active(r),
         magic' = magic, finished' = finished, seg' = seg
  PROVE  UNCHANGED Promise!vars
<1>1. activeMap' = activeMap
  BY DEF activeMap, Active
<1>2. statusMap' = statusMap
  BY <1>1 DEF statusMap
<1> QED
  BY <1>1, <1>2 DEF Promise!vars

(* InBody, of the place of a thread and its current coroutine.             *)
BodyAt(place, k) ==
  \/ place = "user" /\ k # None
  \/ place \in {"yield_swap", "yield_cleanup", "body_end",
                "finished_swap", "finished_cleanup"}

(* Such a step, when only thread r moves and stays in or out of its body.  *)
LEMMA SameBody ==
  ASSUME NEW r \in Runners, current' = current,
         \A q \in Runners \ {r} : pc'[q] = pc[q],
         BodyAt(pc'[r], current[r]) <=> BodyAt(pc[r], current[r]),
         magic' = magic, finished' = finished, seg' = seg
  PROVE  UNCHANGED Promise!vars
<1>1. \A q \in Runners : Active(q)' = Active(q)
  BY DEF Active, InBody, BodyAt
<1> QED
  BY <1>1, SameMap

(* The coroutine of thread r is under way in no other thread.              *)
LEMMA OnlyRunner ==
  ASSUME IInv, NEW r \in Runners, NEW k \in Koros, current[r] = k
  PROVE  /\ \A q \in Runners : activeMap[q] = k <=> q = r /\ InBody(r)
         /\ statusMap[k] = IF InBody(r) THEN "running"
                           ELSE IF ~magic[k] THEN "none"
                           ELSE IF finished[k] THEN "finished"
                           ELSE "suspended"
<1>1. k # None
  BY StacksDiffer
<1>2. \A q \in Runners : current[q] = k => q = r
  BY <1>1 DEF IInv, Apart
<1>3. \A q \in Runners : activeMap[q] = k <=> q = r /\ InBody(r)
  BY <1>1, <1>2 DEF activeMap
<1> QED
  BY <1>3 DEF statusMap

(* A step after which the promise sees one coroutine differently.          *)
LEMMA StatusChanges ==
  ASSUME NEW k \in Koros,
         \A j \in Koros \ {k} : statusMap'[j] = statusMap[j]
  PROVE  statusMap' = [statusMap EXCEPT ![k] = statusMap'[k]]
<1>1. statusMap = [j \in Koros |-> statusMap[j]]
  BY DEF statusMap
<1>2. statusMap' = [j \in Koros |-> statusMap'[j]]
  BY DEF statusMap
<1> QED
  BY <1>1, <1>2

(* A body begins a segment.                                                *)
LEMMA BeginMaps ==
  ASSUME IInv, IInv', NEW r \in Runners, NEW k \in Koros,
         current[r] = k, current' = current,
         \A q \in Runners \ {r} : pc'[q] = pc[q],
         ~InBody(r), pc'[r] = "user", magic[k], ~finished[k],
         magic' = magic, finished' = finished,
         seg' = [seg EXCEPT ![k] = @ + 1]
  PROVE  Promise!Resume(r, k)
<1>1. activeMap[r] = None /\ activeMap' = [activeMap EXCEPT ![r] = k]
  BY StacksDiffer DEF activeMap, InBody
<1>2. statusMap[k] = "suspended"
  BY OnlyRunner
<1>3. activeMap'[r] = k
  BY <1>1 DEF activeMap
<1>4. \A j \in Koros \ {k} : statusMap'[j] = statusMap[j]
  <2> SUFFICES ASSUME NEW j \in Koros \ {k}
               PROVE  statusMap'[j] = statusMap[j]
    OBVIOUS
  <2>1. \A q \in Runners : activeMap'[q] = j <=> activeMap[q] = j
    BY <1>1, <1>3, StacksDiffer DEF activeMap
  <2> QED
    BY <2>1 DEF statusMap
<1>5. statusMap'[k] = "running"
  BY <1>3 DEF statusMap
<1>6. statusMap' = [statusMap EXCEPT ![k] = "running"]
  BY <1>4, <1>5, StatusChanges
<1> QED
  BY <1>1, <1>2, <1>6 DEF Promise!Resume

(* A segment ends: what the coroutine is from then on depends on whether   *)
(* its body has returned.                                                  *)
LEMMA EndMaps ==
  ASSUME IInv, IInv', NEW r \in Runners, NEW k \in Koros,
         current[r] = k, current' = current,
         \A q \in Runners \ {r} : pc'[q] = pc[q],
         InBody(r), pc'[r] = "pop", magic[k], magic' = magic,
         \A j \in Koros \ {k} : finished'[j] = finished[j], seg' = seg
  PROVE  Promise!EndSegment(r, IF finished'[k] THEN "finished"
                               ELSE "suspended")
<1>1. activeMap[r] = k /\ activeMap' = [activeMap EXCEPT ![r] = None]
  BY DEF activeMap, InBody
<1>2. \A q \in Runners : activeMap'[q] = k <=> FALSE
  BY <1>1, OnlyRunner, StacksDiffer DEF activeMap
<1>3. statusMap'[k] = IF finished'[k] THEN "finished" ELSE "suspended"
  BY <1>2 DEF statusMap
<1>4. \A j \in Koros \ {k} : statusMap'[j] = statusMap[j]
  <2> SUFFICES ASSUME NEW j \in Koros \ {k}
               PROVE  statusMap'[j] = statusMap[j]
    OBVIOUS
  <2>1. \A q \in Runners : activeMap'[q] = j <=> activeMap[q] = j
    BY <1>1, StacksDiffer DEF activeMap
  <2> QED
    BY <2>1 DEF statusMap
<1>5. statusMap' = [statusMap EXCEPT ![k] = statusMap'[k]]
  BY <1>4, StatusChanges
<1>6. activeMap[r] # None
  BY <1>1, StacksDiffer
<1> QED
  BY <1>1, <1>3, <1>5, <1>6 DEF Promise!EndSegment

(* koro_init creates a coroutine.                                          *)
LEMMA InitCallMaps ==
  ASSUME IInv, IInv', NEW r \in Runners, NEW k \in Koros, InitCall(r, k)
  PROVE  Promise!Create(k)
<1>1. /\ Idle(k)
      /\ finished' = [finished EXCEPT ![k] = FALSE]
      /\ magic' = [magic EXCEPT ![k] = TRUE]
      /\ seg' = [seg EXCEPT ![k] = 0]
      /\ UNCHANGED <<current, pc>>
  BY DEF InitCall, InitHandle
<1>2. activeMap' = activeMap
  BY <1>1 DEF activeMap, InBody
<1>3. \A q \in Runners : activeMap[q] # k
  BY <1>1, StacksDiffer DEF Idle, activeMap
<1>4. statusMap[k] # "running"
  BY <1>3 DEF statusMap
<1>5. magic'[k] /\ ~finished'[k]
  BY <1>1 DEF IInv, TypeOK, MachineTypeOK
<1>6. statusMap'[k] = "suspended"
  BY <1>2, <1>3, <1>5 DEF statusMap
<1>7. \A j \in Koros \ {k} : statusMap'[j] = statusMap[j]
  BY <1>1, <1>2 DEF statusMap, IInv, TypeOK, MachineTypeOK
<1>8. statusMap' = [statusMap EXCEPT ![k] = "suspended"]
  BY <1>6, <1>7, StatusChanges
<1> QED
  BY <1>1, <1>2, <1>4, <1>8 DEF Promise!Create

(* The body begins its first segment, or the one after a koro_yield.       *)
LEMMA ResumeMaps ==
  ASSUME IInv, IInv', NEW r \in Runners, InitRun(r) \/ YieldExit(r)
  PROVE  \E k \in Koros : Promise!Resume(r, k)
<1>1. PICK k \in Koros : current[r] = k /\ h[r] = k /\ magic[k] /\ InRun(r, k)
  BY LibraryPlace DEF InitRun, YieldExit
<1>2. Inside(r, k)
  BY <1>1 DEF InitRun, YieldExit, InRun
<1>3. ~finished[k]
  BY <1>2 DEF Inside, Running
<1>4. /\ pc' = [pc EXCEPT ![r] = "user"]
      /\ pc[r] \in {"init_run", "yield_exit"}
      /\ seg' = [seg EXCEPT ![k] = @ + 1]
      /\ UNCHANGED <<magic, finished, current>>
  BY <1>1 DEF InitRun, YieldExit, Push, Goto, handleVars
<1>5. ~InBody(r)
  BY <1>4 DEF InBody
<1>6. pc'[r] = "user" /\ \A q \in Runners \ {r} : pc'[q] = pc[q]
  BY <1>4 DEF IInv, TypeOK, MachineTypeOK
<1> QED
  BY <1>1, <1>3, <1>4, <1>5, <1>6, BeginMaps

(* The callback of slp_switch on the stack of koro_run ends the segment.   *)
LEMMA YieldCleanupMaps ==
  ASSUME IInv, IInv', NEW r \in Runners, YieldCleanup(r)
  PROVE  Promise!Suspend(r)
<1>1. PICK k \in Koros : current[r] = k /\ h[r] = k /\ magic[k] /\ InRun(r, k)
  BY LibraryPlace DEF YieldCleanup
<1>2. ~finished[k]
  BY <1>1 DEF YieldCleanup, InRun, Suspended
<1>3. /\ pc' = [pc EXCEPT ![r] = "pop"] /\ pc[r] = "yield_cleanup"
      /\ UNCHANGED <<magic, finished, current, seg>>
  BY DEF YieldCleanup, Goto, userVars
<1>4. InBody(r)
  BY <1>3 DEF InBody
<1>5. pc'[r] = "pop" /\ \A q \in Runners \ {r} : pc'[q] = pc[q]
  BY <1>3 DEF IInv, TypeOK, MachineTypeOK
<1>6. Promise!EndSegment(r, IF finished'[k] THEN "finished" ELSE "suspended")
  BY <1>1, <1>3, <1>4, <1>5, EndMaps
<1> QED
  BY <1>2, <1>3, <1>6 DEF Promise!Suspend

(* koro_run that sees the body finished is Finish.                         *)
LEMMA FinishedCleanupMaps ==
  ASSUME IInv, IInv', NEW r \in Runners, FinishedCleanup(r)
  PROVE  Promise!Finish(r)
<1>1. PICK k \in Koros : current[r] = k /\ h[r] = k /\ magic[k]
  BY LibraryPlace DEF FinishedCleanup
<1>2. /\ pc' = [pc EXCEPT ![r] = "pop"] /\ pc[r] = "finished_cleanup"
      /\ finished' = [finished EXCEPT ![k] = TRUE]
      /\ UNCHANGED <<magic, current, seg>>
  BY <1>1 DEF FinishedCleanup, Goto, userVars
<1>3. finished'[k] /\ \A j \in Koros \ {k} : finished'[j] = finished[j]
  BY <1>2 DEF IInv, TypeOK, MachineTypeOK
<1>4. InBody(r)
  BY <1>2 DEF InBody
<1>5. pc'[r] = "pop" /\ \A q \in Runners \ {r} : pc'[q] = pc[q]
  BY <1>2 DEF IInv, TypeOK, MachineTypeOK
<1>6. Promise!EndSegment(r, IF finished'[k] THEN "finished" ELSE "suspended")
  BY <1>1, <1>2, <1>3, <1>4, <1>5, EndMaps
<1> QED
  BY <1>3, <1>6 DEF Promise!Finish

(* The other steps of the library stutter.                                 *)
LEMMA StutterMaps ==
  ASSUME IInv, IInv', NEW r \in Runners,
         \/ RunFinished(r) \/ RunSwitch(r) \/ BodyEnd(r) \/ PopFrame(r)
         \/ SaveState(r) \/ RestoreNoop(r) \/ YieldCall(r) \/ BodyReturn(r)
         \/ Return(r) \/ \E f \in Functions : Call(r, f)
  PROVE  UNCHANGED Promise!vars
<1>1. pc \in [Runners -> KoroPcs \union
                {"body_end", "pop", "never"} \union SaveOps \union RestoreOps]
  BY DEF IInv, TypeOK, MachineTypeOK
<1>2. /\ \A q \in Runners \ {r} : pc'[q] = pc[q]
      /\ UNCHANGED <<magic, finished, current, seg>>
  BY <1>1
  DEF RunFinished, RunSwitch, BodyEnd, PopFrame, SaveState, InitSwap, RunSwap,
      YieldSwap, FinishedSwap, RestoreNoop, YieldCall, BodyReturn, Return,
      Call, SwitchTo, Push, Pop, Goto, handleVars, userVars
<1> USE <1>1 DEF BodyAt
<1>3. CASE RunFinished(r)
  BY <1>2, <1>3, SameBody DEF RunFinished, Goto
<1>4. CASE RunSwitch(r)
  BY <1>2, <1>4, SameBody DEF RunSwitch, Push, Goto
<1>5. CASE BodyEnd(r)
  BY <1>2, <1>5, SameBody DEF BodyEnd, Push, Goto
<1>6. CASE PopFrame(r)
  BY <1>2, <1>6, SameBody, PopFrameStep DEF PopFrame
<1>7. CASE SaveState(r)
  <2>1. CASE InitSwap(r)
    BY <1>2, <2>1, SameBody DEF InitSwap, SwitchTo, Goto
  <2>2. CASE RunSwap(r)
    BY <1>2, <2>2, SameBody DEF RunSwap, SwitchTo, Goto
  <2>3. CASE YieldSwap(r) \/ FinishedSwap(r)
    <3>1. PICK k \in Koros : h[r] = k /\ InRun(r, k)
      BY <2>3, LibraryPlace DEF YieldSwap, FinishedSwap
    <3>2. a[k] # Null
      BY <2>3, <3>1, TopTypes, StacksDiffer
      DEF YieldSwap, FinishedSwap, InRun, Inside, IInv
    <3>3. /\ pc'[r] \in {"yield_cleanup", "finished_cleanup"}
          /\ pc[r] \in {"yield_swap", "finished_swap"}
      BY <2>3, <3>1, <3>2 DEF YieldSwap, FinishedSwap, SwitchTo, Goto
    <3> QED
      BY <1>2, <3>3, SameBody
  <2> QED
    BY <1>7, <2>1, <2>2, <2>3 DEF SaveState
<1>8. CASE RestoreNoop(r)
  BY <1>2, <1>8, SameBody DEF RestoreNoop, Goto
<1>9. CASE YieldCall(r)
  BY <1>2, <1>9, SameBody DEF YieldCall, MayYield, Push, Goto
<1>10. CASE BodyReturn(r)
  BY <1>2, <1>10, SameBody, BodyReturnStep DEF BodyReturn
<1>11. CASE Return(r)
  BY <1>2, <1>11, SameBody, ReturnStep DEF Return
<1>12. CASE \E f \in Functions : Call(r, f)
  BY <1>2, <1>12, SameBody DEF Call, Push, Goto
<1> QED
  BY <1>3, <1>4, <1>5, <1>6, <1>7, <1>8, <1>9, <1>10, <1>11, <1>12

(* koro_run begins and ends outside of every body.                         *)
LEMMA RunEndsMap ==
  ASSUME IInv, IInv', NEW r \in Runners,
         RunExit(r) \/ \E k \in Koros : RunCall(r, k)
  PROVE  UNCHANGED Promise!vars
<1>1. /\ \A q \in Runners \ {r} : pc'[q] = pc[q] /\ current'[q] = current[q]
      /\ UNCHANGED <<magic, finished, seg>>
  BY DEF RunExit, RunCall, Goto, handleVars, userVars, IInv, TypeOK,
         MachineTypeOK
<1>2. Active(r) = None
  BY DEF RunExit, RunCall, Active, InBody
<1>3. Active(r)' = None
  BY DEF RunExit, RunCall, Goto, Active, InBody, IInv, TypeOK, MachineTypeOK
<1>4. \A q \in Runners : Active(q)' = Active(q)
  BY <1>1, <1>2, <1>3 DEF Active, InBody
<1> QED
  BY <1>1, <1>4, SameMap

(* Every step is a step of the promise or a stutter.                       *)
LEMMA NextMaps ==
  ASSUME IInv, IInv', [Next]_vars
  PROVE  [Promise!Next]_(Promise!vars)
<1>1. CASE UNCHANGED vars
  <2>1. \A q \in Runners : Active(q)' = Active(q)
    BY <1>1 DEF vars, machineVars, Active, InBody
  <2> QED
    BY <1>1, <2>1, SameMap DEF vars, machineVars, handleVars, userVars
<1>2. CASE Next
  <2>1. PICK r \in Runners :
          \/ \E f \in Functions : Call(r, f)
          \/ Return(r)
          \/ \E k \in Koros : InitCall(r, k) \/ RunCall(r, k)
          \/ YieldCall(r) \/ BodyReturn(r)
          \/ LibraryStep(r)
    BY <1>2 DEF Next
  <2>2. CASE \E k \in Koros : InitCall(r, k)
    BY <2>2, InitCallMaps DEF Promise!Next
  <2>3. CASE InitRun(r) \/ YieldExit(r)
    BY <2>3, ResumeMaps DEF Promise!Next
  <2>4. CASE YieldCleanup(r) \/ FinishedCleanup(r)
    BY <2>4, YieldCleanupMaps, FinishedCleanupMaps DEF Promise!Next
  <2>5. CASE RunExit(r) \/ \E k \in Koros : RunCall(r, k)
    BY <2>5, RunEndsMap
  <2>6. CASE \/ RunFinished(r) \/ RunSwitch(r) \/ BodyEnd(r) \/ PopFrame(r)
             \/ SaveState(r) \/ RestoreNoop(r) \/ YieldCall(r)
             \/ BodyReturn(r) \/ Return(r)
             \/ \E f \in Functions : Call(r, f)
    BY <2>6, StutterMaps
  <2> QED
    BY <2>1, <2>2, <2>3, <2>4, <2>5, <2>6 DEF LibraryStep, RestoreState
<1> QED
  BY <1>1, <1>2

(* The application may rely on Coroutines: a koro_run of an unfinished     *)
(* coroutine executes one segment of it, from where the last one ended,    *)
(* whichever threads run it and however they interleave.                   *)
THEOREM Implementation == Spec => Promise!Spec
<1>1. Init => Promise!Init
  BY InitMaps
<1>2. IInv /\ IInv' /\ [Next]_vars => [Promise!Next]_(Promise!vars)
  BY NextMaps
<1> QED
  BY <1>1, <1>2, Invariant, PTL DEF Spec, Promise!Spec

===============================================================================
