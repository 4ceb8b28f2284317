----------------------------- MODULE SwitchBackend -----------------------------
(***************************************************************************)
(* libkorutin built with KORO_BACKEND_SWITCH: switch_backend.c and the     *)
(* slp_switch of switch_x86_64_gcc.h.                                      *)
(*                                                                         *)
(* slp_switch pushes the callee-saved registers, calls save_state on the   *)
(* old stack, loads the stack pointer it returns, calls restore_state on   *)
(* the new stack and pops the registers it finds there.  restore_state and *)
(* extra are in registers all along: they belong to the switch under way,  *)
(* the frame that is popped to another one, earlier.                       *)
(***************************************************************************)
EXTENDS StackMachine

vars == machineVars

(* The callbacks of slp_switch, and its end.                               *)
SaveOps    == {"init_swap", "run_swap", "yield_swap", "finished_swap"}
RestoreOps == {"init_run", "restore_noop", "yield_cleanup", "finished_cleanup"}

TypeOK ==
  MachineTypeOK({"body_end", "pop", "never"} \union SaveOps \union RestoreOps,
                {"run_exit", "yield_exit", "body_end", "never"})

Init == MachineInit

(* slp_switch, between the callbacks: a null stack pointer is not loaded.  *)
SwitchTo(r, pointer, restore) ==
  IF pointer = Null
  THEN Goto(r, "pop") /\ UNCHANGED sp
  ELSE Goto(r, restore) /\ sp' = [sp EXCEPT ![r] = pointer]

-------------------------------------------------------------------------------
InitCall(r, k) ==
  /\ InitHandle(r, k)
  /\ a' = [a EXCEPT ![k] = Null]
  /\ b' = [b EXCEPT ![k] = Null]
  /\ mem' = [mem EXCEPT ![k] = <<>>]

(* Variant: _koro_run takes a suspended coroutine for a new one.           *)
RunSwitch_Restarts(r) ==
  /\ pc[r] = "run"
  /\ ~finished[h[r]]
  /\ Push(r, [to |-> "run_exit", h |-> h[r]], "init_swap")
  /\ runs' = [runs EXCEPT ![h[r]] = @ + 1]
  /\ UNCHANGED <<handleVars, current, h, calls, seg>>

(* Variant: _koro_run tests h->b the wrong way round.                      *)
RunSwitch_Inverted(r) ==
  /\ pc[r] = "run"
  /\ ~finished[h[r]]
  /\ Push(r, [to |-> "run_exit", h |-> h[r]],
          IF b[h[r]] = Null THEN "run_swap" ELSE "init_swap")
  /\ runs' = [runs EXCEPT ![h[r]] = @ + 1]
  /\ UNCHANGED <<handleVars, current, h, calls, seg>>

(* _koro_run: back to a suspended coroutine, or into a new one.            *)
RunSwitch(r) ==
  /\ pc[r] = "run"
  /\ ~finished[h[r]]
  /\ Push(r, [to |-> "run_exit", h |-> h[r]],
          IF b[h[r]] # Null THEN "run_swap" ELSE "init_swap")
  /\ runs' = [runs EXCEPT ![h[r]] = @ + 1]
  /\ UNCHANGED <<handleVars, current, h, calls, seg>>

(* koro_yield and _koro_yield.                                             *)
YieldCall(r) ==
  /\ MayYield(r)
  /\ h' = [h EXCEPT ![r] = current[r]]
  /\ Push(r, [to |-> "yield_exit", h |-> current[r]], "yield_swap")
  /\ UNCHANGED <<handleVars, current, userVars>>

(* The body has returned into _init_run, which leaves its stack for good.  *)
BodyEnd(r) ==
  /\ pc[r] = "body_end"
  /\ Push(r, [to |-> "never", h |-> h[r]], "finished_swap")
  /\ UNCHANGED <<handleVars, current, h, userVars>>

-------------------------------------------------------------------------------
(* slp_switch: save_state, on the old stack                                *)

(* Variant: _init_swap stores its second argument.                         *)
InitSwap_Extra(r) ==
  /\ pc[r] = "init_swap"
  /\ a' = [a EXCEPT ![h[r]] = h[r]]
  /\ SwitchTo(r, Pointer(h[r], 0), "init_run")
  /\ UNCHANGED <<magic, finished, b, current, h, mem, userVars>>

InitSwap(r) ==
  /\ pc[r] = "init_swap"
  /\ a' = [a EXCEPT ![h[r]] = sp[r]]
  /\ SwitchTo(r, Pointer(h[r], 0), "init_run")
  /\ UNCHANGED <<magic, finished, b, current, h, mem, userVars>>

RunSwap(r) ==
  /\ pc[r] = "run_swap"
  /\ a' = [a EXCEPT ![h[r]] = sp[r]]
  /\ SwitchTo(r, b[h[r]], "restore_noop")
  /\ UNCHANGED <<magic, finished, b, current, h, mem, userVars>>

(* Variant: _yield_swap stores the pointer that it returns.                *)
YieldSwap_A(r) ==
  /\ pc[r] = "yield_swap"
  /\ b' = [b EXCEPT ![h[r]] = a[h[r]]]
  /\ SwitchTo(r, a[h[r]], "yield_cleanup")
  /\ UNCHANGED <<magic, finished, a, current, h, mem, userVars>>

YieldSwap(r) ==
  /\ pc[r] = "yield_swap"
  /\ b' = [b EXCEPT ![h[r]] = sp[r]]
  /\ SwitchTo(r, a[h[r]], "yield_cleanup")
  /\ UNCHANGED <<magic, finished, a, current, h, mem, userVars>>

(* Variant: _finished_swap returns h->b.                                   *)
FinishedSwap_B(r) ==
  /\ pc[r] = "finished_swap"
  /\ SwitchTo(r, b[h[r]], "finished_cleanup")
  /\ UNCHANGED <<handleVars, current, h, mem, userVars>>

FinishedSwap(r) ==
  /\ pc[r] = "finished_swap"
  /\ SwitchTo(r, a[h[r]], "finished_cleanup")
  /\ UNCHANGED <<handleVars, current, h, mem, userVars>>

(* slp_switch: restore_state, on the new stack                             *)

(* The body is called on the empty stack, and begins its first segment.    *)
InitRun(r) ==
  /\ pc[r] = "init_run"
  /\ Push(r, [to |-> "body_end", h |-> h[r]], "user")
  /\ seg' = [seg EXCEPT ![h[r]] = @ + 1]
  /\ UNCHANGED <<handleVars, current, h, calls, runs>>

(* Variant: _restore_noop does what its name says.                         *)
RestoreNoop_KeepsB(r) ==
  /\ pc[r] = "restore_noop"
  /\ Goto(r, "pop")
  /\ UNCHANGED <<handleVars, current, h, sp, mem, userVars>>

RestoreNoop(r) ==
  /\ pc[r] = "restore_noop"
  /\ b' = [b EXCEPT ![h[r]] = Null]
  /\ Goto(r, "pop")
  /\ UNCHANGED <<magic, finished, a, current, h, sp, mem, userVars>>

YieldCleanup(r) ==
  /\ pc[r] = "yield_cleanup"
  /\ a' = [a EXCEPT ![h[r]] = Null]
  /\ Goto(r, "pop")
  /\ UNCHANGED <<magic, finished, b, current, h, sp, mem, userVars>>

FinishedCleanup(r) ==
  /\ pc[r] = "finished_cleanup"
  /\ finished' = [finished EXCEPT ![h[r]] = TRUE]
  /\ a' = [a EXCEPT ![h[r]] = Null]
  /\ Goto(r, "pop")
  /\ UNCHANGED <<magic, b, current, h, sp, mem, userVars>>

(* slp_switch: the registers and the return address that are found there   *)
PopFrame(r) ==
  /\ pc[r] = "pop"
  /\ Pop(r)
  /\ h' = [h EXCEPT ![r] = SavedH(r)]
  /\ UNCHANGED <<handleVars, current, userVars>>

-------------------------------------------------------------------------------
SaveState(r) == InitSwap(r) \/ RunSwap(r) \/ YieldSwap(r) \/ FinishedSwap(r)

RestoreState(r) ==
  InitRun(r) \/ RestoreNoop(r) \/ YieldCleanup(r) \/ FinishedCleanup(r)

(* What the library does on its own once it is called.                     *)
LibraryStep(r) ==
  \/ RunFinished(r) \/ RunSwitch(r) \/ RunExit(r)
  \/ YieldExit(r) \/ BodyEnd(r)
  \/ SaveState(r) \/ RestoreState(r) \/ PopFrame(r)

Next ==
  \E r \in Runners :
    \/ \E f \in Functions : Call(r, f)
    \/ Return(r)
    \/ \E k \in Koros : InitCall(r, k) \/ RunCall(r, k)
    \/ YieldCall(r) \/ BodyReturn(r)
    \/ LibraryStep(r)

Spec == Init /\ [][Next]_vars

(* What a body does to end its segment.                                    *)
BodyStep(r) == YieldCall(r) \/ BodyReturn(r)

(* A body comes back from a function it has called.                        *)
BodyUnwinds(r) == current[r] # None /\ Return(r)

(* The operating system runs every thread.  A body that runs does not call *)
(* its functions for ever: they return, and it comes to a koro_yield or to *)
(* its end.  Nothing makes the application call anything.                  *)
Fairness ==
  \A r \in Runners :
    /\ WF_vars(LibraryStep(r))
    /\ WF_vars(BodyUnwinds(r))
    /\ SF_vars(BodyStep(r))

FairSpec == Spec /\ Fairness

-------------------------------------------------------------------------------
(* Properties                                                              *)

(* Every assert of switch_backend.c and libkorutin.c that is about the     *)
(* pointers: h->a is set exactly while the coroutine runs, h->b exactly    *)
(* while it is suspended, the callbacks are on the stack they expect, and  *)
(* nothing comes back to the stack of a finished coroutine.                *)
AssertsHold ==
  \A r \in Runners :
    LET k == h[r] IN
    /\ pc[r] # "never"
    /\ pc[r] \notin {"user", "run_exit", "yield_exit", "pop"} => magic[k]
    /\ pc[r] = "init_swap" => a[k] = Null /\ b[k] = Null
    /\ pc[r] = "init_run" =>
         sp[r] = Pointer(k, 0) /\ a[k] # Null /\ ~finished[k]
    /\ pc[r] = "run_swap" => a[k] = Null /\ b[k] # Null
    /\ pc[r] = "restore_noop" => a[k] # Null /\ b[k] = sp[r]
    /\ pc[r] \in {"yield_swap", "finished_swap"} =>
         sp[r].stack = k /\ a[k] # Null /\ b[k] = Null
    /\ pc[r] = "yield_cleanup" => a[k] = sp[r] /\ b[k] # Null
    /\ pc[r] = "finished_cleanup" => a[k] = sp[r] /\ b[k] = Null

(* The body of a coroutine is the first function on its stack, above the   *)
(* frame of _init_run; nested yields and runs return where they came from. *)
StackIntact ==
  UserStacksIntact([k \in Koros |-> <<[to |-> "body_end", h |-> k]>>])

(* koro_run comes back to its caller, on the caller's own stack.           *)
RunReturns ==
  \A r \in Runners : pc[r] = "run" ~> pc[r] = "user" /\ sp[r].stack = r

-------------------------------------------------------------------------------
(* The library over this backend implements Coroutines: a segment is under *)
(* way from the moment the body begins it until the callback of slp_switch *)
(* that runs on the stack of koro_run has noted how it ended.              *)
InBody(r) ==
  \/ pc[r] = "user" /\ current[r] # None
  \/ pc[r] \in {"yield_swap", "yield_cleanup", "body_end",
                "finished_swap", "finished_cleanup"}

activeMap == [r \in Runners |-> IF InBody(r) THEN current[r] ELSE None]

statusMap ==
  [k \in Koros |->
     IF \E r \in Runners : activeMap[r] = k THEN "running"
     ELSE IF ~magic[k] THEN "none"
     ELSE IF finished[k] THEN "finished" ELSE "suspended"]

Promise == INSTANCE Coroutines
             WITH status <- statusMap, active <- activeMap

ImplementsFairCoroutines == Promise!FairSpec
===============================================================================
