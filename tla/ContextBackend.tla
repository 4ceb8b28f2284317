----------------------------- MODULE ContextBackend -----------------------------
(***************************************************************************)
(* libkorutin built with KORO_BACKEND_CONTEXT: context_backend.c over the  *)
(* make_fcontext and jump_fcontext of make_ and                            *)
(* jump_x86_64_sysv_elf_gas.S.                                             *)
(*                                                                         *)
(* A context is the stack pointer of a stack on which jump_fcontext has    *)
(* pushed the registers.  A jump consumes the context it goes to, and      *)
(* hands the context it comes from, with a pointer, to the code it goes    *)
(* to, which has to store it: h->a is the context of the coroutine while   *)
(* it does not run, h->b the one of koro_run while it does.                *)
(***************************************************************************)
EXTENDS StackMachine

VARIABLE
  transfer  \* the transfer_t in the registers of each thread after a jump

vars == <<machineVars, transfer>>

Transfers == [fctx : Pointers, data : Koros \union {None}]

NoTransfer == [fctx |-> Null, data |-> None]

TypeOK ==
  /\ MachineTypeOK(
       {"executor", "run_resume", "yield_resume", "body_end", "finish"},
       {"executor", "run_resume", "yield_resume", "body_end", "finish"})
  /\ transfer \in [Runners -> Transfers]

Init ==
  /\ MachineInit
  /\ transfer = [r \in Runners |-> NoTransfer]

(* jump_fcontext, called for the handle k with the context to and the      *)
(* pointer data, and going on at label when something jumps back.          *)
JumpContext(r, k, to, data, label) ==
  LET saved  == Pushed(r, [to |-> label, h |-> k])
      stack  == saved[to.stack]
      landed == stack[to.depth] IN
  /\ to.stack \in Stacks
  /\ to.depth \in DOMAIN stack
  /\ mem' = [saved EXCEPT ![to.stack] = Popped(@, to.depth)]
  /\ sp' = [sp EXCEPT ![r] = Pointer(to.stack, to.depth - 1)]
  /\ h' = [h EXCEPT ![r] = landed.h]
  /\ Goto(r, landed.to)
  /\ transfer' = [transfer EXCEPT ![r] =
       [fctx |-> Pointer(sp[r].stack, sp[r].depth + 1), data |-> data]]

(* What was handed over is stored; the registers are used for other things. *)
TransferStored(r) == transfer' = [transfer EXCEPT ![r] = NoTransfer]

-------------------------------------------------------------------------------
(* Variant: make_fcontext leaves no return address for _executor.          *)
InitCall_NoFinish(r, k) ==
  /\ InitHandle(r, k)
  /\ mem' = [mem EXCEPT ![k] = <<[to |-> "executor", h |-> None]>>]
  /\ a' = [a EXCEPT ![k] = Pointer(k, 1)]
  /\ UNCHANGED <<b, transfer>>

(* koro_init.  make_fcontext puts two return addresses on the stack: the   *)
(* one that the first jump goes to, and the one of _executor, which would  *)
(* exit the process.                                                       *)
InitCall(r, k) ==
  /\ InitHandle(r, k)
  /\ mem' = [mem EXCEPT ![k] = <<[to |-> "finish", h |-> None],
                                 [to |-> "executor", h |-> None]>>]
  /\ a' = [a EXCEPT ![k] = Pointer(k, 2)]
  /\ UNCHANGED <<b, transfer>>

(* _koro_run                                                               *)
RunJump(r) ==
  /\ pc[r] = "run"
  /\ ~finished[h[r]]
  /\ JumpContext(r, h[r], a[h[r]], h[r], "run_resume")
  /\ runs' = [runs EXCEPT ![h[r]] = @ + 1]
  /\ UNCHANGED <<handleVars, current, calls, seg>>

(* Variant: _koro_run stores the whole transfer_t.                         *)
RunResume_Whole(r) ==
  /\ pc[r] = "run_resume"
  /\ a' = [a EXCEPT ![h[r]] = transfer[r]]
  /\ Goto(r, "run_exit")
  /\ TransferStored(r)
  /\ UNCHANGED <<magic, finished, b, current, h, sp, mem, userVars>>

(* Variant: _koro_run does not store the context.                          *)
RunResume_KeepsA(r) ==
  /\ pc[r] = "run_resume"
  /\ Goto(r, "run_exit")
  /\ TransferStored(r)
  /\ UNCHANGED <<handleVars, current, h, sp, mem, userVars>>

RunResume(r) ==
  /\ pc[r] = "run_resume"
  /\ a' = [a EXCEPT ![h[r]] = transfer[r].fctx]
  /\ Goto(r, "run_exit")
  /\ TransferStored(r)
  /\ UNCHANGED <<magic, finished, b, current, h, sp, mem, userVars>>

(* _executor stores the context of koro_run and calls the body.            *)
Executor(r) ==
  LET k == transfer[r].data IN
  /\ pc[r] = "executor"
  /\ k # None
  /\ b' = [b EXCEPT ![k] = transfer[r].fctx]
  /\ h' = [h EXCEPT ![r] = k]
  /\ Push(r, [to |-> "body_end", h |-> k], "user")
  /\ seg' = [seg EXCEPT ![k] = @ + 1]
  /\ TransferStored(r)
  /\ UNCHANGED <<magic, finished, a, current, calls, runs>>

(* The body has returned into _executor, which jumps for the last time.    *)
BodyEnd(r) ==
  /\ pc[r] = "body_end"
  /\ finished' = [finished EXCEPT ![h[r]] = TRUE]
  /\ JumpContext(r, h[r], b[h[r]], None, "finish")
  /\ UNCHANGED <<magic, a, b, current, userVars>>

(* koro_yield and _koro_yield.                                             *)
YieldCall(r) ==
  /\ MayYield(r)
  /\ JumpContext(r, current[r], b[current[r]], None, "yield_resume")
  /\ UNCHANGED <<handleVars, current, userVars>>

(* Variant: _koro_yield does not store the context.                        *)
YieldResume_KeepsB(r) ==
  /\ pc[r] = "yield_resume"
  /\ Goto(r, "yield_exit")
  /\ TransferStored(r)
  /\ UNCHANGED <<handleVars, current, h, sp, mem, userVars>>

YieldResume(r) ==
  /\ pc[r] = "yield_resume"
  /\ b' = [b EXCEPT ![h[r]] = transfer[r].fctx]
  /\ Goto(r, "yield_exit")
  /\ TransferStored(r)
  /\ UNCHANGED <<magic, finished, a, current, h, sp, mem, userVars>>

-------------------------------------------------------------------------------
(* A step of the part that the backends share, which no jump is part of.   *)
KoroStep(r) == RunFinished(r) \/ RunExit(r) \/ YieldExit(r)

(* What the library does on its own once it is called.                     *)
LibraryStep(r) ==
  \/ RunJump(r) \/ RunResume(r)
  \/ Executor(r) \/ BodyEnd(r)
  \/ YieldResume(r)
  \/ KoroStep(r) /\ UNCHANGED transfer

(* A body comes back from a function it has called.                        *)
BodyUnwinds(r) == current[r] # None /\ Return(r) /\ UNCHANGED transfer

(* What a body does to end its segment.                                    *)
BodyStep(r) ==
  \/ YieldCall(r)
  \/ BodyReturn(r) /\ UNCHANGED transfer

(* What user code does on any stack without leaving it.                    *)
UserStep(r) ==
  \/ \E f \in Functions : Call(r, f)
  \/ Return(r)
  \/ \E k \in Koros : RunCall(r, k)

Next ==
  \E r \in Runners :
    \/ UserStep(r) /\ UNCHANGED transfer
    \/ \E k \in Koros : InitCall(r, k)
    \/ BodyStep(r)
    \/ LibraryStep(r)

Spec == Init /\ [][Next]_vars

(* As in SwitchBackend: threads run, and a body comes to a koro_yield or   *)
(* to its end.                                                             *)
Fairness ==
  \A r \in Runners :
    /\ WF_vars(LibraryStep(r))
    /\ WF_vars(BodyUnwinds(r))
    /\ SF_vars(BodyStep(r))

FairSpec == Spec /\ Fairness

-------------------------------------------------------------------------------
(* Properties                                                              *)

(* The thread executes a body, or _executor behind it.                     *)
InBody(r) ==
  \/ pc[r] = "body_end"
  \/ pc[r] = "user" /\ current[r] # None

(* The context is on that stack, nothing is above it, and a jump to it     *)
(* goes on at label for the handle k.                                      *)
LeadsTo(context, stack, label, k) ==
  /\ context = Pointer(stack, Len(mem[stack]))
  /\ context.depth > 0
  /\ mem[stack][context.depth] = [to |-> label, h |-> k]

(* Every jump goes to a context that is still good: the one koro_run jumps *)
(* to is where the body was suspended, or its entry, the one that a body   *)
(* jumps to is the koro_run that runs it now, in the same thread, though   *)
(* an earlier segment may have been run by another.  No thread comes to    *)
(* the code behind the last jump of _executor, which ends the process.     *)
JumpsLand ==
  \A r \in Runners :
    /\ pc[r] # "finish"
    /\ pc[r] = "run" /\ ~finished[h[r]] =>
         LET k == h[r] IN
         \/ LeadsTo(a[k], k, "executor", None)
         \/ LeadsTo(a[k], k, "yield_resume", k)
    /\ InBody(r) =>
         LeadsTo(b[current[r]], r, "run_resume", current[r])

(* The body of a coroutine is the first function on its stack, above what  *)
(* make_fcontext and _executor left there; nested yields and runs return   *)
(* where they came from.                                                   *)
StackIntact ==
  UserStacksIntact([k \in Koros |-> <<[to |-> "finish", h |-> None],
                                      [to |-> "body_end", h |-> k]>>])

(* koro_run comes back to its caller, on the caller's own stack.           *)
RunReturns ==
  \A r \in Runners : pc[r] = "run" ~> pc[r] = "user" /\ sp[r].stack = r

-------------------------------------------------------------------------------
(* The library over this backend implements Coroutines: a segment is under *)
(* way while its body runs, and the jump that leaves it ends it.           *)
activeMap == [r \in Runners |-> IF InBody(r) THEN current[r] ELSE None]

statusMap ==
  [k \in Koros |->
     IF \E r \in Runners : activeMap[r] = k THEN "running"
     ELSE IF ~magic[k] THEN "none"
     ELSE IF finished[k] THEN "finished" ELSE "suspended"]

Promise == INSTANCE Coroutines
             WITH status <- statusMap, active <- activeMap

ImplementsFairCoroutines == Promise!FairSpec
===============================================================================
