------------------------- MODULE ContextBackend_proofs -------------------------
(***************************************************************************)
(* Proofs about ContextBackend, for any number of handles, threads and     *)
(* functions, and any depth of calls.                                      *)
(*                                                                         *)
(* IInv says where each context leads, and what is on each stack, at every *)
(* place of a thread and for every coroutine that no thread is inside of.  *)
(***************************************************************************)
EXTENDS ContextBackend, StackMachine_proofs

(* The labels of frames.                                                   *)
Labels == {"executor", "run_resume", "yield_resume", "body_end", "finish"}

(* The frames of make_fcontext, of _executor, and those that jump_fcontext *)
(* leaves behind in _koro_run and in _koro_yield.                          *)
FinishFrame   == [to |-> "finish", h |-> None]
EntryFrame    == [to |-> "executor", h |-> None]
BodyFrame(k)  == [to |-> "body_end", h |-> k]
RunFrame(k)   == [to |-> "run_resume", h |-> k]
YieldFrame(k) == [to |-> "yield_resume", h |-> k]

(* The stack of a body.                                                    *)
BodyBase(k)   == <<FinishFrame, BodyFrame(k)>>
BodyFrames(k) == BodyBase(k) \o UserFrames(k)

-------------------------------------------------------------------------------
(* The inductive invariant                                                 *)

(* What a coroutine is while its body does not run: it has not been run,   *)
(* it is in a koro_yield, or it is finished.  The context of a suspended   *)
(* coroutine is on its stack (Parked) before koro_run stores it in h->a.   *)
Fresh(k) ==
  /\ ~finished[k] /\ a[k] = Top(k)
  /\ mem[k] = <<FinishFrame, EntryFrame>> /\ calls[k] = <<>>

Parked(k) == ~finished[k] /\ mem[k] = Append(BodyFrames(k), YieldFrame(k))

Suspended(k) == Parked(k) /\ a[k] = Top(k)

Done(k) == finished[k]

Ready(k) == Fresh(k) \/ Suspended(k) \/ Done(k)

(* Where thread r is, in a koro_run of k: on its own stack or, with a      *)
(* koro_run that waits for the context that it has left, on that of k.     *)
Outside(r) == sp[r] = Top(r) /\ mem[r] = UserFrames(r)

Inside(r, k) ==
  /\ sp[r] = Top(k) /\ ~finished[k]
  /\ mem[r] = Append(UserFrames(r), RunFrame(k))

(* Is the segment that koro_run has counted still to begin?                *)
Ahead(k) == runs[k] = seg[k] + 1
Even(k)  == runs[k] = seg[k]

(* The places of thread r inside of koro_run for k.                        *)
InRun(r, k) ==
  \/ pc[r] = "run" /\ Outside(r) /\ Even(k) /\ Ready(k)
  \/ pc[r] = "executor" /\ Inside(r, k) /\ Ahead(k)
       /\ mem[k] = <<FinishFrame>> /\ calls[k] = <<>>
       /\ transfer[r] = [fctx |-> Top(r), data |-> k]
  \/ pc[r] = "yield_resume" /\ Inside(r, k) /\ Ahead(k)
       /\ mem[k] = BodyFrames(k) /\ transfer[r].fctx = Top(r)
  \/ pc[r] = "yield_exit" /\ Inside(r, k) /\ Ahead(k)
       /\ mem[k] = BodyFrames(k) /\ b[k] = Top(r)
  \/ pc[r] = "user" /\ Inside(r, k) /\ Even(k)
       /\ mem[k] = BodyFrames(k) /\ b[k] = Top(r)
  \/ pc[r] = "body_end" /\ Inside(r, k) /\ Even(k)
       /\ mem[k] = <<FinishFrame>> /\ b[k] = Top(r)
  \/ pc[r] = "run_resume" /\ Outside(r) /\ Even(k)
       /\ (Done(k) \/ (Parked(k) /\ transfer[r].fctx = Top(k)))
  \/ pc[r] = "run_exit" /\ Outside(r) /\ Even(k) /\ (Suspended(k) \/ Done(k))

(* A thread outside of koro_run is in the application.                     *)
ThreadOK(r) ==
  IF current[r] = None THEN pc[r] = "user" /\ Outside(r)
  ELSE /\ pc[r] # "executor" => h[r] = current[r]
       /\ magic[current[r]] /\ InRun(r, current[r])

ThreadInv == \A r \in Runners : ThreadOK(r)

(* A coroutine that no thread is inside of.                                *)
AtRest(k) == magic[k] => Ready(k)

RestInv == \A k \in Koros : Idle(k) => Even(k) /\ AtRest(k)

(* Two threads are never inside of the same coroutine.                     *)
Apart == \A r, q \in Runners :
           current[r] = current[q] /\ current[r] # None => r = q

IInv == TypeOK /\ Apart /\ ThreadInv /\ RestInv

-------------------------------------------------------------------------------
(* What a step leaves alone                                                *)

(* The frames of this backend are frames.                                  *)
LEMMA FrameTypes ==
  /\ FinishFrame \in Frames(Labels) /\ EntryFrame \in Frames(Labels)
  /\ \A k \in Koros : /\ RunFrame(k) \in Frames(Labels)
                      /\ YieldFrame(k) \in Frames(Labels)
                      /\ BodyFrame(k) \in Frames(Labels)
  BY DEF Frames, Labels, FinishFrame, EntryFrame, RunFrame, YieldFrame,
         BodyFrame

(* What the lemmas about the machine need.                                 *)
LEMMA TypesOfStacks ==
  ASSUME TypeOK
  PROVE  StacksOK(Labels)
  BY DEF TypeOK, MachineTypeOK, StacksOK, Labels

(* Handles, threads and NULL are different stacks.                         *)
LEMMA StacksDiffer ==
  /\ \A k \in Koros : k \in Stacks /\ k # None
  /\ \A r \in Runners : r \in Stacks /\ r # None
  /\ \A r \in Runners, k \in Koros : r # k
  BY Distinct DEF Stacks

(* A thread that is not in user code is in a koro_run.                     *)
LEMMA LibraryPlace ==
  ASSUME IInv, NEW r \in Runners, pc[r] # "user"
  PROVE  /\ current[r] \in Koros
         /\ pc[r] # "executor" => h[r] = current[r]
         /\ magic[current[r]] /\ InRun(r, current[r])
<1>1. current[r] # None
  BY DEF IInv, ThreadInv, ThreadOK
<1>2. current[r] \in Koros
  BY <1>1 DEF IInv, TypeOK, MachineTypeOK
<1> QED
  BY <1>1, <1>2 DEF IInv, ThreadInv, ThreadOK

(* The state that the place of a thread in a koro_run is about.            *)
SameStack(s) == mem'[s] = mem[s] /\ calls'[s] = calls[s]

SameHandle(k) ==
  /\ finished'[k] = finished[k] /\ a'[k] = a[k] /\ b'[k] = b[k]
  /\ seg'[k] = seg[k] /\ runs'[k] = runs[k]

SameThread(r) ==
  /\ pc'[r] = pc[r] /\ h'[r] = h[r] /\ sp'[r] = sp[r]
  /\ transfer'[r] = transfer[r]

(* The top of a stack that a step leaves alone, and its user frames.       *)
LEMMA SameTop ==
  ASSUME NEW s, SameStack(s)
  PROVE  Top(s)' = Top(s) /\ UserFrames(s)' = UserFrames(s)
  BY DEF SameStack, Top, UserFrames

(* A coroutine that a step leaves alone.                                   *)
LEMMA SameCoroutine ==
  ASSUME NEW k \in Koros, SameStack(k), SameHandle(k)
  PROVE  /\ Fresh(k)' = Fresh(k)
         /\ Parked(k)' = Parked(k)
         /\ Suspended(k)' = Suspended(k)
         /\ Done(k)' = Done(k)
         /\ Ready(k)' = Ready(k)
         /\ Even(k)' = Even(k)
         /\ Ahead(k)' = Ahead(k)
         /\ BodyFrames(k)' = BodyFrames(k)
<1>1. Top(k)' = Top(k) /\ BodyFrames(k)' = BodyFrames(k)
  BY SameTop DEF BodyFrames, BodyBase, BodyFrame, FinishFrame
<1>2. /\ Fresh(k)' = Fresh(k)
      /\ Parked(k)' = Parked(k)
      /\ Done(k)' = Done(k)
      /\ Even(k)' = Even(k)
      /\ Ahead(k)' = Ahead(k)
  BY <1>1
  DEF SameStack, SameHandle, Fresh, Parked, Done, Even, Ahead, YieldFrame,
      FinishFrame, EntryFrame
<1>3. Suspended(k)' = Suspended(k)
  BY <1>1, <1>2 DEF Suspended, SameHandle
<1> QED
  BY <1>1, <1>2, <1>3 DEF Ready

(* A thread in a koro_run that a step leaves alone, with the coroutine.    *)
LEMMA SameInRun ==
  ASSUME NEW r \in Runners, NEW k \in Koros,
         SameThread(r), SameStack(r), SameStack(k), SameHandle(k)
  PROVE  InRun(r, k)' = InRun(r, k)
<1>1. /\ Top(r)' = Top(r) /\ UserFrames(r)' = UserFrames(r)
      /\ Top(k)' = Top(k)
  BY SameTop
<1>2. /\ Outside(r)' = Outside(r)
      /\ Inside(r, k)' = Inside(r, k)
  BY <1>1 DEF SameThread, SameStack, SameHandle, Outside, Inside, RunFrame
<1> QED
  BY <1>1, <1>2, SameCoroutine
  DEF SameThread, SameStack, SameHandle, InRun, FinishFrame

(* A thread and a coroutine that a step does not touch.                    *)
LEMMA OtherThread ==
  ASSUME IInv, NEW r \in Runners, current'[r] = current[r],
         SameThread(r), SameStack(r),
         \A k \in Koros : current[r] = k =>
           SameStack(k) /\ SameHandle(k) /\ magic'[k] = magic[k]
  PROVE  ThreadOK(r)'
<1>1. ThreadOK(r)
  BY DEF IInv, ThreadInv
<1>2. CASE current[r] = None
  <2>1. pc'[r] = "user" /\ Outside(r)'
    BY <1>1, <1>2, SameTop DEF ThreadOK, Outside, SameThread, SameStack
  <2> QED
    BY <1>2, <2>1 DEF ThreadOK
<1>3. CASE current[r] # None
  <2>1. PICK k \in Koros : current[r] = k
    BY <1>3 DEF IInv, TypeOK, MachineTypeOK
  <2>2. /\ pc[r] # "executor" => h[r] = k
        /\ magic[k] /\ InRun(r, k)
    BY <1>1, <1>3, <2>1 DEF ThreadOK
  <2>3. SameStack(k) /\ SameHandle(k) /\ magic'[k] = magic[k]
    BY <2>1
  <2>4. InRun(r, k)'
    BY <2>2, <2>3, SameInRun
  <2> QED
    BY <1>3, <2>1, <2>2, <2>3, <2>4 DEF ThreadOK, SameThread
<1> QED
  BY <1>2, <1>3

(* A coroutine at rest that a step does not touch.                         *)
LEMMA OtherCoroutine ==
  ASSUME IInv, NEW k \in Koros, Idle(k),
         SameStack(k), SameHandle(k), magic'[k] = magic[k]
  PROVE  Even(k)' /\ AtRest(k)'
<1>1. Even(k) /\ AtRest(k)
  BY DEF IInv, RestInv
<1> QED
  BY <1>1, SameCoroutine DEF AtRest, SameHandle

(* A step of thread r in a koro_run of k touches no other thread, stack    *)
(* or coroutine: what remains to be shown is the place it comes to.        *)
OnlyOf(r, k) ==
  /\ \A q \in Runners \ {r} : SameThread(q)
  /\ \A s \in Stacks \ {r, k} : SameStack(s)
  /\ \A j \in Koros \ {k} : SameHandle(j)

(* A step of a thread inside of koro_run, that touches nothing but its own *)
(* stack and those of its coroutine, keeps IInv if it leaves that koro_run *)
(* at one of the places that InRun describes.                              *)
LEMMA ThreadStep ==
  ASSUME IInv, TypeOK', NEW r \in Runners, NEW k \in Koros, current[r] = k,
         current' = current, magic' = magic,
         pc'[r] = "executor" \/ h'[r] = k,
         OnlyOf(r, k), InRun(r, k)'
  PROVE  IInv'
<1>1. Apart'
  BY DEF IInv, Apart
<1>2. \A q \in Runners \ {r} : current[q] # k
  BY StacksDiffer DEF IInv, Apart
<1>3. ThreadInv'
  <2> SUFFICES ASSUME NEW q \in Runners
               PROVE  ThreadOK(q)'
    BY DEF ThreadInv
  <2>1. CASE q = r
    <3>1. magic[k] /\ k # None
      BY StacksDiffer DEF IInv, ThreadInv, ThreadOK
    <3> QED
      BY <2>1, <3>1 DEF ThreadOK
  <2>2. CASE q # r
    <3>1. SameThread(q) /\ SameStack(q)
      BY <2>2, StacksDiffer DEF OnlyOf
    <3>2. \A j \in Koros : current[q] = j => SameStack(j) /\ SameHandle(j)
      BY <1>2, <2>2, StacksDiffer DEF OnlyOf
    <3> QED
      BY <3>1, <3>2, OtherThread
  <2> QED
    BY <2>1, <2>2
<1>4. RestInv'
  <2> SUFFICES ASSUME NEW j \in Koros, Idle(j)'
               PROVE  Even(j)' /\ AtRest(j)'
    BY DEF RestInv
  <2>1. Idle(j) /\ j # k
    BY DEF Idle
  <2>2. SameStack(j) /\ SameHandle(j)
    BY <2>1, StacksDiffer DEF OnlyOf
  <2> QED
    BY <2>1, <2>2, OtherCoroutine
<1> QED
  BY <1>1, <1>3, <1>4 DEF IInv

-------------------------------------------------------------------------------
(* Jumps                                                                   *)

(* The top of a stack is a stack pointer.                                  *)
LEMMA TopTypes ==
  ASSUME TypeOK, NEW s \in Stacks
  PROVE  Top(s) \in Pointers /\ Top(s) # Null
<1>1. mem[s] \in Seq(Frames(Labels))
  BY TypesOfStacks DEF StacksOK
<1> QED
  BY <1>1, TopIsPointer DEF Top

(* A jump to the top of another stack: it leaves a frame behind, and takes *)
(* away the one that it finds there.                                       *)
LEMMA JumpToTop ==
  ASSUME TypeOK, NEW r \in Runners, NEW k \in Koros,
         NEW s \in Stacks, NEW t \in Stacks, s # t, sp[r] = Top(s),
         NEW m \in Seq(Frames(Labels)), NEW landed \in Frames(Labels),
         mem[t] = Append(m, landed),
         NEW context, context = Top(t),
         NEW data \in Koros \union {None}, NEW label \in Labels,
         JumpContext(r, k, context, data, label)
  PROVE  /\ mem' \in [Stacks -> Seq(Frames(Labels))]
         /\ mem'[s] = Append(mem[s], [to |-> label, h |-> k])
         /\ mem'[t] = m
         /\ \A u \in Stacks \ {s, t} : mem'[u] = mem[u]
         /\ sp' = [sp EXCEPT ![r] = Pointer(t, Len(mem'[t]))]
         /\ sp' \in [Runners -> Pointers \ {Null}]
         /\ h' = [h EXCEPT ![r] = landed.h]
         /\ pc' = [pc EXCEPT ![r] = landed.to]
         /\ transfer' = [transfer EXCEPT ![r] =
              [fctx |-> Pointer(s, Len(mem'[s])), data |-> data]]
         /\ transfer' \in [Runners -> Transfers]
<1> DEFINE frame == [to |-> label, h |-> k]
<1>1. frame \in Frames(Labels)
  BY DEF Frames
<1> HIDE DEF frame
<1>2. sp[r].stack = s /\ sp[r].depth = Len(mem[s])
  BY DEF Top, Pointer
<1>3. mem \in [Stacks -> Seq(Frames(Labels))]
  BY TypesOfStacks DEF StacksOK
<1>4. /\ Append(SubSeq(mem[s], 1, Len(mem[s])), frame) = Append(mem[s], frame)
      /\ Append(mem[s], frame) \in Seq(Frames(Labels))
      /\ Len(Append(mem[s], frame)) = Len(mem[s]) + 1
  <2>1. mem[s] \in Seq(Frames(Labels))
    BY <1>3
  <2> QED
    BY <1>1, <2>1, TopOfStack
<1> DEFINE saved == Pushed(r, frame)
<1>5. saved = [mem EXCEPT ![s] = Append(mem[s], frame)]
  BY <1>2, <1>4 DEF Pushed
<1>6. /\ saved \in [Stacks -> Seq(Frames(Labels))]
      /\ saved[t] = Append(m, landed) /\ saved[s] = Append(mem[s], frame)
      /\ \A u \in Stacks \ {s} : saved[u] = mem[u]
  BY <1>3, <1>4, <1>5
<1>7. /\ Len(m) \in Nat /\ Len(Append(m, landed)) = Len(m) + 1
      /\ Append(m, landed)[Len(m) + 1] = landed
      /\ Popped(Append(m, landed), Len(m) + 1) = m
  BY TopOfStack
<1>8. context.stack = t /\ context.depth = Len(m) + 1
  BY <1>7 DEF Top, Pointer
<1>9. /\ mem' = [saved EXCEPT ![t] =
              Popped(saved[t], context.depth)]
      /\ sp' = [sp EXCEPT ![r] = Pointer(t, context.depth - 1)]
      /\ h' = [h EXCEPT ![r] = saved[t][context.depth].h]
      /\ pc' = [pc EXCEPT ![r] = saved[t][context.depth].to]
      /\ transfer' = [transfer EXCEPT ![r] =
              [fctx |-> Pointer(s, Len(mem[s]) + 1), data |-> data]]
  BY <1>2, <1>8 DEF JumpContext, Goto, frame
<1> HIDE DEF saved
<1>10. /\ mem' = [saved EXCEPT ![t] = m]
       /\ h' = [h EXCEPT ![r] = landed.h]
       /\ pc' = [pc EXCEPT ![r] = landed.to]
  BY <1>6, <1>7, <1>8, <1>9
<1>11. /\ mem' \in [Stacks -> Seq(Frames(Labels))]
       /\ mem'[s] = Append(mem[s], frame) /\ mem'[t] = m
       /\ \A u \in Stacks \ {s, t} : mem'[u] = mem[u]
  BY <1>6, <1>10
<1>12. context.depth - 1 = Len(mem'[t]) /\ Len(mem[s]) + 1 = Len(mem'[s])
  BY <1>4, <1>7, <1>8, <1>11
<1>13. /\ Pointer(t, Len(mem'[t])) \in Pointers \ {Null}
       /\ Pointer(s, Len(mem'[s])) \in Pointers
  <2>1. mem'[s] \in Seq(Frames(Labels)) /\ mem'[t] \in Seq(Frames(Labels))
    BY <1>11
  <2> QED
    BY <2>1, TopIsPointer
<1>14. /\ sp' = [sp EXCEPT ![r] = Pointer(t, Len(mem'[t]))]
       /\ transfer' = [transfer EXCEPT ![r] =
            [fctx |-> Pointer(s, Len(mem'[s])), data |-> data]]
  BY <1>9, <1>12
<1>15. sp' \in [Runners -> Pointers \ {Null}]
  BY <1>13, <1>14, TypesOfStacks DEF StacksOK
<1>16. transfer' \in [Runners -> Transfers]
  <2>1. [fctx |-> Pointer(s, Len(mem'[s])), data |-> data] \in Transfers
    BY <1>13 DEF Transfers
  <2> QED
    BY <1>14, <2>1 DEF TypeOK
<1> QED
  BY <1>10, <1>11, <1>14, <1>15, <1>16 DEF frame

-------------------------------------------------------------------------------
(* The steps that jump                                                     *)

(* The stack that make_fcontext prepares, and that of a body.              *)
LEMMA BaseTypes ==
  ASSUME NEW k \in Koros
  PROVE  /\ <<FinishFrame>> \in Seq(Frames(Labels))
         /\ <<FinishFrame, EntryFrame>> \in Seq(Frames(Labels))
         /\ <<FinishFrame, EntryFrame>> = Append(<<FinishFrame>>, EntryFrame)
         /\ BodyBase(k) \in Seq(Frames(Labels))
         /\ BodyBase(k) = Append(<<FinishFrame>>, BodyFrame(k))
<1>1. /\ FinishFrame \in Frames(Labels) /\ EntryFrame \in Frames(Labels)
      /\ BodyFrame(k) \in Frames(Labels)
  BY FrameTypes
<1> QED
  BY <1>1 DEF BodyBase

(* The frames of user code, and of a body.                                 *)
LEMMA UserFramesType ==
  ASSUME TypeOK, NEW s \in Stacks
  PROVE  UserFrames(s) \in Seq(Frames(Labels))
<1>1. calls[s] \in Seq(Functions)
  BY TypesOfStacks DEF StacksOK
<1> QED
  BY <1>1, FramesType, UserFramesOf

(* What a body has on its stack are frames.                                *)
LEMMA BodyFramesType ==
  ASSUME TypeOK, NEW k \in Koros
  PROVE  BodyFrames(k) \in Seq(Frames(Labels))
<1>1. UserFrames(k) \in Seq(Frames(Labels))
  BY UserFramesType, StacksDiffer
<1>2. BodyBase(k) \in Seq(Frames(Labels))
  BY BaseTypes
<1> QED
  BY <1>1, <1>2, ConcatProperties DEF BodyFrames

(* koro_run jumps into a new coroutine, to _executor.                      *)
LEMMA RunFirstStep ==
  ASSUME IInv, NEW r \in Runners, NEW k \in Koros, RunJump(r),
         current[r] = k, h[r] = k, Outside(r), Even(k), Fresh(k)
  PROVE  IInv' /\ pc'[r] = "executor"
<1>1. /\ JumpContext(r, k, a[k], k, "run_resume")
      /\ runs' = [runs EXCEPT ![k] = @ + 1]
      /\ UNCHANGED <<handleVars, current, calls, seg>>
  BY DEF RunJump
<1> DEFINE m == <<FinishFrame>>
<1>2. m \in Seq(Frames(Labels)) /\ mem[k] = Append(m, EntryFrame)
  BY BaseTypes DEF Fresh
<1>3. /\ sp[r] = Top(r) /\ a[k] = Top(k) /\ TypeOK
      /\ r \in Stacks /\ k \in Stacks /\ r # k
      /\ EntryFrame \in Frames(Labels) /\ "run_resume" \in Labels
  BY StacksDiffer, FrameTypes DEF IInv, Outside, Fresh, Labels
<1> HIDE DEF m
<1>4. /\ mem' \in [Stacks -> Seq(Frames(Labels))]
      /\ mem'[r] = Append(mem[r], [to |-> "run_resume", h |-> k])
      /\ mem'[k] = m
      /\ \A u \in Stacks \ {r, k} : mem'[u] = mem[u]
      /\ sp' = [sp EXCEPT ![r] = Pointer(k, Len(mem'[k]))]
      /\ sp' \in [Runners -> Pointers \ {Null}]
      /\ h' = [h EXCEPT ![r] = EntryFrame.h]
      /\ pc' = [pc EXCEPT ![r] = EntryFrame.to]
      /\ transfer' = [transfer EXCEPT ![r] =
           [fctx |-> Pointer(r, Len(mem'[r])), data |-> k]]
      /\ transfer' \in [Runners -> Transfers]
  BY <1>1, <1>2, <1>3, JumpToTop
<1>5. EntryFrame.to = "executor" /\ EntryFrame.h = None
  BY DEF EntryFrame
<1>6. TypeOK'
  BY <1>1, <1>4, <1>5
  DEF IInv, TypeOK, MachineTypeOK, handleVars, Labels
<1>7. OnlyOf(r, k)
  BY <1>1, <1>4, StacksDiffer
  DEF OnlyOf, SameThread, SameStack, SameHandle, handleVars, IInv, TypeOK,
      MachineTypeOK
<1>8. /\ pc'[r] = "executor" /\ sp'[r] = Top(k)' /\ mem'[k] = <<FinishFrame>>
      /\ transfer'[r] = [fctx |-> Top(r)', data |-> k]
      /\ mem'[r] = Append(UserFrames(r), RunFrame(k))
  BY <1>4, <1>5
  DEF IInv, TypeOK, MachineTypeOK, Top, m, Outside, RunFrame
<1>9. Inside(r, k)'
  <2>1. UserFrames(r)' = UserFrames(r)
    BY <1>1 DEF UserFrames
  <2> QED
    BY <1>1, <1>8, <2>1 DEF Inside, Fresh, handleVars, RunFrame
<1>10. Ahead(k)' /\ calls'[k] = <<>>
  BY <1>1 DEF Even, Ahead, IInv, TypeOK, MachineTypeOK, Fresh
<1> QED
  BY <1>1, <1>6, <1>7, <1>8, <1>9, <1>10, ThreadStep
  DEF InRun, handleVars, FinishFrame

(* koro_run jumps back into a suspended coroutine, to _koro_yield.         *)
LEMMA RunAgainStep ==
  ASSUME IInv, NEW r \in Runners, NEW k \in Koros, RunJump(r),
         current[r] = k, h[r] = k, Outside(r), Even(k), Suspended(k)
  PROVE  IInv' /\ pc'[r] = "yield_resume"
<1>1. /\ JumpContext(r, k, a[k], k, "run_resume")
      /\ runs' = [runs EXCEPT ![k] = @ + 1]
      /\ UNCHANGED <<handleVars, current, calls, seg>>
  BY DEF RunJump
<1> DEFINE m == BodyFrames(k)
<1>2. m \in Seq(Frames(Labels)) /\ mem[k] = Append(m, YieldFrame(k))
  BY BodyFramesType DEF IInv, Suspended, Parked
<1>3. /\ sp[r] = Top(r) /\ a[k] = Top(k) /\ TypeOK
      /\ r \in Stacks /\ k \in Stacks /\ r # k
      /\ YieldFrame(k) \in Frames(Labels) /\ "run_resume" \in Labels
  BY StacksDiffer, FrameTypes DEF IInv, Outside, Suspended, Labels
<1> HIDE DEF m
<1>4. /\ mem' \in [Stacks -> Seq(Frames(Labels))]
      /\ mem'[r] = Append(mem[r], [to |-> "run_resume", h |-> k])
      /\ mem'[k] = m
      /\ \A u \in Stacks \ {r, k} : mem'[u] = mem[u]
      /\ sp' = [sp EXCEPT ![r] = Pointer(k, Len(mem'[k]))]
      /\ sp' \in [Runners -> Pointers \ {Null}]
      /\ h' = [h EXCEPT ![r] = YieldFrame(k).h]
      /\ pc' = [pc EXCEPT ![r] = YieldFrame(k).to]
      /\ transfer' = [transfer EXCEPT ![r] =
           [fctx |-> Pointer(r, Len(mem'[r])), data |-> k]]
      /\ transfer' \in [Runners -> Transfers]
  BY <1>1, <1>2, <1>3, JumpToTop
<1>5. YieldFrame(k).to = "yield_resume" /\ YieldFrame(k).h = k
  BY DEF YieldFrame
<1>6. TypeOK'
  <2>1. h' = [h EXCEPT ![r] = k] /\ pc' = [pc EXCEPT ![r] = "yield_resume"]
    BY <1>4, <1>5
  <2>2. /\ mem' \in [Stacks -> Seq(Frames(Labels))]
        /\ sp' \in [Runners -> Pointers \ {Null}]
        /\ transfer' \in [Runners -> Transfers]
    BY <1>4
  <2>3. /\ h' \in [Runners -> Koros \union {None}]
        /\ pc' \in [Runners -> KoroPcs \union Labels]
        /\ runs' \in [Koros -> Nat]
    BY <1>1, <2>1 DEF IInv, TypeOK, MachineTypeOK, Labels
  <2> QED
    BY <1>1, <2>2, <2>3 DEF IInv, TypeOK, MachineTypeOK, handleVars, Labels
<1>7. OnlyOf(r, k)
  BY <1>1, <1>4, StacksDiffer
  DEF OnlyOf, SameThread, SameStack, SameHandle, handleVars, IInv, TypeOK,
      MachineTypeOK
<1>8. /\ pc'[r] = "yield_resume" /\ h'[r] = k /\ sp'[r] = Top(k)'
      /\ transfer'[r].fctx = Top(r)' /\ mem'[k] = m
      /\ mem'[r] = Append(UserFrames(r), RunFrame(k))
  BY <1>4, <1>5
  DEF IInv, TypeOK, MachineTypeOK, Top, Outside, RunFrame
<1>9. Inside(r, k)' /\ mem'[k] = BodyFrames(k)'
  <2>1. UserFrames(r)' = UserFrames(r) /\ UserFrames(k)' = UserFrames(k)
    BY <1>1 DEF UserFrames
  <2>2. BodyFrames(k)' = m
    BY <2>1 DEF BodyFrames, BodyBase, FinishFrame, BodyFrame, m
  <2> QED
    BY <1>1, <1>8, <2>1, <2>2
    DEF Inside, Suspended, Parked, handleVars, RunFrame
<1>10. Ahead(k)'
  BY <1>1 DEF Even, Ahead, IInv, TypeOK, MachineTypeOK
<1> QED
  BY <1>1, <1>6, <1>7, <1>8, <1>9, <1>10, ThreadStep DEF InRun, handleVars

(* koro_run jumps to the coroutine: for the first time, or to where it has *)
(* yielded.                                                                *)
LEMMA RunJumpStep ==
  ASSUME IInv, NEW r \in Runners, RunJump(r)
  PROVE  IInv' /\ pc'[r] \in {"executor", "yield_resume"}
<1>1. PICK k \in Koros : current[r] = k /\ h[r] = k /\ InRun(r, k)
  BY LibraryPlace DEF RunJump
<1>2. Outside(r) /\ Even(k) /\ (Fresh(k) \/ Suspended(k))
  BY <1>1 DEF RunJump, InRun, Ready, Done
<1> QED
  BY <1>1, <1>2, RunFirstStep, RunAgainStep

(* The place of a thread in user code.                                     *)
LEMMA UserPlace ==
  ASSUME IInv, NEW r \in Runners, pc[r] = "user"
  PROVE  \/ current[r] = None /\ sp[r] = Top(r) /\ mem[r] = UserFrames(r)
         \/ \E k \in Koros :
              /\ current[r] = k /\ h[r] = k /\ Inside(r, k) /\ Even(k)
              /\ mem[k] = BodyFrames(k) /\ b[k] = Top(r)
<1>1. CASE current[r] = None
  BY <1>1 DEF IInv, ThreadInv, ThreadOK, Outside
<1>2. CASE current[r] # None
  <2>1. PICK k \in Koros : current[r] = k /\ h[r] = k /\ InRun(r, k)
    BY <1>2 DEF IInv, TypeOK, MachineTypeOK, ThreadInv, ThreadOK
  <2>2. /\ Inside(r, k) /\ Even(k) /\ mem[k] = BodyFrames(k)
        /\ b[k] = Top(r)
    BY <2>1 DEF InRun
  <2> QED
    BY <2>1, <2>2
<1> QED
  BY <1>1, <1>2

(* A body jumps out: it leaves a frame behind on its stack, and takes away *)
(* that of the koro_run that waits for it.                                 *)
LEMMA JumpToRun ==
  ASSUME TypeOK, NEW r \in Runners, NEW k \in Koros,
         Inside(r, k), b[k] = Top(r),
         NEW label \in Labels, JumpContext(r, k, b[k], None, label)
  PROVE  /\ mem' \in [Stacks -> Seq(Frames(Labels))]
         /\ mem'[k] = Append(mem[k], [to |-> label, h |-> k])
         /\ mem'[r] = UserFrames(r)
         /\ \A u \in Stacks \ {k, r} : mem'[u] = mem[u]
         /\ sp' = [sp EXCEPT ![r] = Pointer(r, Len(mem'[r]))]
         /\ sp' \in [Runners -> Pointers \ {Null}]
         /\ h' = [h EXCEPT ![r] = RunFrame(k).h]
         /\ pc' = [pc EXCEPT ![r] = RunFrame(k).to]
         /\ transfer' = [transfer EXCEPT ![r] =
              [fctx |-> Pointer(k, Len(mem'[k])), data |-> None]]
         /\ transfer' \in [Runners -> Transfers]
<1> DEFINE m == UserFrames(r)
<1>1. m \in Seq(Frames(Labels)) /\ mem[r] = Append(m, RunFrame(k))
  BY UserFramesType, StacksDiffer DEF Inside
<1>2. /\ sp[r] = Top(k) /\ r \in Stacks /\ k \in Stacks /\ k # r
      /\ RunFrame(k) \in Frames(Labels) /\ None \in Koros \union {None}
  BY StacksDiffer, FrameTypes DEF Inside
<1> HIDE DEF m
<1>3. /\ mem' \in [Stacks -> Seq(Frames(Labels))]
      /\ mem'[k] = Append(mem[k], [to |-> label, h |-> k])
      /\ mem'[r] = m
      /\ \A u \in Stacks \ {k, r} : mem'[u] = mem[u]
      /\ sp' = [sp EXCEPT ![r] = Pointer(r, Len(mem'[r]))]
      /\ sp' \in [Runners -> Pointers \ {Null}]
      /\ h' = [h EXCEPT ![r] = RunFrame(k).h]
      /\ pc' = [pc EXCEPT ![r] = RunFrame(k).to]
      /\ transfer' = [transfer EXCEPT ![r] =
           [fctx |-> Pointer(k, Len(mem'[k])), data |-> None]]
      /\ transfer' \in [Runners -> Transfers]
  BY <1>1, <1>2, JumpToTop
<1> QED
  BY <1>3 DEF m

(* A jump from a coroutine to the context of its koro_run finds there what *)
(* koro_run has pushed, and leaves its own place on top of the stack of    *)
(* the coroutine.                                                          *)
LEMMA JumpOut ==
  ASSUME IInv, NEW r \in Runners, NEW k \in Koros,
         current[r] = k, current' = current, Inside(r, k), b[k] = Top(r),
         NEW label \in Labels, JumpContext(r, k, b[k], None, label),
         \A j \in Koros \ {k} : finished'[j] = finished[j],
         UNCHANGED <<magic, a, b, userVars>>
  PROVE  /\ mem' \in [Stacks -> Seq(Frames(Labels))]
         /\ mem'[k] = Append(mem[k], [to |-> label, h |-> k])
         /\ sp' \in [Runners -> Pointers \ {Null}]
         /\ h' = [h EXCEPT ![r] = k]
         /\ pc' = [pc EXCEPT ![r] = "run_resume"]
         /\ transfer' \in [Runners -> Transfers]
         /\ transfer'[r].fctx = Pointer(k, Len(mem'[k]))
         /\ OnlyOf(r, k)
         /\ Outside(r)'
<1>1. /\ mem' \in [Stacks -> Seq(Frames(Labels))]
      /\ mem'[k] = Append(mem[k], [to |-> label, h |-> k])
      /\ mem'[r] = UserFrames(r)
      /\ \A u \in Stacks \ {k, r} : mem'[u] = mem[u]
      /\ sp' = [sp EXCEPT ![r] = Pointer(r, Len(mem'[r]))]
      /\ sp' \in [Runners -> Pointers \ {Null}]
      /\ h' = [h EXCEPT ![r] = RunFrame(k).h]
      /\ pc' = [pc EXCEPT ![r] = RunFrame(k).to]
      /\ transfer' = [transfer EXCEPT ![r] =
           [fctx |-> Pointer(k, Len(mem'[k])), data |-> None]]
      /\ transfer' \in [Runners -> Transfers]
  BY JumpToRun DEF IInv
<1>2. RunFrame(k).to = "run_resume" /\ RunFrame(k).h = k
  BY DEF RunFrame
<1>3. OnlyOf(r, k)
  BY <1>1, StacksDiffer
  DEF OnlyOf, SameThread, SameStack, SameHandle, userVars, IInv, TypeOK,
      MachineTypeOK
<1>4. sp'[r] = Top(r)' /\ transfer'[r].fctx = Pointer(k, Len(mem'[k]))
  BY <1>1 DEF IInv, TypeOK, MachineTypeOK, Top
<1>5. UserFrames(r)' = UserFrames(r)
  BY DEF UserFrames, userVars
<1>6. Outside(r)'
  BY <1>1, <1>4, <1>5 DEF Outside
<1> QED
  BY <1>1, <1>2, <1>3, <1>4, <1>6

(* koro_yield.                                                             *)
LEMMA YieldCallStep ==
  ASSUME IInv, NEW r \in Runners, YieldCall(r)
  PROVE  IInv' /\ pc'[r] = "run_resume"
<1>1. PICK k \in Koros : current[r] = k /\ InRun(r, k)
  BY DEF YieldCall, MayYield, IInv, TypeOK, MachineTypeOK, ThreadInv, ThreadOK
<1>2. Inside(r, k) /\ Even(k) /\ mem[k] = BodyFrames(k) /\ b[k] = Top(r)
  BY <1>1 DEF YieldCall, MayYield, InRun
<1>3. /\ JumpContext(r, k, b[k], None, "yield_resume")
      /\ UNCHANGED <<handleVars, current, userVars>>
  BY <1>1 DEF YieldCall
<1>4. /\ mem' \in [Stacks -> Seq(Frames(Labels))]
      /\ mem'[k] = Append(mem[k], [to |-> "yield_resume", h |-> k])
      /\ sp' \in [Runners -> Pointers \ {Null}]
      /\ h' = [h EXCEPT ![r] = k]
      /\ pc' = [pc EXCEPT ![r] = "run_resume"]
      /\ transfer' \in [Runners -> Transfers]
      /\ transfer'[r].fctx = Pointer(k, Len(mem'[k]))
      /\ OnlyOf(r, k)
      /\ Outside(r)'
  <2>1. "yield_resume" \in Labels
    BY DEF Labels
  <2>2. UNCHANGED <<magic, a, b, userVars>> /\ UNCHANGED current
    BY <1>3 DEF handleVars
  <2>3. \A j \in Koros \ {k} : finished'[j] = finished[j]
    BY <1>3 DEF handleVars
  <2> QED
    BY <1>1, <1>2, <1>3, <2>1, <2>2, <2>3, JumpOut
<1>5. TypeOK'
  BY <1>1, <1>3, <1>4
  DEF IInv, TypeOK, MachineTypeOK, handleVars, userVars, Labels
<1>6. pc'[r] = "run_resume" /\ h'[r] = k /\ transfer'[r].fctx = Top(k)'
  BY <1>4 DEF IInv, TypeOK, MachineTypeOK, Top
<1>7. Parked(k)' /\ Even(k)'
  <2>1. BodyFrames(k)' = BodyFrames(k)
    BY <1>3 DEF BodyFrames, BodyBase, BodyFrame, FinishFrame, UserFrames,
                userVars
  <2> QED
    BY <1>2, <1>3, <1>4, <2>1
    DEF Parked, Inside, YieldFrame, handleVars, userVars, Even
<1> QED
  BY <1>1, <1>3, <1>4, <1>5, <1>6, <1>7, ThreadStep DEF InRun, handleVars

(* _executor jumps for the last time.                                      *)
LEMMA BodyEndStep ==
  ASSUME IInv, NEW r \in Runners, BodyEnd(r)
  PROVE  IInv' /\ pc'[r] = "run_resume"
<1>1. PICK k \in Koros : current[r] = k /\ h[r] = k /\ InRun(r, k)
  BY LibraryPlace DEF BodyEnd
<1>2. Inside(r, k) /\ Even(k) /\ b[k] = Top(r)
  BY <1>1 DEF BodyEnd, InRun
<1>3. /\ JumpContext(r, k, b[k], None, "finish")
      /\ finished' = [finished EXCEPT ![k] = TRUE]
      /\ UNCHANGED <<magic, a, b, current, userVars>>
  BY <1>1 DEF BodyEnd
<1>4. /\ mem' \in [Stacks -> Seq(Frames(Labels))]
      /\ mem'[k] = Append(mem[k], [to |-> "finish", h |-> k])
      /\ sp' \in [Runners -> Pointers \ {Null}]
      /\ h' = [h EXCEPT ![r] = k]
      /\ pc' = [pc EXCEPT ![r] = "run_resume"]
      /\ transfer' \in [Runners -> Transfers]
      /\ transfer'[r].fctx = Pointer(k, Len(mem'[k]))
      /\ OnlyOf(r, k)
      /\ Outside(r)'
  <2>1. "finish" \in Labels
    BY DEF Labels
  <2>2. UNCHANGED <<magic, a, b, userVars>> /\ UNCHANGED current
    BY <1>3
  <2>3. \A j \in Koros \ {k} : finished'[j] = finished[j]
    BY <1>3 DEF IInv, TypeOK, MachineTypeOK
  <2> QED
    BY <1>1, <1>2, <1>3, <2>1, <2>2, <2>3, JumpOut
<1>5. TypeOK'
  BY <1>1, <1>3, <1>4 DEF IInv, TypeOK, MachineTypeOK, userVars, Labels
<1>6. pc'[r] = "run_resume" /\ h'[r] = k
  BY <1>4 DEF IInv, TypeOK, MachineTypeOK
<1>7. Done(k)' /\ Even(k)'
  BY <1>2, <1>3 DEF Done, Even, userVars, IInv, TypeOK, MachineTypeOK
<1> QED
  BY <1>1, <1>3, <1>4, <1>5, <1>6, <1>7, ThreadStep DEF InRun

-------------------------------------------------------------------------------
(* The steps that do not jump                                              *)

(* koro_run stores the context of the coroutine.                           *)
LEMMA RunResumeStep ==
  ASSUME IInv, NEW r \in Runners, RunResume(r)
  PROVE  IInv'
<1>1. PICK k \in Koros : current[r] = k /\ h[r] = k /\ InRun(r, k)
  BY LibraryPlace DEF RunResume
<1>2. /\ Outside(r) /\ Even(k)
      /\ Done(k) \/ (Parked(k) /\ transfer[r].fctx = Top(k))
  BY <1>1 DEF RunResume, InRun
<1>3. /\ pc' = [pc EXCEPT ![r] = "run_exit"]
      /\ a' = [a EXCEPT ![k] = transfer[r].fctx]
      /\ transfer' = [transfer EXCEPT ![r] = NoTransfer]
      /\ UNCHANGED <<magic, finished, b, current, h, sp, mem, userVars>>
  BY <1>1 DEF RunResume, TransferStored, Goto
<1>4. TypeOK'
  <2>1. transfer[r].fctx \in Pointers
    BY DEF IInv, TypeOK, Transfers
  <2>2. transfer' \in [Runners -> Transfers]
    BY <1>3 DEF IInv, TypeOK, Transfers, NoTransfer, Pointers
  <2> QED
    BY <1>1, <1>3, <2>1, <2>2
    DEF IInv, TypeOK, MachineTypeOK, KoroPcs, userVars
<1>5. OnlyOf(r, k) /\ SameStack(r) /\ SameStack(k)
  BY <1>3 DEF OnlyOf, SameThread, SameStack, SameHandle, userVars, IInv,
              TypeOK, MachineTypeOK
<1>6. pc'[r] = "run_exit" /\ h'[r] = k /\ a'[k] = transfer[r].fctx
  BY <1>1, <1>3 DEF IInv, TypeOK, MachineTypeOK
<1>7. Outside(r)' /\ Even(k)'
  BY <1>2, <1>3, <1>5, SameTop DEF Outside, SameStack, Even, userVars
<1>8. (Suspended(k) \/ Done(k))'
  BY <1>2, <1>3, <1>5, <1>6, SameTop
  DEF Suspended, Parked, Done, SameStack, BodyFrames, BodyBase, BodyFrame,
      FinishFrame, YieldFrame
<1> QED
  BY <1>1, <1>3, <1>4, <1>5, <1>6, <1>7, <1>8, ThreadStep DEF InRun

(* The stack on which _executor calls the body.                            *)
LEMMA NothingCalled ==
  ASSUME NEW k \in Koros, calls[k] = <<>>
  PROVE  BodyFrames(k) = Append(<<FinishFrame>>, BodyFrame(k))
<1>1. UserFrames(k) = <<>>
  BY DEF UserFrames
<1>2. BodyBase(k) \in Seq(Frames(Labels))
  BY BaseTypes
<1>3. BodyFrames(k) = BodyBase(k)
  BY <1>1, <1>2, ConcatEmptySeq DEF BodyFrames
<1> QED
  BY <1>3, BaseTypes

(* _executor keeps the context it came from and calls the body.            *)
LEMMA ExecutorStep ==
  ASSUME IInv, NEW r \in Runners, Executor(r)
  PROVE  IInv'
<1>1. PICK k \in Koros : current[r] = k /\ InRun(r, k)
  BY LibraryPlace DEF Executor
<1>2. /\ Inside(r, k) /\ Ahead(k) /\ mem[k] = <<FinishFrame>>
      /\ calls[k] = <<>> /\ transfer[r].data = k /\ transfer[r].fctx = Top(r)
  BY <1>1 DEF Executor, InRun
<1>3. /\ Push(r, BodyFrame(k), "user")
      /\ b' = [b EXCEPT ![k] = Top(r)]
      /\ h' = [h EXCEPT ![r] = k]
      /\ seg' = [seg EXCEPT ![k] = @ + 1]
      /\ transfer' = [transfer EXCEPT ![r] = NoTransfer]
      /\ UNCHANGED <<magic, finished, a, current, calls, runs>>
  BY <1>2 DEF Executor, TransferStored, BodyFrame
<1>4. /\ mem' = [mem EXCEPT ![k] = Append(mem[k], BodyFrame(k))]
      /\ mem' \in [Stacks -> Seq(Frames(Labels))]
      /\ sp' = [sp EXCEPT ![r] = Pointer(k, Len(mem'[k]))]
      /\ sp' \in [Runners -> Pointers \ {Null}]
      /\ pc' = [pc EXCEPT ![r] = "user"]
  <2>1. sp[r] = Top(k) /\ k \in Stacks /\ StacksOK(Labels)
    BY <1>2, StacksDiffer, TypesOfStacks DEF Inside, IInv
  <2>2. BodyFrame(k) \in Frames(Labels)
    BY FrameTypes
  <2>3. Push(r, BodyFrame(k), "user")
    BY <1>3
  <2> QED
    BY <2>1, <2>2, <2>3, PushOnTop
<1>5. TypeOK'
  <2>1. Top(r) \in Pointers
    BY TopTypes, StacksDiffer DEF IInv
  <2>2. transfer' \in [Runners -> Transfers]
    BY <1>3 DEF IInv, TypeOK, Transfers, NoTransfer, Pointers
  <2> QED
    BY <1>1, <1>3, <1>4, <2>1, <2>2
    DEF IInv, TypeOK, MachineTypeOK, KoroPcs, Labels
<1>6. OnlyOf(r, k) /\ SameStack(r)
  BY <1>3, <1>4, StacksDiffer
  DEF OnlyOf, SameThread, SameStack, SameHandle, IInv, TypeOK, MachineTypeOK
<1>7. /\ pc'[r] = "user" /\ h'[r] = k /\ b'[k] = Top(r)
      /\ sp'[r] = Top(k)' /\ mem'[k] = Append(mem[k], BodyFrame(k))
  BY <1>3, <1>4, StacksDiffer DEF IInv, TypeOK, MachineTypeOK, Top
<1>8. Inside(r, k)' /\ b'[k] = Top(r)'
  BY <1>2, <1>3, <1>6, <1>7, SameTop DEF Inside, SameStack, RunFrame
<1>9. Even(k)'
  BY <1>2, <1>3 DEF Even, Ahead, IInv, TypeOK, MachineTypeOK
<1>10. mem'[k] = BodyFrames(k)'
  <2>1. mem'[k] = BodyFrames(k)
    BY <1>2, <1>7, NothingCalled
  <2> QED
    BY <1>3, <2>1 DEF BodyFrames, BodyBase, FinishFrame, BodyFrame, UserFrames
<1> QED
  BY <1>1, <1>3, <1>5, <1>6, <1>7, <1>8, <1>9, <1>10, ThreadStep DEF InRun

(* _koro_yield stores the context of the koro_run that runs it now.        *)
LEMMA YieldResumeStep ==
  ASSUME IInv, NEW r \in Runners, YieldResume(r)
  PROVE  IInv'
<1>1. PICK k \in Koros : current[r] = k /\ h[r] = k /\ InRun(r, k)
  BY LibraryPlace DEF YieldResume
<1>2. /\ Inside(r, k) /\ Ahead(k) /\ mem[k] = BodyFrames(k)
      /\ transfer[r].fctx = Top(r)
  BY <1>1 DEF YieldResume, InRun
<1>3. /\ pc' = [pc EXCEPT ![r] = "yield_exit"]
      /\ b' = [b EXCEPT ![k] = Top(r)]
      /\ transfer' = [transfer EXCEPT ![r] = NoTransfer]
      /\ UNCHANGED <<magic, finished, a, current, h, sp, mem, userVars>>
  BY <1>1, <1>2 DEF YieldResume, TransferStored, Goto
<1>4. TypeOK'
  <2>1. Top(r) \in Pointers
    BY TopTypes, StacksDiffer DEF IInv
  <2>2. transfer' \in [Runners -> Transfers]
    BY <1>3 DEF IInv, TypeOK, Transfers, NoTransfer, Pointers
  <2> QED
    BY <1>1, <1>3, <2>1, <2>2
    DEF IInv, TypeOK, MachineTypeOK, KoroPcs, userVars
<1>5. OnlyOf(r, k) /\ SameStack(r) /\ SameStack(k)
  BY <1>3 DEF OnlyOf, SameThread, SameStack, SameHandle, userVars, IInv,
              TypeOK, MachineTypeOK
<1>6. pc'[r] = "yield_exit" /\ h'[r] = k /\ b'[k] = Top(r)
  BY <1>1, <1>3 DEF IInv, TypeOK, MachineTypeOK
<1>7. /\ Inside(r, k)' /\ Ahead(k)' /\ b'[k] = Top(r)'
      /\ mem'[k] = BodyFrames(k)'
  BY <1>2, <1>3, <1>5, <1>6, SameTop
  DEF Inside, SameStack, RunFrame, Ahead, userVars, BodyFrames, BodyBase,
      BodyFrame, FinishFrame
<1> QED
  BY <1>1, <1>3, <1>4, <1>5, <1>6, <1>7, ThreadStep DEF InRun

(* koro_yield returns into the body.                                       *)
LEMMA YieldExitStep ==
  ASSUME IInv, NEW r \in Runners, YieldExit(r), UNCHANGED transfer
  PROVE  IInv'
<1>1. PICK k \in Koros : current[r] = k /\ h[r] = k /\ InRun(r, k)
  BY LibraryPlace DEF YieldExit
<1>2. /\ Inside(r, k) /\ Ahead(k) /\ mem[k] = BodyFrames(k)
      /\ b[k] = Top(r)
  BY <1>1 DEF YieldExit, InRun
<1>3. /\ pc' = [pc EXCEPT ![r] = "user"]
      /\ seg' = [seg EXCEPT ![k] = @ + 1]
      /\ UNCHANGED <<handleVars, current, h, sp, mem, calls, runs>>
  BY <1>1 DEF YieldExit, Goto
<1>4. TypeOK'
  BY <1>1, <1>3 DEF IInv, TypeOK, MachineTypeOK, KoroPcs, handleVars
<1>5. OnlyOf(r, k) /\ SameStack(r) /\ SameStack(k)
  BY <1>3 DEF OnlyOf, SameThread, SameStack, SameHandle, handleVars
<1>6. pc'[r] = "user" /\ h'[r] = k
  BY <1>1, <1>3 DEF IInv, TypeOK, MachineTypeOK
<1>7. Inside(r, k)' /\ mem'[k] = BodyFrames(k)' /\ b'[k] = Top(r)'
  BY <1>2, <1>3, <1>5, SameTop
  DEF Inside, SameStack, handleVars, BodyFrames, BodyBase, BodyFrame,
      FinishFrame, RunFrame
<1>8. Even(k)'
  BY <1>1, <1>2, <1>3 DEF Even, Ahead, IInv, TypeOK, MachineTypeOK
<1> QED
  BY <1>1, <1>3, <1>4, <1>5, <1>6, <1>7, <1>8, ThreadStep DEF InRun, handleVars

(* koro_run of a finished coroutine.                                       *)
LEMMA RunFinishedStep ==
  ASSUME IInv, NEW r \in Runners, RunFinished(r), UNCHANGED transfer
  PROVE  IInv'
<1>1. PICK k \in Koros : current[r] = k /\ h[r] = k /\ InRun(r, k)
  BY LibraryPlace DEF RunFinished
<1>2. Outside(r) /\ Even(k) /\ Done(k)
  BY <1>1 DEF RunFinished, InRun, Done
<1>3. /\ pc' = [pc EXCEPT ![r] = "run_exit"]
      /\ UNCHANGED <<handleVars, current, h, sp, mem, userVars>>
  BY DEF RunFinished, Goto
<1>4. TypeOK'
  BY <1>3 DEF IInv, TypeOK, MachineTypeOK, KoroPcs, handleVars, userVars
<1>5. OnlyOf(r, k) /\ SameStack(r) /\ SameStack(k) /\ SameHandle(k)
  BY <1>3 DEF OnlyOf, SameThread, SameStack, SameHandle, handleVars, userVars
<1>6. pc'[r] = "run_exit" /\ sp'[r] = sp[r] /\ h'[r] = k
  BY <1>1, <1>3 DEF IInv, TypeOK, MachineTypeOK
<1>7. Outside(r)'
  BY <1>2, <1>5, <1>6, SameTop DEF Outside, SameStack
<1>8. Even(k)' /\ Done(k)'
  BY <1>1, <1>2, <1>5, SameCoroutine
<1> QED
  BY <1>1, <1>3, <1>4, <1>5, <1>6, <1>7, <1>8, ThreadStep
  DEF InRun, handleVars

(* koro_run returns.                                                       *)
LEMMA RunExitStep ==
  ASSUME IInv, NEW r \in Runners, RunExit(r), UNCHANGED transfer
  PROVE  IInv'
<1>1. PICK k \in Koros : current[r] = k /\ h[r] = k /\ InRun(r, k)
  BY LibraryPlace DEF RunExit
<1>2. Outside(r) /\ Even(k) /\ (Suspended(k) \/ Done(k))
  BY <1>1 DEF RunExit, InRun
<1>3. /\ current' = [current EXCEPT ![r] = None]
      /\ pc' = [pc EXCEPT ![r] = "user"]
      /\ UNCHANGED <<handleVars, h, sp, mem, userVars>>
  BY DEF RunExit, Goto
<1>4. TypeOK'
  BY <1>3 DEF IInv, TypeOK, MachineTypeOK, KoroPcs, handleVars, userVars
<1>5. /\ \A s \in Stacks : SameStack(s)
      /\ \A q \in Runners \ {r} : SameThread(q) /\ current'[q] = current[q]
      /\ \A j \in Koros : SameHandle(j) /\ magic'[j] = magic[j]
      /\ current'[r] = None /\ pc'[r] = "user" /\ sp'[r] = sp[r]
  BY <1>3 DEF SameStack, SameThread, SameHandle, handleVars, userVars, IInv,
              TypeOK, MachineTypeOK
<1>6. ThreadOK(r)'
  <2>1. Outside(r)'
    BY <1>2, <1>5, StacksDiffer, SameTop DEF Outside, SameStack
  <2> QED
    BY <1>5, <2>1 DEF ThreadOK
<1>7. ThreadInv'
  <2> SUFFICES ASSUME NEW q \in Runners
               PROVE  ThreadOK(q)'
    BY DEF ThreadInv
  <2>1. CASE q = r
    BY <1>6, <2>1
  <2>2. CASE q # r
    <3>1. SameThread(q) /\ SameStack(q) /\ current'[q] = current[q]
      BY <1>5, <2>2, StacksDiffer
    <3>2. \A j \in Koros :
            SameStack(j) /\ SameHandle(j) /\ magic'[j] = magic[j]
      BY <1>5, StacksDiffer
    <3> QED
      BY <3>1, <3>2, OtherThread
  <2> QED
    BY <2>1, <2>2
<1>8. RestInv'
  <2> SUFFICES ASSUME NEW j \in Koros, Idle(j)'
               PROVE  Even(j)' /\ AtRest(j)'
    BY DEF RestInv
  <2>1. CASE j = k
    <3>1. Even(k)' /\ (Suspended(k) \/ Done(k))'
      BY <1>2, <1>5, StacksDiffer, SameCoroutine
    <3> QED
      BY <2>1, <3>1 DEF AtRest, Ready
  <2>2. CASE j # k
    <3>1. Idle(j)
      BY <1>1, <1>5, <2>2 DEF Idle
    <3>2. SameStack(j) /\ SameHandle(j) /\ magic'[j] = magic[j]
      BY <1>5, StacksDiffer
    <3> QED
      BY <3>1, <3>2, OtherCoroutine
  <2> QED
    BY <2>1, <2>2
<1>9. Apart'
  BY <1>1, <1>5, StacksDiffer DEF IInv, Apart, TypeOK, MachineTypeOK
<1> QED
  BY <1>4, <1>7, <1>8, <1>9 DEF IInv

(* koro_run begins.                                                        *)
LEMMA RunCallStep ==
  ASSUME IInv, NEW r \in Runners, NEW k \in Koros, RunCall(r, k),
         UNCHANGED transfer
  PROVE  IInv'
<1>1. /\ pc[r] = "user" /\ magic[k] /\ current[r] = None /\ Idle(k)
      /\ current' = [current EXCEPT ![r] = k]
      /\ h' = [h EXCEPT ![r] = k]
      /\ pc' = [pc EXCEPT ![r] = "run"]
      /\ UNCHANGED <<handleVars, sp, mem, userVars>>
  BY DEF RunCall, Goto
<1>2. TypeOK'
  BY <1>1 DEF IInv, TypeOK, MachineTypeOK, KoroPcs, handleVars, userVars
<1>3. /\ \A s \in Stacks : SameStack(s)
      /\ \A q \in Runners \ {r} : SameThread(q) /\ current'[q] = current[q]
      /\ \A j \in Koros : SameHandle(j) /\ magic'[j] = magic[j]
      /\ current'[r] = k /\ h'[r] = k /\ pc'[r] = "run" /\ sp'[r] = sp[r]
      /\ a'[k] = a[k]
  BY <1>1 DEF SameStack, SameThread, SameHandle, handleVars, userVars, IInv,
              TypeOK, MachineTypeOK
<1>4. ThreadOK(r)'
  <2>1. sp[r] = Top(r) /\ mem[r] = UserFrames(r)
    BY <1>1, StacksDiffer, UserPlace
  <2>2. Even(k) /\ Ready(k)
    BY <1>1 DEF IInv, RestInv, AtRest
  <2>3. Outside(r)'
    BY <1>3, <2>1, <2>2, StacksDiffer, SameTop DEF Outside, SameStack
  <2>4. Even(k)' /\ Ready(k)'
    BY <1>3, <2>2, StacksDiffer, SameCoroutine
  <2>5. InRun(r, k)'
    BY <1>3, <2>3, <2>4 DEF InRun
  <2> QED
    BY <1>1, <1>3, <2>5, StacksDiffer DEF ThreadOK
<1>5. ThreadInv'
  <2> SUFFICES ASSUME NEW q \in Runners
               PROVE  ThreadOK(q)'
    BY DEF ThreadInv
  <2>1. CASE q = r
    BY <1>4, <2>1
  <2>2. CASE q # r
    <3>1. SameThread(q) /\ SameStack(q) /\ current'[q] = current[q]
      BY <1>3, <2>2, StacksDiffer
    <3>2. \A j \in Koros :
            SameStack(j) /\ SameHandle(j) /\ magic'[j] = magic[j]
      BY <1>3, StacksDiffer
    <3> QED
      BY <3>1, <3>2, OtherThread
  <2> QED
    BY <2>1, <2>2
<1>6. RestInv'
  <2> SUFFICES ASSUME NEW j \in Koros, Idle(j)'
               PROVE  Even(j)' /\ AtRest(j)'
    BY DEF RestInv
  <2>1. Idle(j)
    BY <1>1, <1>3, StacksDiffer DEF Idle
  <2>2. SameStack(j) /\ SameHandle(j) /\ magic'[j] = magic[j]
    BY <1>3, StacksDiffer
  <2> QED
    BY <2>1, <2>2, OtherCoroutine
<1>7. Apart'
  BY <1>1, <1>3 DEF IInv, Apart, Idle
<1> QED
  BY <1>2, <1>5, <1>6, <1>7 DEF IInv

(* koro_init.                                                              *)
LEMMA InitCallStep ==
  ASSUME IInv, NEW r \in Runners, NEW k \in Koros, InitCall(r, k)
  PROVE  IInv'
<1>1. /\ Idle(k)
      /\ finished' = [finished EXCEPT ![k] = FALSE]
      /\ magic' = [magic EXCEPT ![k] = TRUE]
      /\ calls' = [calls EXCEPT ![k] = <<>>]
      /\ seg' = [seg EXCEPT ![k] = 0]
      /\ runs' = [runs EXCEPT ![k] = 0]
      /\ a' = [a EXCEPT ![k] = Pointer(k, 2)]
      /\ mem' = [mem EXCEPT ![k] = <<FinishFrame, EntryFrame>>]
      /\ UNCHANGED <<b, current, pc, h, sp, transfer>>
  BY DEF InitCall, InitHandle, FinishFrame, EntryFrame
<1>2. TypeOK'
  <2>1. mem' \in [Stacks -> Seq(Frames(Labels))]
    BY <1>1, TypesOfStacks, BaseTypes DEF IInv, StacksOK
  <2>2. calls' \in [Stacks -> Seq(Functions)]
    BY <1>1, TypesOfStacks, EmptySeq DEF IInv, StacksOK
  <2>3. a' \in [Koros -> Pointers]
    BY <1>1, StacksDiffer DEF IInv, TypeOK, MachineTypeOK, Pointers, Pointer
  <2>4. /\ magic' \in [Koros -> BOOLEAN] /\ finished' \in [Koros -> BOOLEAN]
        /\ seg' \in [Koros -> Nat] /\ runs' \in [Koros -> Nat]
    BY <1>1 DEF IInv, TypeOK, MachineTypeOK
  <2> QED
    BY <1>1, <2>1, <2>2, <2>3, <2>4 DEF IInv, TypeOK, MachineTypeOK, Labels
<1>3. /\ \A s \in Stacks \ {k} : SameStack(s)
      /\ \A q \in Runners : SameThread(q)
      /\ \A j \in Koros \ {k} : SameHandle(j) /\ magic'[j] = magic[j]
  BY <1>1 DEF SameStack, SameThread, SameHandle, IInv, TypeOK, MachineTypeOK
<1>4. ThreadInv'
  <2> SUFFICES ASSUME NEW q \in Runners
               PROVE  ThreadOK(q)'
    BY DEF ThreadInv
  <2>1. SameThread(q) /\ SameStack(q) /\ current'[q] = current[q]
    BY <1>1, <1>3, StacksDiffer
  <2>2. \A j \in Koros : current[q] = j =>
          SameStack(j) /\ SameHandle(j) /\ magic'[j] = magic[j]
    BY <1>1, <1>3, StacksDiffer DEF Idle
  <2> QED
    BY <2>1, <2>2, OtherThread
<1>5. RestInv'
  <2> SUFFICES ASSUME NEW j \in Koros, Idle(j)'
               PROVE  Even(j)' /\ AtRest(j)'
    BY DEF RestInv
  <2>1. CASE j = k
    <3>1. Even(k)'
      BY <1>1 DEF Even, IInv, TypeOK, MachineTypeOK
    <3>2. /\ finished'[k] = FALSE /\ a'[k] = Pointer(k, 2)
          /\ mem'[k] = <<FinishFrame, EntryFrame>> /\ calls'[k] = <<>>
      BY <1>1, StacksDiffer DEF IInv, TypeOK, MachineTypeOK
    <3>3. Fresh(k)'
      BY <3>2 DEF Fresh, Top, Pointer, FinishFrame, EntryFrame
    <3> QED
      BY <2>1, <3>1, <3>3 DEF AtRest, Ready
  <2>2. CASE j # k
    <3>1. SameStack(j) /\ SameHandle(j) /\ magic'[j] = magic[j] /\ Idle(j)
      BY <1>1, <1>3, <2>2, StacksDiffer DEF Idle
    <3> QED
      BY <3>1, OtherCoroutine
  <2> QED
    BY <2>1, <2>2
<1>6. Apart'
  BY <1>1 DEF IInv, Apart
<1> QED
  BY <1>2, <1>4, <1>5, <1>6 DEF IInv

-------------------------------------------------------------------------------
(* User code                                                               *)

(* A call or a return of user code keeps the types and the place.          *)
LEMMA UserMoveTypes ==
  ASSUME IInv, NEW r \in Runners, NEW s \in Stacks, NEW base,
         UserMove(Labels, r, s, base),
         UNCHANGED transfer
  PROVE  TypeOK'
  BY DEF UserMove, IInv, TypeOK, MachineTypeOK, KoroPcs, handleVars, Labels

(* User code that calls and returns stays user code.                       *)
LEMMA UserMovePlace ==
  ASSUME IInv, NEW r \in Runners, NEW s \in Stacks, NEW base,
         UserMove(Labels, r, s, base)
  PROVE  pc'[r] = "user"
  BY DEF UserMove, IInv, TypeOK, MachineTypeOK

(* In the application.                                                     *)
LEMMA AppMove ==
  ASSUME IInv, NEW r \in Runners, current[r] = None,
         UserMove(Labels, r, r, <<>>),
         UNCHANGED transfer
  PROVE  IInv'
<1>1. TypeOK'
  BY UserMoveTypes, StacksDiffer
<1>2. /\ \A s \in Stacks \ {r} : SameStack(s)
      /\ \A q \in Runners \ {r} : SameThread(q)
      /\ \A k \in Koros : SameHandle(k) /\ magic'[k] = magic[k]
      /\ current' = current
  BY DEF UserMove, SameStack, SameThread, SameHandle, handleVars, IInv, TypeOK,
         MachineTypeOK
<1>3. pc'[r] = "user" /\ Outside(r)'
  <2>1. pc'[r] = "user" /\ sp'[r] = Top(r)'
    BY DEF UserMove, IInv, TypeOK, MachineTypeOK, Top
  <2>2. mem'[r] = <<>> \o FramesOf(calls'[r])
    BY StacksDiffer DEF UserMove, IInv, TypeOK, MachineTypeOK
  <2>3. FramesOf(calls'[r]) \in Seq(Frames(Labels))
    <3>1. calls'[r] \in Seq(Functions)
      BY StacksDiffer DEF UserMove
    <3> QED
      BY <3>1, FramesType
  <2>4. mem'[r] = FramesOf(calls'[r])
    BY <2>2, <2>3, ConcatEmptySeq
  <2>5. UserFrames(r)' = FramesOf(calls'[r])
    BY DEF UserFrames, FramesOf, UserFrame
  <2> QED
    BY <2>1, <2>4, <2>5 DEF Outside
<1>4. ThreadInv'
  <2> SUFFICES ASSUME NEW q \in Runners
               PROVE  ThreadOK(q)'
    BY DEF ThreadInv
  <2>1. CASE q = r
    BY <1>2, <1>3, <2>1 DEF ThreadOK
  <2>2. CASE q # r
    <3>1. SameThread(q) /\ SameStack(q)
      BY <1>2, <2>2, StacksDiffer
    <3>2. \A j \in Koros :
            SameStack(j) /\ SameHandle(j) /\ magic'[j] = magic[j]
      BY <1>2, StacksDiffer
    <3> QED
      BY <1>2, <3>1, <3>2, OtherThread
  <2> QED
    BY <2>1, <2>2
<1>5. RestInv'
  <2> SUFFICES ASSUME NEW j \in Koros, Idle(j)'
               PROVE  Even(j)' /\ AtRest(j)'
    BY DEF RestInv
  <2>1. Idle(j) /\ SameStack(j) /\ SameHandle(j) /\ magic'[j] = magic[j]
    BY <1>2, StacksDiffer DEF Idle
  <2> QED
    BY <2>1, OtherCoroutine
<1>6. Apart'
  BY <1>2 DEF IInv, Apart
<1> QED
  BY <1>1, <1>4, <1>5, <1>6 DEF IInv

(* In a body.                                                              *)
LEMMA BodyMove ==
  ASSUME IInv, NEW r \in Runners, NEW k \in Koros, current[r] = k, h[r] = k,
         Inside(r, k), Even(k), b[k] = Top(r),
         UserMove(Labels, r, k, BodyBase(k)),
         UNCHANGED transfer
  PROVE  IInv'
<1>1. TypeOK'
  BY UserMoveTypes, StacksDiffer
<1>2. OnlyOf(r, k) /\ SameStack(r)
  BY StacksDiffer
  DEF UserMove, OnlyOf, SameThread, SameStack, SameHandle, handleVars, IInv,
      TypeOK, MachineTypeOK
<1>3. /\ pc'[r] = "user" /\ h'[r] = k /\ sp'[r] = Top(k)'
      /\ current' = current /\ magic' = magic
  BY DEF UserMove, IInv, TypeOK, MachineTypeOK, Top, handleVars
<1>4. mem'[k] = BodyFrames(k)'
  <2>1. mem'[k] = BodyBase(k) \o FramesOf(calls'[k])
    BY StacksDiffer DEF UserMove, IInv, TypeOK, MachineTypeOK
  <2> QED
    BY <2>1
    DEF BodyFrames, BodyBase, BodyFrame, FinishFrame, UserFrames, FramesOf,
        UserFrame
<1>5. Inside(r, k)' /\ Even(k)' /\ b'[k] = Top(r)'
  BY <1>2, <1>3, SameTop
  DEF Inside, SameStack, UserMove, handleVars, RunFrame, Even
<1> QED
  BY <1>1, <1>2, <1>3, <1>4, <1>5, ThreadStep DEF InRun

(* Wherever user code is, it calls a function                              *)
LEMMA CallStep ==
  ASSUME IInv, NEW r \in Runners, NEW f \in Functions, Call(r, f),
         UNCHANGED transfer
  PROVE  IInv' /\ pc'[r] = "user"
<1>1. /\ pc[r] = "user" /\ StacksOK(Labels)
      /\ UNCHANGED <<handleVars, current, h, seg, runs>>
  BY TypesOfStacks DEF IInv, Call
<1>2. CASE current[r] = None /\ sp[r] = Top(r) /\ mem[r] = UserFrames(r)
  <2>1. <<>> \in Seq(Frames(Labels)) /\ r \in Stacks
    BY EmptySeq, StacksDiffer
  <2>2. mem[r] = <<>> \o UserFrames(r)
    BY <1>2, UserFramesType, ConcatEmptySeq, <2>1 DEF IInv
  <2>3. UserMove(Labels, r, r, <<>>)
    BY <1>1, <1>2, <2>1, <2>2, CallKeepsStack
  <2> QED
    BY <1>1, <1>2, <2>1, <2>3, AppMove, UserMovePlace
<1>3. ASSUME NEW k \in Koros, current[r] = k, h[r] = k, Inside(r, k),
             Even(k), mem[k] = BodyFrames(k), b[k] = Top(r)
      PROVE  IInv' /\ pc'[r] = "user"
  <2>1. k \in Stacks
    BY StacksDiffer
  <2>2. BodyBase(k) \in Seq(Frames(Labels))
    BY BaseTypes
  <2>3. sp[r] = Top(k) /\ mem[k] = BodyBase(k) \o UserFrames(k)
    BY <1>3 DEF Inside, BodyFrames
  <2>4. UserMove(Labels, r, k, BodyBase(k))
    BY <1>1, <2>1, <2>2, <2>3, CallKeepsStack
  <2> QED
    BY <1>1, <1>3, <2>1, <2>4, BodyMove, UserMovePlace
<1> QED
  BY <1>1, <1>2, <1>3, UserPlace

(* or returns from one.                                                    *)
LEMMA ReturnStep ==
  ASSUME IInv, NEW r \in Runners, Return(r),
         UNCHANGED transfer
  PROVE  IInv' /\ pc'[r] = "user"
<1>1. /\ pc[r] = "user" /\ StacksOK(Labels)
      /\ UNCHANGED <<handleVars, current, h, seg, runs>>
  BY TypesOfStacks DEF IInv, Return
<1>2. CASE current[r] = None /\ sp[r] = Top(r) /\ mem[r] = UserFrames(r)
  <2>1. <<>> \in Seq(Frames(Labels)) /\ r \in Stacks
    BY EmptySeq, StacksDiffer
  <2>2. mem[r] = <<>> \o UserFrames(r)
    BY <1>2, UserFramesType, ConcatEmptySeq, <2>1 DEF IInv
  <2>3. UserMove(Labels, r, r, <<>>)
    BY <1>1, <1>2, <2>1, <2>2, ReturnKeepsStack
  <2> QED
    BY <1>1, <1>2, <2>1, <2>3, AppMove, UserMovePlace
<1>3. ASSUME NEW k \in Koros, current[r] = k, h[r] = k, Inside(r, k),
             Even(k), mem[k] = BodyFrames(k), b[k] = Top(r)
      PROVE  IInv' /\ pc'[r] = "user"
  <2>1. k \in Stacks
    BY StacksDiffer
  <2>2. BodyBase(k) \in Seq(Frames(Labels))
    BY BaseTypes
  <2>3. sp[r] = Top(k) /\ mem[k] = BodyBase(k) \o UserFrames(k)
    BY <1>3 DEF Inside, BodyFrames
  <2>4. UserMove(Labels, r, k, BodyBase(k))
    BY <1>1, <2>1, <2>2, <2>3, ReturnKeepsStack
  <2> QED
    BY <1>1, <1>3, <2>1, <2>4, BodyMove, UserMovePlace
<1> QED
  BY <1>1, <1>2, <1>3, UserPlace

(* A body returns into _executor; the application has nothing to return    *)
(* from but its functions.                                                 *)
LEMMA BodyReturnStep ==
  ASSUME IInv, NEW r \in Runners, BodyReturn(r),
         UNCHANGED transfer
  PROVE  IInv' /\ pc'[r] = "body_end" /\ current[r] # None
<1>1. /\ pc[r] = "user" /\ Pop(r) /\ calls[sp[r].stack] = <<>>
      /\ sp[r].depth > 0 /\ h' = [h EXCEPT ![r] = SavedH(r)]
      /\ UNCHANGED <<handleVars, current, userVars>>
  BY DEF BodyReturn
<1>2. CASE current[r] = None /\ sp[r] = Top(r) /\ mem[r] = UserFrames(r)
  <2>1. sp[r].stack = r /\ sp[r].depth = Len(mem[r])
    BY <1>2 DEF Top, Pointer
  <2>2. mem[r] = <<>>
    BY <1>1, <1>2, <2>1 DEF UserFrames
  <2> QED
    BY <1>1, <2>1, <2>2
<1>3. ASSUME NEW k \in Koros, current[r] = k, h[r] = k, Inside(r, k),
             Even(k), mem[k] = BodyFrames(k), b[k] = Top(r)
      PROVE  IInv' /\ pc'[r] = "body_end" /\ current[r] # None
  <2>1. sp[r] = Top(k) /\ k \in Stacks /\ StacksOK(Labels)
    BY <1>3, StacksDiffer, TypesOfStacks DEF Inside, IInv
  <2>2. calls[k] = <<>>
    BY <1>1, <2>1 DEF Top, Pointer
  <2>3. mem[k] = Append(<<FinishFrame>>, BodyFrame(k))
    BY <1>3, <2>2, NothingCalled
  <2>4. /\ <<FinishFrame>> \in Seq(Frames(Labels))
        /\ BodyFrame(k) \in Frames(Labels)
    BY FrameTypes, BaseTypes
  <2>5. /\ mem' = [mem EXCEPT ![k] = <<FinishFrame>>]
        /\ mem' \in [Stacks -> Seq(Frames(Labels))]
        /\ sp' = [sp EXCEPT ![r] = Pointer(k, Len(mem'[k]))]
        /\ sp' \in [Runners -> Pointers \ {Null}]
        /\ pc' = [pc EXCEPT ![r] = BodyFrame(k).to]
        /\ SavedH(r) = BodyFrame(k).h
    <3> DEFINE m == <<FinishFrame>>
    <3>1. m \in Seq(Frames(Labels)) /\ mem[k] = Append(m, BodyFrame(k))
      BY <2>3, <2>4
    <3> HIDE DEF m
    <3>2. /\ mem' = [mem EXCEPT ![k] = m]
          /\ mem' \in [Stacks -> Seq(Frames(Labels))]
          /\ sp' = [sp EXCEPT ![r] = Pointer(k, Len(mem'[k]))]
          /\ sp' \in [Runners -> Pointers \ {Null}]
          /\ pc' = [pc EXCEPT ![r] = BodyFrame(k).to]
          /\ SavedH(r) = BodyFrame(k).h
      BY <1>1, <2>1, <2>4, <3>1, PopFromTop
    <3> QED
      BY <3>2 DEF m
  <2>6. BodyFrame(k).to = "body_end" /\ BodyFrame(k).h = k
    BY DEF BodyFrame
  <2>7. TypeOK'
    BY <1>1, <2>5, <2>6
    DEF IInv, TypeOK, MachineTypeOK, handleVars, userVars, Labels
  <2>8. OnlyOf(r, k) /\ SameStack(r)
    BY <1>1, <2>5, StacksDiffer
    DEF OnlyOf, SameThread, SameStack, SameHandle, handleVars, userVars, IInv,
        TypeOK, MachineTypeOK
  <2>9. /\ pc'[r] = "body_end" /\ h'[r] = k /\ b'[k] = b[k]
        /\ sp'[r] = Top(k)' /\ mem'[k] = <<FinishFrame>>
    BY <1>1, <2>5, <2>6, StacksDiffer
    DEF IInv, TypeOK, MachineTypeOK, Top, handleVars
  <2>10. Inside(r, k)' /\ Even(k)' /\ b'[k] = Top(r)'
    BY <1>1, <1>3, <2>8, <2>9, SameTop
    DEF Inside, SameStack, handleVars, userVars, RunFrame, Even
  <2> QED
    BY <1>1, <1>3, <2>7, <2>8, <2>9, <2>10, ThreadStep, StacksDiffer
    DEF InRun, handleVars, FinishFrame
<1> QED
  BY <1>1, <1>2, <1>3, UserPlace

-------------------------------------------------------------------------------
(* The invariant                                                           *)

(* Nothing has been called and no handle is initialised.                   *)
LEMMA InitInv ==
  ASSUME Init
  PROVE  IInv
<1> USE DEF Init, MachineInit
<1>1. TypeOK
  <2>1. mem \in [Stacks -> Seq(Frames(Labels))]
    BY EmptySeq
  <2>2. calls \in [Stacks -> Seq(Functions)]
    BY EmptySeq
  <2>3. sp \in [Runners -> Pointers \ {Null}]
    BY StacksDiffer DEF Pointers, Null, Pointer
  <2>4. a \in [Koros -> Pointers] /\ b \in [Koros -> Pointers]
    BY DEF Pointers
  <2>5. transfer \in [Runners -> Transfers]
    BY DEF NoTransfer, Transfers, Pointers
  <2> QED
    BY <2>1, <2>2, <2>3, <2>4, <2>5 DEF TypeOK, MachineTypeOK, KoroPcs, Labels
<1>2. ThreadInv
  <2> SUFFICES ASSUME NEW r \in Runners
               PROVE  current[r] = None /\ pc[r] = "user" /\ Outside(r)
    BY DEF ThreadInv, ThreadOK
  <2>1. /\ current[r] = None /\ pc[r] = "user" /\ sp[r] = Pointer(r, 0)
        /\ mem[r] = <<>> /\ calls[r] = <<>>
    BY StacksDiffer
  <2> QED
    BY <2>1 DEF Outside, Top, UserFrames
<1>3. RestInv
  BY DEF RestInv, AtRest, Even
<1>4. Apart
  BY DEF Apart
<1> QED
  BY <1>1, <1>2, <1>3, <1>4 DEF IInv

(* Every step of every thread keeps the invariant.                         *)
LEMMA NextInv ==
  ASSUME IInv, [Next]_vars
  PROVE  IInv'
<1>1. CASE UNCHANGED vars
  <2> USE <1>1 DEF vars, machineVars, handleVars, userVars
  <2>1. TypeOK'
    BY DEF IInv, TypeOK, MachineTypeOK
  <2>2. Apart'
    BY DEF IInv, Apart
  <2>3. ThreadInv'
    BY OtherThread
    DEF ThreadInv, SameThread, SameStack, SameHandle, IInv
  <2>4. RestInv'
    BY OtherCoroutine DEF RestInv, Idle, SameStack, SameHandle
  <2> QED
    BY <2>1, <2>2, <2>3, <2>4 DEF IInv
<1>2. CASE Next
  <2> PICK r \in Runners :
        \/ UserStep(r) /\ UNCHANGED transfer
        \/ \E k \in Koros : InitCall(r, k)
        \/ BodyStep(r)
        \/ LibraryStep(r)
    BY <1>2 DEF Next
  <2>1. CASE UserStep(r) /\ UNCHANGED transfer
    BY <2>1, CallStep, ReturnStep, RunCallStep DEF UserStep
  <2>2. CASE \E k \in Koros : InitCall(r, k)
    BY <2>2, InitCallStep
  <2>3. CASE BodyStep(r)
    BY <2>3, YieldCallStep, BodyReturnStep DEF BodyStep
  <2>4. CASE LibraryStep(r)
    <3>1. CASE RunJump(r) \/ RunResume(r) \/ Executor(r)
      BY <3>1, RunJumpStep, RunResumeStep, ExecutorStep
    <3>2. CASE BodyEnd(r) \/ YieldResume(r)
      BY <3>2, BodyEndStep, YieldResumeStep
    <3>3. CASE KoroStep(r) /\ UNCHANGED transfer
      BY <3>3, RunFinishedStep, RunExitStep, YieldExitStep DEF KoroStep
    <3> QED
      BY <2>4, <3>1, <3>2, <3>3 DEF LibraryStep
  <2> QED
    BY <2>1, <2>2, <2>3, <2>4
<1> QED
  BY <1>1, <1>2

(* Every context leads where IInv says, in every state that the library    *)
(* over backends/context can reach.                                        *)
THEOREM Invariant == Spec => []IInv
BY InitInv, NextInv, PTL DEF Spec

(* The handles, the threads, the stacks and what a jump hands over keep    *)
(* their types: h->a and h->b are only ever contexts, never a transfer_t.  *)
THEOREM TypeCorrect == Spec => []TypeOK
<1>1. IInv => TypeOK
  BY DEF IInv
<1> QED
  BY <1>1, Invariant, PTL

(* The topmost frame of a stack.                                           *)
LEMMA TopOfFrames ==
  ASSUME NEW m \in Seq(Frames(Labels)), NEW frame \in Frames(Labels),
         NEW s, mem[s] = Append(m, frame)
  PROVE  /\ Top(s).depth > 0
         /\ mem[s][Top(s).depth] = frame
         /\ \A label, k : frame = [to |-> label, h |-> k] =>
              LeadsTo(Top(s), s, label, k)
<1>1. /\ Len(m) \in Nat /\ Len(mem[s]) = Len(m) + 1
      /\ mem[s][Len(m) + 1] = frame
  BY TopOfStack
<1>2. Top(s).depth = Len(mem[s]) /\ Top(s) = Pointer(s, Len(mem[s]))
  BY DEF Top, Pointer
<1> QED
  BY <1>1, <1>2 DEF LeadsTo

(* Every jump goes to a context that is still good, and no thread comes to *)
(* the code behind the last jump of _executor.                             *)
THEOREM JumpsAlwaysLand == Spec => []JumpsLand
<1>1. ASSUME IInv
      PROVE  JumpsLand
  <2> SUFFICES ASSUME NEW r \in Runners
               PROVE
        /\ pc[r] # "finish"
        /\ pc[r] = "run" /\ ~finished[h[r]] =>
             \/ LeadsTo(a[h[r]], h[r], "executor", None)
             \/ LeadsTo(a[h[r]], h[r], "yield_resume", h[r])
        /\ InBody(r) =>
             LeadsTo(b[current[r]], r, "run_resume", current[r])
    BY DEF JumpsLand
  <2>1. pc[r] # "finish"
    BY <1>1, LibraryPlace DEF InRun
  <2>2. ASSUME pc[r] = "run", ~finished[h[r]]
        PROVE  \/ LeadsTo(a[h[r]], h[r], "executor", None)
               \/ LeadsTo(a[h[r]], h[r], "yield_resume", h[r])
    <3>1. PICK k \in Koros : h[r] = k /\ InRun(r, k)
      BY <1>1, <2>2, LibraryPlace
    <3>2. CASE Fresh(k)
      <4>1. Append(<<FinishFrame>>, EntryFrame) = mem[k]
        BY <3>2, BaseTypes DEF Fresh
      <4>2. /\ <<FinishFrame>> \in Seq(Frames(Labels))
            /\ EntryFrame \in Frames(Labels)
        BY BaseTypes, FrameTypes
      <4>3. LeadsTo(Top(k), k, "executor", None)
        BY <4>1, <4>2, TopOfFrames DEF EntryFrame
      <4> QED
        BY <3>1, <3>2, <4>3 DEF Fresh
    <3>3. CASE Suspended(k)
      <4>1. BodyFrames(k) \in Seq(Frames(Labels))
        BY <1>1, BodyFramesType DEF IInv
      <4>2. LeadsTo(Top(k), k, "yield_resume", k)
        BY <3>3, <4>1, FrameTypes, TopOfFrames
        DEF Suspended, Parked, YieldFrame
      <4> QED
        BY <3>1, <3>3, <4>2 DEF Suspended
    <3> QED
      BY <2>2, <3>1, <3>2, <3>3 DEF InRun, Ready, Done
  <2>3. ASSUME InBody(r)
        PROVE  LeadsTo(b[current[r]], r, "run_resume", current[r])
    <3>1. PICK k \in Koros : current[r] = k /\ InRun(r, k)
      BY <1>1, <2>3
      DEF InBody, IInv, TypeOK, MachineTypeOK, ThreadInv, ThreadOK
    <3>2. b[k] = Top(r) /\ mem[r] = Append(UserFrames(r), RunFrame(k))
      BY <2>3, <3>1 DEF InBody, InRun, Inside
    <3>3. UserFrames(r) \in Seq(Frames(Labels)) /\ r \in Stacks
      BY <1>1, UserFramesType, StacksDiffer DEF IInv
    <3>4. LeadsTo(Top(r), r, "run_resume", k)
      BY <3>2, <3>3, FrameTypes, TopOfFrames DEF RunFrame
    <3> QED
      BY <3>1, <3>2, <3>4
  <2> QED
    BY <2>1, <2>2, <2>3
<1> QED
  BY <1>1, Invariant, PTL

(* User code finds its stack as it left it, on the stack where it was,     *)
(* whatever was run and yielded in between.                                *)
THEOREM StackStaysIntact == Spec => []StackIntact
<1>1. ASSUME IInv
      PROVE  StackIntact
  <2> DEFINE base == [k \in Koros |-> <<[to |-> "finish", h |-> None],
                                        [to |-> "body_end", h |-> k]>>]
  <2> SUFFICES ASSUME NEW r \in Runners, pc[r] = "user", NEW s,
                      s = IF current[r] = None THEN r ELSE current[r]
               PROVE  /\ sp[r] = Pointer(s, Len(mem[s]))
                      /\ mem[s] = IF s = r THEN UserFrames(s)
                                  ELSE base[s] \o UserFrames(s)
    BY DEF StackIntact, UserStacksIntact
  <2>1. CASE current[r] = None /\ sp[r] = Top(r) /\ mem[r] = UserFrames(r)
    BY <2>1 DEF Top
  <2>2. ASSUME NEW k \in Koros, current[r] = k, h[r] = k, Inside(r, k),
               Even(k), mem[k] = BodyFrames(k)
        PROVE  /\ sp[r] = Pointer(s, Len(mem[s]))
               /\ mem[s] = IF s = r THEN UserFrames(s)
                           ELSE base[s] \o UserFrames(s)
    <3>1. s = k /\ s # r
      BY <2>2, StacksDiffer
    <3>2. base[k] = BodyBase(k)
      BY DEF BodyBase, BodyFrame, FinishFrame
    <3> HIDE DEF base
    <3> QED
      BY <2>2, <3>1, <3>2 DEF Inside, Top, BodyFrames
  <2> QED
    BY <1>1, <2>1, <2>2, UserPlace
<1> QED
  BY <1>1, Invariant, PTL

(* Where the stack pointer of a thread leads.                              *)
LEMMA StackOfThread ==
  ASSUME IInv, NEW r \in Runners
  PROVE  \/ sp[r].stack = r
         \/ current[r] \in Koros /\ sp[r].stack = current[r]
<1>1. \A s : Top(s).stack = s
  BY DEF Top, Pointer
<1>2. CASE current[r] = None
  BY <1>1, <1>2 DEF IInv, ThreadInv, ThreadOK, Outside
<1>3. CASE current[r] # None
  <2>1. PICK k \in Koros : current[r] = k /\ InRun(r, k)
    BY <1>3 DEF IInv, TypeOK, MachineTypeOK, ThreadInv, ThreadOK
  <2>2. sp[r] = Top(r) \/ sp[r] = Top(k)
    BY <2>1 DEF InRun, Outside, Inside
  <2> QED
    BY <1>1, <2>1, <2>2
<1> QED
  BY <1>2, <1>3

(* No two threads are ever on the same stack.                              *)
THEOREM StacksStayApart == Spec => []StacksApart
<1>1. ASSUME IInv
      PROVE  StacksApart
  <2> SUFFICES ASSUME NEW r \in Runners, NEW q \in Runners,
                      sp[r].stack = sp[q].stack
               PROVE  r = q
    BY DEF StacksApart
  <2> QED
    BY <1>1, StackOfThread, StacksDiffer DEF IInv, Apart
<1> QED
  BY <1>1, Invariant, PTL

(* A body never gets ahead of the koro_run calls made on it, and has       *)
(* executed one segment for each of them when none is under way.           *)
THEOREM WorkMatchesRuns == Spec => []WorkEqualsRuns
<1>1. ASSUME IInv
      PROVE  WorkEqualsRuns
  <2> SUFFICES ASSUME NEW k \in Koros
               PROVE  seg[k] <= runs[k] /\ (Idle(k) => seg[k] = runs[k])
    BY DEF WorkEqualsRuns
  <2>1. seg[k] \in Nat /\ runs[k] \in Nat
    BY <1>1 DEF IInv, TypeOK, MachineTypeOK
  <2>2. CASE Idle(k)
    BY <1>1, <2>1, <2>2 DEF IInv, RestInv, Even
  <2>3. CASE ~Idle(k)
    <3>1. PICK r \in Runners : current[r] = k
      BY <2>3 DEF Idle
    <3>2. InRun(r, k)
      BY <1>1, <3>1, StacksDiffer DEF IInv, ThreadInv, ThreadOK
    <3>3. Even(k) \/ Ahead(k)
      BY <3>2 DEF InRun
    <3> QED
      BY <2>1, <2>3, <3>3 DEF Even, Ahead
  <2> QED
    BY <2>2, <2>3
<1> QED
  BY <1>1, Invariant, PTL

-------------------------------------------------------------------------------
(* The refinement of Coroutines                                            *)

(* Before the first call there is no coroutine.                            *)
LEMMA InitMaps ==
  ASSUME Init
  PROVE  Promise!Init
<1>1. \A r \in Runners : activeMap[r] = None
  BY DEF Init, MachineInit, activeMap, InBody
<1>2. activeMap = [r \in Runners |-> None]
  BY <1>1 DEF activeMap
<1>3. statusMap = [k \in Koros |-> "none"]
  BY <1>1, StacksDiffer DEF Init, MachineInit, statusMap
<1> QED
  BY <1>2, <1>3 DEF Promise!Init, Init, MachineInit

(* What the promise sees of a thread.                                      *)
Active(r) == IF InBody(r) THEN current[r] ELSE None

(* A step that neither begins nor ends a segment.                          *)
LEMMA SameMap ==
  ASSUME \A r \in Runners : Active(r)' = Active(r),
         magic' = magic, finished' = finished, seg' = seg
  PROVE  UNCHANGED Promise!vars
<1>1. activeMap' = activeMap
  BY DEF activeMap, Active
<1>2. statusMap' = statusMap
  BY <1>1 DEF statusMap
<1> QED
  BY <1>1, <1>2 DEF Promise!vars

(* InBody, of the place of a thread and its current coroutine.             *)
BodyAt(place, k) ==
  \/ place = "user" /\ k # None
  \/ place = "body_end"

(* Such a step, when only thread r moves and stays in or out of its body.  *)
LEMMA SameBody ==
  ASSUME NEW r \in Runners, current' = current,
         \A q \in Runners \ {r} : pc'[q] = pc[q],
         BodyAt(pc'[r], current[r]) <=> BodyAt(pc[r], current[r]),
         magic' = magic, finished' = finished, seg' = seg
  PROVE  UNCHANGED Promise!vars
<1>1. \A q \in Runners : Active(q)' = Active(q)
  BY DEF Active, InBody, BodyAt
<1> QED
  BY <1>1, SameMap

(* The coroutine of thread r is under way in no other thread.              *)
LEMMA OnlyRunner ==
  ASSUME IInv, NEW r \in Runners, NEW k \in Koros, current[r] = k
  PROVE  /\ \A q \in Runners : activeMap[q] = k <=> q = r /\ InBody(r)
         /\ statusMap[k] = IF InBody(r) THEN "running"
                           ELSE IF ~magic[k] THEN "none"
                           ELSE IF finished[k] THEN "finished"
                           ELSE "suspended"
<1>1. k # None
  BY StacksDiffer
<1>2. \A q \in Runners : current[q] = k => q = r
  BY <1>1 DEF IInv, Apart
<1>3. \A q \in Runners : activeMap[q] = k <=> q = r /\ InBody(r)
  BY <1>1, <1>2 DEF activeMap
<1> QED
  BY <1>3 DEF statusMap

(* A step after which the promise sees one coroutine differently.          *)
LEMMA StatusChanges ==
  ASSUME NEW k \in Koros,
         \A j \in Koros \ {k} : statusMap'[j] = statusMap[j]
  PROVE  statusMap' = [statusMap EXCEPT ![k] = statusMap'[k]]
<1>1. statusMap = [j \in Koros |-> statusMap[j]]
  BY DEF statusMap
<1>2. statusMap' = [j \in Koros |-> statusMap'[j]]
  BY DEF statusMap
<1> QED
  BY <1>1, <1>2

(* A body begins a segment.                                                *)
LEMMA BeginMaps ==
  ASSUME IInv, IInv', NEW r \in Runners, NEW k \in Koros,
         current[r] = k, current' = current,
         \A q \in Runners \ {r} : pc'[q] = pc[q],
         ~InBody(r), pc'[r] = "user", magic[k], ~finished[k],
         magic' = magic, finished' = finished,
         seg' = [seg EXCEPT ![k] = @ + 1]
  PROVE  Promise!Resume(r, k)
<1>1. activeMap[r] = None /\ activeMap' = [activeMap EXCEPT ![r] = k]
  BY StacksDiffer DEF activeMap, InBody
<1>2. statusMap[k] = "suspended"
  BY OnlyRunner
<1>3. activeMap'[r] = k
  BY <1>1 DEF activeMap
<1>4. \A j \in Koros \ {k} : statusMap'[j] = statusMap[j]
  <2> SUFFICES ASSUME NEW j \in Koros \ {k}
               PROVE  statusMap'[j] = statusMap[j]
    OBVIOUS
  <2>1. \A q \in Runners : activeMap'[q] = j <=> activeMap[q] = j
    BY <1>1, <1>3, StacksDiffer DEF activeMap
  <2> QED
    BY <2>1 DEF statusMap
<1>5. statusMap'[k] = "running"
  BY <1>3 DEF statusMap
<1>6. statusMap' = [statusMap EXCEPT ![k] = "running"]
  BY <1>4, <1>5, StatusChanges
<1> QED
  BY <1>1, <1>2, <1>6 DEF Promise!Resume

(* A segment ends: what the coroutine is from then on depends on whether   *)
(* its body has returned.                                                  *)
LEMMA EndMaps ==
  ASSUME IInv, IInv', NEW r \in Runners, NEW k \in Koros,
         current[r] = k, current' = current,
         \A q \in Runners \ {r} : pc'[q] = pc[q],
         InBody(r), pc'[r] = "run_resume", magic[k], magic' = magic,
         \A j \in Koros \ {k} : finished'[j] = finished[j], seg' = seg
  PROVE  Promise!EndSegment(r, IF finished'[k] THEN "finished"
                               ELSE "suspended")
<1>1. activeMap[r] = k /\ activeMap' = [activeMap EXCEPT ![r] = None]
  BY DEF activeMap, InBody
<1>2. \A q \in Runners : activeMap'[q] = k <=> FALSE
  BY <1>1, OnlyRunner, StacksDiffer DEF activeMap
<1>3. statusMap'[k] = IF finished'[k] THEN "finished" ELSE "suspended"
  BY <1>2 DEF statusMap
<1>4. \A j \in Koros \ {k} : statusMap'[j] = statusMap[j]
  <2> SUFFICES ASSUME NEW j \in Koros \ {k}
               PROVE  statusMap'[j] = statusMap[j]
    OBVIOUS
  <2>1. \A q \in Runners : activeMap'[q] = j <=> activeMap[q] = j
    BY <1>1, StacksDiffer DEF activeMap
  <2> QED
    BY <2>1 DEF statusMap
<1>5. statusMap' = [statusMap EXCEPT ![k] = statusMap'[k]]
  BY <1>4, StatusChanges
<1>6. activeMap[r] # None
  BY <1>1, StacksDiffer
<1> QED
  BY <1>1, <1>3, <1>5, <1>6 DEF Promise!EndSegment

(* koro_init creates a coroutine.                                          *)
LEMMA InitCallMaps ==
  ASSUME IInv, IInv', NEW r \in Runners, NEW k \in Koros, InitCall(r, k)
  PROVE  Promise!Create(k)
<1>1. /\ Idle(k)
      /\ finished' = [finished EXCEPT ![k] = FALSE]
      /\ magic' = [magic EXCEPT ![k] = TRUE]
      /\ seg' = [seg EXCEPT ![k] = 0]
      /\ UNCHANGED <<current, pc>>
  BY DEF InitCall, InitHandle
<1>2. activeMap' = activeMap
  BY <1>1 DEF activeMap, InBody
<1>3. \A q \in Runners : activeMap[q] # k
  BY <1>1, StacksDiffer DEF Idle, activeMap
<1>4. statusMap[k] # "running"
  BY <1>3 DEF statusMap
<1>5. magic'[k] /\ ~finished'[k]
  BY <1>1 DEF IInv, TypeOK, MachineTypeOK
<1>6. statusMap'[k] = "suspended"
  BY <1>2, <1>3, <1>5 DEF statusMap
<1>7. \A j \in Koros \ {k} : statusMap'[j] = statusMap[j]
  BY <1>1, <1>2 DEF statusMap, IInv, TypeOK, MachineTypeOK
<1>8. statusMap' = [statusMap EXCEPT ![k] = "suspended"]
  BY <1>6, <1>7, StatusChanges
<1> QED
  BY <1>1, <1>2, <1>4, <1>8 DEF Promise!Create

(* The body begins its first segment, or the one after a koro_yield.       *)
LEMMA ResumeMaps ==
  ASSUME IInv, IInv', NEW r \in Runners, Executor(r) \/ YieldExit(r)
  PROVE  \E k \in Koros : Promise!Resume(r, k)
<1>1. PICK k \in Koros : current[r] = k /\ magic[k] /\ InRun(r, k)
  BY LibraryPlace DEF Executor, YieldExit
<1>2. Inside(r, k)
  BY <1>1 DEF Executor, YieldExit, InRun
<1>3. ~finished[k]
  BY <1>2 DEF Inside
<1>4. /\ pc' = [pc EXCEPT ![r] = "user"]
      /\ pc[r] \in {"executor", "yield_exit"}
      /\ seg' = [seg EXCEPT ![k] = @ + 1]
      /\ UNCHANGED <<magic, finished, current>>
  <2>1. CASE Executor(r)
    <3>1. transfer[r].data = k
      BY <1>1, <2>1 DEF Executor, InRun
    <3> QED
      BY <2>1, <3>1 DEF Executor, Push, Goto
  <2>2. CASE YieldExit(r)
    <3>1. h[r] = k
      BY <1>1, <2>2, LibraryPlace DEF YieldExit
    <3> QED
      BY <2>2, <3>1 DEF YieldExit, Goto, handleVars
  <2> QED
    BY <2>1, <2>2
<1>5. ~InBody(r)
  BY <1>4 DEF InBody
<1>6. pc'[r] = "user" /\ \A q \in Runners \ {r} : pc'[q] = pc[q]
  BY <1>4 DEF IInv, TypeOK, MachineTypeOK
<1> QED
  BY <1>1, <1>3, <1>4, <1>5, <1>6, BeginMaps

(* A jump of one thread moves no other.                                    *)
LEMMA JumpMovesOne ==
  ASSUME NEW r \in Runners, NEW k, NEW context, NEW data, NEW label,
         IInv, JumpContext(r, k, context, data, label)
  PROVE  \A q \in Runners \ {r} : pc'[q] = pc[q]
  BY DEF JumpContext, Goto, IInv, TypeOK, MachineTypeOK

(* The jump out of the body ends the segment.                              *)
LEMMA YieldCallMaps ==
  ASSUME IInv, IInv', NEW r \in Runners, YieldCall(r)
  PROVE  Promise!Suspend(r)
<1>1. PICK k \in Koros : current[r] = k /\ magic[k] /\ InRun(r, k)
  BY DEF YieldCall, MayYield, IInv, TypeOK, MachineTypeOK, ThreadInv, ThreadOK
<1>2. ~finished[k]
  BY <1>1 DEF YieldCall, MayYield, InRun, Inside
<1>3. /\ JumpContext(r, k, b[k], None, "yield_resume")
      /\ UNCHANGED <<magic, finished, current, seg>>
  BY <1>1 DEF YieldCall, handleVars, userVars
<1>4. InBody(r)
  BY DEF YieldCall, MayYield, InBody
<1>5. pc'[r] = "run_resume" /\ \A q \in Runners \ {r} : pc'[q] = pc[q]
  BY <1>3, YieldCallStep, JumpMovesOne
<1>6. Promise!EndSegment(r, IF finished'[k] THEN "finished" ELSE "suspended")
  BY <1>1, <1>3, <1>4, <1>5, EndMaps
<1> QED
  BY <1>2, <1>3, <1>6 DEF Promise!Suspend

(* The jump out of _executor, after the body, is Finish.                   *)
LEMMA BodyEndMaps ==
  ASSUME IInv, IInv', NEW r \in Runners, BodyEnd(r)
  PROVE  Promise!Finish(r)
<1>1. PICK k \in Koros : current[r] = k /\ h[r] = k /\ magic[k]
  BY LibraryPlace DEF BodyEnd
<1>2. /\ JumpContext(r, k, b[k], None, "finish")
      /\ finished' = [finished EXCEPT ![k] = TRUE]
      /\ UNCHANGED <<magic, current, seg>>
  BY <1>1 DEF BodyEnd, userVars
<1>3. finished'[k] /\ \A j \in Koros \ {k} : finished'[j] = finished[j]
  BY <1>2 DEF IInv, TypeOK, MachineTypeOK
<1>4. InBody(r)
  BY DEF BodyEnd, InBody
<1>5. pc'[r] = "run_resume" /\ \A q \in Runners \ {r} : pc'[q] = pc[q]
  BY <1>2, BodyEndStep, JumpMovesOne
<1>6. Promise!EndSegment(r, IF finished'[k] THEN "finished" ELSE "suspended")
  BY <1>1, <1>2, <1>3, <1>4, <1>5, EndMaps
<1> QED
  BY <1>3, <1>6 DEF Promise!Finish

(* The other steps of the library stutter.                                 *)
LEMMA StutterMaps ==
  ASSUME IInv, IInv', NEW r \in Runners,
         \/ RunJump(r) \/ RunResume(r) \/ YieldResume(r)
         \/ /\ \/ RunFinished(r) \/ BodyReturn(r) \/ Return(r)
               \/ \E f \in Functions : Call(r, f)
            /\ UNCHANGED transfer
  PROVE  UNCHANGED Promise!vars
<1> USE DEF BodyAt
<1>1. pc \in [Runners -> KoroPcs \union Labels]
  BY DEF IInv, TypeOK, MachineTypeOK, Labels
<1>2. UNCHANGED <<magic, finished, current, seg>>
  BY DEF RunJump, RunResume, YieldResume, RunFinished, BodyReturn, Return,
         Call, handleVars, userVars
<1>3. CASE RunJump(r)
  <2>1. \A q \in Runners \ {r} : pc'[q] = pc[q]
    BY <1>3, JumpMovesOne DEF RunJump
  <2> QED
    BY <1>2, <1>3, <2>1, RunJumpStep, SameBody DEF RunJump
<1>4. CASE ~RunJump(r)
  <2>1. \A q \in Runners \ {r} : pc'[q] = pc[q]
    BY <1>1, <1>4
    DEF RunResume, YieldResume, RunFinished, BodyReturn, Return, Call, Push,
        Pop, Goto
  <2>2. CASE RunResume(r)
    BY <1>1, <1>2, <2>1, <2>2, SameBody DEF RunResume, Goto
  <2>3. CASE YieldResume(r)
    BY <1>1, <1>2, <2>1, <2>3, SameBody DEF YieldResume, Goto
  <2>4. CASE RunFinished(r)
    BY <1>1, <1>2, <2>1, <2>4, SameBody DEF RunFinished, Goto
  <2>5. CASE BodyReturn(r) /\ UNCHANGED transfer
    BY <1>1, <1>2, <2>1, <2>5, SameBody, BodyReturnStep DEF BodyReturn
  <2>6. CASE Return(r) /\ UNCHANGED transfer
    BY <1>1, <1>2, <2>1, <2>6, SameBody, ReturnStep DEF Return
  <2>7. CASE \E f \in Functions : Call(r, f)
    BY <1>1, <1>2, <2>1, <2>7, SameBody DEF Call, Push, Goto
  <2> QED
    BY <1>4, <2>2, <2>3, <2>4, <2>5, <2>6, <2>7
<1> QED
  BY <1>3, <1>4

(* koro_run begins and ends outside of every body.                         *)
LEMMA RunEndsMap ==
  ASSUME IInv, IInv', NEW r \in Runners,
         RunExit(r) \/ \E k \in Koros : RunCall(r, k)
  PROVE  UNCHANGED Promise!vars
<1>1. /\ \A q \in Runners \ {r} : pc'[q] = pc[q] /\ current'[q] = current[q]
      /\ UNCHANGED <<magic, finished, seg>>
  BY DEF RunExit, RunCall, Goto, handleVars, userVars, IInv, TypeOK,
         MachineTypeOK
<1>2. Active(r) = None
  BY DEF RunExit, RunCall, Active, InBody
<1>3. Active(r)' = None
  BY DEF RunExit, RunCall, Goto, Active, InBody, IInv, TypeOK, MachineTypeOK
<1>4. \A q \in Runners : Active(q)' = Active(q)
  BY <1>1, <1>2, <1>3 DEF Active, InBody
<1> QED
  BY <1>1, <1>4, SameMap

(* Every step is one of Coroutines, or a stuttering step.                  *)
LEMMA NextMaps ==
  ASSUME IInv, IInv', [Next]_vars
  PROVE  [Promise!Next]_(Promise!vars)
<1>1. CASE UNCHANGED vars
  <2>1. \A q \in Runners : Active(q)' = Active(q)
    BY <1>1 DEF vars, machineVars, Active, InBody
  <2> QED
    BY <1>1, <2>1, SameMap DEF vars, machineVars, handleVars, userVars
<1>2. CASE Next
  <2>1. PICK r \in Runners :
          \/ UserStep(r) /\ UNCHANGED transfer
          \/ \E k \in Koros : InitCall(r, k)
          \/ BodyStep(r)
          \/ LibraryStep(r)
    BY <1>2 DEF Next
  <2>2. CASE \E k \in Koros : InitCall(r, k)
    BY <2>2, InitCallMaps DEF Promise!Next
  <2>3. CASE Executor(r) \/ YieldExit(r)
    BY <2>3, ResumeMaps DEF Promise!Next
  <2>4. CASE YieldCall(r) \/ BodyEnd(r)
    BY <2>4, YieldCallMaps, BodyEndMaps DEF Promise!Next
  <2>5. CASE RunExit(r) \/ \E k \in Koros : RunCall(r, k)
    BY <2>5, RunEndsMap
  <2>6. CASE \/ RunJump(r) \/ RunResume(r) \/ YieldResume(r)
             \/ /\ \/ RunFinished(r) \/ BodyReturn(r) \/ Return(r)
                   \/ \E f \in Functions : Call(r, f)
                /\ UNCHANGED transfer
    BY <2>6, StutterMaps
  <2> QED
    BY <2>1, <2>2, <2>3, <2>4, <2>5, <2>6
    DEF UserStep, BodyStep, LibraryStep, KoroStep
<1> QED
  BY <1>1, <1>2

(* The application may rely on Coroutines: a koro_run of an unfinished     *)
(* coroutine executes one segment of it, from where the last one ended,    *)
(* whichever threads run it and however they interleave.                   *)
THEOREM Implementation == Spec => Promise!Spec
<1>1. Init => Promise!Init
  BY InitMaps
<1>2. IInv /\ IInv' /\ [Next]_vars => [Promise!Next]_(Promise!vars)
  BY NextMaps
<1> QED
  BY <1>1, <1>2, Invariant, PTL DEF Spec, Promise!Spec

===============================================================================
