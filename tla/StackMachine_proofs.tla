-------------------------- MODULE StackMachine_proofs --------------------------
(***************************************************************************)
(* Lemmas about StackMachine, for the proofs about the backends that       *)
(* switch stacks: what a push and a pop do to a thread that is at the top  *)
(* of a stack, and what a call does to the frames of user code; and, at    *)
(* the end, a theorem about the promise that both backends implement.      *)
(***************************************************************************)
EXTENDS StackMachine, SequenceTheorems, TLAPS

-------------------------------------------------------------------------------
(* Sequences                                                               *)

(* The operators of a stack on a stack of known top.                       *)
LEMMA TopOfStack ==
  ASSUME NEW S, NEW s \in Seq(S), NEW e \in S
  PROVE  /\ Append(SubSeq(s, 1, Len(s)), e) = Append(s, e)
         /\ Append(s, e) \in Seq(S)
         /\ Len(s) \in Nat
         /\ Len(Append(s, e)) = Len(s) + 1
         /\ DOMAIN Append(s, e) = 1..(Len(s) + 1)
         /\ Append(s, e)[Len(s) + 1] = e
         /\ Popped(Append(s, e), Len(s) + 1) = s
<1>1. SubSeq(s, 1, Len(s)) = s
  BY SubSeqFull
<1>2. /\ Append(s, e) \in Seq(S)
      /\ Len(s) \in Nat
      /\ Len(Append(s, e)) = Len(s) + 1
      /\ DOMAIN Append(s, e) = 1..(Len(s) + 1)
      /\ Append(s, e)[Len(s) + 1] = e
      /\ \A i \in 1..Len(s) : Append(s, e)[i] = s[i]
  BY AppendProperties, LenProperties
<1>3. SubSeq(Append(s, e), 1, Len(s)) = s
  <2> DEFINE t == SubSeq(Append(s, e), 1, Len(s))
  <2>1. \A i \in 1..Len(s) : Append(s, e)[i] \in S
    BY <1>2, ElementOfSeq
  <2>2. /\ t \in Seq(S)
        /\ Len(t) = IF 1 <= Len(s) THEN Len(s) - 1 + 1 ELSE 0
        /\ \A i \in 1..(Len(s) - 1 + 1) : t[i] = Append(s, e)[1 + i - 1]
    BY <1>2, <2>1, 1 \in Int, Len(s) \in Int, SubSeqProperties
  <2>3. Len(t) = Len(s)
    BY <1>2, <2>2
  <2>4. \A i \in 1..Len(t) : t[i] = s[i]
    BY <1>2, <2>2, <2>3
  <2> QED
    BY <2>2, <2>3, <2>4, SeqEqual
<1>4. Len(s) + 1 - 1 = Len(s)
  BY <1>2
<1> QED
  BY <1>1, <1>2, <1>3, <1>4 DEF Popped

(* To append below and above is the same.                                  *)
LEMMA ConcatAppend ==
  ASSUME NEW S, NEW s \in Seq(S), NEW t \in Seq(S), NEW e \in S
  PROVE  s \o Append(t, e) = Append(s \o t, e)
<1>1. Append(t, e) = t \o <<e>> /\ <<e>> \in Seq(S)
  BY AppendIsConcat
<1>2. s \o t \in Seq(S)
  BY ConcatProperties
<1>3. Append(s \o t, e) = (s \o t) \o <<e>>
  BY <1>2, AppendIsConcat
<1> QED
  BY <1>1, <1>3, ConcatAssociative

-------------------------------------------------------------------------------
(* The frames of user code                                                 *)

UserFrame(f) == [to |-> "user", h |-> f]

FramesOf(c) == [i \in DOMAIN c |-> UserFrame(c[i])]

(* The frames of user code depend on its calls alone,                      *)
LEMMA UserFramesOf ==
  ASSUME NEW s
  PROVE  UserFrames(s) = FramesOf(calls[s])
  BY DEF UserFrames, FramesOf, UserFrame

(* and are frames.                                                         *)
LEMMA FramesType ==
  ASSUME NEW labels, NEW c \in Seq(Functions)
  PROVE  FramesOf(c) \in Seq(Frames(labels))
<1>1. DOMAIN c = 1..Len(c) /\ Len(c) \in Nat
  BY LenProperties
<1>2. \A i \in 1..Len(c) : UserFrame(c[i]) \in Frames(labels)
  BY ElementOfSeq DEF UserFrame, Frames
<1> QED
  BY <1>1, <1>2, IsASeq DEF FramesOf

(* A call adds a frame.                                                    *)
LEMMA FramesAppend ==
  ASSUME NEW c \in Seq(Functions), NEW f \in Functions
  PROVE  FramesOf(Append(c, f)) = Append(FramesOf(c), UserFrame(f))
<1> DEFINE S == {UserFrame(g) : g \in Functions}
<1>1. /\ Append(c, f) \in Seq(Functions)
      /\ DOMAIN Append(c, f) = 1..(Len(c) + 1)
      /\ Append(c, f)[Len(c) + 1] = f
      /\ \A i \in 1..Len(c) : Append(c, f)[i] = c[i]
      /\ Len(c) \in Nat /\ DOMAIN c = 1..Len(c)
  BY AppendProperties, LenProperties
<1>2. FramesOf(c) \in Seq(S) /\ Len(FramesOf(c)) = Len(c)
  BY <1>1, IsASeq, ElementOfSeq DEF FramesOf
<1>3. FramesOf(Append(c, f)) \in Seq(S)
  BY <1>1, IsASeq, ElementOfSeq DEF FramesOf
<1>4. Len(FramesOf(Append(c, f))) = Len(c) + 1
  BY <1>1 DEF FramesOf
<1>5. Append(FramesOf(c), UserFrame(f)) \in Seq(S)
  BY <1>2, AppendProperties
<1>6. \A i \in 1..(Len(c) + 1) :
        FramesOf(Append(c, f))[i] = Append(FramesOf(c), UserFrame(f))[i]
  <2> SUFFICES ASSUME NEW i \in 1..(Len(c) + 1)
               PROVE  FramesOf(Append(c, f))[i]
                        = Append(FramesOf(c), UserFrame(f))[i]
    OBVIOUS
  <2>1. FramesOf(Append(c, f))[i] = UserFrame(Append(c, f)[i])
    BY <1>1 DEF FramesOf
  <2>2. /\ Append(FramesOf(c), UserFrame(f))[Len(c) + 1] = UserFrame(f)
        /\ \A j \in 1..Len(c) : Append(FramesOf(c), UserFrame(f))[j]
                                   = FramesOf(c)[j]
    BY <1>2, UserFrame(f) \in S, AppendProperties
  <2>3. \A j \in 1..Len(c) : FramesOf(c)[j] = UserFrame(c[j])
    BY <1>1 DEF FramesOf
  <2>4. CASE i = Len(c) + 1
    <3>1. FramesOf(Append(c, f))[i] = UserFrame(f)
      BY <1>1, <2>1, <2>4
    <3> QED
      BY <2>2, <2>4, <3>1
  <2>5. CASE i \in 1..Len(c)
    <3>1. FramesOf(Append(c, f))[i] = UserFrame(c[i])
      BY <1>1, <2>1, <2>5
    <3> QED
      BY <2>2, <2>3, <2>5, <3>1
  <2>6. i = Len(c) + 1 \/ i \in 1..Len(c)
    <3>1. Len(c) \in Nat
      BY <1>1
    <3> QED
      BY <3>1
  <2> QED
    BY <2>4, <2>5, <2>6
<1>7. Len(Append(FramesOf(c), UserFrame(f))) = Len(c) + 1
  BY <1>2, AppendProperties
<1> QED
  BY <1>3, <1>4, <1>5, <1>6, <1>7, SeqEqual

(* The stack of a thread that is in user code, over some frames.           *)
LEMMA StackAppend ==
  ASSUME NEW labels, NEW base \in Seq(Frames(labels)),
         NEW c \in Seq(Functions), NEW f \in Functions
  PROVE  /\ base \o FramesOf(Append(c, f))
              = Append(base \o FramesOf(c), UserFrame(f))
         /\ base \o FramesOf(c) \in Seq(Frames(labels))
         /\ UserFrame(f) \in Frames(labels)
<1>1. UserFrame(f) \in Frames(labels)
  BY DEF UserFrame, Frames
<1>2. FramesOf(c) \in Seq(Frames(labels))
  BY FramesType
<1>3. base \o Append(FramesOf(c), UserFrame(f))
        = Append(base \o FramesOf(c), UserFrame(f))
  BY <1>1, <1>2, ConcatAppend
<1>4. base \o FramesOf(c) \in Seq(Frames(labels))
  BY <1>2, ConcatProperties
<1> QED
  BY <1>1, <1>3, <1>4, FramesAppend

-------------------------------------------------------------------------------
(* The machine                                                             *)

(* The top of a stack, for the stack pointer of a thread on it.            *)
Top(s) == Pointer(s, Len(mem[s]))

(* The types of what a push and a pop are about.                           *)
StacksOK(labels) ==
  /\ mem \in [Stacks -> Seq(Frames(labels))]
  /\ sp \in [Runners -> Pointers \ {Null}]
  /\ calls \in [Stacks -> Seq(Functions)]

(* A stack pointer is a stack and a depth.                                 *)
LEMMA PointerFields ==
  ASSUME NEW s, NEW n
  PROVE  /\ Pointer(s, n).stack = s
         /\ Pointer(s, n).depth = n
         /\ \A t, m : Pointer(s, n) = Pointer(t, m) <=> s = t /\ n = m
  BY DEF Pointer

(* The top of a stack is a stack pointer.                                  *)
LEMMA TopIsPointer ==
  ASSUME NEW S, NEW m \in Seq(S), NEW s \in Stacks
  PROVE  /\ Pointer(s, Len(m)) \in Pointers \ {Null}
         /\ Pointer(s, Len(m)) # Null
<1>1. Len(m) \in Nat
  BY LenProperties
<1>2. s # None
  BY Distinct DEF Stacks
<1> QED
  BY <1>1, <1>2 DEF Pointers, Pointer, Null

(* A call, and a push of slp_switch and jump_fcontext.                     *)
LEMMA PushOnTop ==
  ASSUME NEW labels, StacksOK(labels),
         NEW r \in Runners, NEW s \in Stacks, sp[r] = Top(s),
         NEW frame \in Frames(labels), NEW label, Push(r, frame, label)
  PROVE  /\ mem' = [mem EXCEPT ![s] = Append(mem[s], frame)]
         /\ mem' \in [Stacks -> Seq(Frames(labels))]
         /\ sp' = [sp EXCEPT ![r] = Pointer(s, Len(mem'[s]))]
         /\ sp' \in [Runners -> Pointers \ {Null}]
         /\ pc' = [pc EXCEPT ![r] = label]
<1> USE DEF StacksOK
<1>1. /\ sp[r].stack = s /\ sp[r].depth = Len(mem[s])
      /\ sp[r] = [stack |-> s, depth |-> Len(mem[s])]
  BY DEF Top, Pointer
<1>2. /\ Append(SubSeq(mem[s], 1, Len(mem[s])), frame) = Append(mem[s], frame)
      /\ Append(mem[s], frame) \in Seq(Frames(labels))
      /\ Len(Append(mem[s], frame)) = Len(mem[s]) + 1
  BY TopOfStack
<1>3. mem' = [mem EXCEPT ![s] = Append(mem[s], frame)]
  BY <1>1, <1>2 DEF Push, Pushed
<1>4. /\ mem' \in [Stacks -> Seq(Frames(labels))]
      /\ mem'[s] = Append(mem[s], frame)
  BY <1>2, <1>3
<1>5. Pointer(s, Len(mem'[s])) = [stack |-> s, depth |-> Len(mem[s]) + 1]
  BY <1>2, <1>4 DEF Top, Pointer
<1>6. [sp[r] EXCEPT !.depth = @ + 1] = [stack |-> s, depth |-> Len(mem[s]) + 1]
  BY <1>1
<1>7. sp' = [sp EXCEPT ![r] = [sp[r] EXCEPT !.depth = @ + 1]]
  BY DEF Push
<1>8. sp' = [sp EXCEPT ![r] = Pointer(s, Len(mem'[s]))]
  BY <1>5, <1>6, <1>7
<1>9. Pointer(s, Len(mem'[s])) \in Pointers \ {Null}
  BY <1>4, TopIsPointer DEF Top
<1> QED
  BY <1>3, <1>4, <1>8, <1>9 DEF Push, Goto

(* A return.                                                               *)
LEMMA PopFromTop ==
  ASSUME NEW labels, StacksOK(labels),
         NEW r \in Runners, NEW s \in Stacks, sp[r] = Top(s),
         NEW m \in Seq(Frames(labels)), NEW frame \in Frames(labels),
         mem[s] = Append(m, frame), Pop(r)
  PROVE  /\ mem' = [mem EXCEPT ![s] = m]
         /\ mem' \in [Stacks -> Seq(Frames(labels))]
         /\ sp' = [sp EXCEPT ![r] = Pointer(s, Len(mem'[s]))]
         /\ sp' \in [Runners -> Pointers \ {Null}]
         /\ pc' = [pc EXCEPT ![r] = frame.to]
         /\ SavedH(r) = frame.h
<1> USE DEF StacksOK
<1>1. /\ sp[r].stack = s /\ sp[r].depth = Len(mem[s])
      /\ sp[r] = [stack |-> s, depth |-> Len(mem[s])]
  BY DEF Top, Pointer
<1>2. /\ Len(m) \in Nat /\ Len(mem[s]) = Len(m) + 1
      /\ mem[s][Len(mem[s])] = frame
      /\ Popped(mem[s], Len(mem[s])) = m
  BY TopOfStack
<1>3. /\ mem' = [mem EXCEPT ![s] = m]
      /\ pc' = [pc EXCEPT ![r] = frame.to]
  BY <1>1, <1>2 DEF Pop, Goto
<1>4. mem' \in [Stacks -> Seq(Frames(labels))] /\ mem'[s] = m
  BY <1>3
<1>5. Pointer(s, Len(mem'[s])) = [stack |-> s, depth |-> Len(m)]
  BY <1>4 DEF Top, Pointer
<1>6. sp' = [sp EXCEPT ![r] = [sp[r] EXCEPT !.depth = Len(m)]]
  BY <1>1, <1>2 DEF Pop
<1>7. [sp[r] EXCEPT !.depth = Len(m)] = [stack |-> s, depth |-> Len(m)]
  BY <1>1
<1>8. sp' = [sp EXCEPT ![r] = Pointer(s, Len(mem'[s]))]
  BY <1>5, <1>6, <1>7
<1>9. Pointer(s, Len(mem'[s])) \in Pointers \ {Null}
  BY <1>4, TopIsPointer DEF Top
<1>10. SavedH(r) = frame.h
  BY <1>1, <1>2 DEF SavedH
<1> QED
  BY <1>3, <1>4, <1>8, <1>9, <1>10

(* What a call and a return of user code have in common: thread r stays in *)
(* user code at the top of stack s, and the stack follows the functions    *)
(* that have been called, over the frames in base.                         *)
UserMove(labels, r, s, base) ==
  /\ \A q \in Stacks \ {s} : calls'[q] = calls[q]
  /\ calls' \in [Stacks -> Seq(Functions)]
  /\ mem' = [mem EXCEPT ![s] = base \o FramesOf(calls'[s])]
  /\ mem' \in [Stacks -> Seq(Frames(labels))]
  /\ sp' = [sp EXCEPT ![r] = Pointer(s, Len(mem'[s]))]
  /\ sp' \in [Runners -> Pointers \ {Null}]
  /\ pc[r] = "user"
  /\ pc' = [pc EXCEPT ![r] = "user"]
  /\ UNCHANGED <<handleVars, current, h, seg, runs>>

(* A call of a function in user code puts its frame on top of those of     *)
(* user code,                                                              *)
LEMMA CallKeepsStack ==
  ASSUME NEW labels, StacksOK(labels),
         NEW r \in Runners, NEW s \in Stacks, sp[r] = Top(s),
         NEW base \in Seq(Frames(labels)),
         mem[s] = base \o UserFrames(s),
         NEW f \in Functions, Call(r, f)
  PROVE  UserMove(labels, r, s, base)
<1>1. sp[r].stack = s
  BY DEF Top, Pointer
<1>2. /\ Push(r, UserFrame(f), "user")
      /\ calls' = [calls EXCEPT ![s] = Append(calls[s], f)]
      /\ pc[r] = "user"
  BY <1>1 DEF Call, UserFrame
<1>3. calls[s] \in Seq(Functions) /\ Append(calls[s], f) \in Seq(Functions)
  BY AppendProperties DEF StacksOK
<1>4. calls' \in [Stacks -> Seq(Functions)] /\ calls'[s] = Append(calls[s], f)
  BY <1>2, <1>3 DEF StacksOK
<1>5. /\ base \o FramesOf(Append(calls[s], f))
           = Append(base \o FramesOf(calls[s]), UserFrame(f))
      /\ UserFrame(f) \in Frames(labels)
  BY <1>3, StackAppend
<1>6. base \o FramesOf(calls'[s]) = Append(mem[s], UserFrame(f))
  BY <1>4, <1>5, UserFramesOf
<1>7. /\ mem' = [mem EXCEPT ![s] = Append(mem[s], UserFrame(f))]
      /\ mem' \in [Stacks -> Seq(Frames(labels))]
      /\ sp' = [sp EXCEPT ![r] = Pointer(s, Len(mem'[s]))]
      /\ sp' \in [Runners -> Pointers \ {Null}]
      /\ pc' = [pc EXCEPT ![r] = "user"]
  <2>1. Push(r, UserFrame(f), "user")
    BY <1>2
  <2>2. UserFrame(f) \in Frames(labels)
    BY <1>5
  <2> QED
    BY <2>1, <2>2, PushOnTop
<1>8. \A q \in Stacks \ {s} : calls'[q] = calls[q]
  BY <1>2
<1>9. UNCHANGED <<handleVars, current, h, seg, runs>>
  BY DEF Call
<1> QED
  BY <1>2, <1>4, <1>6, <1>7, <1>8, <1>9 DEF UserMove

(* and its return takes it off and finds the place it was called from.     *)
LEMMA ReturnKeepsStack ==
  ASSUME NEW labels, StacksOK(labels),
         NEW r \in Runners, NEW s \in Stacks, sp[r] = Top(s),
         NEW base \in Seq(Frames(labels)),
         mem[s] = base \o UserFrames(s),
         Return(r)
  PROVE  UserMove(labels, r, s, base)
<1>1. sp[r].stack = s
  BY DEF Top, Pointer
<1>2. /\ Pop(r) /\ calls[s] # <<>> /\ pc[r] = "user"
      /\ calls' = [calls EXCEPT ![s] = SubSeq(calls[s], 1, Len(calls[s]) - 1)]
  BY <1>1 DEF Return
<1>3. PICK c \in Seq(Functions), f \in Functions : calls[s] = Append(c, f)
  BY <1>2, SequenceEmptyOrAppend DEF StacksOK
<1>4. SubSeq(calls[s], 1, Len(calls[s]) - 1) = c
  BY <1>3, TopOfStack DEF Popped
<1>5. calls' \in [Stacks -> Seq(Functions)] /\ calls'[s] = c
  BY <1>2, <1>3, <1>4 DEF StacksOK
<1>7. /\ base \o FramesOf(Append(c, f))
           = Append(base \o FramesOf(c), UserFrame(f))
      /\ base \o FramesOf(c) \in Seq(Frames(labels))
      /\ UserFrame(f) \in Frames(labels)
  BY StackAppend
<1>8. mem[s] = Append(base \o FramesOf(c), UserFrame(f))
  BY <1>3, <1>7, UserFramesOf
<1>9. UserFrame(f).to = "user"
  BY DEF UserFrame
<1>10. /\ mem' = [mem EXCEPT ![s] = base \o FramesOf(c)]
       /\ mem' \in [Stacks -> Seq(Frames(labels))]
       /\ sp' = [sp EXCEPT ![r] = Pointer(s, Len(mem'[s]))]
       /\ sp' \in [Runners -> Pointers \ {Null}]
       /\ pc' = [pc EXCEPT ![r] = UserFrame(f).to]
  <2> DEFINE m == base \o FramesOf(c)
  <2> HIDE DEF m
  <2>1. mem[s] = Append(m, UserFrame(f))
    BY <1>8 DEF m
  <2>2. m \in Seq(Frames(labels)) /\ UserFrame(f) \in Frames(labels)
    BY <1>7 DEF m
  <2>3. Pop(r)
    BY <1>2
  <2>4. /\ mem' = [mem EXCEPT ![s] = m]
        /\ mem' \in [Stacks -> Seq(Frames(labels))]
        /\ sp' = [sp EXCEPT ![r] = Pointer(s, Len(mem'[s]))]
        /\ sp' \in [Runners -> Pointers \ {Null}]
        /\ pc' = [pc EXCEPT ![r] = UserFrame(f).to]
    BY <2>1, <2>2, <2>3, PopFromTop
  <2> QED
    BY <2>4 DEF m
<1>11. \A q \in Stacks \ {s} : calls'[q] = calls[q]
  BY <1>2
<1>12. UNCHANGED <<handleVars, current, h, seg, runs>>
  BY DEF Return
<1> QED
  BY <1>2, <1>5, <1>9, <1>10, <1>11, <1>12 DEF UserMove

-------------------------------------------------------------------------------
(* Coroutines itself, which both backends implement: what an application   *)
(* that knows only the promise may rely on.  Its other variable is seg.    *)
VARIABLES status, active

Promised == INSTANCE Coroutines

(* Both halves of OneRunner are needed together: a thread ends only the    *)
(* segment that it began, because no other thread is inside of it.         *)
PromisedInv == Promised!TypeOK /\ Promised!OneRunner

(* The promise is kept by every call and by the end of every segment.      *)
LEMMA PromisedInvPreserved ==
  ASSUME PromisedInv, [Promised!Next]_Promised!vars
  PROVE  PromisedInv'
<1> USE Distinct
    DEF PromisedInv, Promised!TypeOK, Promised!OneRunner, Promised!Status
<1>1. ASSUME NEW k \in Koros, Promised!Create(k) PROVE PromisedInv'
  BY <1>1 DEF Promised!Create
<1>2. ASSUME NEW r \in Runners, NEW k \in Koros, Promised!Resume(r, k)
      PROVE  PromisedInv'
  <2>1. \A q \in Runners : active[q] # k
    BY <1>2 DEF Promised!Resume
  <2> QED BY <1>2, <2>1 DEF Promised!Resume
<1>3. ASSUME NEW r \in Runners, Promised!Suspend(r) \/ Promised!Finish(r)
      PROVE  PromisedInv'
  <2>1. PICK outcome \in {"suspended", "finished"} :
          Promised!EndSegment(r, outcome)
    BY <1>3 DEF Promised!Suspend, Promised!Finish
  <2>2. \A q \in Runners \ {r} : active[q] # active[r]
    BY <2>1 DEF Promised!EndSegment
  <2> QED BY <2>1, <2>2 DEF Promised!EndSegment
<1>4. CASE UNCHANGED Promised!vars
  BY <1>4 DEF Promised!vars
<1> QED BY <1>1, <1>2, <1>3, <1>4 DEF Promised!Next

(* A coroutine that is under way is so in exactly one application thread,  *)
(* and every thread inside koro_run is inside of a coroutine under way:    *)
(* what koro_run, koro_yield and _koro_set_current arrange together.       *)
THEOREM OneRunnerHolds ==
  Promised!Spec => [](Promised!TypeOK /\ Promised!OneRunner)
<1>1. Promised!Init => PromisedInv
  BY Distinct DEF Promised!Init, PromisedInv, Promised!TypeOK,
     Promised!OneRunner, Promised!Status
<1>2. PromisedInv /\ [Promised!Next]_Promised!vars => PromisedInv'
  BY PromisedInvPreserved
<1>3. PromisedInv => Promised!TypeOK /\ Promised!OneRunner
  BY DEF PromisedInv
<1> QED BY <1>1, <1>2, <1>3, PTL DEF Promised!Spec

===============================================================================
