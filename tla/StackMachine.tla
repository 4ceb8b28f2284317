----------------------------- MODULE StackMachine -----------------------------
(***************************************************************************)
(* libkorutin.c and scheduling.c over a backend that switches stacks       *)
(* (backends/switch, backends/context), and the machine they run on: what  *)
(* the two backends have in common.                                        *)
(*                                                                         *)
(* Every coroutine runs on the stack memory given to koro_init; a thread   *)
(* of the application runs on its own stack and, inside koro_run, on that  *)
(* of the coroutine.  A stack is the sequence of its frames, a stack       *)
(* pointer a stack and a depth.  What lies beyond the stack pointer in use *)
(* is lost with the next push.  That a stack is large enough is assumed.   *)
(***************************************************************************)
EXTENDS Naturals, Sequences

CONSTANTS
  Koros,      \* the koro_t handles, and the stacks given to koro_init
  Runners,    \* the application's threads, and their stacks
  None,       \* NULL
  Functions,  \* functions of user code that call each other
  MaxSegs,    \* bound: segments of a body between koro_init and its return
  MaxCalls    \* bound: nested calls of user functions on one stack

ASSUME Distinct ==
  /\ None \notin Koros \union Runners
  /\ Koros \intersect Runners = {}
ASSUME Bounds == MaxSegs \in Nat \ {0} /\ MaxCalls \in Nat

Stacks == Koros \union Runners

(* A stack pointer: so many frames on that stack.  The null pointer is a   *)
(* pointer into no stack.                                                  *)
Pointer(s, n) == [stack |-> s, depth |-> n]
Null == Pointer(None, 0)
Pointers == {Null} \union [stack : Stacks, depth : Nat]

VARIABLES
  \* the koro_t handles
  magic,     \* h->magic = koro_magic: koro_init has completed once
  finished,  \* h->finished
  a, b,      \* h->a and h->b: stack pointers that the backend keeps
  \* scheduling.c
  current,   \* `current` of each thread
  \* the machine, for each thread
  pc,        \* where it is: in user code, the library or the backend
  h,         \* the `h` of the library call it is executing
  sp,        \* its stack pointer
  mem,       \* the frames on each stack
  \* user code
  calls,     \* the functions called on each stack that have not returned
  seg,       \* segments that the body has begun: benchmark.c's ctx[i].i
  runs       \* koro_run calls that found it unfinished: benchmark.c's round

handleVars  == <<magic, finished, a, b>>
userVars    == <<calls, seg, runs>>
machineVars == <<handleVars, current, pc, h, sp, mem, userVars>>

(* The places where the part of the library that is not a backend can be.  *)
KoroPcs == {"user", "run", "run_exit", "yield_exit"}

(* A frame: the code that its return address leads to, and the `h` that is *)
(* saved there (for a function of user code, the function).                *)
Frames(labels) == [to : {"user"}, h : Functions]
                    \union [to : labels, h : Koros \union {None}]

(* The types, for the places and return addresses of a backend.            *)
MachineTypeOK(pcs, labels) ==
  /\ magic \in [Koros -> BOOLEAN]
  /\ finished \in [Koros -> BOOLEAN]
  /\ a \in [Koros -> Pointers]
  /\ b \in [Koros -> Pointers]
  /\ current \in [Runners -> Koros \union {None}]
  /\ pc \in [Runners -> KoroPcs \union pcs]
  /\ h \in [Runners -> Koros \union {None}]
  /\ sp \in [Runners -> Pointers \ {Null}]
  /\ mem \in [Stacks -> Seq(Frames(labels))]
  /\ calls \in [Stacks -> Seq(Functions)]
  /\ seg \in [Koros -> Nat]
  /\ runs \in [Koros -> Nat]

MachineInit ==
  /\ magic = [k \in Koros |-> FALSE]
  /\ finished = [k \in Koros |-> FALSE]
  /\ a = [k \in Koros |-> Null]
  /\ b = [k \in Koros |-> Null]
  /\ current = [r \in Runners |-> None]
  /\ pc = [r \in Runners |-> "user"]
  /\ h = [r \in Runners |-> None]
  /\ sp = [r \in Runners |-> Pointer(r, 0)]
  /\ mem = [s \in Stacks |-> <<>>]
  /\ calls = [s \in Stacks |-> <<>>]
  /\ seg = [k \in Koros |-> 0]
  /\ runs = [k \in Koros |-> 0]

Goto(r, label) == pc' = [pc EXCEPT ![r] = label]

(* The stacks after thread r has pushed a frame, and a stack after a pop.  *)
Pushed(r, frame) ==
  [mem EXCEPT ![sp[r].stack] = Append(SubSeq(@, 1, sp[r].depth), frame)]

Popped(stack, n) == SubSeq(stack, 1, n - 1)

(* call: push a frame and go on at label.                                  *)
Push(r, frame, label) ==
  /\ mem' = Pushed(r, frame)
  /\ sp' = [sp EXCEPT ![r].depth = @ + 1]
  /\ Goto(r, label)

(* ret: go on where the frame says.                                        *)
Pop(r) ==
  LET s == sp[r].stack
      n == sp[r].depth IN
  /\ n \in DOMAIN mem[s]
  /\ mem' = [mem EXCEPT ![s] = Popped(@, n)]
  /\ sp' = [sp EXCEPT ![r].depth = n - 1]
  /\ Goto(r, mem[s][n].to)

(* The `h` that is saved in the topmost frame.                             *)
SavedH(r) == mem[sp[r].stack][sp[r].depth].h

(* No thread is inside a koro_run of the coroutine.  A handle is not given *)
(* to two threads at once; one after the other may use it.                 *)
Idle(k) == \A r \in Runners : current[r] # k

-------------------------------------------------------------------------------
(* User code, of the application or of a body, on whatever stack.          *)

(* It calls a function of its own.                                         *)
Call(r, f) ==
  /\ pc[r] = "user"
  /\ Len(calls[sp[r].stack]) < MaxCalls
  /\ Push(r, [to |-> "user", h |-> f], "user")
  /\ calls' = [calls EXCEPT ![sp[r].stack] = Append(@, f)]
  /\ UNCHANGED <<handleVars, current, h, seg, runs>>

(* It returns from such a function.                                        *)
Return(r) ==
  /\ pc[r] = "user"
  /\ calls[sp[r].stack] # <<>>
  /\ Pop(r)
  /\ calls' = [calls EXCEPT ![sp[r].stack] = SubSeq(@, 1, Len(@) - 1)]
  /\ UNCHANGED <<handleVars, current, h, seg, runs>>

(* It returns from the function that koro_init was given.                  *)
BodyReturn(r) ==
  /\ pc[r] = "user"
  /\ calls[sp[r].stack] = <<>>
  /\ sp[r].depth > 0
  /\ Pop(r)
  /\ h' = [h EXCEPT ![r] = SavedH(r)]
  /\ UNCHANGED <<handleVars, current, userVars>>

-------------------------------------------------------------------------------
(* libkorutin.c                                                            *)

(* Variant: koro_init leaves `finished` of the coroutine before.           *)
InitHandle_KeepsFinished(r, k) ==
  /\ pc[r] = "user"
  /\ Idle(k)
  /\ magic' = [magic EXCEPT ![k] = TRUE]
  /\ calls' = [calls EXCEPT ![k] = <<>>]
  /\ seg' = [seg EXCEPT ![k] = 0]
  /\ runs' = [runs EXCEPT ![k] = 0]
  /\ UNCHANGED <<finished, current, pc, h, sp>>

(* koro_init, but for what _koro_backend_init does to a, b and the stack.  *)
(* (The watermark has been written all over the stack memory before.)      *)
InitHandle(r, k) ==
  /\ pc[r] = "user"
  /\ Idle(k)
  /\ finished' = [finished EXCEPT ![k] = FALSE]
  /\ magic' = [magic EXCEPT ![k] = TRUE]
  /\ calls' = [calls EXCEPT ![k] = <<>>]
  /\ seg' = [seg EXCEPT ![k] = 0]
  /\ runs' = [runs EXCEPT ![k] = 0]
  /\ UNCHANGED <<current, pc, h, sp>>

(* Variant: koro_run does not make the coroutine the current one.          *)
RunCall_NotCurrent(r, k) ==
  /\ pc[r] = "user"
  /\ magic[k]
  /\ current[r] = None
  /\ Idle(k)
  /\ h' = [h EXCEPT ![r] = k]
  /\ Goto(r, "run")
  /\ UNCHANGED <<handleVars, current, sp, mem, userVars>>

(* koro_run returns at once when a coroutine is current.                   *)
RunCall(r, k) ==
  /\ pc[r] = "user"
  /\ magic[k]
  /\ current[r] = None
  /\ Idle(k)
  /\ current' = [current EXCEPT ![r] = k]
  /\ h' = [h EXCEPT ![r] = k]
  /\ Goto(r, "run")
  /\ UNCHANGED <<handleVars, sp, mem, userVars>>

(* _koro_run of a finished coroutine returns at once.                      *)
RunFinished(r) ==
  /\ pc[r] = "run"
  /\ finished[h[r]]
  /\ Goto(r, "run_exit")
  /\ UNCHANGED <<handleVars, current, h, sp, mem, userVars>>

RunExit(r) ==
  /\ pc[r] = "run_exit"
  /\ current' = [current EXCEPT ![r] = None]
  /\ Goto(r, "user")
  /\ UNCHANGED <<handleVars, h, sp, mem, userVars>>

(* koro_yield calls _koro_yield for the current coroutine; without one it  *)
(* returns at once.                                                        *)
MayYield(r) ==
  /\ pc[r] = "user"
  /\ current[r] # None
  /\ seg[current[r]] < MaxSegs

(* koro_yield returns into the body, which begins its next segment.        *)
YieldExit(r) ==
  /\ pc[r] = "yield_exit"
  /\ seg' = [seg EXCEPT ![h[r]] = @ + 1]
  /\ Goto(r, "user")
  /\ UNCHANGED <<handleVars, current, h, sp, mem, calls, runs>>

-------------------------------------------------------------------------------
(* Properties that the backends share                                      *)

(* The frames of user code on a stack, above that of _init_run.            *)
UserFrames(s) == [i \in DOMAIN calls[s] |-> [to |-> "user", h |-> calls[s][i]]]

(* User code finds the stack it left, on the stack where it was: a yield   *)
(* from nested functions (test_co3 of examples/test.c) returns into those  *)
(* functions, and koro_run into the functions of the application.  Below   *)
(* the frames of a body are those that the backend put there: base.        *)
UserStacksIntact(base) ==
  \A r \in Runners :
    LET s == IF current[r] = None THEN r ELSE current[r] IN
    pc[r] = "user" =>
      /\ sp[r] = Pointer(s, Len(mem[s]))
      /\ mem[s] = IF s = r THEN UserFrames(s) ELSE base[s] \o UserFrames(s)

(* No two threads are ever on the same stack.                              *)
StacksApart ==
  \A r, q \in Runners : sp[r].stack = sp[q].stack => r = q

(* examples/benchmark.c, "check that all coroutines executed equal         *)
(* amount": a body never gets ahead of the koro_run calls made on it, and  *)
(* has executed one segment for each of them when none is under way.       *)
WorkEqualsRuns ==
  \A k \in Koros :
    /\ seg[k] <= runs[k]
    /\ Idle(k) => seg[k] = runs[k]

===============================================================================
