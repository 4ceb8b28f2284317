----------------------------- MODULE ThreadsMemory -----------------------------
(***************************************************************************)
(* The handshake of backends/threads/threads_backend.c over store buffers. *)
(*                                                                         *)
(* wait_run and wait_yield are plain variables (sig_atomic_t), as are      *)
(* `finished` and the data of the bodies.  ThreadsBackend takes every      *)
(* access to be seen by all at once.  A processor delays stores: here a    *)
(* store goes to a buffer of its thread, where the thread alone sees it,   *)
(* and to the memory later, the oldest first, as on x86.  The compiler is  *)
(* still taken to keep the accesses in the order of the program.           *)
(*                                                                         *)
(* One coroutine, run by the application of examples/benchmark.c: a round  *)
(* is counted before each koro_run, the segments are counted by the body.  *)
(***************************************************************************)
EXTENDS Naturals, Sequences

CONSTANTS
  MaxRounds  \* bound: the calls of koro_run

VARIABLES
  mem,     \* the memory
  buffer,  \* of each thread: stores that are not in the memory yet
  pc       \* where each thread is

vars == <<mem, buffer, pc>>

Threads == {"app", "worker"}

(* round is that of benchmark(), i that of the body.                       *)
Init ==
  /\ mem = [waitRun |-> FALSE, waitYield |-> FALSE, finished |-> FALSE,
            round |-> 0, i |-> 0]
  /\ buffer = [t \in Threads |-> <<>>]
  /\ pc = [app |-> "user", worker |-> "wy_set"]

(* What thread t reads: the last that it has stored itself, if it is not   *)
(* in the memory yet.                                                      *)
Load(t, x) ==
  LET own == {n \in DOMAIN buffer[t] : buffer[t][n].var = x} IN
  IF own = {} THEN mem[x]
  ELSE buffer[t][CHOOSE n \in own : \A m \in own : m <= n].val

Store(t, x, v) ==
  buffer' = [buffer EXCEPT ![t] = Append(@, [var |-> x, val |-> v])]

Step(t, from, to) ==
  /\ pc[t] = from
  /\ pc' = [pc EXCEPT ![t] = to]
  /\ UNCHANGED mem

(* Variant: ARM, where the stores to different variables become visible in *)
(* any order.                                                              *)
Commit_AnyOrder(t) ==
  /\ \E n \in DOMAIN buffer[t] :
       LET s == buffer[t][n] IN
       /\ \A k \in 1..(n - 1) : buffer[t][k].var # s.var
       /\ mem' = [mem EXCEPT ![s.var] = s.val]
       /\ buffer' = [buffer EXCEPT ![t] = SubSeq(@, 1, n - 1)
                                            \o SubSeq(@, n + 1, Len(@))]
  /\ UNCHANGED pc

Commit(t) ==
  /\ buffer[t] # <<>>
  /\ LET s == Head(buffer[t]) IN mem' = [mem EXCEPT ![s.var] = s.val]
  /\ buffer' = [buffer EXCEPT ![t] = Tail(@)]
  /\ UNCHANGED pc

-------------------------------------------------------------------------------
(* The application: _koro_run                                              *)

(* round++, and koro_run of a coroutine that is not finished.              *)
RunCall ==
  /\ Step("app", "user", "cy_wait")
  /\ ~Load("app", "finished")
  /\ Load("app", "round") < MaxRounds
  /\ Store("app", "round", Load("app", "round") + 1)

ContinueYieldWait ==
  /\ Step("app", "cy_wait", "cy_clear")
  /\ Load("app", "waitYield")
  /\ UNCHANGED buffer

ContinueYieldClear ==
  /\ Step("app", "cy_clear", "wr_set")
  /\ Store("app", "waitYield", FALSE)

WaitForRunSet ==
  /\ Step("app", "wr_set", "wr_wait")
  /\ Store("app", "waitRun", TRUE)

(* Back in the application.                                                *)
WaitForRunWait ==
  /\ Step("app", "wr_wait", "user")
  /\ ~Load("app", "waitRun")
  /\ UNCHANGED buffer

-------------------------------------------------------------------------------
(* The worker: _thread_runner and _koro_yield                              *)

WaitForYieldSet ==
  /\ Step("worker", "wy_set", "wy_wait")
  /\ Store("worker", "waitYield", TRUE)

(* The body goes on.                                                       *)
WaitForYieldWait ==
  /\ Step("worker", "wy_wait", "body")
  /\ ~Load("worker", "waitYield")
  /\ UNCHANGED buffer

(* It counts its segment, and calls koro_yield or returns.                 *)
BodyCount ==
  /\ \E to \in {"cr_wait", "fin_set"} : Step("worker", "body", to)
  /\ Store("worker", "i", Load("worker", "i") + 1)

ContinueRunWait ==
  /\ \/ Step("worker", "cr_wait", "cr_clear")
     \/ Step("worker", "fin_wait", "fin_clear")
  /\ Load("worker", "waitRun")
  /\ UNCHANGED buffer

ContinueRunClear ==
  /\ \/ Step("worker", "cr_clear", "wy_set")
     \/ Step("worker", "fin_clear", "exit")
  /\ Store("worker", "waitRun", FALSE)

FinishedSet ==
  /\ Step("worker", "fin_set", "fin_wait")
  /\ Store("worker", "finished", TRUE)

-------------------------------------------------------------------------------
Next ==
  \/ RunCall \/ ContinueYieldWait \/ ContinueYieldClear \/ WaitForRunSet
  \/ WaitForRunWait
  \/ WaitForYieldSet \/ WaitForYieldWait \/ BodyCount \/ ContinueRunWait
  \/ ContinueRunClear \/ FinishedSet
  \/ \E t \in Threads : Commit(t)

Spec == Init /\ [][Next]_vars

-------------------------------------------------------------------------------
(* Properties                                                              *)

(* The body and the application are never both in user code, and what      *)
(* either has written before it passes the baton the other one reads: the  *)
(* body finds the round that runs it, and back from koro_run the           *)
(* application finds what its check "all coroutines executed equal amount" *)
(* needs (examples/benchmark.c), and h->finished if the body has returned. *)
HandshakeOrders ==
  /\ pc["worker"] = "body" =>
       Load("worker", "round") = Load("worker", "i") + 1
  /\ pc["app"] = "user" =>
       /\ pc["worker"] \notin {"body", "fin_set"}
       /\ Load("app", "i") = Load("app", "round")
       /\ pc["worker"] = "exit" => Load("app", "finished")

===============================================================================
