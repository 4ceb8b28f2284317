------------------------------ MODULE TinyThreads ------------------------------
(***************************************************************************)
(* tinycthread.c on Windows: threads, call_once and thread-specific        *)
(* storage (tss_t), the way they are meant to be used together.            *)
(*                                                                         *)
(* The application creates threads.  Each begins with a call_once whose    *)
(* callback creates the keys, then it sets values and deletes keys, and    *)
(* ends, by returning from its function or by thrd_exit.  Its values are   *)
(* then given to the destructors, which may set new ones, and delete keys  *)
(* too.                                                                    *)
(*                                                                         *)
(* The value of a key is in a node that tss_set allocates; the nodes of a  *)
(* thread form a list, for the destructors.  A node is named by its key:   *)
(* the keys of a run are all different.  A pointer to a node that is freed *)
(* is Dangling; what follows from its use is undefined, and the system     *)
(* ends there.                                                             *)
(***************************************************************************)
EXTENDS Naturals

CONSTANTS
  Threads,
  Keys,       \* indices that TlsAlloc returns
  Vals,       \* values other than NULL
  None,       \* NULL, nobody
  Dangling,   \* what points to a freed node
  Iterations  \* TSS_DTOR_ITERATIONS

ASSUME TinyAssumption ==
  /\ None \notin Threads \union Keys \union Vals
  /\ Dangling \notin Keys \union {None}
  /\ Iterations \in Nat \ {0}

VARIABLES
  \* once_flag
  status, lock,    \* status, and the owner of the critical section
  calls,           \* how many times the callback has been called
  \* the keys
  keys, dtors,     \* those that exist; those in _tinycthread_tss_dtors
  \* each thread
  pc,
  head, tail,      \* _tinycthread_tss_head and _tinycthread_tss_tail
  next, value,     \* the nodes: next and value
  live,            \* the nodes that are allocated
  mine,            \* values it has set that no destructor is given
  data,            \* _tinycthread_tss_cleanup: the node it is at,
  iteration,       \*   the iteration of its loop, from 1,
  again,           \*   and whether it needs another
  fault,           \* a freed node, or NULL, has been used
  unhandled        \* history: there was a call that tss_delete or tss_set
                   \* has no provision for

onceVars == <<status, lock, calls>>
keyVars  == <<keys, dtors>>
listVars == <<head, tail, next, value, live, mine>>
loopVars == <<data, iteration, again>>
badVars  == <<fault, unhandled>>
vars     == <<onceVars, keyVars, pc, listVars, loopVars, badVars>>

OnceSteps ==
  {"once", "cas", "init", "func", "func_done", "leave", "enter", "left"}

(* call_once has returned.                                                 *)
PastOnce == {"user", "cleanup", "call", "dtor", "free", "done"}

(* The places of a node pointer.                                           *)
Pointers == Keys \union {None, Dangling}

TypeOK ==
  /\ status \in 0..3 /\ calls \in Nat
  /\ lock \in Threads \union {None}
  /\ keys \subseteq Keys /\ dtors \subseteq keys
  /\ pc \in [Threads -> {"none", "start"} \union OnceSteps \union PastOnce]
  /\ head \in [Threads -> Pointers] /\ tail \in [Threads -> Pointers]
  /\ next \in [Threads -> [Keys -> Pointers]]
  /\ value \in [Threads -> [Keys -> Vals \union {None}]]
  /\ live \in [Threads -> SUBSET Keys]
  /\ mine \in [Threads -> [Keys -> Vals \union {None}]]
  /\ data \in [Threads -> Pointers]
  /\ iteration \in [Threads -> 0..Iterations]
  /\ again \in [Threads -> BOOLEAN]
  /\ fault \in BOOLEAN /\ unhandled \in BOOLEAN

Nothing == [k \in Keys |-> None]

Init ==
  /\ status = 0 /\ lock = None /\ calls = 0
  /\ keys = {} /\ dtors = {}
  /\ pc = [t \in Threads |-> "none"]
  /\ head = [t \in Threads |-> None] /\ tail = head
  /\ next = [t \in Threads |-> Nothing] /\ value = next /\ mine = next
  /\ live = [t \in Threads |-> {}]
  /\ data = [t \in Threads |-> None]
  /\ iteration = [t \in Threads |-> 0]
  /\ again = [t \in Threads |-> FALSE]
  /\ fault = FALSE /\ unhandled = FALSE

Step(t, from, to) == pc[t] = from /\ pc' = [pc EXCEPT ![t] = to]

-------------------------------------------------------------------------------
(* Threads                                                                 *)

(* thrd_create; when it fails, everything is as before.                    *)
Create(t) ==
  /\ Step(t, "none", "start")
  /\ UNCHANGED <<onceVars, keyVars, listVars, loopVars, badVars>>

(* _thrd_wrapper_function, up to the call of the thread's function.        *)
Start(t) ==
  /\ Step(t, "start", "once")
  /\ UNCHANGED <<onceVars, keyVars, listVars, loopVars, badVars>>

-------------------------------------------------------------------------------
(* call_once.  A thread that reads status 1 reads it again.                *)

notOnce == <<keyVars, listVars, loopVars, badVars>>

OnceRead(t) ==
  /\ \/ status = 0 /\ Step(t, "once", "cas")
     \/ status = 2 /\ Step(t, "once", "enter")
     \/ status = 3 /\ Step(t, "once", "user")
  /\ UNCHANGED <<onceVars, notOnce>>

(* Variant: an assignment instead of InterlockedCompareExchange.           *)
OnceCas_Assigns(t) ==
  /\ Step(t, "cas", "init")
  /\ status' = 1
  /\ UNCHANGED <<lock, calls, notOnce>>

OnceCas(t) ==
  /\ \/ status = 0 /\ Step(t, "cas", "init") /\ status' = 1
     \/ status # 0 /\ Step(t, "cas", "once") /\ UNCHANGED status
  /\ UNCHANGED <<lock, calls, notOnce>>

(* The critical section is initialised and entered before anybody can see  *)
(* it.                                                                     *)
OnceInit(t) ==
  /\ Step(t, "init", "func")
  /\ lock' = t
  /\ status' = 2
  /\ calls' = calls + 1
  /\ UNCHANGED notOnce

(* The callback: tss_create of every key, with or without a destructor.    *)
(* Nobody else knows of the keys before.                                   *)
Callback(t) ==
  /\ Step(t, "func", "func_done")
  /\ keys' = Keys
  /\ dtors' \in SUBSET Keys
  /\ UNCHANGED <<onceVars, listVars, loopVars, badVars>>

OnceDone(t) ==
  /\ Step(t, "func_done", "leave")
  /\ status' = 3
  /\ UNCHANGED <<lock, calls, notOnce>>

OnceLeave(t) ==
  /\ Step(t, "leave", "user")
  /\ lock' = None
  /\ UNCHANGED <<status, calls, notOnce>>

(* A thread that finds the callback under way waits on the critical        *)
(* section, leaves it and looks again.                                     *)
OnceWait(t) ==
  /\ lock = None
  /\ Step(t, "enter", "left")
  /\ lock' = t
  /\ UNCHANGED <<status, calls, notOnce>>

OnceWaited(t) ==
  /\ Step(t, "left", "once")
  /\ lock' = None
  /\ UNCHANGED <<status, calls, notOnce>>

OnceStep(t) ==
  \/ OnceRead(t) \/ OnceCas(t) \/ OnceInit(t) \/ Callback(t) \/ OnceDone(t)
  \/ OnceLeave(t) \/ OnceWait(t) \/ OnceWaited(t)

-------------------------------------------------------------------------------
(* Thread-specific storage                                                 *)

(* The thread's function or a destructor is running.                       *)
Running == {"user", "dtor"}

(* What can be reached from the head, with the pointer to a freed node     *)
(* that it may end in.                                                     *)
Chain(t) ==
  LET from[p \in Pointers] ==
        ({p} \ {None}) \union (IF p \in Keys THEN from[next[t][p]] ELSE {})
  IN  from[head[t]]

(* The new node k is hung behind the one that `tail` points to; p is the   *)
(* pointer to it that stays.                                               *)
Link(t, k, p) ==
  /\ tail[t] # Dangling
  /\ next' = [next EXCEPT ![t] = [n \in Keys |->
                IF n = k THEN None ELSE IF n = tail[t] THEN p ELSE @[n]]]
  /\ tail' = [tail EXCEPT ![t] = IF @ = None THEN p ELSE @]
  /\ head' = [head EXCEPT ![t] = IF @ = None THEN p ELSE @]

(* tss_set.  When malloc fails, everything is as before.                   *)
TssSet(t, k, v) ==
  /\ pc[t] \in Running
  /\ k \in keys
  /\ \/ k \in live[t] /\ UNCHANGED <<head, tail, next, live>>
     \/ /\ k \notin live[t] /\ live' = [live EXCEPT ![t] = @ \union {k}]
        /\ Link(t, k, k)
  /\ value' = [value EXCEPT ![t][k] = v]
  /\ mine' = [mine EXCEPT ![t][k] = v]
  /\ UNCHANGED <<onceVars, keyVars, pc, loopVars, badVars>>

(* TlsSetValue fails, and the node is freed where it hangs.                *)
TssSetFails(t, k) ==
  /\ pc[t] \in Running
  /\ k \in keys \ live[t]
  /\ Link(t, k, Dangling)
  /\ unhandled' = TRUE
  /\ UNCHANGED <<onceVars, keyVars, pc, value, live, mine, loopVars,
                 fault>>

(* The node k is freed: what points to it, and the nodes that are left.    *)
Gone(k, p) == IF p = k THEN Dangling ELSE p

Without(k, nodes) ==
  [n \in Keys |-> IF n = k THEN None ELSE Gone(k, nodes[n])]

(* The first node, or the only one there is for tss_delete.                *)
IsFirst(t, k) == head[t] \in {None, k}

(* What tss_delete does not look at: a node behind the first keeps its     *)
(* pointer to k, a loop over the list is at k, or another thread is about  *)
(* to call its destructor.                                                 *)
Unhandled(t, k) ==
  \/ k \in live[t] /\ ~IsFirst(t, k)
  \/ data[t] = k
  \/ \E q \in Threads : pc[q] = "call" /\ data[q] = k

(* tss_delete finds the node, if the caller has one; nodes of other        *)
(* threads stay on their lists.  `last` is what it takes for the last one. *)
Delete(t, k, last) ==
  /\ pc[t] \in Running
  /\ k \in keys
  /\ k \in live[t] => IsFirst(t, k) \/ k \in Chain(t)
  /\ head' = [head EXCEPT ![t] = IF @ = k THEN next[t][k] ELSE @]
  /\ tail' = [tail EXCEPT ![t] = Gone(k, last)]
  /\ next' = [next EXCEPT ![t] = Without(k, @)]
  /\ data' = [data EXCEPT ![t] = Gone(k, @)]
  /\ live' = [live EXCEPT ![t] = @ \ {k}]
  /\ value' = [value EXCEPT ![t][k] = None]
  /\ mine' = [mine EXCEPT ![t][k] = None]
  /\ keys' = keys \ {k}
  /\ dtors' = dtors \ {k}
  /\ unhandled' = (unhandled \/ Unhandled(t, k))
  /\ UNCHANGED <<onceVars, pc, iteration, again, fault>>

(* Variant: the last node is not looked at.                                *)
TssDelete_KeepsTail(t, k) == Delete(t, k, tail[t])

(* prev is the node before, when k is not the first.                       *)
TssDelete(t, k) ==
  LET prev == IF IsFirst(t, k) THEN None
              ELSE CHOOSE n \in Chain(t) \intersect Keys : next[t][n] = k
  IN  Delete(t, k, IF tail[t] = k THEN prev ELSE tail[t])

(* It goes past the end of a list that the node is not on.                 *)
TssDeleteAstray(t, k) ==
  /\ pc[t] \in Running
  /\ k \in keys \intersect live[t]
  /\ ~IsFirst(t, k) /\ k \notin Chain(t)
  /\ fault' = TRUE
  /\ unhandled' = TRUE
  /\ UNCHANGED <<onceVars, keyVars, pc, listVars, loopVars>>

-------------------------------------------------------------------------------
(* The end of a thread                                                     *)

notLoop == <<onceVars, keyVars, badVars>>

(* The function returns, or calls thrd_exit.                               *)
Exit(t) ==
  /\ Step(t, "user", IF head[t] = None THEN "done" ELSE "cleanup")
  /\ data' = [data EXCEPT ![t] = head[t]]
  /\ iteration' = [iteration EXCEPT ![t] = 1]
  /\ UNCHANGED <<again, notLoop, listVars>>

(* A node of the list: its value is taken, and its destructor looked for.  *)
Visit(t) ==
  LET k == data[t] IN
  /\ pc[t] = "cleanup"
  /\ k \in Keys
  /\ value' = [value EXCEPT ![t][k] = None]
  /\ mine' = [mine EXCEPT ![t][k] = None]
  /\ IF value[t][k] # None /\ k \in dtors
     THEN /\ again' = [again EXCEPT ![t] = TRUE]
          /\ pc' = [pc EXCEPT ![t] = "call"]
          /\ UNCHANGED data
     ELSE /\ data' = [data EXCEPT ![t] = next[t][k]]
          /\ UNCHANGED <<pc, again>>
  /\ UNCHANGED <<iteration, head, tail, next, live, notLoop>>

(* The destructor is called; a build may have kept what it has read.       *)
CallDtor(t) ==
  /\ Step(t, "call", "dtor")
  /\ UNCHANGED <<notLoop, listVars, loopVars>>

DtorReturn(t) ==
  /\ data[t] # Dangling
  /\ Step(t, "dtor", "cleanup")
  /\ data' = [data EXCEPT ![t] = next[t][@]]
  /\ UNCHANGED <<iteration, again, notLoop, listVars>>

(* Variant: no second iteration.                                           *)
NextIteration_Never(t) ==
  /\ data[t] = None
  /\ Step(t, "cleanup", "free")
  /\ UNCHANGED <<data, iteration, again, notLoop, listVars>>

(* Variant: the number of iterations has no limit.                         *)
NextIteration_Unlimited(t) ==
  /\ data[t] = None
  /\ IF again[t]
     THEN /\ Step(t, "cleanup", "cleanup")
          /\ data' = [data EXCEPT ![t] = head[t]]
          /\ again' = [again EXCEPT ![t] = FALSE]
     ELSE Step(t, "cleanup", "free") /\ UNCHANGED <<data, again>>
  /\ UNCHANGED <<iteration, notLoop, listVars>>

(* Variant: one iteration too many.                                        *)
NextIteration_OneMore(t) ==
  /\ data[t] = None
  /\ IF again[t] /\ iteration[t] <= Iterations
     THEN /\ Step(t, "cleanup", "cleanup")
          /\ data' = [data EXCEPT ![t] = head[t]]
          /\ iteration' = [iteration EXCEPT ![t] = @ + 1]
          /\ again' = [again EXCEPT ![t] = FALSE]
     ELSE Step(t, "cleanup", "free") /\ UNCHANGED loopVars
  /\ UNCHANGED <<notLoop, listVars>>

(* Destructors have set new values: over the list again.                   *)
NextIteration(t) ==
  /\ data[t] = None
  /\ IF again[t] /\ iteration[t] < Iterations
     THEN /\ Step(t, "cleanup", "cleanup")
          /\ data' = [data EXCEPT ![t] = head[t]]
          /\ iteration' = [iteration EXCEPT ![t] = @ + 1]
          /\ again' = [again EXCEPT ![t] = FALSE]
     ELSE Step(t, "cleanup", "free") /\ UNCHANGED loopVars
  /\ UNCHANGED <<notLoop, listVars>>

(* free, for each node from the head.  What it held is lost.               *)
Free(t) ==
  \/ /\ head[t] = None
     /\ Step(t, "free", "done")
     /\ tail' = [tail EXCEPT ![t] = None]
     /\ UNCHANGED <<head, live, next, value, mine, loopVars, notLoop>>
  \/ /\ head[t] \in Keys
     /\ Step(t, "free", "free")
     /\ head' = [head EXCEPT ![t] = next[t][@]]
     /\ tail' = [tail EXCEPT ![t] = Gone(head[t], @)]
     /\ live' = [live EXCEPT ![t] = @ \ {head[t]}]
     /\ next' = [next EXCEPT ![t] = Without(head[t], @)]
     /\ value' = [value EXCEPT ![t][head[t]] = None]
     /\ UNCHANGED <<mine, loopVars, notLoop>>

Cleanup(t) ==
  Visit(t) \/ CallDtor(t) \/ DtorReturn(t) \/ NextIteration(t) \/ Free(t)

(* A freed node is used: by tss_set, which writes its `next`, by the loop, *)
(* or when the list is freed.  Or the destructor to be called is NULL by   *)
(* now.                                                                    *)
Fault(t) ==
  /\ \/ pc[t] \in Running /\ keys \ live[t] # {} /\ tail[t] = Dangling
     \/ pc[t] \in {"cleanup", "dtor"} /\ data[t] = Dangling
     \/ pc[t] = "free" /\ head[t] = Dangling
     \/ pc[t] = "call" /\ data[t] \notin dtors
  /\ fault' = TRUE
  /\ UNCHANGED <<onceVars, keyVars, pc, listVars, loopVars, unhandled>>

-------------------------------------------------------------------------------
Next ==
  /\ ~fault
  /\ \E t \in Threads :
       \/ Create(t) \/ Start(t) \/ OnceStep(t)
       \/ \E k \in Keys :
            \/ \E v \in Vals \union {None} : TssSet(t, k, v)
            \/ TssSetFails(t, k)
            \/ TssDelete(t, k) \/ TssDeleteAstray(t, k)
       \/ Exit(t) \/ Cleanup(t) \/ Fault(t)

Spec == Init /\ [][Next]_vars

(* Every thread runs, a callback, a destructor and a thread's function     *)
(* return at some time, and Windows lets a thread into a critical section  *)
(* that stays free.                                                        *)
Fairness ==
  \A t \in Threads :
    WF_vars(/\ ~fault
            /\ Start(t) \/ OnceStep(t) \/ Exit(t) \/ Cleanup(t) \/ Fault(t))

FairSpec == Spec /\ Fairness

-------------------------------------------------------------------------------
(* Properties                                                              *)

(* call_once: the callback is called once, and has returned when any of    *)
(* the calls does, whichever of them made it.                              *)
OnceExactly ==
  /\ calls <= 1
  /\ \A t \in Threads : pc[t] \in PastOnce =>
       calls = 1 /\ \A q \in Threads : pc[q] # "func"

(* tinycthread.h on tss_create: a destructor "will definitely be called    *)
(* when appropriate".  A thread that has ended has given its destructors   *)
(* every value that it left, but for those that destructors were still     *)
(* setting in the last iteration.  It holds of threads with two keys,      *)
(* whatever they set and delete, and whichever call fails.                 *)
ValuesDestroyed ==
  \A t \in Threads : pc[t] = "done" =>
    \/ \A k \in dtors : mine[t][k] = None
    \/ iteration[t] = Iterations /\ again[t]

(* As long as nobody deletes a key whose node is behind another one, or    *)
(* that a destructor is being called for, and TlsSetValue succeeds: no     *)
(* thread uses a freed node, and no list ends in one, although tss_delete  *)
(* never looks for the last node of the list, and destructors delete keys  *)
(* while the list is gone through.                                         *)
ListSound ==
  ~unhandled => ~fault /\ \A t \in Threads : Dangling \notin Chain(t)

(* A thread that is created ends, which thrd_join waits for: no call_once  *)
(* waits for ever, and no destructor that sets new values keeps a thread   *)
(* from its end.  That is, unless a freed node has been used.              *)
ThreadsEnd == \A t \in Threads : pc[t] = "start" ~> pc[t] = "done" \/ fault

===============================================================================
