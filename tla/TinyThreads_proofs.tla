-------------------------- MODULE TinyThreads_proofs --------------------------
(***************************************************************************)
(* call_once and thread-specific values of tinycthread.c on Windows, for   *)
(* any number of threads, keys, values and iterations.                     *)
(*                                                                         *)
(* Whatever keys a thread sets and deletes, its list never has more than   *)
(* two nodes: tss_set hangs each new node on the same one, and tss_delete  *)
(* never finds another last node.  What the threads' ends promise is true  *)
(* of a thread that asks for no third node and does not delete the first   *)
(* of two while there are more keys.                                       *)
(***************************************************************************)
EXTENDS TinyThreads, TLAPS

-------------------------------------------------------------------------------
(* The inductive invariant                                                 *)

Holding == {"func", "func_done", "leave", "left"}
InCall  == {"func", "func_done"}
Called  == {"leave", "left"} \union PastOnce

(* call_once: who is in the critical section, and what each place says of  *)
(* `status`.  The thread that has set it to 1 is alone with the section;   *)
(* until it is 3, that thread is the one that has the lock.                *)
OnceInv ==
  /\ \A t \in Threads : pc[t] \in Holding <=> lock = t
  /\ \A t \in Threads :
       /\ pc[t] = "init" => status = 1
       /\ pc[t] \in InCall => status = 2
       /\ pc[t] \in Called => status = 3
       /\ pc[t] = "enter" => status \in {2, 3}
  /\ \A t, u \in Threads : pc[t] = "init" /\ pc[u] = "init" => t = u
  /\ status = 2 => \E t \in Threads : pc[t] \in InCall
  /\ calls = IF status \in {0, 1} THEN 0 ELSE 1

(* The end of a thread has begun, or is over with its destructors.         *)
Ending == {"cleanup", "call", "dtor", "free", "done"}
Freed  == {"free", "done"}

(* A pointer of the list is to a node, NULL or dangling.  Only one node    *)
(* has a next one, the one that `tail` points to.                          *)
ListInv(t) ==
  /\ head[t] \in live[t] \union {None, Dangling}
  /\ tail[t] \in live[t] \union {None, Dangling}
  /\ \A k \in Keys : next[t][k] # None =>
       /\ k = tail[t] \/ pc[t] = "done"
       /\ \A n \in Keys : next[t][n] # None => n = k
       /\ next[t][k] \in live[t] \union {Dangling} /\ next[t][k] # k
  /\ pc[t] = "done" => head[t] = None

(* What the destructors' loop comes to, when it begins.                    *)
OnList(t) ==
  ({head[t]} \union (IF head[t] \in Keys THEN {next[t][head[t]]} ELSE {}))
    \ {None}

LoopInv(t) ==
  /\ data[t] \in live[t] \union {None, Dangling}
  /\ pc[t] \in Freed => data[t] = None
  /\ pc[t] = "call" => data[t] \in Keys
  /\ pc[t] \in {"call", "dtor"} => data[t] # None /\ again[t]
  /\ pc[t] \in {"cleanup", "call", "dtor"} => iteration[t] >= 1

Destroyed(t) ==
  \/ \A k \in dtors : mine[t][k] = None
  \/ iteration[t] = Iterations /\ again[t]

(* A value is in its node until a destructor is given it.  As long as no   *)
(* destructor was called in this iteration, the nodes passed are empty.    *)
ValuesInv(t) ==
  /\ \A k \in Keys : k \notin live[t] => value[t][k] = None
  /\ pc[t] \notin Freed => mine[t] = value[t]
  /\ pc[t] = "cleanup" /\ ~again[t] =>
       \A k \in OnList(t) \intersect Keys :
         mine[t][k] = None \/ data[t] = k \/ data[t] = head[t]
  /\ pc[t] \in Freed /\ live[t] \subseteq OnList(t) => Destroyed(t)

ThreadInv(t) == ListInv(t) /\ LoopInv(t) /\ ValuesInv(t)

IInv == TypeOK /\ OnceInv /\ \A t \in Threads : ThreadInv(t)

-------------------------------------------------------------------------------
(* Chain is a recursive function.  On a list of two it has a solution,     *)
(* and this is the only one that counts.                                   *)
LEMMA ChainIsOnList ==
  ASSUME NEW t \in Threads, TypeOK, ListInv(t)
  PROVE  Chain(t) = OnList(t)
<1> DEFINE Unfolds(f) ==
             f = [p \in Pointers |->
                    ({p} \ {None}) \union
                    (IF p \in Keys THEN f[next[t][p]] ELSE {})]
           two  == [p \in Pointers |->
                      ({p} \union (IF p \in Keys THEN {next[t][p]} ELSE {}))
                        \ {None}]
           from == CHOOSE f : Unfolds(f)
<1>1. /\ None \notin Keys /\ Dangling \notin Keys /\ Dangling # None
      /\ next[t] \in [Keys -> Pointers] /\ head[t] \in Pointers
      /\ \A p \in Pointers : p \in Keys \/ p = None \/ p = Dangling
      /\ Keys \subseteq Pointers /\ None \in Pointers /\ Dangling \in Pointers
  BY TinyAssumption DEF TypeOK, Pointers
<1>2. \A k \in Keys : next[t][k] \in Keys => next[t][next[t][k]] = None
  BY <1>1 DEF ListInv
<1>3. Unfolds(two)
  <2>1. ASSUME NEW p \in Pointers
        PROVE  two[p] = ({p} \ {None}) \union
                        (IF p \in Keys THEN two[next[t][p]] ELSE {})
    <3>1. CASE p \in Keys
      <4>1. next[t][p] \in Pointers
        BY <1>1, <3>1
      <4>2. two[p] = {p} \union ({next[t][p]} \ {None})
        BY <1>1, <3>1
      <4>3. two[next[t][p]] = {next[t][p]} \ {None}
        BY <1>1, <1>2, <3>1, <4>1
      <4> QED BY <1>1, <3>1, <4>2, <4>3
    <3>2. CASE p \notin Keys
      BY <3>2
    <3> QED BY <3>1, <3>2
  <2> QED BY <2>1
<1>4. Unfolds(from)
  <2> HIDE DEF Unfolds, two
  <2> QED BY <1>3
<1>5. Chain(t) = from[head[t]]
  BY DEF Chain
<1> HIDE DEF from
<1>6. from[None] = {} /\ from[Dangling] = {Dangling}
  BY <1>1, <1>4
<1>7. \A k \in Keys : next[t][k] = None => from[k] = {k}
  BY <1>1, <1>4, <1>6
<1>8. \A k \in Keys : next[t][k] # None => from[k] = {k, next[t][k]}
  BY <1>1, <1>2, <1>4, <1>6, <1>7
<1> QED BY <1>1, <1>5, <1>6, <1>7, <1>8 DEF OnList

(* A step of another thread, or one in the life of t before its end.       *)
LEMMA ThreadKept ==
  ASSUME NEW t \in Threads, ThreadInv(t),
         UNCHANGED <<head[t], tail[t], next[t], value[t], live[t], mine[t],
                     data[t], iteration[t], again[t]>>,
         \/ pc'[t] = pc[t]
         \/ pc[t] \notin Ending /\ pc'[t] \notin Ending,
         dtors' \subseteq dtors \/ pc[t] \notin Ending
  PROVE  ThreadInv(t)'
BY DEF ThreadInv, ListInv, LoopInv, ValuesInv, OnList, Destroyed, Ending, Freed

(* A step outside of call_once.                                            *)
LEMMA OnceKept ==
  ASSUME OnceInv, UNCHANGED onceVars,
         \A t \in Threads :
           \/ pc'[t] = pc[t]
           \/ pc[t] \in {"none", "start"} /\ pc'[t] \in {"start", "once"}
           \/ pc[t] \in PastOnce /\ pc'[t] \in PastOnce
  PROVE  OnceInv'
BY DEF OnceInv, onceVars, Holding, InCall, Called, PastOnce

-------------------------------------------------------------------------------
(* call_once                                                               *)

(* What a step does to the places.                                         *)
LEMMA Steps ==
  ASSUME TypeOK, NEW t \in Threads, NEW from, NEW to, Step(t, from, to)
  PROVE  /\ pc[t] = from /\ pc'[t] = to
         /\ \A u \in Threads : u # t => pc'[u] = pc[u]
BY DEF TypeOK, Step

(* A call of call_once goes on: at most one thread goes from 0 to 1, and   *)
(* nobody gets into the section before it has left.                        *)
LEMMA OnceStepOnce ==
  ASSUME TypeOK, OnceInv, NEW t \in Threads, OnceStep(t)
  PROVE  OnceInv'
<1> USE DEF Holding, InCall, Called, PastOnce
<1>1. /\ None \notin Threads /\ status \in 0..3
      /\ lock \in Threads \union {None}
  BY TinyAssumption DEF TypeOK
<1>2. CASE OnceRead(t)
  BY <1>1, <1>2, Steps DEF OnceRead, OnceInv, onceVars
<1>3. CASE OnceCas(t)
  BY <1>1, <1>3, Steps DEF OnceCas, OnceInv
<1>4. CASE OnceInit(t)
  BY <1>1, <1>4, Steps DEF OnceInit, OnceInv
<1>5. CASE Callback(t)
  BY <1>1, <1>5, Steps DEF Callback, OnceInv, onceVars
<1>6. CASE OnceDone(t)
  BY <1>1, <1>6, Steps DEF OnceDone, OnceInv
<1>7. CASE OnceLeave(t)
  BY <1>1, <1>7, Steps DEF OnceLeave, OnceInv
<1>8. CASE OnceWait(t)
  BY <1>1, <1>8, Steps DEF OnceWait, OnceInv
<1>9. CASE OnceWaited(t)
  BY <1>1, <1>9, Steps DEF OnceWaited, OnceInv
<1> QED
  BY <1>2, <1>3, <1>4, <1>5, <1>6, <1>7, <1>8, <1>9 DEF OnceStep

(* It changes nothing that is about values, but that the callback makes    *)
(* the keys: then no thread has come to its end.                           *)
LEMMA OnceStepInv ==
  ASSUME IInv, NEW t \in Threads, OnceStep(t)
  PROVE  IInv'
<1> USE DEF onceVars, keyVars, listVars, loopVars, badVars, notOnce
<1>1. TypeOK /\ OnceInv /\ \A u \in Threads : ThreadInv(u)
  BY DEF IInv
<1>2. \E from, to \in OnceSteps \union {"user"} :
        from # "user" /\ Step(t, from, to)
  BY DEF OnceStep, OnceRead, OnceCas, OnceInit, Callback, OnceDone,
         OnceLeave, OnceWait, OnceWaited, OnceSteps
<1>3. pc' \in [Threads -> {"none", "start"} \union OnceSteps \union PastOnce]
  BY <1>1, <1>2 DEF Step, TypeOK, PastOnce
<1>4. /\ UNCHANGED <<listVars, loopVars, badVars>>
      /\ dtors' = dtors \/ pc[t] = "func"
      /\ dtors' \subseteq keys' /\ keys' \subseteq Keys
  BY <1>1 DEF TypeOK, OnceStep, OnceRead, OnceCas, OnceInit, Callback,
     OnceDone, OnceLeave, OnceWait, OnceWaited, Step
<1>5. status' \in 0..3 /\ calls' \in Nat /\ lock' \in Threads \union {None}
  BY <1>1 DEF TypeOK, OnceStep, OnceRead, OnceCas, OnceInit, Callback,
     OnceDone, OnceLeave, OnceWait, OnceWaited
<1>6. TypeOK'
  BY <1>1, <1>3, <1>4, <1>5 DEF TypeOK
<1>7. ASSUME NEW u \in Threads PROVE ThreadInv(u)'
  <2>1. pc'[u] = pc[u] \/ (pc[u] \notin Ending /\ pc'[u] \notin Ending)
    <3>1. PICK from, to \in OnceSteps \union {"user"} : Step(t, from, to)
      BY <1>2
    <3>2. from \notin Ending /\ to \notin Ending
      BY <3>1 DEF OnceSteps, Ending
    <3>3. /\ pc[t] = from /\ pc'[t] = to
          /\ u # t => pc'[u] = pc[u]
      BY <1>1, <3>1, Steps
    <3> QED BY <3>2, <3>3
  <2>2. dtors' \subseteq dtors \/ pc[u] \notin Ending
    BY <1>1, <1>4 DEF OnceInv, Called, PastOnce, InCall, Ending
  <2> QED BY <1>1, <1>4, <2>1, <2>2, ThreadKept
<1> QED BY <1>1, <1>6, <1>7, OnceStepOnce DEF IInv

-------------------------------------------------------------------------------
(* Threads                                                                 *)

(* A thread is created, or starts.                                         *)
LEMMA ThreadStepInv ==
  ASSUME IInv, NEW t \in Threads,
         Create(t) \/ Start(t)
  PROVE  IInv'
<1> USE DEF onceVars, keyVars, listVars, loopVars, badVars
<1>1. TypeOK /\ OnceInv /\ \A u \in Threads : ThreadInv(u)
  BY DEF IInv
<1>2. /\ UNCHANGED <<onceVars, keyVars, listVars, loopVars, badVars>>
      /\ Step(t, "none", "start") \/ Step(t, "start", "once")
  BY DEF Create, Start
<1>3. /\ pc' \in [Threads ->
                    {"none", "start"} \union OnceSteps \union PastOnce]
      /\ \A u \in Threads :
           \/ pc'[u] = pc[u]
           \/ pc[u] \in {"none", "start"} /\ pc'[u] \in {"start", "once"}
  <2>1. \A u \in Threads :
          \/ pc'[u] = pc[u]
          \/ pc[u] \in {"none", "start"} /\ pc'[u] \in {"start", "once"}
    BY <1>1, <1>2, Steps
  <2>2. pc' \in [Threads ->
                   {"none", "start"} \union OnceSteps \union PastOnce]
    BY <1>1, <1>2 DEF TypeOK, Step, OnceSteps
  <2> QED BY <2>1, <2>2
<1>4. TypeOK'
  BY <1>1, <1>2, <1>3 DEF TypeOK
<1>5. OnceInv'
  BY <1>1, <1>2, <1>3, OnceKept
<1>6. ASSUME NEW u \in Threads PROVE ThreadInv(u)'
  BY <1>1, <1>2, <1>3, ThreadKept DEF Ending
<1> QED BY <1>4, <1>5, <1>6 DEF IInv

-------------------------------------------------------------------------------
(* Thread-specific values                                                  *)

(* A new node is hung on the one that `tail` points to: what the pointers  *)
(* are, and that the list is a list.                                       *)
LEMMA LinkIs ==
  ASSUME IInv, NEW t \in Threads, NEW k \in Keys, NEW p \in {k, Dangling},
         pc[t] \in Running, k \notin live[t], Link(t, k, p)
  PROVE  /\ head' \in [Threads -> Pointers] /\ tail' \in [Threads -> Pointers]
         /\ next' \in [Threads -> [Keys -> Pointers]]
         /\ head'[t] = IF head[t] = None THEN p ELSE head[t]
         /\ tail'[t] = IF tail[t] = None THEN p ELSE tail[t]
         /\ tail[t] # Dangling /\ tail[t] # k
         /\ \A n \in Keys : next'[t][n] = IF n = tail[t] THEN p ELSE next[t][n]
         /\ \A u \in Threads : u # t =>
              UNCHANGED <<head[u], tail[u], next[u]>>
<1>1. /\ TypeOK /\ ListInv(t) /\ p \in Pointers
      /\ Dangling \notin Keys /\ None \in Pointers
  BY TinyAssumption DEF IInv, ThreadInv, Pointers
<1>2. k # tail[t] /\ next[t][k] = None
  BY <1>1, TinyAssumption DEF ListInv, Running
<1> DEFINE new == [n \in Keys |-> IF n = k THEN None
                                   ELSE IF n = tail[t] THEN p ELSE next[t][n]]
<1>3. new \in [Keys -> Pointers]
  BY <1>1 DEF TypeOK
<1>4. /\ next' = [next EXCEPT ![t] = new]
      /\ tail' = [tail EXCEPT ![t] = IF tail[t] = None THEN p ELSE tail[t]]
      /\ head' = [head EXCEPT ![t] = IF head[t] = None THEN p ELSE head[t]]
      /\ tail[t] # Dangling
  BY DEF Link
<1>5. \A n \in Keys : new[n] = IF n = tail[t] THEN p ELSE next[t][n]
  BY <1>2
<1> HIDE DEF new
<1>6. next'[t] = new /\ next' \in [Threads -> [Keys -> Pointers]]
  BY <1>1, <1>3, <1>4 DEF TypeOK
<1>7. /\ head' \in [Threads -> Pointers] /\ tail' \in [Threads -> Pointers]
      /\ head'[t] = IF head[t] = None THEN p ELSE head[t]
      /\ tail'[t] = IF tail[t] = None THEN p ELSE tail[t]
  BY <1>1, <1>4 DEF TypeOK
<1>8. \A u \in Threads : u # t => UNCHANGED <<head[u], tail[u], next[u]>>
  BY <1>1, <1>4 DEF TypeOK
<1> QED BY <1>2, <1>4, <1>5, <1>6, <1>7, <1>8

(* The pointers are to nodes, and only one node has a next one.            *)
LEMMA LinkList ==
  ASSUME IInv, NEW t \in Threads, NEW k \in Keys, NEW p \in {k, Dangling},
         pc[t] \in Running, k \notin live[t], Link(t, k, p), pc' = pc,
         live'[t] = live[t] \union ({p} \intersect Keys)
  PROVE  ListInv(t)'
<1>1. /\ ListInv(t) /\ pc[t] # "done"
      /\ None \notin Keys /\ Dangling \notin Keys /\ Dangling # None
      /\ live[t] \subseteq Keys
  BY TinyAssumption DEF IInv, TypeOK, ThreadInv, Running
<1>2. /\ head'[t] = IF head[t] = None THEN p ELSE head[t]
      /\ tail'[t] = IF tail[t] = None THEN p ELSE tail[t]
      /\ tail[t] # Dangling /\ tail[t] # k
      /\ \A n \in Keys : next'[t][n] = IF n = tail[t] THEN p ELSE next[t][n]
  BY LinkIs
<1>3. p \in live'[t] \union {Dangling}
  OBVIOUS
<1>4. /\ head'[t] \in live'[t] \union {None, Dangling}
      /\ tail'[t] \in live'[t] \union {None, Dangling}
  BY <1>1, <1>2, <1>3 DEF ListInv
<1>5. \A n \in Keys : next[t][n] # None => n = tail[t]
  BY <1>1 DEF ListInv
<1>6. ASSUME NEW n \in Keys, next'[t][n] # None
      PROVE  /\ n = tail[t] /\ n = tail'[t] /\ next'[t][n] = p
             /\ next'[t][n] \in live'[t] \union {Dangling} /\ next'[t][n] # n
  <2>1. n = tail[t]
    BY <1>2, <1>5, <1>6
  <2>2. n # Dangling /\ n # None /\ n # k
    BY <1>1, <1>2, <2>1
  <2> QED BY <1>2, <1>3, <2>1, <2>2
<1> QED BY <1>1, <1>4, <1>6 DEF ListInv

(* A value of an own node, or a new node.  Inside of a destructor this may *)
(* put a node off the list, which `data` is still at.                      *)
LEMMA TssSetInv ==
  ASSUME IInv, NEW t \in Threads, NEW k \in Keys, NEW v \in Vals \union {None},
         TssSet(t, k, v)
  PROVE  IInv'
<1> USE DEF onceVars, keyVars, loopVars, badVars
<1>1. /\ TypeOK /\ OnceInv /\ \A u \in Threads : ThreadInv(u)
      /\ None \notin Keys /\ Dangling \notin Keys
  BY TinyAssumption DEF IInv
<1>2. /\ pc[t] \in Running /\ value' = [value EXCEPT ![t][k] = v]
      /\ mine' = [mine EXCEPT ![t][k] = v]
      /\ UNCHANGED <<onceVars, keyVars, pc, loopVars, badVars>>
      /\ \/ k \in live[t] /\ UNCHANGED <<head, tail, next, live>>
         \/ /\ k \notin live[t] /\ live' = [live EXCEPT ![t] = @ \union {k}]
            /\ Link(t, k, k)
  BY DEF TssSet
<1>3. /\ value' \in [Threads -> [Keys -> Vals \union {None}]]
      /\ mine' \in [Threads -> [Keys -> Vals \union {None}]]
      /\ value'[t] = [value[t] EXCEPT ![k] = v]
      /\ mine'[t] = [mine[t] EXCEPT ![k] = v]
      /\ value[t] \in [Keys -> Vals \union {None}]
      /\ \A u \in Threads : u # t => UNCHANGED <<value[u], mine[u]>>
  BY <1>1, <1>2 DEF TypeOK
<1>4. OnceInv'
  BY <1>1, <1>2, OnceKept
<1>5. CASE k \in live[t] /\ UNCHANGED <<head, tail, next, live>>
  <2>1. TypeOK'
    BY <1>1, <1>2, <1>3, <1>5 DEF TypeOK
  <2>2. ASSUME NEW u \in Threads, u # t PROVE ThreadInv(u)'
    BY <1>1, <1>2, <1>3, <1>5, <2>2, ThreadKept
  <2>3. ThreadInv(t)'
    <3>1. /\ ListInv(t) /\ LoopInv(t) /\ ValuesInv(t)
          /\ pc[t] \notin Freed /\ pc[t] # "cleanup"
      BY <1>1, <1>2 DEF ThreadInv, Freed, Running
    <3>2. ListInv(t)' /\ LoopInv(t)'
      BY <1>2, <1>5, <3>1 DEF ListInv, LoopInv
    <3>3. ValuesInv(t)'
      BY <1>2, <1>3, <1>5, <3>1 DEF ValuesInv
    <3> QED BY <3>2, <3>3 DEF ThreadInv
  <2> QED BY <1>4, <2>1, <2>2, <2>3 DEF IInv
<1>6. CASE /\ k \notin live[t] /\ live' = [live EXCEPT ![t] = @ \union {k}]
           /\ Link(t, k, k)
  <2>1. /\ head' \in [Threads -> Pointers] /\ tail' \in [Threads -> Pointers]
        /\ next' \in [Threads -> [Keys -> Pointers]]
        /\ head'[t] = IF head[t] = None THEN k ELSE head[t]
        /\ tail'[t] = IF tail[t] = None THEN k ELSE tail[t]
        /\ tail[t] # k
        /\ \A n \in Keys : next'[t][n] = IF n = tail[t] THEN k ELSE next[t][n]
        /\ \A u \in Threads : u # t =>
             UNCHANGED <<head[u], tail[u], next[u]>>
    BY <1>2, <1>6, LinkIs
  <2>2. /\ live' \in [Threads -> SUBSET Keys]
        /\ live'[t] = live[t] \union {k} /\ live[t] \subseteq Keys
        /\ \A u \in Threads : u # t => live'[u] = live[u]
    <3>1. live[t] \union {k} \in SUBSET Keys
      BY <1>1 DEF TypeOK
    <3> QED BY <1>1, <1>6, <3>1 DEF TypeOK
  <2>3. TypeOK'
    BY <1>1, <1>2, <1>3, <2>1, <2>2 DEF TypeOK
  <2>4. ASSUME NEW u \in Threads, u # t PROVE ThreadInv(u)'
    BY <1>1, <1>2, <1>3, <2>1, <2>2, <2>4, ThreadKept
  <2>5. ListInv(t)'
    <3>1. live'[t] = live[t] \union ({k} \intersect Keys)
      BY <2>2
    <3> QED BY <1>2, <1>6, <3>1, LinkList
  <2>6. LoopInv(t)' /\ ValuesInv(t)'
    <3>1. /\ LoopInv(t) /\ ValuesInv(t)
          /\ pc[t] \notin Freed /\ pc[t] # "cleanup"
      BY <1>1, <1>2 DEF ThreadInv, Freed, Running
    <3>2. LoopInv(t)'
      BY <1>2, <2>2, <3>1 DEF LoopInv
    <3>3. ValuesInv(t)'
      BY <1>2, <1>3, <2>2, <3>1 DEF ValuesInv
    <3> QED BY <3>2, <3>3
  <2> QED BY <1>4, <2>3, <2>4, <2>5, <2>6 DEF ThreadInv, IInv
<1> QED BY <1>2, <1>5, <1>6

(* What is hung on the list is gone at once.                               *)
LEMMA TssSetFailsInv ==
  ASSUME IInv, NEW t \in Threads, NEW k \in Keys, TssSetFails(t, k)
  PROVE  IInv'
<1> USE DEF onceVars, keyVars, loopVars
<1>1. /\ TypeOK /\ OnceInv /\ \A u \in Threads : ThreadInv(u)
      /\ None \notin Keys /\ Dangling \notin Keys /\ Dangling # None
  BY TinyAssumption DEF IInv
<1>2. /\ pc[t] \in Running /\ k \notin live[t] /\ Link(t, k, Dangling)
      /\ unhandled' = TRUE
      /\ UNCHANGED <<onceVars, keyVars, pc, value, live, mine, loopVars,
                     fault>>
  BY DEF TssSetFails
<1>3. /\ head' \in [Threads -> Pointers] /\ tail' \in [Threads -> Pointers]
      /\ next' \in [Threads -> [Keys -> Pointers]]
      /\ head'[t] = IF head[t] = None THEN Dangling ELSE head[t]
      /\ tail'[t] = IF tail[t] = None THEN Dangling ELSE tail[t]
      /\ \A n \in Keys :
           next'[t][n] = IF n = tail[t] THEN Dangling ELSE next[t][n]
      /\ \A u \in Threads : u # t => UNCHANGED <<head[u], tail[u], next[u]>>
  BY <1>2, LinkIs
<1>4. TypeOK'
  BY <1>1, <1>2, <1>3 DEF TypeOK
<1>5. OnceInv'
  BY <1>1, <1>2, OnceKept
<1>6. ASSUME NEW u \in Threads, u # t PROVE ThreadInv(u)'
  BY <1>1, <1>2, <1>3, <1>6, ThreadKept
<1>7. ThreadInv(t)'
  <2>1. ThreadInv(t) /\ pc[t] \notin Freed /\ pc[t] # "cleanup" /\ pc' = pc
    BY <1>1, <1>2 DEF Running, Freed
  <2>2. ListInv(t)'
    <3>1. live'[t] = live[t] \union ({Dangling} \intersect Keys)
      BY <1>1, <1>2
    <3> QED BY <1>2, <3>1, LinkList
  <2>3. LoopInv(t)' /\ ValuesInv(t)'
    BY <1>2, <2>1 DEF ThreadInv, LoopInv, ValuesInv, Freed
  <2> QED BY <2>2, <2>3 DEF ThreadInv
<1> QED BY <1>4, <1>5, <1>6, <1>7 DEF IInv

(* tss_delete, by what becomes of the list of thread t.                    *)
Deleted(t, k) ==
  /\ head'[t] = IF head[t] = k THEN next[t][k] ELSE head[t]
  /\ tail'[t] = IF tail[t] = k THEN None ELSE tail[t]
  /\ \A n \in Keys :
       next'[t][n] = IF n = k THEN None ELSE Gone(k, next[t][n])
  /\ data'[t] = Gone(k, data[t])
  /\ live'[t] = live[t] \ {k}
  /\ value'[t] = [value[t] EXCEPT ![k] = None]
  /\ mine'[t] = [mine[t] EXCEPT ![k] = None]
  /\ \A u \in Threads : u # t =>
       UNCHANGED <<head[u], tail[u], next[u], value[u], live[u], mine[u],
                   data[u]>>
  /\ k \in live[t] => IsFirst(t, k) \/ k = next[t][head[t]]

(* The last node is only deleted as the first one, or when there is no     *)
(* list; so prev is never another last node.                               *)
LEMMA DeleteIs ==
  ASSUME IInv, NEW t \in Threads, NEW k \in Keys, TssDelete(t, k)
  PROVE  Deleted(t, k) /\ TypeOK'
<1>1. /\ TypeOK /\ ListInv(t) /\ LoopInv(t)
      /\ None \notin Keys /\ Dangling \notin Keys /\ Dangling # None
      /\ pc[t] \in Running /\ pc[t] # "done"
  BY TinyAssumption DEF IInv, ThreadInv, TssDelete, Delete, Running
<1>2. k \in live[t] => IsFirst(t, k) \/ k \in OnList(t)
  BY <1>1, ChainIsOnList DEF TssDelete, Delete
<1>3. k \in live[t] => IsFirst(t, k) \/ k = next[t][head[t]]
  BY <1>2 DEF IsFirst, OnList
<1> DEFINE last == IF tail[t] = k
                   THEN IF IsFirst(t, k) THEN None
                        ELSE CHOOSE n \in Chain(t) \intersect Keys :
                               next[t][n] = k
                   ELSE tail[t]
           tl == IF tail[t] = k THEN None ELSE tail[t]
<1>4. Delete(t, k, last)
  BY DEF TssDelete
<1>5. Gone(k, last) = tl
  <2>1. CASE tail[t] = k
    <3>1. k \in live[t]
      BY <1>1, <2>1 DEF ListInv
    <3>2. ASSUME ~IsFirst(t, k) PROVE FALSE
      <4>1. k = next[t][head[t]] /\ head[t] # k /\ k \in OnList(t)
        BY <1>2, <1>3, <3>1, <3>2 DEF IsFirst
      <4>2. head[t] \in Keys
        BY <4>1 DEF OnList
      <4>3. head[t] = tail[t]
        BY <1>1, <4>1, <4>2 DEF ListInv
      <4> QED BY <2>1, <4>1, <4>3
    <3>3. last = None
      BY <2>1, <3>2
    <3> QED BY <1>1, <2>1, <3>3 DEF Gone
  <2>2. CASE tail[t] # k
    BY <2>2 DEF Gone
  <2> QED BY <2>1, <2>2
<1> HIDE DEF last
<1> DEFINE nx == Without(k, next[t])
<1>6. /\ head' = [head EXCEPT ![t] = IF head[t] = k THEN next[t][k]
                                     ELSE head[t]]
      /\ tail' = [tail EXCEPT ![t] = tl]
      /\ next' = [next EXCEPT ![t] = nx]
      /\ data' = [data EXCEPT ![t] = Gone(k, data[t])]
      /\ live' = [live EXCEPT ![t] = live[t] \ {k}]
      /\ value' = [value EXCEPT ![t][k] = None]
      /\ mine' = [mine EXCEPT ![t][k] = None]
      /\ keys' = keys \ {k} /\ dtors' = dtors \ {k}
      /\ unhandled' = (unhandled \/ Unhandled(t, k))
      /\ UNCHANGED <<onceVars, pc, iteration, again, fault>>
  BY <1>4, <1>5 DEF Delete
<1>7. /\ head[t] \in Pointers /\ tail[t] \in Pointers /\ data[t] \in Pointers
      /\ next[t] \in [Keys -> Pointers] /\ live[t] \in SUBSET Keys
      /\ None \in Pointers /\ Dangling \in Pointers
  BY <1>1 DEF TypeOK, Pointers
<1>8. /\ tl \in Pointers /\ Gone(k, data[t]) \in Pointers
      /\ (IF head[t] = k THEN next[t][k] ELSE head[t]) \in Pointers
      /\ nx \in [Keys -> Pointers] /\ live[t] \ {k} \in SUBSET Keys
      /\ \A n \in Keys : nx[n] = IF n = k THEN None ELSE Gone(k, next[t][n])
  BY <1>7 DEF Gone, Without
<1> HIDE DEF tl, nx
<1>9. /\ head'[t] = IF head[t] = k THEN next[t][k] ELSE head[t]
      /\ tail'[t] = tl /\ next'[t] = nx /\ data'[t] = Gone(k, data[t])
      /\ live'[t] = live[t] \ {k}
      /\ value'[t] = [value[t] EXCEPT ![k] = None]
      /\ mine'[t] = [mine[t] EXCEPT ![k] = None]
  BY <1>1, <1>6 DEF TypeOK
<1>10. \A u \in Threads : u # t =>
         UNCHANGED <<head[u], tail[u], next[u], value[u], live[u], mine[u],
                     data[u]>>
  BY <1>1, <1>6 DEF TypeOK
<1>11. TypeOK'
  <2>1. /\ head' \in [Threads -> Pointers] /\ tail' \in [Threads -> Pointers]
        /\ next' \in [Threads -> [Keys -> Pointers]]
        /\ data' \in [Threads -> Pointers]
        /\ live' \in [Threads -> SUBSET Keys]
    BY <1>1, <1>6, <1>8 DEF TypeOK
  <2>2. /\ value' \in [Threads -> [Keys -> Vals \union {None}]]
        /\ mine' \in [Threads -> [Keys -> Vals \union {None}]]
    BY <1>1, <1>6 DEF TypeOK
  <2>3. keys' \subseteq Keys /\ dtors' \subseteq keys'
    BY <1>1, <1>6 DEF TypeOK
  <2>4. unhandled' \in BOOLEAN
    BY <1>6
  <2>5. /\ status' \in 0..3 /\ calls' \in Nat
        /\ lock' \in Threads \union {None} /\ fault' \in BOOLEAN
        /\ pc' \in [Threads ->
                      {"none", "start"} \union OnceSteps \union PastOnce]
        /\ iteration' \in [Threads -> 0..Iterations]
        /\ again' \in [Threads -> BOOLEAN]
    BY <1>1, <1>6 DEF TypeOK, onceVars
  <2> QED BY <2>1, <2>2, <2>3, <2>4, <2>5 DEF TypeOK
<1> QED BY <1>3, <1>8, <1>9, <1>10, <1>11 DEF tl, Deleted

(* A node goes, if the thread has one: what points to it is left, but for  *)
(* the ends of the list.                                                   *)
LEMMA TssDeleteInv ==
  ASSUME IInv, NEW t \in Threads, NEW k \in Keys, TssDelete(t, k)
  PROVE  IInv'
<1> USE DEF onceVars
<1>1. /\ TypeOK /\ OnceInv /\ \A u \in Threads : ThreadInv(u)
      /\ None \notin Keys /\ Dangling \notin Keys /\ Dangling # None
  BY TinyAssumption DEF IInv
<1>2. /\ pc[t] \in Running /\ dtors' = dtors \ {k}
      /\ UNCHANGED <<onceVars, pc, iteration, again>>
  BY DEF TssDelete, Delete
<1>3. /\ head'[t] = IF head[t] = k THEN next[t][k] ELSE head[t]
      /\ tail'[t] = IF tail[t] = k THEN None ELSE tail[t]
      /\ \A n \in Keys :
           next'[t][n] = IF n = k THEN None ELSE Gone(k, next[t][n])
      /\ data'[t] = Gone(k, data[t])
      /\ live'[t] = live[t] \ {k}
      /\ value'[t] = [value[t] EXCEPT ![k] = None]
      /\ mine'[t] = [mine[t] EXCEPT ![k] = None]
      /\ \A u \in Threads : u # t =>
           UNCHANGED <<head[u], tail[u], next[u], value[u], live[u], mine[u],
                       data[u]>>
      /\ TypeOK'
  <2>1. Deleted(t, k) /\ TypeOK'
    BY DeleteIs
  <2> QED BY <2>1 DEF Deleted
<1>4. OnceInv'
  BY <1>1, <1>2, OnceKept
<1>5. ASSUME NEW u \in Threads, u # t PROVE ThreadInv(u)'
  BY <1>1, <1>2, <1>3, <1>5, ThreadKept
<1>6. /\ ListInv(t) /\ LoopInv(t) /\ ValuesInv(t)
      /\ pc[t] \notin Freed /\ pc[t] \in {"user", "dtor"} /\ pc' = pc
      /\ value[t] \in [Keys -> Vals \union {None}]
      /\ mine[t] \in [Keys -> Vals \union {None}]
  BY <1>1, <1>2 DEF ThreadInv, TypeOK, Freed, Running
<1>7. ListInv(t)'
  <2>1. head'[t] \in live'[t] \union {None, Dangling}
    BY <1>3, <1>6 DEF ListInv
  <2>2. tail'[t] \in live'[t] \union {None, Dangling}
    BY <1>3, <1>6 DEF ListInv
  <2>3. ASSUME NEW n \in Keys, next'[t][n] # None
        PROVE  /\ next[t][n] # None /\ n = tail[t] /\ n # k
               /\ next'[t][n] \in live'[t] \union {Dangling}
               /\ next'[t][n] # n
    <3>1. n # k /\ next'[t][n] = Gone(k, next[t][n])
      BY <1>3, <2>3
    <3>2. next[t][n] # None
      BY <1>1, <2>3, <3>1 DEF Gone
    <3>3. /\ n = tail[t] /\ next[t][n] # n
          /\ next[t][n] \in live[t] \union {Dangling}
      BY <1>6, <3>2 DEF ListInv
    <3> QED BY <1>1, <1>3, <3>1, <3>2, <3>3 DEF Gone
  <2> QED BY <1>3, <1>6, <2>1, <2>2, <2>3 DEF ListInv
<1>8. LoopInv(t)'
  <2>1. data'[t] \in live'[t] \union {None, Dangling}
    BY <1>3, <1>6 DEF LoopInv, Gone
  <2>2. data[t] # None => data'[t] # None
    BY <1>1, <1>3 DEF Gone
  <2> QED BY <1>2, <1>6, <2>1, <2>2 DEF LoopInv
<1>9. ValuesInv(t)'
  BY <1>3, <1>6 DEF ValuesInv
<1> QED BY <1>3, <1>4, <1>5, <1>7, <1>8, <1>9 DEF ThreadInv, IInv

(* What is not defined changes nothing that could be said.                 *)
LEMMA FaultInv ==
  ASSUME IInv, NEW t \in Threads,
         Fault(t) \/ \E k \in Keys : TssDeleteAstray(t, k)
  PROVE  IInv'
<1> USE DEF onceVars, keyVars, listVars, loopVars
<1>1. /\ UNCHANGED <<onceVars, keyVars, pc, listVars, loopVars>>
      /\ fault' = TRUE /\ (unhandled' = TRUE \/ unhandled' = unhandled)
  BY DEF Fault, TssDeleteAstray
<1>2. TypeOK'
  BY <1>1 DEF IInv, TypeOK
<1>3. OnceInv'
  BY <1>1, OnceKept DEF IInv
<1>4. ASSUME NEW u \in Threads PROVE ThreadInv(u)'
  BY <1>1, ThreadKept DEF IInv
<1> QED BY <1>2, <1>3, <1>4 DEF IInv

-------------------------------------------------------------------------------
(* The end of a thread                                                     *)

(* The loop over the list begins at its head.                              *)
LEMMA ExitInv ==
  ASSUME IInv, NEW t \in Threads, Exit(t)
  PROVE  IInv'
<1> USE DEF onceVars, keyVars, listVars, badVars, notLoop
<1>1. /\ TypeOK /\ OnceInv /\ \A u \in Threads : ThreadInv(u)
      /\ None \notin Keys /\ 1 \in 0..Iterations
  BY TinyAssumption DEF IInv
<1>2. /\ pc[t] = "user" /\ pc'[t] \in {"cleanup", "done"}
      /\ pc'[t] = IF head[t] = None THEN "done" ELSE "cleanup"
      /\ \A u \in Threads : u # t => pc'[u] = pc[u]
  BY <1>1, Steps DEF Exit
<1>3. TypeOK'
  BY <1>1 DEF TypeOK, Exit, Step, PastOnce
<1>4. OnceInv'
  BY <1>1, <1>2, OnceKept DEF Exit, PastOnce
<1>5. ASSUME NEW u \in Threads, u # t PROVE ThreadInv(u)'
  <2>1. UNCHANGED <<data[u], iteration[u], again[u]>>
    BY <1>1, <1>5 DEF TypeOK, Exit
  <2> QED BY <1>1, <1>2, <1>5, <2>1, ThreadKept DEF Exit
<1>6. ThreadInv(t)'
  <2>1. /\ data'[t] = head[t] /\ iteration'[t] = 1
        /\ UNCHANGED <<again[t], head[t], tail[t], next[t], value[t], live[t],
                       mine[t]>>
    BY <1>1 DEF TypeOK, Exit
  <2>2. /\ mine[t] = value[t]
        /\ \A k \in Keys : k \notin live[t] => mine[t][k] = None
    BY <1>1, <1>2 DEF ThreadInv, ValuesInv, Freed
  <2>3. /\ dtors' = dtors /\ dtors \subseteq Keys
        /\ head[t] = None => OnList(t)' = {}
    BY <1>1, <1>2, <2>1 DEF OnList, TypeOK, Exit
  <2>4. ListInv(t)' /\ LoopInv(t)'
    BY <1>1, <1>2, <2>1 DEF ThreadInv, ListInv, LoopInv, Freed
  <2>5. ValuesInv(t)'
    <3>1. /\ \A k \in Keys : k \notin live'[t] => value'[t][k] = None
          /\ mine'[t] = value'[t]
      BY <1>1, <1>2, <2>1, <2>2 DEF ThreadInv, ValuesInv
    <3>2. pc'[t] \in Freed /\ live'[t] \subseteq OnList(t)' => Destroyed(t)'
      BY <1>2, <2>1, <2>2, <2>3 DEF Destroyed, Freed
    <3> QED BY <1>2, <2>1, <3>1, <3>2 DEF ValuesInv
  <2> QED BY <2>4, <2>5 DEF ThreadInv
<1> QED BY <1>1, <1>3, <1>4, <1>5, <1>6 DEF IInv

(* A node is emptied.  If no destructor is called, all before it are.      *)
LEMMA VisitInv ==
  ASSUME IInv, NEW t \in Threads, Visit(t)
  PROVE  IInv'
<1> USE DEF onceVars, keyVars, badVars, notLoop
<1> DEFINE k == data[t]
<1>1. /\ TypeOK /\ OnceInv /\ \A u \in Threads : ThreadInv(u)
      /\ None \notin Keys /\ Dangling \notin Keys
  BY TinyAssumption DEF IInv
<1>2. /\ pc[t] = "cleanup" /\ k \in Keys /\ k \in live[t]
      /\ value' = [value EXCEPT ![t][k] = None]
      /\ mine' = [mine EXCEPT ![t][k] = None]
      /\ UNCHANGED <<iteration, head, tail, next, live, onceVars, keyVars,
                     badVars>>
  BY <1>1 DEF Visit, ThreadInv, LoopInv, TypeOK
<1>3. \/ /\ again' = [again EXCEPT ![t] = TRUE]
         /\ pc' = [pc EXCEPT ![t] = "call"]
         /\ data' = data
      \/ /\ data' = [data EXCEPT ![t] = next[t][k]]
         /\ UNCHANGED <<pc, again>>
  BY DEF Visit
<1>4. next[t][k] \in Pointers /\ None \in Pointers /\ Dangling # None
  BY <1>1, <1>2, TinyAssumption DEF TypeOK, Pointers
<1>5. TypeOK'
  <2>1. /\ value' \in [Threads -> [Keys -> Vals \union {None}]]
        /\ mine' \in [Threads -> [Keys -> Vals \union {None}]]
    BY <1>1, <1>2 DEF TypeOK
  <2>2. /\ data' \in [Threads -> Pointers]
        /\ again' \in [Threads -> BOOLEAN]
        /\ pc' \in [Threads ->
                      {"none", "start"} \union OnceSteps \union PastOnce]
    BY <1>1, <1>3, <1>4 DEF TypeOK, PastOnce
  <2> QED BY <1>1, <1>2, <2>1, <2>2 DEF TypeOK
<1>6. \A u \in Threads : u # t =>
        UNCHANGED <<pc[u], value[u], mine[u], data[u], again[u]>>
  BY <1>1, <1>2, <1>3 DEF TypeOK
<1>7. \/ pc'[t] = "call" /\ again'[t] /\ data'[t] = k
      \/ /\ pc'[t] = "cleanup" /\ again'[t] = again[t]
         /\ data'[t] = next[t][k]
  BY <1>1, <1>2, <1>3 DEF TypeOK
<1>8. OnceInv'
  <2>1. \A u \in Threads : \/ pc'[u] = pc[u]
                           \/ pc[u] \in PastOnce /\ pc'[u] \in PastOnce
    BY <1>2, <1>6, <1>7 DEF PastOnce
  <2> QED BY <1>1, <1>2, <2>1, OnceKept
<1>9. ASSUME NEW u \in Threads, u # t PROVE ThreadInv(u)'
  BY <1>1, <1>2, <1>6, <1>9, ThreadKept
<1>10. ThreadInv(t)'
  <2>1. /\ mine'[t] = [mine[t] EXCEPT ![k] = None]
        /\ value'[t] = [value[t] EXCEPT ![k] = None]
        /\ value[t] \in [Keys -> Vals \union {None}]
        /\ mine[t] = value[t]
    BY <1>1, <1>2 DEF TypeOK, ThreadInv, ValuesInv, Freed
  <2>2. ListInv(t)' /\ LoopInv(t)'
    BY <1>1, <1>2, <1>7 DEF ThreadInv, ListInv, LoopInv, Freed
  <2>3. OnList(t)' = OnList(t)
    BY <1>2 DEF OnList
  <2>4. ASSUME pc'[t] = "cleanup", ~again'[t],
               NEW n \in OnList(t) \intersect Keys
        PROVE  mine'[t][n] = None \/ data'[t] = n
    <3>1. mine[t][n] = None \/ k = n \/ k = head[t]
      BY <1>1, <1>2, <1>7, <2>4 DEF ThreadInv, ValuesInv
    <3>2. k = head[t] => n = k \/ n = next[t][k]
      BY <1>1, <1>2, <2>4 DEF OnList
    <3>3. data'[t] = next[t][k]
      BY <1>7, <2>4
    <3>4. n = k => mine'[t][n] = None
      BY <1>2, <2>1
    <3>5. mine[t][n] = None => mine'[t][n] = None
      BY <1>2, <2>1, <2>3
    <3> QED BY <3>1, <3>2, <3>3, <3>4, <3>5
  <2>5. ValuesInv(t)'
    BY <1>1, <1>2, <1>7, <2>1, <2>3, <2>4 DEF ThreadInv, ValuesInv, Freed
  <2> QED BY <2>2, <2>5 DEF ThreadInv
<1> QED BY <1>1, <1>5, <1>8, <1>9, <1>10 DEF IInv

(* The destructor is called, whatever has become of it.                    *)
LEMMA CallDtorInv ==
  ASSUME IInv, NEW t \in Threads, CallDtor(t)
  PROVE  IInv'
<1> USE DEF onceVars, keyVars, listVars, loopVars, badVars, notLoop
<1>1. /\ TypeOK /\ OnceInv /\ \A u \in Threads : ThreadInv(u)
  BY DEF IInv
<1>2. /\ pc[t] = "call" /\ pc'[t] = "dtor"
      /\ \A u \in Threads : u # t => pc'[u] = pc[u]
  BY <1>1, Steps DEF CallDtor
<1>3. UNCHANGED <<onceVars, keyVars, listVars, loopVars, badVars>>
  BY DEF CallDtor
<1>4. TypeOK'
  BY <1>1, <1>3 DEF TypeOK, CallDtor, Step, PastOnce
<1>5. OnceInv'
  BY <1>1, <1>2, <1>3, OnceKept DEF PastOnce
<1>6. ASSUME NEW u \in Threads, u # t PROVE ThreadInv(u)'
  BY <1>1, <1>2, <1>3, <1>6, ThreadKept
<1>7. ThreadInv(t)'
  BY <1>1, <1>2, <1>3
     DEF ThreadInv, ListInv, LoopInv, ValuesInv, OnList, Freed
<1> QED BY <1>1, <1>4, <1>5, <1>6, <1>7 DEF IInv

(* A destructor is back: the loop goes on from the node, wherever it is.   *)
LEMMA DtorReturnInv ==
  ASSUME IInv, NEW t \in Threads, DtorReturn(t)
  PROVE  IInv'
<1> USE DEF onceVars, keyVars, listVars, badVars, notLoop
<1> DEFINE k == data[t]
<1>1. /\ TypeOK /\ OnceInv /\ \A u \in Threads : ThreadInv(u)
      /\ None \notin Keys /\ Dangling \notin Keys
  BY TinyAssumption DEF IInv
<1>2. /\ pc[t] = "dtor" /\ pc'[t] = "cleanup"
      /\ \A u \in Threads : u # t => pc'[u] = pc[u]
  BY <1>1, Steps DEF DtorReturn
<1>3. /\ k \in Keys /\ again[t]
      /\ data' = [data EXCEPT ![t] = next[t][k]]
      /\ next[t][k] \in Pointers
      /\ next[t][k] \in live[t] \union {None, Dangling}
  BY <1>1, <1>2 DEF DtorReturn, ThreadInv, LoopInv, ListInv, TypeOK
<1>4. TypeOK'
  BY <1>1, <1>3 DEF TypeOK, DtorReturn, Step, PastOnce
<1>5. OnceInv'
  BY <1>1, <1>2, OnceKept DEF DtorReturn, PastOnce
<1>6. ASSUME NEW u \in Threads, u # t PROVE ThreadInv(u)'
  <2>1. UNCHANGED data[u]
    BY <1>1, <1>3, <1>6 DEF TypeOK
  <2> QED BY <1>1, <1>2, <1>6, <2>1, ThreadKept DEF DtorReturn
<1>7. ThreadInv(t)'
  <2>1. data'[t] = next[t][k]
    BY <1>1, <1>3 DEF TypeOK
  <2>2. ListInv(t)' /\ LoopInv(t)'
    BY <1>1, <1>2, <1>3, <2>1
       DEF ThreadInv, ListInv, LoopInv, Freed, DtorReturn
  <2>3. ValuesInv(t)'
    BY <1>1, <1>2, <1>3 DEF ThreadInv, ValuesInv, Freed, DtorReturn
  <2> QED BY <2>2, <2>3 DEF ThreadInv
<1> QED BY <1>1, <1>4, <1>5, <1>6, <1>7 DEF IInv

(* The loop begins again, or is over: then all nodes on the list are       *)
(* empty, unless this was the last iteration.                              *)
LEMMA NextIterationInv ==
  ASSUME IInv, NEW t \in Threads, NextIteration(t)
  PROVE  IInv'
<1> USE DEF onceVars, keyVars, listVars, badVars, notLoop
<1> DEFINE Another == again[t] /\ iteration[t] < Iterations
<1>1. /\ TypeOK /\ OnceInv /\ \A u \in Threads : ThreadInv(u)
      /\ None \notin Keys /\ Iterations \in Nat
  BY TinyAssumption DEF IInv
<1>2. /\ data[t] = None /\ pc[t] = "cleanup"
      /\ \A u \in Threads : u # t => pc'[u] = pc[u]
      /\ UNCHANGED <<listVars, onceVars, keyVars, badVars>>
  BY <1>1, Steps DEF NextIteration
<1>3. ASSUME Another
      PROVE  /\ pc' = pc /\ pc'[t] = "cleanup"
             /\ iteration[t] + 1 \in 0..Iterations
             /\ data' = [data EXCEPT ![t] = head[t]]
             /\ iteration' = [iteration EXCEPT ![t] = iteration[t] + 1]
             /\ again' = [again EXCEPT ![t] = FALSE]
  <2>1. /\ Step(t, "cleanup", "cleanup")
        /\ data' = [data EXCEPT ![t] = head[t]]
        /\ iteration' = [iteration EXCEPT ![t] = iteration[t] + 1]
        /\ again' = [again EXCEPT ![t] = FALSE]
    BY <1>3 DEF NextIteration
  <2>2. iteration[t] + 1 \in 0..Iterations
    BY <1>1, <1>3 DEF TypeOK
  <2>3. pc' = pc
    BY <1>1, <2>1 DEF Step, TypeOK
  <2> QED BY <1>2, <2>1, <2>2, <2>3
<1>4. ASSUME ~Another
      PROVE  /\ pc' = [pc EXCEPT ![t] = "free"] /\ pc'[t] = "free"
             /\ UNCHANGED <<data, iteration, again>>
  BY <1>1, <1>2, <1>4 DEF NextIteration, Step, loopVars, TypeOK
<1> HIDE DEF Another
<1>5. TypeOK'
  <2>1. /\ pc' \in [Threads ->
                      {"none", "start"} \union OnceSteps \union PastOnce]
        /\ iteration' \in [Threads -> 0..Iterations]
        /\ data' \in [Threads -> Pointers]
        /\ again' \in [Threads -> BOOLEAN]
    <3>1. CASE Another
      <4>1. /\ pc' = pc
            /\ iteration' = [iteration EXCEPT ![t] = iteration[t] + 1]
            /\ iteration[t] + 1 \in 0..Iterations
        BY <1>3, <3>1
      <4>2. iteration' \in [Threads -> 0..Iterations]
        BY <1>1, <4>1 DEF TypeOK
      <4>3. data' \in [Threads -> Pointers]
        BY <1>1, <1>3, <3>1 DEF TypeOK
      <4>4. again' \in [Threads -> BOOLEAN]
        BY <1>1, <1>3, <3>1, Zenon DEF TypeOK
      <4> QED BY <1>1, <4>1, <4>2, <4>3, <4>4 DEF TypeOK
    <3>2. CASE ~Another
      BY <1>1, <1>4, <3>2 DEF TypeOK, PastOnce
    <3> QED BY <3>1, <3>2
  <2> QED BY <1>1, <1>2, <2>1 DEF TypeOK
<1>6. OnceInv'
  BY <1>1, <1>2, <1>3, <1>4, OnceKept DEF PastOnce
<1>7. ASSUME NEW u \in Threads, u # t PROVE ThreadInv(u)'
  <2>1. UNCHANGED <<data[u], iteration[u], again[u]>>
    BY <1>1, <1>3, <1>4, <1>7 DEF TypeOK
  <2> QED BY <1>1, <1>2, <1>7, <2>1, ThreadKept
<1>8. CASE Another
  <2>1. data'[t] = head[t] /\ ~again'[t] /\ iteration'[t] >= 1
    BY <1>1, <1>3, <1>8 DEF TypeOK
  <2>2. ThreadInv(t)'
    BY <1>1, <1>2, <1>3, <1>8, <2>1
       DEF ThreadInv, ListInv, LoopInv, ValuesInv, OnList, Freed
  <2> QED BY <1>1, <1>5, <1>6, <1>7, <2>2 DEF IInv
<1>9. CASE ~Another
  <2>1. ListInv(t)' /\ LoopInv(t)'
    BY <1>1, <1>2, <1>4, <1>9 DEF ThreadInv, ListInv, LoopInv, Freed
  <2>2. ASSUME live[t] \subseteq OnList(t) PROVE Destroyed(t)'
    <3>1. CASE again[t]
      <4>1. iteration[t] = Iterations
        <5>1. ~(iteration[t] < Iterations)
          BY <1>9, <3>1, Zenon DEF Another
        <5>2. iteration[t] \in 0..Iterations
          BY <1>1 DEF TypeOK
        <5> QED BY <1>1, <5>1, <5>2
      <4> QED BY <1>4, <1>9, <3>1, <4>1 DEF Destroyed
    <3>2. CASE ~again[t]
      <4>1. \A k \in OnList(t) \intersect Keys : mine[t][k] = None
        <5>1. \A k \in OnList(t) \intersect Keys :
                mine[t][k] = None \/ data[t] = k \/ data[t] = head[t]
          BY <1>1, <1>2, <3>2 DEF ThreadInv, ValuesInv
        <5>2. head[t] = None => OnList(t) = {}
          BY <1>1 DEF OnList
        <5> QED BY <1>1, <1>2, <5>1, <5>2
      <4>2. \A k \in Keys : k \notin live[t] => mine[t][k] = None
        BY <1>1, <1>2 DEF ThreadInv, ValuesInv, Freed
      <4> QED BY <1>1, <1>2, <2>2, <4>1, <4>2 DEF Destroyed, TypeOK
    <3> QED BY <3>1, <3>2
  <2>3. OnList(t)' = OnList(t)
    BY <1>2 DEF OnList
  <2>4. ValuesInv(t)'
    BY <1>1, <1>2, <1>4, <1>9, <2>2, <2>3 DEF ThreadInv, ValuesInv, Freed
  <2> QED BY <1>1, <1>5, <1>6, <1>7, <2>1, <2>4 DEF ThreadInv, IInv
<1> QED BY <1>8, <1>9

(* The nodes on the list are freed from the head.                          *)
LEMMA FreeInv ==
  ASSUME IInv, NEW t \in Threads, Free(t)
  PROVE  IInv'
<1> USE DEF onceVars, keyVars, loopVars, badVars, notLoop
<1> DEFINE h == head[t]
<1>1. /\ TypeOK /\ OnceInv /\ \A u \in Threads : ThreadInv(u)
      /\ None \notin Keys /\ Dangling \notin Keys /\ Dangling # None
  BY TinyAssumption DEF IInv
<1>2. /\ pc[t] = "free" /\ pc'[t] \in {"free", "done"}
      /\ \A u \in Threads : u # t => pc'[u] = pc[u]
      /\ UNCHANGED <<mine, loopVars, onceVars, keyVars, badVars>>
      /\ data[t] = None
  <2>1. Step(t, "free", "done") \/ Step(t, "free", "free")
    BY DEF Free
  <2>2. /\ pc[t] = "free" /\ pc'[t] \in {"free", "done"}
        /\ \A u \in Threads : u # t => pc'[u] = pc[u]
    BY <1>1, <2>1, Steps
  <2>3. UNCHANGED <<mine, loopVars, onceVars, keyVars, badVars>>
    BY DEF Free
  <2>4. data[t] = None
    BY <1>1, <2>2 DEF ThreadInv, LoopInv, Freed
  <2> QED BY <2>2, <2>3, <2>4
<1>3. pc' \in [Threads -> {"none", "start"} \union OnceSteps \union PastOnce]
  <2>1. pc' = [pc EXCEPT ![t] = "free"] \/ pc' = [pc EXCEPT ![t] = "done"]
    BY DEF Free, Step
  <2> QED BY <1>1, <2>1 DEF TypeOK, PastOnce
<1>4. OnceInv'
  BY <1>1, <1>2, OnceKept DEF PastOnce
<1>5. ListInv(t) /\ LoopInv(t) /\ ValuesInv(t)
  BY <1>1 DEF ThreadInv
<1>6. LoopInv(t)'
  BY <1>2, <1>5 DEF LoopInv, Freed
<1>7. CASE /\ head[t] = None /\ pc' = [pc EXCEPT ![t] = "done"]
           /\ tail' = [tail EXCEPT ![t] = None]
           /\ UNCHANGED <<head, live, next, value>>
  <2>1. tail'[t] = None /\ tail' \in [Threads -> Pointers] /\ pc'[t] = "done"
    BY <1>1, <1>7 DEF TypeOK, Pointers
  <2>2. TypeOK'
    BY <1>1, <1>2, <1>3, <1>7, <2>1 DEF TypeOK
  <2>3. ASSUME NEW u \in Threads, u # t PROVE ThreadInv(u)'
    <3>1. UNCHANGED tail[u]
      BY <1>1, <1>7, <2>3 DEF TypeOK
    <3> QED BY <1>1, <1>2, <1>7, <2>3, <3>1, ThreadKept
  <2>4. ListInv(t)'
    BY <1>2, <1>5, <1>7, <2>1 DEF ListInv
  <2>5. OnList(t)' = OnList(t)
    BY <1>7 DEF OnList
  <2>6. ValuesInv(t)'
    BY <1>2, <1>5, <1>7, <2>1, <2>5 DEF ValuesInv, Destroyed, Freed
  <2> QED BY <1>4, <1>6, <2>2, <2>3, <2>4, <2>6 DEF ThreadInv, IInv
<1>8. CASE /\ h \in Keys /\ pc' = [pc EXCEPT ![t] = "free"]
           /\ head' = [head EXCEPT ![t] = next[t][h]]
           /\ tail' = [tail EXCEPT ![t] = Gone(h, tail[t])]
           /\ live' = [live EXCEPT ![t] = live[t] \ {h}]
           /\ next' = [next EXCEPT ![t] = Without(h, next[t])]
           /\ value' = [value EXCEPT ![t][h] = None]
  <2>1. /\ h \in live[t] /\ next[t][h] \in Pointers
        /\ next[t] \in [Keys -> Pointers] /\ tail[t] \in Pointers
        /\ value[t] \in [Keys -> Vals \union {None}]
        /\ live[t] \in SUBSET Keys
        /\ None \in Pointers /\ Dangling \in Pointers
    BY <1>1, <1>5, <1>8 DEF TypeOK, ListInv, Pointers
  <2>2. /\ Without(h, next[t]) \in [Keys -> Pointers]
        /\ Gone(h, tail[t]) \in Pointers /\ live[t] \ {h} \in SUBSET Keys
        /\ \A n \in Keys : Without(h, next[t])[n] =
                             IF n = h THEN None ELSE Gone(h, next[t][n])
    BY <2>1 DEF Without, Gone
  <2>3. /\ pc'[t] = "free" /\ head'[t] = next[t][h]
        /\ tail'[t] = Gone(h, tail[t])
        /\ live'[t] = live[t] \ {h}
        /\ next'[t] = Without(h, next[t])
        /\ value'[t] = [value[t] EXCEPT ![h] = None]
    BY <1>1, <1>8 DEF TypeOK
  <2>4. \A n \in Keys :
          next'[t][n] = IF n = h THEN None ELSE Gone(h, next[t][n])
    BY <2>2, <2>3
  <2>5. TypeOK'
    <3>1. /\ head' \in [Threads -> Pointers] /\ tail' \in [Threads -> Pointers]
          /\ next' \in [Threads -> [Keys -> Pointers]]
          /\ live' \in [Threads -> SUBSET Keys]
      BY <1>1, <1>8, <2>1, <2>2 DEF TypeOK
    <3>2. value' \in [Threads -> [Keys -> Vals \union {None}]]
      BY <1>1, <1>8 DEF TypeOK
    <3> QED BY <1>1, <1>2, <1>3, <3>1, <3>2 DEF TypeOK
  <2>6. ASSUME NEW u \in Threads, u # t PROVE ThreadInv(u)'
    <3>1. UNCHANGED <<head[u], tail[u], live[u], next[u], value[u]>>
      BY <1>1, <1>8, <2>6 DEF TypeOK
    <3> QED BY <1>1, <1>2, <2>6, <3>1, ThreadKept
  <2>7. ASSUME NEW n \in Keys, next'[t][n] # None
        PROVE  /\ next[t][n] # None /\ n = tail[t] /\ n # h
               /\ next'[t][n] \in live'[t] \union {Dangling}
               /\ next'[t][n] # n
    <3>1. n # h /\ next'[t][n] = Gone(h, next[t][n])
      BY <2>4, <2>7
    <3>2. next[t][n] # None
      BY <1>1, <1>8, <2>7, <3>1 DEF Gone
    <3>3. /\ n = tail[t] /\ next[t][n] # n
          /\ next[t][n] \in live[t] \union {Dangling}
      BY <1>2, <1>5, <3>2 DEF ListInv
    <3> QED BY <1>1, <2>3, <3>1, <3>2, <3>3 DEF Gone
  <2>8. ListInv(t)'
    <3>1. tail'[t] \in live'[t] \union {None, Dangling}
      BY <1>5, <2>3 DEF ListInv, Gone
    <3>2. next[t][h] # None =>
            next[t][h] \in live[t] \union {Dangling} /\ next[t][h] # h
      BY <1>5, <1>8 DEF ListInv
    <3>3. head'[t] \in live'[t] \union {None, Dangling}
      <4> HIDE DEF h
      <4> QED BY <2>3, <3>2
    <3>4. \A n \in Keys : next'[t][n] # None => n = tail'[t]
      BY <2>3, <2>7 DEF Gone
    <3>5. ASSUME NEW n \in Keys, NEW m \in Keys,
                 next'[t][n] # None, next'[t][m] # None
          PROVE  m = n
      BY <2>7, <3>5
    <3> QED BY <2>3, <2>7, <3>1, <3>3, <3>4, <3>5 DEF ListInv
  <2>9. live'[t] \subseteq OnList(t)' => live[t] \subseteq OnList(t)
    <3>1. ASSUME head'[t] \in Keys PROVE next'[t][head'[t]] = None
      <4>1. h = tail[t]
        BY <1>1, <1>2, <1>5, <1>8, <2>3, <3>1 DEF ListInv
      <4> QED BY <2>7, <3>1, <4>1
    <3>2. OnList(t)' \subseteq {next[t][h]} \ {None}
      BY <2>3, <3>1 DEF OnList
    <3>3. OnList(t) = {h, next[t][h]} \ {None}
      BY <1>8 DEF OnList
    <3> QED BY <1>1, <1>8, <2>3, <3>2, <3>3
  <2>10. ValuesInv(t)'
    <3>1. live'[t] \subseteq OnList(t)' => Destroyed(t)'
      BY <1>2, <1>5, <2>9 DEF ValuesInv, Destroyed, Freed
    <3> QED BY <1>5, <2>1, <2>3, <3>1 DEF ValuesInv, Freed
  <2> QED BY <1>4, <1>6, <2>5, <2>6, <2>8, <2>10 DEF ThreadInv, IInv
<1> QED BY <1>7, <1>8 DEF Free, Step

-------------------------------------------------------------------------------
(* The inductive invariant: who is in call_once, how the lists look, and   *)
(* which values are still to be given to destructors.                      *)
THEOREM Invariant == Spec => []IInv
<1>1. Init => IInv
  <2> SUFFICES ASSUME Init PROVE IInv
    OBVIOUS
  <2>1. /\ TinyAssumption /\ 0 \in 0..Iterations
        /\ \A t \in Threads :
             /\ pc[t] = "none" /\ head[t] = None /\ tail[t] = None
             /\ live[t] = {} /\ value[t] = Nothing /\ mine[t] = Nothing
             /\ data[t] = None
             /\ \A k \in Keys : next[t][k] = None
    BY TinyAssumption DEF TinyAssumption, Init, Nothing
  <2>2. TypeOK
    <3>1. None \in Pointers /\ Nothing \in [Keys -> Pointers]
      BY DEF Pointers, Nothing
    <3>2. /\ next \in [Threads -> [Keys -> Pointers]]
          /\ value \in [Threads -> [Keys -> Vals \union {None}]]
          /\ mine \in [Threads -> [Keys -> Vals \union {None}]]
      BY <3>1 DEF Init, Nothing
    <3>3. /\ again \in [Threads -> BOOLEAN] /\ fault \in BOOLEAN
          /\ unhandled \in BOOLEAN
      BY DEF Init
    <3> QED BY <2>1, <3>1, <3>2, <3>3 DEF Init, TypeOK
  <2>3. OnceInv
    BY <2>1 DEF Init, OnceInv, TinyAssumption, Holding, InCall, Called,
       PastOnce
  <2>4. \A t \in Threads : ThreadInv(t)
    BY <2>1 DEF ThreadInv, ListInv, LoopInv, ValuesInv, Freed, Nothing
  <2> QED BY <2>2, <2>3, <2>4 DEF IInv
<1>2. IInv /\ [Next]_vars => IInv'
  <2> SUFFICES ASSUME IInv, [Next]_vars PROVE IInv'
    OBVIOUS
  <2>1. CASE UNCHANGED vars
    <3> USE DEF vars, onceVars, keyVars, listVars, loopVars, badVars
    <3>1. TypeOK'
      BY <2>1 DEF IInv, TypeOK
    <3>2. OnceInv'
      BY <2>1, OnceKept DEF IInv
    <3>3. ASSUME NEW t \in Threads PROVE ThreadInv(t)'
      BY <2>1, ThreadKept DEF IInv
    <3> QED BY <3>1, <3>2, <3>3 DEF IInv
  <2>2. ASSUME NEW t \in Threads, Cleanup(t) PROVE IInv'
    BY <2>2, VisitInv, CallDtorInv, DtorReturnInv, NextIterationInv, FreeInv
       DEF Cleanup
  <2> QED
    BY <2>1, <2>2, ThreadStepInv, OnceStepInv, TssSetInv, TssSetFailsInv,
       TssDeleteInv, FaultInv, ExitInv DEF Next
<1> QED BY <1>1, <1>2, PTL DEF Spec

(* Every variable keeps its type: the loop over the list never counts      *)
(* beyond TSS_DTOR_ITERATIONS.                                             *)
THEOREM TypeCorrect == Spec => []TypeOK
<1>1. IInv => TypeOK
  BY DEF IInv
<1> QED BY <1>1, Invariant, PTL

(* call_once: the callback is called once, and no call_once of any thread  *)
(* returns before it has: OnceExactly of the run "tiny".                   *)
THEOREM CallbackOnce == Spec => []OnceExactly
<1>1. IInv => OnceExactly
  BY DEF IInv, OnceInv, OnceExactly, InCall, Called
<1> QED BY <1>1, Invariant, PTL

-------------------------------------------------------------------------------
AtMostTwo(S) == \A i, j, k \in S : i = j \/ i = k \/ j = k

(* The list of a thread has no third node, nor a dangling pointer behind   *)
(* two nodes.                                                              *)
NoThird == \A t \in Threads : AtMostTwo(Chain(t))

(* Whatever keys a thread sets and deletes, and whichever of its calls     *)
(* fail, its list has no third node: tss_set leaves                        *)
(* _tinycthread_tss_tail where it is, and tss_delete only takes it off the *)
(* list, or to NULL.                                                       *)
THEOREM NoThirdNode == Spec => []NoThird
<1>1. IInv => NoThird
  <2> SUFFICES ASSUME IInv, NEW t \in Threads
               PROVE  AtMostTwo(Chain(t))
    BY DEF NoThird
  <2>1. Chain(t) = OnList(t)
    BY ChainIsOnList DEF IInv, ThreadInv
  <2>2. AtMostTwo(OnList(t))
    BY DEF OnList, AtMostTwo
  <2> QED BY <2>1, <2>2
<1> QED BY <1>1, Invariant, PTL

-------------------------------------------------------------------------------
(* Freed nodes                                                             *)

(* As long as nothing unhandled has happened: where a pointer does not     *)
(* dangle.  Behind a last node that is not the first one, the pointer may. *)
SoundAt(t) ==
  /\ head[t] # Dangling /\ data[t] # Dangling
  /\ pc[t] \notin Freed => tail[t] # Dangling
  /\ head[t] = tail[t] /\ head[t] \in Keys => next[t][head[t]] # Dangling
  /\ data[t] = tail[t] /\ data[t] \in Keys => data[t] = head[t]
  /\ pc[t] = "call" => data[t] \in dtors

Sound == ~unhandled => ~fault /\ \A t \in Threads : SoundAt(t)

(* A step that is not one of thread t's own, nor deletes its key.          *)
LEMMA SoundAtKept ==
  ASSUME NEW t \in Threads, SoundAt(t),
         UNCHANGED <<head[t], tail[t], next[t], data[t]>>,
         \/ pc'[t] = pc[t]
         \/ pc'[t] # "call" /\ (pc'[t] \in Freed \/ pc[t] \notin Freed),
         pc'[t] = "call" => data[t] \in dtors'
  PROVE  SoundAt(t)'
BY DEF SoundAt

(* A new node goes behind the last one, or is the first and the last.      *)
LEMMA TssSetSound ==
  ASSUME IInv, NEW t \in Threads, NEW k \in Keys, NEW v \in Vals \union {None},
         TssSet(t, k, v), SoundAt(t)
  PROVE  SoundAt(t)'
<1>1. /\ ListInv(t) /\ LoopInv(t) /\ pc[t] \in Running
      /\ None \notin Keys /\ Dangling \notin Keys /\ Dangling # None
      /\ UNCHANGED <<pc, data, dtors>>
  BY TinyAssumption DEF IInv, ThreadInv, TssSet, loopVars, keyVars
<1>2. CASE UNCHANGED <<head, tail, next>>
  <2>1. UNCHANGED <<head[t], tail[t], next[t], data[t], pc[t]>>
    BY <1>1, <1>2
  <2>2. pc'[t] # "call"
    BY <1>1 DEF Running
  <2> QED BY <2>1, <2>2 DEF SoundAt
<1>3. CASE k \notin live[t] /\ Link(t, k, k)
  <2>1. /\ head'[t] = IF head[t] = None THEN k ELSE head[t]
        /\ tail'[t] = IF tail[t] = None THEN k ELSE tail[t]
        /\ tail[t] # k
        /\ \A n \in Keys : next'[t][n] = IF n = tail[t] THEN k ELSE next[t][n]
    BY <1>1, <1>3, LinkIs
  <2>2. k # head[t] /\ k # data[t] /\ next[t][k] = None
    BY <1>1, <1>3 DEF ListInv, LoopInv, Running
  <2>3. pc[t] \notin Freed /\ pc[t] # "call"
    BY <1>1 DEF Running, Freed
  <2>4. head'[t] # Dangling /\ tail'[t] # Dangling
    BY <1>1, <2>1, <2>3 DEF SoundAt
  <2>5. head'[t] = tail'[t] /\ head'[t] \in Keys =>
          next'[t][head'[t]] # Dangling
    BY <1>1, <2>1, <2>2 DEF SoundAt
  <2>6. data'[t] = tail'[t] /\ data'[t] \in Keys => data'[t] = head'[t]
    BY <1>1, <2>1, <2>2 DEF SoundAt
  <2> QED BY <1>1, <2>3, <2>4, <2>5, <2>6 DEF SoundAt
<1> QED BY <1>2, <1>3 DEF TssSet

(* The first node goes; or one that is not on the list, of which there is  *)
(* none.                                                                   *)
LEMMA TssDeleteSound ==
  ASSUME IInv, NEW t \in Threads, NEW k \in Keys, TssDelete(t, k), SoundAt(t),
         ~Unhandled(t, k)
  PROVE  SoundAt(t)'
<1>1. /\ ListInv(t) /\ pc[t] \in Running /\ pc' = pc
      /\ None \notin Keys /\ Dangling \notin Keys /\ Dangling # None
      /\ k \in live[t] => head[t] \in {None, k}
      /\ data[t] # k
  BY TinyAssumption
     DEF IInv, ThreadInv, TssDelete, Delete, Unhandled, IsFirst
<1>2. /\ head'[t] = IF head[t] = k THEN next[t][k] ELSE head[t]
      /\ tail'[t] = IF tail[t] = k THEN None ELSE tail[t]
      /\ \A n \in Keys :
           next'[t][n] = IF n = k THEN None ELSE Gone(k, next[t][n])
      /\ data'[t] = data[t]
  <2>1. Deleted(t, k)
    BY DeleteIs
  <2> QED BY <1>1, <2>1 DEF Gone, Deleted
<1>3. pc[t] \notin Freed /\ pc[t] \notin {"call", "done"}
  BY <1>1 DEF Running, Freed
<1>4. \A n \in Keys : next[t][n] # None => n = tail[t] /\ next[t][n] # n
  BY <1>1, <1>3 DEF ListInv
<1>5. CASE head[t] = k
  <2>1. next[t][k] # Dangling
    BY <1>4, <1>5, TinyAssumption DEF SoundAt
  <2>2. head'[t] # Dangling /\ tail'[t] # Dangling
    BY <1>1, <1>2, <1>3, <1>5, <2>1 DEF SoundAt
  <2>3. ASSUME head'[t] \in Keys PROVE head'[t] # tail'[t] /\ tail'[t] = None
    BY <1>1, <1>2, <1>4, <1>5, <2>3
  <2>4. data'[t] = tail'[t] /\ data'[t] \in Keys => data'[t] = head'[t]
    BY <1>1, <1>2, <1>5 DEF SoundAt
  <2> QED BY <1>1, <1>2, <1>3, <2>2, <2>3, <2>4 DEF SoundAt
<1>6. CASE head[t] # k
  <2>1. head'[t] = head[t] /\ (tail'[t] = tail[t] \/ tail'[t] = None)
    BY <1>2, <1>6
  <2>2. head[t] \in Keys => k \notin live[t]
    BY <1>1, <1>6
  <2>3. head[t] \in Keys => next[t][head[t]] # k
    BY <1>1, <2>2 DEF ListInv
  <2>4. head[t] \in Keys => next'[t][head[t]] = next[t][head[t]]
    BY <1>2, <1>6, <2>3 DEF Gone
  <2>5. tail'[t] # Dangling /\ head'[t] # Dangling
    BY <1>1, <1>3, <2>1 DEF SoundAt
  <2>6. head'[t] = tail'[t] /\ head'[t] \in Keys =>
          next'[t][head'[t]] # Dangling
    BY <1>1, <2>1, <2>4 DEF SoundAt
  <2>7. data'[t] = tail'[t] /\ data'[t] \in Keys => data'[t] = head'[t]
    BY <1>1, <1>2, <2>1 DEF SoundAt
  <2> QED BY <1>1, <1>2, <1>3, <2>5, <2>6, <2>7 DEF SoundAt
<1> QED BY <1>5, <1>6

(* The loop goes on to a node that does not dangle, and finds NULL behind  *)
(* the last one of the list.                                               *)
LEMMA CleanupSound ==
  ASSUME IInv, NEW t \in Threads, Exit(t) \/ Cleanup(t), SoundAt(t)
  PROVE  SoundAt(t)'
<1> USE DEF notLoop, listVars, loopVars, keyVars
<1>1. /\ TypeOK /\ ListInv(t) /\ LoopInv(t)
      /\ None \notin Keys /\ Dangling \notin Keys /\ Dangling # None
  BY TinyAssumption DEF IInv, ThreadInv
<1>2. ASSUME data[t] \in Keys, pc[t] # "done", data'[t] = next[t][data[t]]
      PROVE  data'[t] # Dangling /\ (data'[t] = None \/ data'[t] # tail[t])
  <2>1. CASE next[t][data[t]] = None
    BY <1>1, <1>2, <2>1
  <2>2. CASE next[t][data[t]] # None
    <3>1. data[t] = tail[t] /\ next[t][data[t]] # data[t]
      BY <1>1, <1>2, <2>2 DEF ListInv
    <3>2. next[t][data[t]] # Dangling
      BY <1>2, <3>1 DEF SoundAt
    <3> QED BY <1>2, <3>1, <3>2
  <2> QED BY <2>1, <2>2
<1>3. CASE Exit(t)
  <2>1. /\ pc[t] = "user" /\ pc'[t] \in {"cleanup", "done"}
        /\ data'[t] = head[t] /\ UNCHANGED <<head, tail, next>>
    BY <1>1, <1>3, Steps DEF Exit, TypeOK
  <2> QED BY <1>1, <2>1 DEF SoundAt, Freed
<1>4. CASE Visit(t)
  <2>1. /\ pc[t] = "cleanup" /\ data[t] \in Keys /\ dtors' = dtors
        /\ UNCHANGED <<head, tail, next>>
        /\ \/ pc'[t] = "call" /\ data'[t] = data[t] /\ data[t] \in dtors
           \/ pc'[t] = "cleanup" /\ data'[t] = next[t][data[t]]
    BY <1>1, <1>4 DEF Visit, TypeOK
  <2> QED BY <1>1, <1>2, <2>1 DEF SoundAt, Freed
<1>5. CASE CallDtor(t)
  <2>1. /\ pc[t] = "call" /\ pc'[t] = "dtor"
        /\ UNCHANGED <<head, tail, next, data>>
    BY <1>1, <1>5, Steps DEF CallDtor
  <2> QED BY <2>1 DEF SoundAt, Freed
<1>6. CASE DtorReturn(t)
  <2>1. /\ pc[t] = "dtor" /\ pc'[t] = "cleanup" /\ data[t] # Dangling
        /\ data'[t] = next[t][data[t]] /\ UNCHANGED <<head, tail, next>>
    BY <1>1, <1>6, Steps DEF DtorReturn, TypeOK
  <2>2. data[t] \in Keys
    BY <1>1, <2>1 DEF LoopInv, TypeOK, Pointers
  <2> QED BY <1>1, <1>2, <2>1, <2>2 DEF SoundAt, Freed
<1>7. CASE NextIteration(t)
  <2>1. /\ pc[t] = "cleanup" /\ pc'[t] \in {"cleanup", "free"}
        /\ data'[t] = head[t] \/ data'[t] = data[t]
        /\ UNCHANGED <<head, tail, next>>
    BY <1>1, <1>7, Steps DEF NextIteration, TypeOK
  <2> QED BY <2>1 DEF SoundAt, Freed
<1>8. CASE Free(t)
  <2>1. /\ pc[t] = "free" /\ pc'[t] \in Freed /\ data'[t] = data[t]
        /\ data[t] = None
    <3>1. Step(t, "free", "done") \/ Step(t, "free", "free")
      BY <1>8 DEF Free
    <3>2. pc[t] = "free" /\ pc'[t] \in Freed
      BY <1>1, <3>1, Steps DEF Freed
    <3>3. data' = data
      BY <1>8 DEF Free
    <3> QED BY <1>1, <3>2, <3>3 DEF LoopInv, Freed
  <2>2. CASE head[t] = None /\ head' = head
    BY <1>1, <2>1, <2>2 DEF SoundAt, Freed
  <2>3. CASE /\ head[t] \in Keys
             /\ head' = [head EXCEPT ![t] = next[t][head[t]]]
             /\ tail' = [tail EXCEPT ![t] = Gone(head[t], tail[t])]
    <3>1. head'[t] = next[t][head[t]] /\ tail'[t] = Gone(head[t], tail[t])
      BY <1>1, <2>3 DEF TypeOK
    <3>2. next[t][head[t]] # None => head[t] = tail[t]
      BY <1>1, <2>1, <2>3 DEF ListInv
    <3>3. head'[t] # Dangling
      BY <1>1, <2>3, <3>1, <3>2 DEF SoundAt
    <3>4. head'[t] # None => tail'[t] = Dangling
      BY <3>1, <3>2 DEF Gone
    <3> QED BY <1>1, <2>1, <3>3, <3>4 DEF SoundAt, Freed
  <2> QED BY <1>8, <2>2, <2>3 DEF Free
<1> QED BY <1>3, <1>4, <1>5, <1>6, <1>7, <1>8 DEF Cleanup

(* No step of any thread makes a pointer dangle, or a thread use one,      *)
(* unless something unhandled happens.                                     *)
LEMMA SoundKept ==
  ASSUME IInv, [Next]_vars, Sound
  PROVE  Sound'
<1> USE DEF onceVars, keyVars, listVars, loopVars, badVars, notOnce, notLoop
<1> SUFFICES ASSUME ~unhandled'
             PROVE  ~fault' /\ \A t \in Threads : SoundAt(t)'
  BY DEF Sound
<1>1. /\ TypeOK /\ OnceInv /\ None \notin Keys
  BY TinyAssumption DEF IInv
<1>2. CASE UNCHANGED vars
  <2>1. ~unhandled /\ ~fault' /\ \A t \in Threads : SoundAt(t)
    BY <1>2 DEF vars, Sound
  <2>2. ASSUME NEW t \in Threads PROVE SoundAt(t)'
    <3>1. UNCHANGED <<head[t], tail[t], next[t], data[t], pc[t], dtors>>
      BY <1>2 DEF vars
    <3> QED BY <2>1, <3>1 DEF SoundAt
  <2> QED BY <2>1, <2>2
<1>3. ASSUME NEW u \in Threads,
             Create(u) \/ Start(u) \/ OnceStep(u) \/ Exit(u) \/ Cleanup(u)
      PROVE  ~fault' /\ \A t \in Threads : SoundAt(t)'
  <2>1. UNCHANGED <<fault, unhandled>>
    BY <1>3 DEF Create, Start, OnceStep, OnceRead, OnceCas, OnceInit, Callback,
       OnceDone, OnceLeave, OnceWait, OnceWaited, Exit, Cleanup, Visit,
       CallDtor, DtorReturn, NextIteration, Free
  <2>2. ~fault' /\ \A t \in Threads : SoundAt(t)
    BY <2>1 DEF Sound
  <2>3. ASSUME NEW t \in Threads, t # u \/ ~(Exit(u) \/ Cleanup(u))
        PROVE  SoundAt(t)'
    <3>1. CASE Create(u) \/ Start(u) \/ OnceStep(u)
      <4>1. UNCHANGED <<head, tail, next, data>>
        BY <3>1 DEF Create, Start, OnceStep, OnceRead, OnceCas, OnceInit,
           Callback, OnceDone, OnceLeave, OnceWait, OnceWaited
      <4>2. \E from, to \in {"none", "start", "user"} \union OnceSteps :
              from # "user" /\ Step(u, from, to)
        BY <3>1 DEF Create, Start, OnceStep, OnceRead, OnceCas, OnceInit,
           Callback, OnceDone, OnceLeave, OnceWait, OnceWaited, OnceSteps
      <4>3. \/ pc'[t] = pc[t]
            \/ pc'[t] # "call" /\ (pc'[t] \in Freed \/ pc[t] \notin Freed)
        <5>1. PICK from, to \in {"none", "start", "user"} \union OnceSteps :
                from # "user" /\ Step(u, from, to)
          BY <4>2
        <5>2. /\ pc[u] = from /\ pc'[u] = to
              /\ t # u => pc'[t] = pc[t]
          BY <1>1, <5>1, Steps
        <5>3. from \notin Freed /\ to # "call"
          BY <5>1 DEF OnceSteps, Freed
        <5> QED BY <5>2, <5>3
      <4>4. pc'[t] = "call" => pc[t] = "call" /\ dtors' = dtors
        <5>1. pc'[t] = "call" => pc[t] = "call"
          BY <4>3
        <5>2. dtors' = dtors \/ pc[u] = "func"
          BY <3>1 DEF Create, Start, OnceStep, OnceRead, OnceCas, OnceInit,
             Callback, OnceDone, OnceLeave, OnceWait, OnceWaited, Step
        <5>3. pc[u] = "func" => pc[t] # "call"
          BY <1>1 DEF OnceInv, InCall, Called, PastOnce
        <5> QED BY <5>1, <5>2, <5>3
      <4>5. pc'[t] = "call" => data[t] \in dtors'
        BY <2>2, <4>4 DEF SoundAt
      <4>6. UNCHANGED <<head[t], tail[t], next[t], data[t]>>
        BY <4>1
      <4> QED BY <2>2, <4>3, <4>5, <4>6, SoundAtKept
    <3>2. CASE (Exit(u) \/ Cleanup(u)) /\ t # u
      <4>1. /\ UNCHANGED <<head[t], tail[t], next[t], data[t]>>
            /\ dtors' = dtors
        BY <1>1, <3>2 DEF Exit, Cleanup, Visit, CallDtor, DtorReturn,
           NextIteration, Free, TypeOK
      <4>2. pc'[t] = pc[t]
        <5>1. pc' = pc \/ \E to : pc' = [pc EXCEPT ![u] = to]
          BY <3>2 DEF Exit, Cleanup, Visit, CallDtor, DtorReturn,
             NextIteration, Free, Step
        <5> QED BY <1>1, <3>2, <5>1 DEF TypeOK
      <4>3. pc'[t] = "call" => data[t] \in dtors'
        BY <2>2, <4>1, <4>2 DEF SoundAt
      <4> QED BY <2>2, <4>1, <4>2, <4>3, SoundAtKept
    <3> QED BY <1>3, <2>3, <3>1, <3>2
  <2>4. Exit(u) \/ Cleanup(u) => SoundAt(u)'
    BY <2>2, CleanupSound
  <2> QED BY <2>2, <2>3, <2>4
<1>4. ASSUME NEW u \in Threads, NEW k \in Keys, NEW v \in Vals \union {None},
             TssSet(u, k, v)
      PROVE  ~fault' /\ \A t \in Threads : SoundAt(t)'
  <2>1. ~fault' /\ \A t \in Threads : SoundAt(t)
    BY <1>4 DEF TssSet, Sound
  <2>2. ASSUME NEW t \in Threads, t # u PROVE SoundAt(t)'
    <3>1. UNCHANGED <<head[t], tail[t], next[t], data[t], pc[t], dtors>>
      BY <1>1, <1>4, <2>2 DEF TssSet, Link, TypeOK
    <3> QED BY <2>1, <3>1 DEF SoundAt
  <2> QED BY <1>4, <2>1, <2>2, TssSetSound
<1>5. ASSUME NEW u \in Threads, NEW k \in Keys, TssDelete(u, k)
      PROVE  ~fault' /\ \A t \in Threads : SoundAt(t)'
  <2>1. /\ dtors' = dtors \ {k} /\ pc' = pc /\ fault' = fault
        /\ ~unhandled /\ ~Unhandled(u, k)
    BY <1>5 DEF TssDelete, Delete
  <2>2. ~fault' /\ \A t \in Threads : SoundAt(t)
    BY <2>1 DEF Sound
  <2>3. ASSUME NEW t \in Threads, t # u PROVE SoundAt(t)'
    <3>1. UNCHANGED <<head[t], tail[t], next[t], data[t]>>
      <4>1. Deleted(u, k)
        BY <1>5, DeleteIs
      <4> QED BY <2>3, <4>1 DEF Deleted
    <3>2. pc[t] = "call" => data[t] # k
      BY <2>1 DEF Unhandled
    <3> QED BY <2>1, <2>2, <3>1, <3>2 DEF SoundAt
  <2> QED BY <1>5, <2>1, <2>2, <2>3, TssDeleteSound
<1>6. ASSUME NEW u \in Threads, Fault(u)
      PROVE  FALSE
  <2>1. ~unhandled /\ SoundAt(u)
    BY <1>6 DEF Fault, Sound
  <2> QED BY <1>6, <2>1 DEF Fault, SoundAt, Running, Freed
<1>7. ASSUME NEW u \in Threads, NEW k \in Keys,
             TssSetFails(u, k) \/ TssDeleteAstray(u, k)
      PROVE  FALSE
  BY <1>7 DEF TssSetFails, TssDeleteAstray
<1> QED BY <1>2, <1>3, <1>4, <1>5, <1>6, <1>7 DEF Next

(* As long as nobody deletes a key whose node is behind another one, or    *)
(* that a destructor is being called for, and TlsSetValue succeeds, no     *)
(* thread uses a freed node, and no list ends in one, for any number of    *)
(* keys: ListSound of the run "tiny".                                      *)
THEOREM NoFreedNode == Spec => []ListSound
<1>1. Init => Sound
  BY TinyAssumption DEF Init, Sound, SoundAt, Nothing, Freed
<1>2. IInv /\ Sound /\ [Next]_vars => Sound'
  BY SoundKept
<1>3. IInv /\ Sound => ListSound
  <2> SUFFICES ASSUME IInv, Sound, ~unhandled
               PROVE  ~fault /\ \A t \in Threads : Dangling \notin Chain(t)
    BY DEF ListSound
  <2>1. ASSUME NEW t \in Threads PROVE Dangling \notin Chain(t)
    <3>1. SoundAt(t) /\ ListInv(t) /\ Chain(t) = OnList(t)
      BY ChainIsOnList DEF IInv, ThreadInv, Sound
    <3>2. head[t] \in Keys => next[t][head[t]] # Dangling
      BY <3>1, TinyAssumption DEF SoundAt, ListInv
    <3> QED BY <3>1, <3>2 DEF OnList, SoundAt
  <2> QED BY <2>1 DEF Sound
<1> QED BY <1>1, <1>2, <1>3, Invariant, PTL DEF Spec

-------------------------------------------------------------------------------
(* Values and destructors                                                  *)

(* A thread that has ended, and has left no node behind, has given its     *)
(* destructors all that it had, but for what they set in the last          *)
(* iteration.                                                              *)
EmptiedIsDestroyed ==
  \A t \in Threads : pc[t] = "done" /\ live[t] = {} => Destroyed(t)

(* For any number of keys, and whatever is set and deleted: a value can    *)
(* only get lost with its node.                                            *)
THEOREM LostOnlyWithNode == Spec => []EmptiedIsDestroyed
<1>1. IInv => EmptiedIsDestroyed
  BY DEF IInv, ThreadInv, ValuesInv, Freed, EmptiedIsDestroyed
<1> QED BY <1>1, Invariant, PTL

(* All nodes are on the list, and a new one will be: it goes behind the    *)
(* first one, or there is no key left for it.  Otherwise the list begins   *)
(* in a freed node, and the thread never ends.                             *)
WholeAt(t) ==
  \/ head[t] = Dangling
  \/ /\ live[t] \subseteq OnList(t)
     /\ pc[t] \notin Freed =>
          \/ tail[t] = head[t]
          \/ tail[t] = None /\ keys \subseteq {head[t]}

Whole ==
  \A t \in Threads : WholeAt(t) /\ (pc[t] \notin PastOnce => tail[t] = head[t])

(* A step in which no thread that has two nodes asks for a third, nor      *)
(* deletes the first of two while there are more keys that it can set.     *)
Careful ==
  \A t \in Threads, k \in Keys :
    /\ \/ TssSetFails(t, k)
       \/ \E v \in Vals \union {None} : TssSet(t, k, v)
       => AtMostTwo(live[t] \union {k})
    /\ TssDelete(t, k) =>
         head[t] # k \/ live[t] \subseteq {k} \/ keys \subseteq live[t]

(* A new node, or what is left of one, when there is at most one before.   *)
LEMMA LinkWhole ==
  ASSUME IInv, NEW t \in Threads, NEW k \in Keys, NEW p \in {k, Dangling},
         WholeAt(t), AtMostTwo(live[t] \union {k}), pc[t] \in Running,
         pc' = pc, keys' = keys, k \in keys, k \notin live[t], Link(t, k, p),
         live'[t] = live[t] \union ({p} \intersect Keys)
  PROVE  WholeAt(t)'
<1>1. /\ ListInv(t) /\ live[t] \subseteq Keys /\ pc[t] \notin Freed
      /\ None \notin Keys /\ Dangling \notin Keys /\ Dangling # None
  BY TinyAssumption DEF IInv, ThreadInv, TypeOK, Running, Freed
<1>2. /\ head'[t] = IF head[t] = None THEN p ELSE head[t]
      /\ tail'[t] = IF tail[t] = None THEN p ELSE tail[t]
      /\ tail[t] # Dangling /\ tail[t] # k
      /\ \A n \in Keys : next'[t][n] = IF n = tail[t] THEN p ELSE next[t][n]
  BY LinkIs
<1>3. CASE head[t] = Dangling
  BY <1>1, <1>2, <1>3 DEF WholeAt
<1>4. CASE head[t] = None
  <2>1. live[t] = {} /\ tail[t] = None
    BY <1>1, <1>4 DEF WholeAt, OnList
  <2>2. head'[t] = p /\ tail'[t] = p /\ live'[t] = {p} \intersect Keys
    BY <1>2, <1>4, <2>1
  <2> QED BY <1>1, <2>2 DEF WholeAt, OnList
<1>5. CASE head[t] \in Keys
  <2>1. head[t] \in live[t] /\ head[t] # k
    BY <1>1, <1>5 DEF ListInv
  <2>2. tail[t] = head[t] /\ live[t] \subseteq OnList(t)
    BY <1>1, <1>5, <2>1 DEF WholeAt
  <2>3. live[t] = {head[t]}
    <3>1. ASSUME NEW n \in live[t] PROVE n = head[t]
      <4>1. n # k
        OBVIOUS
      <4> QED BY <2>1, <4>1 DEF AtMostTwo
    <3> QED BY <2>1, <3>1
  <2>4. head'[t] = head[t] /\ tail'[t] = head[t] /\ next'[t][head[t]] = p
    BY <1>1, <1>2, <1>5, <2>2
  <2>5. OnList(t)' = {head[t], p} \ {None}
    BY <1>5, <2>4 DEF OnList
  <2>6. live'[t] \subseteq OnList(t)'
    BY <1>1, <1>5, <2>3, <2>5
  <2> QED BY <2>4, <2>6 DEF WholeAt
<1>6. head[t] = Dangling \/ head[t] = None \/ head[t] \in Keys
  BY <1>1 DEF ListInv
<1> QED BY <1>3, <1>4, <1>5, <1>6

(* A deleted node was the first, or the second: then there is one left.    *)
LEMMA TssDeleteWhole ==
  ASSUME IInv, NEW t \in Threads, NEW k \in Keys, TssDelete(t, k), WholeAt(t),
         head[t] # k \/ live[t] \subseteq {k} \/ keys \subseteq live[t]
  PROVE  WholeAt(t)'
<1>1. /\ ListInv(t) /\ live[t] \subseteq Keys
      /\ pc[t] \notin Freed /\ pc[t] # "done"
      /\ None \notin Keys /\ Dangling \notin Keys /\ Dangling # None
      /\ keys' = keys \ {k} /\ pc' = pc
  BY TinyAssumption
     DEF IInv, ThreadInv, TypeOK, TssDelete, Delete, Running, Freed
<1>2. /\ head'[t] = IF head[t] = k THEN next[t][k] ELSE head[t]
      /\ tail'[t] = IF tail[t] = k THEN None ELSE tail[t]
      /\ \A n \in Keys :
           next'[t][n] = IF n = k THEN None ELSE Gone(k, next[t][n])
      /\ live'[t] = live[t] \ {k}
  <2>1. Deleted(t, k)
    BY DeleteIs
  <2> QED BY <2>1 DEF Deleted
<1>3. \A n \in Keys : next[t][n] # None =>
        /\ n = tail[t] /\ next[t][n] # n
        /\ next[t][n] \in live[t] \union {Dangling}
  BY <1>1 DEF ListInv
<1>4. CASE head[t] = Dangling
  BY <1>1, <1>2, <1>4 DEF WholeAt
<1>5. CASE head[t] = k
  <2>1. /\ live[t] \subseteq {k, next[t][k]}
        /\ tail[t] = k \/ tail[t] = None
    BY <1>1, <1>5 DEF WholeAt, OnList
  <2>2. head'[t] = next[t][k] /\ tail'[t] = None
    BY <1>2, <1>5, <2>1
  <2>3. next[t][k] \in live[t] \union {Dangling, None} /\ next[t][k] # k
    BY <1>1, <1>3
  <2>4. live'[t] \subseteq {next[t][k]}
    BY <1>2, <2>1
  <2>5. head'[t] \in Keys => live'[t] \subseteq OnList(t)'
    BY <1>1, <2>2, <2>4 DEF OnList
  <2>6. head'[t] = None => live'[t] = {}
    BY <1>1, <1>2, <2>2, <2>4
  <2>7. head'[t] \in Keys => keys' \subseteq {head'[t]}
    <3>1. ASSUME head'[t] \in Keys PROVE keys \subseteq live[t]
      BY <1>1, <1>5, <2>2, <2>3, <3>1
    <3> QED BY <1>1, <2>1, <2>2, <3>1
  <2>8. head'[t] = Dangling \/ head'[t] = None \/ head'[t] \in Keys
    BY <1>1, <2>2, <2>3
  <2> QED BY <2>2, <2>5, <2>6, <2>7, <2>8 DEF WholeAt
<1>6. CASE head[t] = None
  <2>1. live[t] = {} /\ tail[t] = None
    BY <1>1, <1>6 DEF WholeAt, OnList
  <2>2. head'[t] = None /\ tail'[t] = None /\ live'[t] = {}
    BY <1>1, <1>2, <1>6, <2>1
  <2> QED BY <2>2 DEF WholeAt
<1>7. CASE head[t] \in Keys /\ head[t] # k
  <2>1. /\ head'[t] = head[t]
        /\ next'[t][head[t]] = Gone(k, next[t][head[t]])
        /\ live[t] \subseteq {head[t], next[t][head[t]]}
    BY <1>1, <1>2, <1>7 DEF WholeAt, OnList
  <2>2. OnList(t)' = {head[t], Gone(k, next[t][head[t]])} \ {None}
    BY <1>7, <2>1 DEF OnList
  <2>3. live'[t] \subseteq OnList(t)'
    BY <1>1, <1>2, <2>1, <2>2 DEF Gone
  <2>4. tail[t] = head[t] \/ (tail[t] = None /\ keys \subseteq {head[t]})
    BY <1>1, <1>7 DEF WholeAt
  <2>5. \/ tail'[t] = head'[t]
        \/ tail'[t] = None /\ keys' \subseteq {head'[t]}
    BY <1>1, <1>2, <1>7, <2>1, <2>4
  <2> QED BY <2>3, <2>5 DEF WholeAt
<1>8. head[t] = Dangling \/ head[t] = None \/ head[t] \in Keys
  BY <1>1 DEF ListInv
<1> QED BY <1>4, <1>5, <1>6, <1>7, <1>8

(* A step that leaves the list as it is, and makes no key that the thread  *)
(* could set.                                                              *)
LEMMA WholeAtKept ==
  ASSUME NEW t \in Threads, WholeAt(t),
         UNCHANGED <<head[t], tail[t], next[t], live[t]>>,
         pc[t] \in Freed => pc'[t] \in Freed,
         keys' \subseteq keys \/ tail[t] = head[t]
  PROVE  WholeAt(t)'
BY DEF WholeAt, OnList

(* The end of a thread: the list is only changed when its nodes are freed, *)
(* from the first one on.                                                  *)
LEMMA EndWhole ==
  ASSUME IInv, NEW t \in Threads, Exit(t) \/ Cleanup(t), WholeAt(t)
  PROVE  WholeAt(t)'
<1> USE DEF listVars, keyVars, loopVars, notLoop
<1>1. /\ TypeOK /\ ListInv(t) /\ live[t] \subseteq Keys
      /\ None \notin Keys /\ Dangling \notin Keys /\ Dangling # None
      /\ next[t] \in [Keys -> Pointers]
  BY TinyAssumption DEF IInv, ThreadInv, TypeOK
<1>2. CASE ~Free(t)
  <2>1. UNCHANGED <<head, tail, next, live, keys>> /\ pc[t] \notin Freed
    BY <1>2 DEF Exit, Cleanup, Visit, CallDtor, DtorReturn, NextIteration,
       Step, Freed
  <2> QED BY <2>1, WholeAtKept
<1>3. CASE Free(t)
  <2>1. pc'[t] \in Freed
    <3>1. Step(t, "free", "done") \/ Step(t, "free", "free")
      BY <1>3 DEF Free
    <3> QED BY <1>1, <3>1, Steps DEF Freed
  <2>2. CASE head[t] = None /\ UNCHANGED <<head, next, live>>
    BY <1>1, <2>1, <2>2 DEF WholeAt, OnList
  <2>3. CASE /\ head[t] \in Keys
             /\ head' = [head EXCEPT ![t] = next[t][head[t]]]
             /\ live' = [live EXCEPT ![t] = live[t] \ {head[t]}]
    <3>1. head'[t] = next[t][head[t]] /\ live'[t] = live[t] \ {head[t]}
      BY <1>1, <2>3 DEF TypeOK
    <3>2. live[t] \subseteq {head[t], next[t][head[t]]}
      BY <1>1, <2>3 DEF WholeAt, OnList
    <3>3. live'[t] \subseteq {head'[t]} \ {None}
      BY <1>1, <3>1, <3>2
    <3>4. {head'[t]} \ {None} \subseteq OnList(t)'
      BY DEF OnList
    <3> QED BY <2>1, <3>3, <3>4 DEF WholeAt
  <2> QED BY <1>3, <2>2, <2>3 DEF Free
<1> QED BY <1>2, <1>3

(* The list of every thread stays whole.                                   *)
LEMMA WholeKept ==
  ASSUME IInv, [Next]_vars, [Careful]_vars, Whole
  PROVE  Whole'
<1> USE DEF onceVars, keyVars, listVars, loopVars, badVars, notOnce, notLoop
<1> DEFINE Good(t) ==
             WholeAt(t) /\ (pc[t] \notin PastOnce => tail[t] = head[t])
<1>1. TypeOK /\ OnceInv /\ \A t \in Threads : Good(t)
  BY DEF IInv, Whole
<1>2. ASSUME NEW t \in Threads,
             UNCHANGED <<head[t], tail[t], next[t], live[t]>>,
             \/ pc'[t] = pc[t]
             \/ /\ pc[t] \notin Freed
                /\ pc[t] \in PastOnce => pc'[t] \in PastOnce,
             keys' \subseteq keys \/ pc[t] \notin PastOnce
      PROVE  Good(t)'
  <2>1. WholeAt(t)'
    BY <1>1, <1>2, WholeAtKept
  <2>2. pc'[t] \notin PastOnce => pc[t] \notin PastOnce
    BY <1>2
  <2> QED BY <1>1, <1>2, <2>1, <2>2
<1>3. CASE UNCHANGED vars
  <2>1. ASSUME NEW t \in Threads PROVE Good(t)'
    <3>1. UNCHANGED <<head[t], tail[t], next[t], live[t], pc[t], keys>>
      BY <1>3 DEF vars
    <3> QED BY <1>2, <3>1
  <2> QED BY <2>1 DEF Whole
<1>4. ASSUME NEW u \in Threads, Create(u) \/ Start(u) \/ OnceStep(u),
             NEW t \in Threads
      PROVE  Good(t)'
  <2>1. UNCHANGED <<head, tail, next, live>>
    BY <1>4 DEF Create, Start, OnceStep, OnceRead, OnceCas, OnceInit,
       Callback, OnceDone, OnceLeave, OnceWait, OnceWaited
  <2>2. PICK from, to \in {"none", "start", "user"} \union OnceSteps :
          from # "user" /\ Step(u, from, to)
    BY <1>4 DEF Create, Start, OnceStep, OnceRead, OnceCas, OnceInit,
       Callback, OnceDone, OnceLeave, OnceWait, OnceWaited, OnceSteps
  <2>3. /\ pc[u] = from /\ pc'[u] = to
        /\ t # u => pc'[t] = pc[t]
    BY <1>1, <2>2, Steps
  <2>4. from \notin PastOnce
    BY <2>2 DEF OnceSteps, PastOnce
  <2>5. keys' = keys \/ pc[u] = "func"
    BY <1>4 DEF Create, Start, OnceStep, OnceRead, OnceCas, OnceInit,
       Callback, OnceDone, OnceLeave, OnceWait, OnceWaited, Step
  <2>6. pc[u] = "func" => pc[t] \notin PastOnce
    BY <1>1 DEF OnceInv, InCall, Called, PastOnce
  <2>7. Freed \subseteq PastOnce
    BY DEF Freed, PastOnce
  <2>8. \/ pc'[t] = pc[t]
        \/ pc[t] \notin Freed /\ (pc[t] \in PastOnce => pc'[t] \in PastOnce)
    BY <2>3, <2>4, <2>7
  <2> QED BY <1>2, <2>1, <2>5, <2>6, <2>8
<1>5. ASSUME NEW u \in Threads, Exit(u) \/ Cleanup(u), NEW t \in Threads
      PROVE  Good(t)'
  <2>1. CASE t # u
    <3>1. /\ UNCHANGED <<head[t], tail[t], next[t], live[t]>>
          /\ keys' = keys
      BY <1>1, <1>5, <2>1 DEF Exit, Cleanup, Visit, CallDtor, DtorReturn,
         NextIteration, Free, TypeOK
    <3>2. pc'[t] = pc[t]
      <4>1. pc' = pc \/ \E to : pc' = [pc EXCEPT ![u] = to]
        BY <1>5 DEF Exit, Cleanup, Visit, CallDtor, DtorReturn,
           NextIteration, Free, Step
      <4> QED BY <1>1, <2>1, <4>1 DEF TypeOK
    <3> QED BY <1>2, <3>1, <3>2
  <2>2. CASE t = u
    <3>1. WholeAt(t)'
      BY <1>1, <1>5, <2>2, EndWhole
    <3>2. pc'[t] \in PastOnce
      BY <1>1, <1>5, <2>2 DEF Exit, Cleanup, Visit, CallDtor, DtorReturn,
         NextIteration, Free, Step, TypeOK, PastOnce
    <3> QED BY <3>1, <3>2
  <2> QED BY <2>1, <2>2
<1>6. ASSUME NEW u \in Threads, NEW k \in Keys,
             \/ TssSetFails(u, k)
             \/ \E v \in Vals \union {None} : TssSet(u, k, v),
             AtMostTwo(live[u] \union {k}), NEW t \in Threads
      PROVE  Good(t)'
  <2>1. pc' = pc /\ keys' = keys /\ k \in keys /\ pc[u] \in Running
    BY <1>6 DEF TssSet, TssSetFails
  <2>2. CASE t # u
    <3>1. UNCHANGED <<head[t], tail[t], next[t], live[t]>>
      BY <1>1, <1>6, <2>2 DEF TssSet, TssSetFails, Link, TypeOK
    <3> QED BY <1>2, <2>1, <3>1
  <2>3. CASE t = u /\ UNCHANGED <<head, tail, next, live>>
    BY <1>2, <2>1, <2>3
  <2>4. CASE t = u /\ ~UNCHANGED <<head, tail, next, live>>
    <3>1. PICK p \in {k, Dangling} :
            /\ k \notin live[u] /\ Link(u, k, p)
            /\ live'[u] = live[u] \union ({p} \intersect Keys)
      <4>1. CASE TssSetFails(u, k)
        BY <4>1, TinyAssumption DEF TssSetFails
      <4>2. CASE \E v \in Vals \union {None} : TssSet(u, k, v)
        <5>1. /\ k \notin live[u] /\ Link(u, k, k)
              /\ live' = [live EXCEPT ![u] = live[u] \union {k}]
          BY <2>4, <4>2 DEF TssSet
        <5>2. live'[u] = live[u] \union {k}
          BY <1>1, <5>1 DEF TypeOK
        <5> QED BY <5>1, <5>2
      <4> QED BY <1>6, <4>1, <4>2
    <3>2. WholeAt(u)'
      BY <1>1, <1>6, <2>1, <3>1, LinkWhole
    <3>3. pc'[u] \in PastOnce
      BY <2>1 DEF Running, PastOnce
    <3> QED BY <2>4, <3>2, <3>3
  <2> QED BY <2>2, <2>3, <2>4
<1>7. ASSUME NEW u \in Threads, NEW k \in Keys, TssDelete(u, k),
             head[u] # k \/ live[u] \subseteq {k} \/ keys \subseteq live[u],
             NEW t \in Threads
      PROVE  Good(t)'
  <2>1. pc' = pc /\ keys' = keys \ {k} /\ pc[u] \in Running
    BY <1>7 DEF TssDelete, Delete
  <2>2. CASE t # u
    <3>1. UNCHANGED <<head[t], tail[t], next[t], live[t]>>
      <4>1. Deleted(u, k)
        BY <1>7, DeleteIs
      <4> QED BY <2>2, <4>1 DEF Deleted
    <3> QED BY <1>2, <2>1, <3>1
  <2>3. CASE t = u
    <3>1. WholeAt(u)'
      BY <1>1, <1>7, TssDeleteWhole
    <3>2. pc'[u] \in PastOnce
      BY <2>1 DEF Running, PastOnce
    <3> QED BY <2>3, <3>1, <3>2
  <2> QED BY <2>2, <2>3
<1>8. ASSUME NEW u \in Threads,
             Fault(u) \/ (\E k \in Keys : TssDeleteAstray(u, k)),
             NEW t \in Threads
      PROVE  Good(t)'
  <2>1. UNCHANGED <<head, tail, next, live, pc, keys>>
    BY <1>8 DEF Fault, TssDeleteAstray
  <2> QED BY <1>2, <2>1
<1>9. ASSUME ~UNCHANGED vars PROVE Careful
  BY <1>9
<1> HIDE DEF Good
<1>10. CASE ~UNCHANGED vars
  <2>1. Next /\ Careful
    BY <1>9, <1>10
  <2>2. ASSUME NEW t \in Threads PROVE Good(t)'
    <3>1. PICK u \in Threads :
            \/ Create(u) \/ Start(u) \/ OnceStep(u)
            \/ \E k \in Keys :
                 \/ \E v \in Vals \union {None} : TssSet(u, k, v)
                 \/ TssSetFails(u, k)
                 \/ TssDelete(u, k) \/ TssDeleteAstray(u, k)
            \/ Exit(u) \/ Cleanup(u) \/ Fault(u)
      BY <2>1 DEF Next
    <3>2. ASSUME NEW k \in Keys,
                 \/ \E v \in Vals \union {None} : TssSet(u, k, v)
                 \/ TssSetFails(u, k)
                 \/ TssDelete(u, k) \/ TssDeleteAstray(u, k)
          PROVE  Good(t)'
      <4>1. CASE \/ TssSetFails(u, k)
                 \/ \E v \in Vals \union {None} : TssSet(u, k, v)
        <5>1. AtMostTwo(live[u] \union {k})
          BY <2>1, <4>1 DEF Careful
        <5> QED BY <1>6, <4>1, <5>1
      <4>2. CASE TssDelete(u, k)
        <5>1. head[u] # k \/ live[u] \subseteq {k} \/ keys \subseteq live[u]
          BY <2>1, <4>2 DEF Careful
        <5> QED BY <1>7, <4>2, <5>1
      <4>3. CASE TssDeleteAstray(u, k)
        BY <1>8, <4>3
      <4> QED BY <3>2, <4>1, <4>2, <4>3
    <3>3. CASE Fault(u)
      BY <1>8, <3>3
    <3> QED BY <1>4, <1>5, <3>1, <3>2, <3>3
  <2> QED BY <2>2 DEF Good, Whole
<1> QED BY <1>3, <1>10

-------------------------------------------------------------------------------
(* For any number of keys: a thread that has at most two nodes, and does   *)
(* not delete the first while the other is in use and there are more keys, *)
(* gives its destructors every value, or all but those of the last         *)
(* iteration: ValuesDestroyed of the runs "tiny" and "tiny_keys".  The     *)
(* run "tiny_keys" has the third node.                                     *)
THEOREM DestructorsGetAll == Spec /\ [][Careful]_vars => []ValuesDestroyed
<1>1. Init => Whole
  BY TinyAssumption DEF Init, Whole, WholeAt, Nothing, PastOnce, Freed
<1>2. IInv /\ Whole /\ [Next]_vars /\ [Careful]_vars => Whole'
  BY WholeKept
<1>3. IInv /\ Whole => ValuesDestroyed
  <2> SUFFICES ASSUME IInv, Whole, NEW t \in Threads, pc[t] = "done"
               PROVE  Destroyed(t)
    BY DEF ValuesDestroyed, Destroyed
  <2>1. ThreadInv(t) /\ WholeAt(t) /\ Dangling # None
    BY TinyAssumption DEF IInv, Whole
  <2>2. live[t] \subseteq OnList(t)
    BY <2>1 DEF ThreadInv, ListInv, WholeAt
  <2> QED BY <2>1, <2>2 DEF ThreadInv, ValuesInv, Freed
<1> QED BY <1>1, <1>2, <1>3, Invariant, PTL DEF Spec

(* With no more than two keys every thread is careful, whatever it sets    *)
(* and deletes, and whichever of its calls fail.                           *)
THEOREM TwoKeysSuffice ==
  ASSUME AtMostTwo(Keys)
  PROVE  Spec => []ValuesDestroyed
<1>1. IInv /\ Whole => Careful
  <2> SUFFICES ASSUME IInv, Whole, NEW t \in Threads, NEW k \in Keys
               PROVE  /\ AtMostTwo(live[t] \union {k})
                      /\ TssDelete(t, k) =>
                           \/ head[t] # k \/ live[t] \subseteq {k}
                           \/ keys \subseteq live[t]
    BY DEF Careful
  <2>1. live[t] \subseteq Keys /\ keys \subseteq Keys
    BY DEF IInv, TypeOK
  <2>2. AtMostTwo(live[t] \union {k})
    BY <2>1 DEF AtMostTwo
  <2>3. ASSUME head[t] = k, ~(live[t] \subseteq {k})
        PROVE  keys \subseteq live[t]
    <3>1. k \in live[t]
      BY <2>3, TinyAssumption DEF IInv, ThreadInv, ListInv
    <3> QED BY <2>1, <2>3, <3>1 DEF AtMostTwo
  <2> QED BY <2>2, <2>3
<1>2. Init => Whole
  BY TinyAssumption DEF Init, Whole, WholeAt, Nothing, PastOnce, Freed
<1>3. IInv /\ Whole /\ [Next]_vars => Whole'
  BY <1>1, WholeKept
<1>4. Spec => [][Careful]_vars
  BY <1>1, <1>2, <1>3, Invariant, PTL DEF Spec
<1> QED BY <1>4, DestructorsGetAll, PTL

-------------------------------------------------------------------------------
(* How long a thread's end can take                                        *)

(* The nodes that the loop has before it in this iteration, at most: a     *)
(* destructor may hang one on the node that `tail` points to.              *)
Ahead(t) ==
  IF data[t] \notin Keys THEN 0 ELSE IF data[t] = tail[t] THEN 2 ELSE 1

(* A bound on the steps that _tinycthread_tss_cleanup still has to go:     *)
(* three for each node, and one more for each iteration; then one for each *)
(* node that is freed, and one to end.                                     *)
EndSteps(t) ==
  LET later == 7 * (Iterations - iteration[t]) IN
  CASE pc[t] = "cleanup" -> later + 3 * Ahead(t) + 4
    [] pc[t] = "call"    -> later + 3 * Ahead(t) + 3
    [] pc[t] = "dtor"    -> later + 3 * Ahead(t) + 2
    [] pc[t] = "free"    -> IF head[t] \notin Keys THEN 1
                            ELSE IF next[t][head[t]] = None THEN 2 ELSE 3
    [] pc[t] = "done"    -> 0
    [] OTHER             -> 7 * Iterations + 4

StepsLeft(t) == IF fault THEN 0 ELSE EndSteps(t)

EndLimited == \A t \in Threads : EndSteps(t) \in 0..(7 * Iterations + 4)

(* A loop has at most the iterations before it that it has not begun.      *)
LEMMA EndStepsIs ==
  ASSUME IInv, NEW t \in Threads
  PROVE  EndSteps(t) \in 0..(7 * Iterations + 4)
<1>1. /\ Iterations \in Nat /\ iteration[t] \in 0..Iterations
      /\ pc[t] \in {"cleanup", "call", "dtor"} => iteration[t] >= 1
  BY TinyAssumption DEF IInv, TypeOK, ThreadInv, LoopInv
<1>2. Ahead(t) \in 0..2
  BY DEF Ahead
<1>3. /\ 7 * Iterations \in Nat
      /\ 7 * (Iterations - iteration[t]) \in 0..(7 * Iterations)
      /\ iteration[t] >= 1 =>
           7 * (Iterations - iteration[t]) <= 7 * Iterations - 7
  BY <1>1
<1>4. CASE pc[t] \in {"cleanup", "call", "dtor"}
  BY <1>1, <1>2, <1>3, <1>4 DEF EndSteps
<1>5. CASE pc[t] \notin {"cleanup", "call", "dtor"}
  BY <1>3, <1>5 DEF EndSteps
<1> QED BY <1>4, <1>5

(* Nobody else adds to it: not another thread, nor the destructor, which   *)
(* may delete nodes and hang new ones on the list, but not behind a node   *)
(* that `tail` does not point to.                                          *)
LEMMA EndStepsKept ==
  ASSUME NEW t \in Threads, IInv, [Next]_vars, ~(Exit(t) \/ Cleanup(t))
  PROVE  EndSteps(t)' <= EndSteps(t)
<1> USE DEF onceVars, keyVars, listVars, loopVars, badVars, notOnce, notLoop
<1>1. /\ TypeOK /\ ListInv(t) /\ LoopInv(t)
      /\ None \notin Keys /\ Dangling \notin Keys /\ Dangling # None
  BY TinyAssumption DEF IInv, ThreadInv
<1>2. EndSteps(t) \in Nat
  <2>1. EndSteps(t) \in 0..(7 * Iterations + 4) /\ Iterations \in Nat
    BY EndStepsIs, TinyAssumption
  <2> HIDE DEF EndSteps
  <2> QED BY <2>1
<1>3. ASSUME EndSteps(t)' = EndSteps(t)
      PROVE  EndSteps(t)' <= EndSteps(t)
  <2> DEFINE before == EndSteps(t)
             after  == EndSteps(t)'
  <2>1. before \in Nat /\ after = before
    BY <1>2, <1>3
  <2> HIDE DEF before, after
  <2>2. after <= before
    BY <2>1
  <2> QED BY <2>2 DEF before, after
<1>4. ASSUME pc[t] \notin Ending /\ pc'[t] \notin Ending
      PROVE  EndSteps(t)' <= EndSteps(t)
  BY <1>3, <1>4 DEF EndSteps, Ending
<1>5. ASSUME pc'[t] = pc[t],
             UNCHANGED <<head[t], tail[t], next[t], data[t], iteration[t]>>
      PROVE  EndSteps(t)' <= EndSteps(t)
  <2>1. Ahead(t)' = Ahead(t)
    BY <1>5 DEF Ahead
  <2>2. EndSteps(t)' = EndSteps(t)
    BY <1>5, <2>1 DEF EndSteps
  <2> QED BY <1>3, <2>2
<1>6. ASSUME pc[t] = "dtor", pc'[t] = "dtor", iteration'[t] = iteration[t],
             Ahead(t)' <= Ahead(t)
      PROVE  EndSteps(t)' <= EndSteps(t)
  <2>1. Ahead(t) \in 0..2 /\ Ahead(t)' \in 0..2
    BY DEF Ahead
  <2>2. 7 * (Iterations - iteration[t]) \in Nat
    BY <1>1, TinyAssumption DEF TypeOK
  <2>3. /\ EndSteps(t) = 7 * (Iterations - iteration[t]) + 3 * Ahead(t) + 2
        /\ EndSteps(t)' = 7 * (Iterations - iteration[t]) + 3 * Ahead(t)' + 2
    BY <1>6 DEF EndSteps
  <2> QED BY <1>6, <2>1, <2>2, <2>3
<1>7. CASE UNCHANGED vars
  BY <1>5, <1>7 DEF vars
<1>8. ASSUME NEW u \in Threads, Create(u) \/ Start(u) \/ OnceStep(u)
      PROVE  EndSteps(t)' <= EndSteps(t)
  <2>1. UNCHANGED <<listVars, loopVars>>
    BY <1>8 DEF Create, Start, OnceStep, OnceRead, OnceCas,
       OnceInit, Callback, OnceDone, OnceLeave, OnceWait, OnceWaited
  <2>2. PICK from, to \in {"none", "start", "user"} \union OnceSteps :
          Step(u, from, to)
    BY <1>8 DEF Create, Start, OnceStep, OnceRead, OnceCas,
       OnceInit, Callback, OnceDone, OnceLeave, OnceWait, OnceWaited, OnceSteps
  <2>3. /\ pc[u] = from /\ pc'[u] = to
        /\ t # u => pc'[t] = pc[t]
    BY <1>1, <2>2, Steps
  <2>4. from \notin Ending /\ to \notin Ending
    BY <2>2 DEF OnceSteps, Ending
  <2>5. pc'[t] = pc[t] \/ (pc[t] \notin Ending /\ pc'[t] \notin Ending)
    BY <2>3, <2>4
  <2> QED BY <1>4, <1>5, <2>1, <2>5
<1>9. ASSUME NEW u \in Threads, NEW k \in Keys,
             TssSetFails(u, k) \/ \E v \in Vals \union {None} : TssSet(u, k, v)
      PROVE  EndSteps(t)' <= EndSteps(t)
  <2>1. pc' = pc /\ UNCHANGED loopVars /\ pc[u] \in {"user", "dtor"}
    BY <1>9 DEF TssSet, TssSetFails, Running
  <2>2. CASE u # t
    <3>1. UNCHANGED <<head[t], tail[t], next[t]>>
      BY <1>1, <1>9, <2>2 DEF TssSet, TssSetFails, Link, TypeOK
    <3> QED BY <1>5, <2>1, <3>1
  <2>3. CASE u = t /\ pc[t] = "user"
    BY <1>4, <2>1, <2>3 DEF Ending
  <2>4. CASE u = t /\ pc[t] = "dtor"
    <3>1. \/ tail' = tail
          \/ /\ k \notin live[t]
             /\ tail'[t] = tail[t] \/ tail'[t] = k \/ tail'[t] = Dangling
      BY <1>1, <1>9, <2>4 DEF TssSet, TssSetFails, Link, TypeOK
    <3>2. data[t] \in Keys => data[t] \in live[t]
      BY <1>1 DEF LoopInv
    <3>3. Ahead(t)' <= Ahead(t)
      BY <1>1, <2>1, <3>1, <3>2 DEF Ahead
    <3> QED BY <1>6, <2>1, <2>4, <3>3
  <2> QED BY <2>1, <2>2, <2>3, <2>4
<1>10. ASSUME NEW u \in Threads, NEW k \in Keys, TssDelete(u, k)
       PROVE  EndSteps(t)' <= EndSteps(t)
  <2>1. /\ pc' = pc /\ UNCHANGED iteration /\ pc[u] \in {"user", "dtor"}
    BY <1>10 DEF TssDelete, Delete, Running
  <2>2. Deleted(u, k)
    BY <1>10, DeleteIs
  <2>3. CASE u # t
    <3>1. UNCHANGED <<head[t], tail[t], next[t], data[t]>>
      BY <2>2, <2>3 DEF Deleted
    <3> QED BY <1>5, <2>1, <3>1
  <2>4. CASE u = t /\ pc[t] = "user"
    BY <1>4, <2>1, <2>4 DEF Ending
  <2>5. CASE u = t /\ pc[t] = "dtor"
    <3>1. /\ data'[t] = Gone(k, data[t])
          /\ tail'[t] = IF tail[t] = k THEN None ELSE tail[t]
      BY <2>2, <2>5 DEF Deleted
    <3>2. Ahead(t)' <= Ahead(t)
      BY <1>1, <3>1 DEF Ahead, Gone
    <3> QED BY <1>6, <2>1, <2>5, <3>2
  <2> QED BY <2>1, <2>3, <2>4, <2>5
<1>11. ASSUME NEW u \in Threads, u # t, Exit(u) \/ Cleanup(u)
       PROVE  EndSteps(t)' <= EndSteps(t)
  <2>1. UNCHANGED <<head[t], tail[t], next[t], data[t], iteration[t]>>
    BY <1>1, <1>11 DEF Exit, Cleanup, Visit, CallDtor, DtorReturn,
       NextIteration, Free, TypeOK
  <2>2. pc'[t] = pc[t]
    <3>1. pc' = pc \/ \E to : pc' = [pc EXCEPT ![u] = to]
      BY <1>11 DEF Exit, Cleanup, Visit, CallDtor, DtorReturn, NextIteration,
         Free, Step
    <3> QED BY <1>1, <1>11, <3>1 DEF TypeOK
  <2> QED BY <1>5, <2>1, <2>2
<1>12. ASSUME NEW u \in Threads,
              Fault(u) \/ \E k \in Keys : TssDeleteAstray(u, k)
       PROVE  EndSteps(t)' <= EndSteps(t)
  <2>1. UNCHANGED <<pc, listVars, loopVars>>
    BY <1>12 DEF Fault, TssDeleteAstray
  <2> QED BY <1>5, <2>1
<1> HIDE DEF EndSteps
<1> QED BY <1>7, <1>8, <1>9, <1>10, <1>11, <1>12 DEF Next

(* A step of the thread's end takes one step at least off the bound: the   *)
(* loop goes on to a node that has nothing behind it, or to the end of the *)
(* list, or begins another of a limited number of iterations.              *)
LEMMA EndStepsCount ==
  ASSUME NEW t \in Threads, IInv, Exit(t) \/ Cleanup(t)
  PROVE  EndSteps(t)' < EndSteps(t)
<1> USE DEF listVars, loopVars
<1>1. /\ TypeOK /\ ListInv(t) /\ LoopInv(t)
      /\ None \notin Keys /\ Dangling \notin Keys
      /\ Iterations \in Nat /\ Iterations >= 1
  BY TinyAssumption DEF IInv, ThreadInv
<1>2. /\ iteration[t] \in Nat /\ iteration[t] <= Iterations
      /\ next[t] \in [Keys -> Pointers]
      /\ Iterations - iteration[t] \in Nat
      /\ 7 * (Iterations - iteration[t]) \in Nat
  BY <1>1 DEF TypeOK
<1>3. Ahead(t) \in 0..2 /\ Ahead(t)' \in 0..2
  BY DEF Ahead
<1>4. CASE Exit(t)
  <2>1. /\ pc[t] = "user" /\ pc'[t] \in {"cleanup", "done"}
        /\ iteration'[t] = 1
    BY <1>1, <1>4, Steps DEF Exit, TypeOK
  <2>2. EndSteps(t) = 7 * Iterations + 4
    BY <2>1 DEF EndSteps
  <2>3. /\ 7 * (Iterations - 1) \in Nat
        /\ 7 * (Iterations - 1) = 7 * Iterations - 7
    BY <1>1
  <2>4. CASE pc'[t] = "cleanup"
    <3>1. EndSteps(t)' = 7 * (Iterations - 1) + 3 * Ahead(t)' + 4
      BY <2>1, <2>4 DEF EndSteps
    <3> QED BY <1>1, <1>3, <2>2, <2>3, <3>1
  <2>5. CASE pc'[t] = "done"
    <3>1. EndSteps(t)' = 0
      BY <2>5 DEF EndSteps
    <3> QED BY <1>1, <2>2, <3>1
  <2> QED BY <2>1, <2>4, <2>5
<1>5. ASSUME UNCHANGED <<tail[t], next[t], iteration[t]>>,
             data[t] \in Keys, data'[t] = next[t][data[t]], pc[t] # "done"
      PROVE  Ahead(t)' <= Ahead(t) - 1
  <2>1. next[t][data[t]] # None =>
          data[t] = tail[t] /\ next[t][data[t]] # data[t]
    BY <1>1, <1>5 DEF ListInv
  <2> QED BY <1>1, <1>5, <2>1 DEF Ahead
<1>6. CASE Visit(t)
  <2>1. /\ pc[t] = "cleanup" /\ data[t] \in Keys
        /\ UNCHANGED <<tail[t], next[t], iteration[t]>>
        /\ \/ pc'[t] = "call" /\ data'[t] = data[t]
           \/ pc'[t] = "cleanup" /\ data'[t] = next[t][data[t]]
    BY <1>1, <1>6 DEF Visit, TypeOK
  <2>2. \/ pc'[t] = "call" /\ Ahead(t)' = Ahead(t)
        \/ pc'[t] = "cleanup" /\ Ahead(t)' <= Ahead(t) - 1
    BY <1>5, <2>1 DEF Ahead
  <2> QED BY <1>2, <1>3, <2>1, <2>2 DEF EndSteps
<1>7. CASE CallDtor(t)
  <2>1. /\ pc[t] = "call" /\ pc'[t] = "dtor"
        /\ UNCHANGED <<tail[t], next[t], data[t], iteration[t]>>
    BY <1>1, <1>7, Steps DEF CallDtor, TypeOK
  <2>2. Ahead(t)' = Ahead(t)
    BY <2>1 DEF Ahead
  <2> QED BY <1>2, <1>3, <2>1, <2>2 DEF EndSteps
<1>8. CASE DtorReturn(t)
  <2>1. /\ pc[t] = "dtor" /\ pc'[t] = "cleanup" /\ data[t] \in Keys
        /\ UNCHANGED <<tail[t], next[t], iteration[t]>>
        /\ data'[t] = next[t][data[t]]
    BY <1>1, <1>8, Steps DEF DtorReturn, TypeOK, LoopInv, Pointers
  <2> QED BY <1>2, <1>3, <1>5, <2>1 DEF EndSteps
<1>9. CASE NextIteration(t)
  <2>1. /\ pc[t] = "cleanup" /\ data[t] = None
        /\ \/ /\ pc'[t] = "cleanup"
              /\ iteration'[t] = iteration[t] + 1
              /\ iteration[t] < Iterations
           \/ pc'[t] = "free"
    BY <1>1, <1>9, Steps DEF NextIteration, TypeOK
  <2>2. EndSteps(t) = 7 * (Iterations - iteration[t]) + 4
    BY <1>1, <1>2, <2>1 DEF EndSteps, Ahead
  <2>3. CASE pc'[t] = "free"
    <3>1. EndSteps(t)' \in 1..3
      BY <2>3 DEF EndSteps
    <3> QED BY <1>2, <2>2, <3>1
  <2>4. CASE pc'[t] # "free"
    <3>1. EndSteps(t)' = 7 * (Iterations - (iteration[t] + 1))
                           + 3 * Ahead(t)' + 4
      BY <2>1, <2>4 DEF EndSteps
    <3>2. 7 * (Iterations - (iteration[t] + 1))
            = 7 * (Iterations - iteration[t]) - 7
      BY <1>1, <1>2
    <3> QED BY <1>2, <1>3, <2>2, <3>1, <3>2
  <2> QED BY <2>3, <2>4
<1>10. CASE Free(t)
  <2>1. CASE head[t] = None
    <3>1. pc[t] = "free" /\ pc'[t] = "done"
      BY <1>1, <1>10, <2>1, Steps DEF Free
    <3> QED BY <1>1, <2>1, <3>1 DEF EndSteps
  <2>2. CASE head[t] \in Keys
    <3>1. /\ pc[t] = "free" /\ pc'[t] = "free"
          /\ head'[t] = next[t][head[t]]
          /\ next'[t] = Without(head[t], next[t])
      <4>1. head[t] # None /\ Step(t, "free", "free")
        BY <1>1, <1>10, <2>2 DEF Free
      <4> QED BY <1>1, <1>10, <2>2, <4>1, Steps DEF Free, TypeOK
    <3>2. \A k \in Keys : k # head[t] /\ next[t][head[t]] # None =>
            next[t][k] = None
      BY <1>1, <2>2 DEF ListInv
    <3>3. \A k \in Keys : next[t][head[t]] # None => next'[t][k] = None
      BY <1>1, <2>2, <3>1, <3>2 DEF Without, Gone
    <3>4. CASE next[t][head[t]] = None
      <4>1. EndSteps(t) = 2 /\ EndSteps(t)' = 1
        BY <1>1, <2>2, <3>1, <3>4 DEF EndSteps
      <4> QED BY <4>1
    <3>5. CASE next[t][head[t]] # None
      <4>1. EndSteps(t) = 3 /\ EndSteps(t)' \in 1..2
        BY <1>1, <2>2, <3>1, <3>3, <3>5 DEF EndSteps
      <4> QED BY <4>1
    <3> QED BY <3>4, <3>5
  <2> QED BY <1>10, <2>1, <2>2 DEF Free
<1> QED BY <1>4, <1>6, <1>7, <1>8, <1>9, <1>10 DEF Cleanup

(* With every step of a thread's end the bound goes down, and with no step *)
(* does it go up.                                                          *)
EndComesNearer ==
  \A t \in Threads :
    /\ StepsLeft(t)' <= StepsLeft(t)
    /\ Exit(t) \/ Cleanup(t) => StepsLeft(t)' < StepsLeft(t)

Limited == \A t \in Threads : StepsLeft(t) \in 0..(7 * Iterations + 4)

(* What TSS_DTOR_ITERATIONS is for: whatever the destructors set and       *)
(* delete, and for however many keys, a thread takes no more than          *)
(* 7 * TSS_DTOR_ITERATIONS + 4 steps to its end, from the call of          *)
(* _tinycthread_tss_cleanup on, or uses a freed node.  It is the part of   *)
(* ThreadsEnd that does not depend on fairness.                            *)
THEOREM EndIsLimited == Spec => []Limited /\ [][EndComesNearer]_vars
<1>1. IInv => EndLimited
  BY EndStepsIs DEF EndLimited
<1>2. EndLimited => Limited
  <2>1. 0 \in 0..(7 * Iterations + 4)
    BY TinyAssumption
  <2>2. \A t \in Threads : StepsLeft(t) = 0 \/ StepsLeft(t) = EndSteps(t)
    BY DEF StepsLeft
  <2> HIDE DEF StepsLeft, EndSteps
  <2> QED BY <2>1, <2>2, Zenon DEF EndLimited, Limited
<1>3. IInv /\ IInv' /\ [Next]_vars => [EndComesNearer]_vars
  <2> SUFFICES ASSUME IInv, IInv', [Next]_vars, vars' # vars, NEW t \in Threads
               PROVE  /\ StepsLeft(t)' <= StepsLeft(t)
                      /\ Exit(t) \/ Cleanup(t) =>
                           StepsLeft(t)' < StepsLeft(t)
    BY DEF EndComesNearer
  <2>1. ~fault /\ (Exit(t) \/ Cleanup(t) => ~fault')
    BY DEF Next, Exit, Cleanup, Visit, CallDtor, DtorReturn, NextIteration,
       Free, notLoop, badVars
  <2> DEFINE before == EndSteps(t)
             after  == EndSteps(t)'
  <2>2. before \in Nat /\ after \in Nat
    <3>1. EndLimited /\ EndLimited'
      <4>1. IInv' => EndLimited'
        BY <1>1, PTL
      <4> QED BY <1>1, <4>1
    <3>2. /\ before \in 0..(7 * Iterations + 4)
          /\ after \in 0..(7 * Iterations + 4)
      BY <3>1 DEF EndLimited
    <3> HIDE DEF before, after
    <3> QED BY <3>2, TinyAssumption
  <2>3. StepsLeft(t) = before /\ StepsLeft(t)' = IF fault' THEN 0 ELSE after
    BY <2>1 DEF StepsLeft
  <2>4. CASE Exit(t) \/ Cleanup(t)
    <3>1. after < before
      BY <2>4, EndStepsCount
    <3> HIDE DEF before, after
    <3>2. after <= before
      BY <2>2, <3>1
    <3> QED BY <2>1, <2>3, <2>4, <3>1, <3>2
  <2>5. CASE ~(Exit(t) \/ Cleanup(t))
    <3>1. after <= before
      BY <2>5, EndStepsKept
    <3> HIDE DEF before, after
    <3> QED BY <2>2, <2>3, <2>5, <3>1
  <2> QED BY <2>4, <2>5
<1> QED BY <1>1, <1>2, <1>3, Invariant, PTL DEF Spec

===============================================================================
