-------------------------- MODULE ThreadsMemory_proofs --------------------------
(***************************************************************************)
(* The handshake of the threads backend passes the baton, and what was     *)
(* written before it, over store buffers too: for any number of calls of   *)
(* koro_run.                                                               *)
(*                                                                         *)
(* The application ends a round with a wait for wait_run, the worker one   *)
(* with a wait for wait_yield.  Each has itself stored to that flag last,  *)
(* and the other stores back only when it has seen that.  So the buffer of *)
(* a thread is empty when such a wait is over, and never holds but the end *)
(* of the two or three stores that it does until the next one.             *)
(***************************************************************************)
EXTENDS ThreadsMemory, Integers, TLAPS

(* The variables that a thread has stored to since its last round ended,   *)
(* by the place it is at.                                                  *)
Order(at) ==
  CASE at \in {"user", "body"}                -> <<>>
    [] at \in {"cy_wait", "cy_clear"}         -> <<"round">>
    [] at = "wr_set"                          -> <<"round", "waitYield">>
    [] at = "wr_wait"              -> <<"round", "waitYield", "waitRun">>
    [] at \in {"cr_wait", "cr_clear", "fin_set"} -> <<"i">>
    [] at \in {"fin_wait", "fin_clear"}       -> <<"i", "finished">>
    [] at = "wy_set"                          -> <<"i", "waitRun">>
    [] at = "wy_wait"                  -> <<"i", "waitRun", "waitYield">>
    [] at = "exit"                      -> <<"i", "finished", "waitRun">>

Counters == {"round", "i"}
Vars     == {"waitRun", "waitYield", "finished"} \union Counters

(* What a thread may store: the application sets wait_run and clears       *)
(* wait_yield, the worker the other way round.                             *)
May(t, x, v) ==
  IF x \in Counters THEN v \in Nat
  ELSE v = (x \in {"finished", IF t = "app" THEN "waitRun" ELSE "waitYield"})
Vals(x)  == IF x \in Counters THEN Nat ELSE BOOLEAN
Stores   == [var : Vars, val : BOOLEAN \union Nat]

Pcs(t) ==
  IF t = "app" THEN {"user", "cy_wait", "cy_clear", "wr_set", "wr_wait"}
  ELSE {"wy_set", "wy_wait", "body", "cr_wait", "cr_clear", "fin_set",
        "fin_wait", "fin_clear", "exit"}

TypeOK ==
  /\ DOMAIN mem = Vars
  /\ \A x \in Vars : mem[x] \in Vals(x)
  /\ buffer \in [Threads -> Seq(Stores)]
  /\ pc \in [Threads -> Pcs("app") \union Pcs("worker")]
  /\ \A t \in Threads : pc[t] \in Pcs(t)

Left(t) == Len(buffer[t])

(* The buffer holds the last of its stores.                                *)
BufferInv(t) ==
  LET done == Len(Order(pc[t])) - Left(t) IN
  /\ done >= 0
  /\ \A n \in 1..Left(t) :
       LET s == buffer[t][n] IN
       /\ s.var = Order(pc[t])[done + n]
       /\ May(t, s.var, s.val)

Rounds   == Load("app", "round")
Segments == Load("worker", "i")

(* The worker waits to be called, or is on its way to, or has ended.       *)
Parked ==
  /\ \/ pc["worker"] \in {"wy_set", "exit"} /\ Left("worker") = 0
     \/ pc["worker"] = "wy_wait" /\ Left("worker") <= 1
  /\ mem.waitYield <=> pc["worker"] = "wy_wait" /\ Left("worker") = 0
  /\ ~mem.waitRun

(* koro_run has seen it wait.                                              *)
Seen ==
  /\ pc["worker"] = "wy_wait" /\ Left("worker") = 0
  /\ mem.waitYield
  /\ ~mem.waitRun

(* It runs its segment, and waits for koro_run to wait.                    *)
AtWork ==
  /\ \/ pc["worker"] = "wy_wait" /\ Left("worker") = 0
     \/ pc["worker"] \in {"body", "cr_wait", "fin_set", "fin_wait"}
     \/ pc["worker"] \in {"cr_clear", "fin_clear"} /\ mem.waitRun
  /\ ~mem.waitYield
  /\ Rounds = IF pc["worker"] \in {"wy_wait", "body"}
              THEN Segments + 1 ELSE Segments

(* It has given the baton back, which koro_run does not see yet.           *)
Returning ==
  /\ \/ pc["worker"] \in {"wy_set", "exit"} /\ Left("worker") >= 1
     \/ pc["worker"] = "wy_wait" /\ Left("worker") >= 2
  /\ ~mem.waitYield
  /\ mem.waitRun

(* Whose turn it is: what koro_run knows at each place, and how many       *)
(* stores are left in its buffer.                                          *)
TurnInv ==
  LET at == pc["app"]  left == Left("app") IN
  \/ at = "user" /\ Parked /\ Rounds = Segments
  \/ at = "cy_wait" /\ Parked /\ Rounds = Segments + 1
  \/ /\ \/ at = "cy_clear"
        \/ at = "wr_set" /\ left >= 1
        \/ at = "wr_wait" /\ left >= 2
     /\ Seen /\ Rounds = Segments + 1
  \/ /\ \/ at = "wr_set" /\ left = 0
        \/ at = "wr_wait" /\ left = 1
     /\ AtWork /\ ~mem.waitRun
  \/ /\ at = "wr_wait" /\ left = 0
     /\ \/ AtWork /\ mem.waitRun
        \/ (Returning \/ Parked) /\ Rounds = Segments

(* `finished` is in the memory before the baton.                           *)
FinishedInv ==
  /\ pc["worker"] \in {"fin_wait", "fin_clear"} /\ Left("worker") = 0 =>
       mem.finished
  /\ pc["worker"] = "exit" /\ Left("worker") <= 1 => mem.finished

IInv ==
  /\ TypeOK
  /\ BufferInv("app") /\ BufferInv("worker")
  /\ TurnInv
  /\ FinishedInv

-------------------------------------------------------------------------------
(* How many stores each place comes after, and which they are.             *)
LEMMA Orders ==
  /\ Order("user") = <<>> /\ Order("body") = <<>>
  /\ Order("cy_wait") = <<"round">> /\ Order("cy_clear") = <<"round">>
  /\ Order("wr_set") = <<"round", "waitYield">>
  /\ Order("wr_wait") = <<"round", "waitYield", "waitRun">>
  /\ Order("cr_wait") = <<"i">> /\ Order("cr_clear") = <<"i">>
  /\ Order("fin_set") = <<"i">>
  /\ Order("fin_wait") = <<"i", "finished">>
  /\ Order("fin_clear") = <<"i", "finished">>
  /\ Order("wy_set") = <<"i", "waitRun">>
  /\ Order("wy_wait") = <<"i", "waitRun", "waitYield">>
  /\ Order("exit") = <<"i", "finished", "waitRun">>
BY DEF Order

(* One more store, to x, lies between two places.                          *)
Stored(from, x, to) ==
  LET before == Order(from)  after == Order(to) IN
  /\ Len(after) = Len(before) + 1
  /\ \A n \in 1..Len(before) : after[n] = before[n]
  /\ after[Len(before) + 1] = x

(* The steps at which a thread stores go to such a place.                  *)
LEMMA NextOrders ==
  /\ Stored("user", "round", "cy_wait")
  /\ Stored("cy_clear", "waitYield", "wr_set")
  /\ Stored("wr_set", "waitRun", "wr_wait")
  /\ Stored("body", "i", "cr_wait") /\ Stored("body", "i", "fin_set")
  /\ Stored("fin_set", "finished", "fin_wait")
  /\ Stored("cr_clear", "waitRun", "wy_set")
  /\ Stored("fin_clear", "waitRun", "exit")
  /\ Stored("wy_set", "waitYield", "wy_wait")
<1>1. ASSUME NEW p, NEW q, NEW x, Order(p) = <<>>, Order(q) = <<x>>
      PROVE  Stored(p, x, q)
  BY <1>1 DEF Stored
<1>2. ASSUME NEW p, NEW q, NEW x, NEW y,
             Order(p) = <<x>>, Order(q) = <<x, y>>
      PROVE  Stored(p, y, q)
  BY <1>2 DEF Stored
<1>3. ASSUME NEW p, NEW q, NEW x, NEW y, NEW z,
             Order(p) = <<x, y>>, Order(q) = <<x, y, z>>
      PROVE  Stored(p, z, q)
  BY <1>3 DEF Stored
<1>4. /\ Stored("user", "round", "cy_wait")
      /\ Stored("body", "i", "cr_wait") /\ Stored("body", "i", "fin_set")
  BY <1>1, Orders
<1>5. /\ Stored("cy_clear", "waitYield", "wr_set")
      /\ Stored("fin_set", "finished", "fin_wait")
      /\ Stored("cr_clear", "waitRun", "wy_set")
  BY <1>2, Orders
<1>6. /\ Stored("wr_set", "waitRun", "wr_wait")
      /\ Stored("fin_clear", "waitRun", "exit")
      /\ Stored("wy_set", "waitYield", "wy_wait")
  BY <1>3, Orders
<1> QED BY <1>4, <1>5, <1>6

(* No variable is stored to twice in a round.                              *)
LEMMA OrderOnce ==
  ASSUME NEW t \in Threads, NEW at \in Pcs(t)
  PROVE  /\ Order(at) \in Seq(Vars)
         /\ \A m, n \in 1..Len(Order(at)) :
              Order(at)[m] = Order(at)[n] => m = n
<1>1. \/ Order(at) = <<>>
      \/ \E x \in Vars : Order(at) = <<x>>
      \/ \E x, y \in Vars : x # y /\ Order(at) = <<x, y>>
      \/ \E x, y, z \in Vars :
           x # y /\ x # z /\ y # z /\ Order(at) = <<x, y, z>>
  <2>1. /\ {"round", "i", "waitRun", "waitYield", "finished"} \subseteq Vars
        /\ at \in Pcs("app") \union Pcs("worker")
    BY DEF Pcs, Threads, Vars, Counters
  <2>2. CASE at \in {"user", "body"}
    BY <2>2, Orders
  <2>3. CASE at \in {"cy_wait", "cy_clear", "cr_wait", "cr_clear", "fin_set"}
    BY <2>1, <2>3, Orders
  <2>4. CASE at \in {"wr_set", "fin_wait", "fin_clear", "wy_set"}
    BY <2>1, <2>4, Orders
  <2>5. CASE at \in {"wr_wait", "wy_wait", "exit"}
    BY <2>1, <2>5, Orders
  <2> QED
    BY <2>1, <2>2, <2>3, <2>4, <2>5 DEF Pcs
<1>2. CASE Order(at) = <<>>
  BY <1>2
<1>3. ASSUME NEW x \in Vars, Order(at) = <<x>>
      PROVE  /\ Order(at) \in Seq(Vars)
             /\ \A m, n \in 1..Len(Order(at)) :
                  Order(at)[m] = Order(at)[n] => m = n
  BY <1>3
<1>4. ASSUME NEW x \in Vars, NEW y \in Vars, x # y, Order(at) = <<x, y>>
      PROVE  /\ Order(at) \in Seq(Vars)
             /\ \A m, n \in 1..Len(Order(at)) :
                  Order(at)[m] = Order(at)[n] => m = n
  BY <1>4
<1>5. ASSUME NEW x \in Vars, NEW y \in Vars, NEW z \in Vars,
             x # y, x # z, y # z, Order(at) = <<x, y, z>>
      PROVE  /\ Order(at) \in Seq(Vars)
             /\ \A m, n \in 1..Len(Order(at)) :
                  Order(at)[m] = Order(at)[n] => m = n
  BY <1>5
<1> QED
  BY <1>1, <1>2, <1>3, <1>4, <1>5

(* A thread reads what it has in its buffer,                               *)
LEMMA LoadOwn ==
  ASSUME TypeOK, NEW t \in Threads, BufferInv(t), NEW n \in 1..Left(t)
  PROVE  Load(t, buffer[t][n].var) = buffer[t][n].val
<1> DEFINE b == buffer[t]
           x == b[n].var
           own == {m \in DOMAIN b : b[m].var = x}
<1>1. b \in Seq(Stores) /\ Left(t) = Len(b) /\ DOMAIN b = 1..Len(b)
  BY DEF TypeOK, Left
<1>2. pc[t] \in Pcs(t)
  BY DEF TypeOK
<1>3. \A m \in 1..Len(b) : b[m].var = x => m = n
  <2> SUFFICES ASSUME NEW m \in 1..Len(b), b[m].var = x PROVE m = n
    OBVIOUS
  <2> DEFINE o == Order(pc[t])
             d == Len(o) - Len(b)
  <2>1. o \in Seq(Vars) /\ \A i, j \in 1..Len(o) : o[i] = o[j] => i = j
    BY <1>2, OrderOnce
  <2>2. d >= 0 /\ b[m].var = o[d + m] /\ b[n].var = o[d + n]
    BY <1>1 DEF BufferInv
  <2> HIDE DEF o
  <2>3. Len(o) \in Nat /\ Len(b) \in Nat /\ m \in Int /\ n \in Int
    BY <1>1, <2>1
  <2>4. d + m \in 1..Len(o) /\ d + n \in 1..Len(o)
    BY <1>1, <2>2, <2>3
  <2>5. d + m = d + n
    BY <2>1, <2>2, <2>4
  <2> QED BY <2>3, <2>5
<1>4. own = {n}
  BY <1>1, <1>3
<1>5. (CHOOSE m \in own : \A k \in own : k <= m) = n
  BY <1>4
<1> QED
  BY <1>4, <1>5 DEF Load

(* and the memory for the rest.                                            *)
LEMMA LoadMemory ==
  ASSUME TypeOK, NEW t \in Threads, NEW x,
         \A n \in 1..Left(t) : buffer[t][n].var # x
  PROVE  Load(t, x) = mem[x]
<1>1. DOMAIN buffer[t] = 1..Left(t)
  BY DEF TypeOK, Left
<1> QED
  BY <1>1 DEF Load

(* The same of the state after a step.                                     *)
LEMMA LoadsNext ==
  ASSUME NEW t \in Threads
  PROVE  /\ TypeOK' /\ BufferInv(t)' =>
              \A n \in 1..Left(t)' :
                Load(t, buffer[t][n].var)' = buffer'[t][n].val
         /\ TypeOK' => \A x :
              (\A n \in 1..Left(t)' : buffer'[t][n].var # x) =>
                Load(t, x)' = mem'[x]
<1>1. TypeOK /\ BufferInv(t) =>
        \A n \in 1..Left(t) : Load(t, buffer[t][n].var) = buffer[t][n].val
  BY LoadOwn
<1>2. TypeOK => \A x :
        (\A n \in 1..Left(t) : buffer[t][n].var # x) => Load(t, x) = mem[x]
  BY LoadMemory
<1>3. (TypeOK /\ BufferInv(t) =>
        \A n \in 1..Left(t) : Load(t, buffer[t][n].var) = buffer[t][n].val)'
  BY <1>1, PTL
<1>4. (TypeOK => \A x :
        (\A n \in 1..Left(t) : buffer[t][n].var # x) => Load(t, x) = mem[x])'
  BY <1>2, PTL
<1> QED
  BY <1>3, <1>4

(* A thread that goes on without a store to a place that comes after the   *)
(* same stores, or that had none left.                                     *)
LEMMA Moves ==
  ASSUME TypeOK, \A u \in Threads : BufferInv(u),
         NEW t \in Threads, NEW to \in Pcs(t),
         pc' = [pc EXCEPT ![t] = to], UNCHANGED <<mem, buffer>>,
         Order(to) = Order(pc[t]) \/ Left(t) = 0
  PROVE  /\ TypeOK'
         /\ \A u \in Threads : BufferInv(u)' /\ Left(u)' = Left(u)
         /\ \A u \in Threads : \A x : Load(u, x)' = Load(u, x)
<1>1. TypeOK'
  <2>1. to \in Pcs("app") \union Pcs("worker")
    BY DEF Threads
  <2>2. \A u \in Threads : pc'[u] \in Pcs(u)
    BY DEF TypeOK
  <2>3. pc' \in [Threads -> Pcs("app") \union Pcs("worker")]
    BY <2>1 DEF TypeOK
  <2> QED
    BY <2>2, <2>3 DEF TypeOK
<1>2. \A u \in Threads : Left(u)' = Left(u)
  BY DEF Left
<1>3. \A u \in Threads : \A x : Load(u, x)' = Load(u, x)
  BY DEF Load
<1>4. BufferInv(t)'
  <2>1. pc'[t] = to
    BY DEF TypeOK
  <2>2. CASE Order(to) = Order(pc[t])
    BY <2>1, <2>2, <1>2 DEF BufferInv
  <2>3. CASE Left(t) = 0
    <3>1. Len(Order(to)) \in Nat
      BY OrderOnce
    <3> QED
      BY <2>1, <2>3, <3>1, <1>2 DEF BufferInv
  <2> QED
    BY <2>2, <2>3
<1>5. ASSUME NEW u \in Threads, u # t PROVE BufferInv(u)'
  <2>1. pc'[u] = pc[u]
    BY <1>5 DEF TypeOK
  <2> QED
    BY <2>1, <1>2 DEF BufferInv
<1> QED
  BY <1>1, <1>2, <1>3, <1>4, <1>5

(* A thread that stores to the next variable of its order.                 *)
StoreStep(t, to, x, v) ==
  /\ to \in Pcs(t) /\ x \in Vars
  /\ May(t, x, v) /\ v \in BOOLEAN \union Nat
  /\ Stored(pc[t], x, to)
  /\ pc' = [pc EXCEPT ![t] = to]
  /\ UNCHANGED mem
  /\ Store(t, x, v)

StoreEffect(t, x, v) ==
  /\ TypeOK'
  /\ \A u \in Threads :
       BufferInv(u)' /\ Left(u)' = IF u = t THEN Left(u) + 1 ELSE Left(u)
  /\ \A u \in Threads : \A y :
       Load(u, y)' = IF u = t /\ y = x THEN v ELSE Load(u, y)

(* Its buffer is longer by the store, which only the thread itself reads.  *)
LEMMA StoreMoves ==
  ASSUME TypeOK, \A u \in Threads : BufferInv(u),
         NEW t \in Threads, NEW to, NEW x, NEW v, StoreStep(t, to, x, v)
  PROVE  StoreEffect(t, x, v)
<1> USE DEF StoreStep
<1> DEFINE s == [var |-> x, val |-> v]
           b == buffer[t]
<1>1. s \in Stores
  BY DEF Stores
<1>2. /\ b \in Seq(Stores) /\ Left(t) = Len(b) /\ Len(b) \in Nat
      /\ buffer' = [buffer EXCEPT ![t] = Append(b, s)]
      /\ buffer'[t] = Append(b, s)
      /\ \A u \in Threads : u # t => buffer'[u] = buffer[u]
      /\ pc'[t] = to
      /\ \A u \in Threads : u # t => pc'[u] = pc[u]
  BY DEF TypeOK, Left, Store
<1>3. /\ Append(b, s) \in Seq(Stores)
      /\ Left(t)' = Len(b) + 1
      /\ \A n \in 1..Len(b) : buffer'[t][n] = b[n]
      /\ buffer'[t][Len(b) + 1] = s
  BY <1>1, <1>2 DEF Left
<1>4. TypeOK'
  <2>1. buffer' \in [Threads -> Seq(Stores)]
    BY <1>2, <1>3 DEF TypeOK
  <2>2. to \in Pcs("app") \union Pcs("worker")
    BY DEF Threads
  <2>3. \A u \in Threads : pc'[u] \in Pcs(u)
    BY <1>2 DEF TypeOK
  <2>4. pc' \in [Threads -> Pcs("app") \union Pcs("worker")]
    BY <2>2 DEF TypeOK
  <2> QED
    BY <2>1, <2>3, <2>4 DEF TypeOK
<1>5. \A u \in Threads : Left(u)' = IF u = t THEN Left(u) + 1 ELSE Left(u)
  BY <1>2, <1>3 DEF Left
<1>6. BufferInv(t)'
  <2> DEFINE o == Order(pc[t])
  <2>1. o \in Seq(Vars) /\ Len(o) \in Nat
    BY OrderOnce DEF TypeOK
  <2>2. /\ Len(Order(to)) = Len(o) + 1
        /\ \A n \in 1..Len(o) : Order(to)[n] = o[n]
        /\ Order(to)[Len(o) + 1] = x
    BY DEF Stored
  <2>3. /\ Len(o) - Len(b) >= 0
        /\ \A n \in 1..Len(b) :
             /\ b[n].var = o[Len(o) - Len(b) + n]
             /\ May(t, b[n].var, b[n].val)
    <3>1. BufferInv(t) /\ Left(t) = Len(b)
      BY <1>2
    <3> QED
      BY <3>1, <2>1 DEF BufferInv
  <2> HIDE DEF o
  <2>4. Len(b) \in Nat
    BY <1>2
  <2>5. Len(o) \in Nat
    BY <2>1
  <2>6. Len(Order(pc'[t])) - Left(t)' = Len(o) - Len(b)
    BY <1>2, <1>3, <2>1, <2>2
  <2>7. ASSUME NEW n \in 1..(Len(b) + 1)
        PROVE  /\ buffer'[t][n].var = Order(pc'[t])[Len(o) - Len(b) + n]
               /\ May(t, buffer'[t][n].var, buffer'[t][n].val)
    <3>1. CASE n \in 1..Len(b)
      <4>1. Len(o) - Len(b) + n \in 1..Len(o)
        BY <1>2, <2>1, <2>3, <3>1
      <4>2. Order(pc'[t])[Len(o) - Len(b) + n] = o[Len(o) - Len(b) + n]
        BY <4>1, <2>2, <1>2
      <4>3. buffer'[t][n] = b[n]
        BY <1>3, <3>1
      <4> QED
        BY <4>2, <4>3, <3>1, <2>3
    <3>2. CASE n = Len(b) + 1
      <4>1. Len(o) - Len(b) + n = Len(o) + 1
        <5>1. ASSUME NEW p \in Nat, NEW q \in Nat
              PROVE  p - q + (q + 1) = p + 1
          BY <5>1, Z3
        <5> QED
          BY <5>1, <3>2, <2>4, <2>5, Zenon
      <4>2. buffer'[t][n] = s
        BY <3>2, <1>3
      <4> QED
        BY <4>1, <4>2, <2>2, <1>2
    <3> QED
      BY <3>1, <3>2, <2>7, <2>4
  <2> QED
    BY <1>3, <2>3, <2>6, <2>7 DEF BufferInv
<1>7. ASSUME NEW u \in Threads, u # t PROVE BufferInv(u)'
  BY <1>2, <1>5, <1>7 DEF BufferInv
<1>8. ASSUME NEW u \in Threads, u # t, NEW y PROVE Load(u, y)' = Load(u, y)
  BY <1>2, <1>8 DEF Load
<1>9. Load(t, x)' = v
  <2>1. Len(b) + 1 \in 1..Left(t)'
    BY <1>2, <1>3
  <2> QED
    BY <1>3, <1>4, <1>6, <2>1, LoadsNext
<1>10. ASSUME NEW y, y # x PROVE Load(t, y)' = Load(t, y)
  <2>1. CASE \E n \in 1..Left(t) : b[n].var = y
    <3>1. PICK n \in 1..Left(t) : b[n].var = y
      BY <2>1
    <3>2. Load(t, y) = b[n].val
      BY <3>1, LoadOwn
    <3>3. n \in 1..Left(t)' /\ buffer'[t][n] = b[n]
      BY <1>2, <1>3
    <3>4. Load(t, y)' = b[n].val
      BY <1>4, <1>6, <3>1, <3>3, LoadsNext
    <3> QED
      BY <3>2, <3>4
  <2>2. CASE \A n \in 1..Left(t) : b[n].var # y
    <3>1. Load(t, y) = mem[y]
      BY <2>2, LoadMemory
    <3>2. \A n \in 1..Left(t)' : buffer'[t][n].var # y
      BY <2>2, <1>2, <1>3, <1>10
    <3> QED
      BY <1>4, <3>1, <3>2, LoadsNext
  <2> QED
    BY <2>1, <2>2
<1> QED
  BY <1>4, <1>5, <1>6, <1>7, <1>8, <1>9, <1>10 DEF StoreEffect

(* What a thread may store is a value of the variable.                     *)
LEMMA Mays ==
  ASSUME NEW t \in Threads, NEW x \in Vars, NEW v, May(t, x, v)
  PROVE  /\ v \in Vals(x)
         /\ x = "waitRun" => v = (t = "app")
         /\ x = "waitYield" => v = (t = "worker")
         /\ x = "finished" => v = TRUE
<1> DEFINE own == IF t = "app" THEN "waitRun" ELSE "waitYield"
<1>1. CASE x \in Counters
  BY <1>1 DEF May, Vals, Counters
<1>2. CASE x \notin Counters
  <2>1. v = (x \in {"finished", own})
    BY <1>2 DEF May
  <2>2. v \in Vals(x)
    BY <1>2, <2>1 DEF Vals
  <2>3. ASSUME x = "waitRun" PROVE v = (t = "app")
    <3>1. (x \in {"finished", own}) <=> t = "app"
      BY <2>3
    <3> QED BY <2>1, <3>1
  <2>4. ASSUME x = "waitYield" PROVE v = (t = "worker")
    <3>1. (x \in {"finished", own}) <=> t = "worker"
      BY <2>4 DEF Threads
    <3> QED BY <2>1, <3>1
  <2>5. ASSUME x = "finished" PROVE v = TRUE
    BY <2>1, <2>5
  <2> QED BY <2>2, <2>3, <2>4, <2>5
<1> QED BY <1>1, <1>2

(* What is left of a sequence without its head.                            *)
LEMMA Tails ==
  ASSUME NEW S, NEW b \in Seq(S), b # <<>>
  PROVE  /\ Len(b) \in Nat /\ Len(b) >= 1
         /\ Tail(b) \in Seq(S) /\ Len(Tail(b)) = Len(b) - 1
         /\ \A n \in 1..(Len(b) - 1) : Tail(b)[n] = b[n + 1]
         /\ b[1] \in S
OBVIOUS

(* The oldest store of a thread comes to the memory: nobody else's, and    *)
(* the thread itself sees no difference.                                   *)
LEMMA CommitMoves ==
  ASSUME TypeOK, \A u \in Threads : BufferInv(u),
         NEW t \in Threads, Commit(t)
  PROVE  /\ TypeOK'
         /\ \A u \in Threads :
              /\ BufferInv(u)'
              /\ Left(u)' = IF u = t THEN Left(u) - 1 ELSE Left(u)
         /\ Left(t) >= 1
         /\ \E x \in Vars :
              /\ x = Order(pc[t])[Len(Order(pc[t])) - Left(t) + 1]
              /\ May(t, x, mem'[x])
              /\ \A y \in Vars : y # x => mem'[y] = mem[y]
              /\ \A u \in Threads : \A y \in Vars :
                   u = t \/ y # x => Load(u, y)' = Load(u, y)
<1> DEFINE b == buffer[t]
           x == b[1].var
           v == b[1].val
           o == Order(pc[t])
<1>1. /\ b \in Seq(Stores) /\ Left(t) = Len(b) /\ Len(b) \in Nat
      /\ b # <<>>
      /\ buffer' = [buffer EXCEPT ![t] = Tail(b)]
      /\ buffer'[t] = Tail(b)
      /\ \A u \in Threads : u # t => buffer'[u] = buffer[u]
      /\ pc' = pc
      /\ mem' = [mem EXCEPT ![x] = v]
  BY DEF TypeOK, Left, Commit
<1>2. /\ Len(b) >= 1
      /\ Tail(b) \in Seq(Stores) /\ Left(t)' = Len(b) - 1
      /\ \A n \in 1..(Len(b) - 1) : buffer'[t][n] = b[n + 1]
      /\ b[1] \in Stores
  <2> HIDE DEF b
  <2>1. Left(t)' = Len(Tail(b))
    BY <1>1 DEF Left
  <2> QED
    BY <1>1, <2>1, Tails
<1>3. x \in Vars /\ v \in BOOLEAN \union Nat
  BY <1>2 DEF Stores
<1>4. o \in Seq(Vars) /\ Len(o) \in Nat
  BY OrderOnce DEF TypeOK
<1>5. /\ Len(o) - Len(b) >= 0
      /\ \A n \in 1..Len(b) :
           /\ b[n].var = o[Len(o) - Len(b) + n]
           /\ May(t, b[n].var, b[n].val)
  <2>1. BufferInv(t) /\ Left(t) = Len(b)
    BY <1>1
  <2> QED
    BY <2>1, <1>4 DEF BufferInv
<1>6. x = o[Len(o) - Len(b) + 1] /\ May(t, x, v)
  <2>1. 1 \in 1..Len(b)
    BY <1>1, <1>2
  <2> QED
    BY <1>5, <2>1
<1>7. /\ DOMAIN mem' = Vars
      /\ mem'[x] = v
      /\ \A y \in Vars : y # x => mem'[y] = mem[y]
  BY <1>1, <1>3 DEF TypeOK
<1>8. TypeOK'
  <2>1. buffer' \in [Threads -> Seq(Stores)]
    BY <1>1, <1>2 DEF TypeOK
  <2>2. \A y \in Vars : mem'[y] \in Vals(y)
    BY <1>3, <1>6, <1>7, Mays DEF TypeOK
  <2> QED
    BY <1>1, <1>7, <2>1, <2>2 DEF TypeOK
<1>9. \A u \in Threads : Left(u)' = IF u = t THEN Left(u) - 1 ELSE Left(u)
  BY <1>1, <1>2 DEF Left
<1>10. BufferInv(t)'
  <2> HIDE DEF o
  <2>1. Len(o) \in Nat /\ Len(b) \in Nat
    BY <1>1, <1>4
  <2>2. Len(o) - Left(t)' = Len(o) - Len(b) + 1
    BY <1>2, <2>1
  <2>3. Len(o) - Len(b) + 1 >= 0
    BY <1>5, <2>1
  <2>4. ASSUME NEW n \in 1..(Len(b) - 1)
        PROVE  /\ buffer'[t][n].var = o[Len(o) - Len(b) + 1 + n]
               /\ May(t, buffer'[t][n].var, buffer'[t][n].val)
    <3>1. n + 1 \in 1..Len(b)
      BY <2>1, <2>4
    <3>2. Len(o) - Len(b) + (n + 1) = Len(o) - Len(b) + 1 + n
      BY <2>1, <2>4
    <3>3. buffer'[t][n] = b[n + 1]
      BY <1>2
    <3> QED
      BY <1>5, <3>1, <3>2, <3>3
  <2> QED
    BY <1>1, <1>2, <2>2, <2>3, <2>4 DEF BufferInv, o
<1>11. ASSUME NEW u \in Threads, u # t PROVE BufferInv(u)'
  BY <1>1, <1>9, <1>11 DEF BufferInv
<1>12. ASSUME NEW u \in Threads, u # t, NEW y \in Vars, y # x
       PROVE  Load(u, y)' = Load(u, y)
  BY <1>1, <1>7, <1>12 DEF Load
<1>13. ASSUME NEW y \in Vars PROVE Load(t, y)' = Load(t, y)
  <2>1. CASE \E n \in 2..Len(b) : b[n].var = y
    <3>1. PICK n \in 2..Len(b) : b[n].var = y
      BY <2>1
    <3>2. Load(t, y) = b[n].val
      BY <1>1, <3>1, LoadOwn
    <3>3. n - 1 \in 1..(Len(b) - 1) /\ (n - 1) + 1 = n
      BY <1>1
    <3>4. buffer'[t][n - 1] = b[n]
      BY <1>2, <3>3
    <3>5. Load(t, y)' = b[n].val
      BY <1>2, <1>8, <1>10, <3>1, <3>3, <3>4, LoadsNext
    <3> QED
      BY <3>2, <3>5
  <2>2. CASE \A n \in 2..Len(b) : b[n].var # y
    <3>1. ASSUME NEW n \in 1..Left(t)' PROVE buffer'[t][n].var # y
      <4>1. n + 1 \in 2..Len(b) /\ buffer'[t][n] = b[n + 1]
        BY <1>1, <1>2
      <4> QED
        BY <2>2, <4>1
    <3>2. Load(t, y)' = mem'[y]
      BY <1>8, <3>1, LoadsNext
    <3>3. CASE y = x
      <4>1. Load(t, y) = v
        BY <1>1, <1>2, <3>3, LoadOwn
      <4> QED
        BY <3>2, <3>3, <4>1, <1>7
    <3>4. CASE y # x
      <4>1. \A n \in 1..Left(t) : b[n].var # y
        BY <1>1, <2>2, <3>4
      <4> QED
        BY <3>2, <3>4, <4>1, <1>7, LoadMemory
    <3> QED
      BY <3>3, <3>4
  <2> QED
    BY <2>1, <2>2
<1>14. /\ x \in Vars
       /\ x = Order(pc[t])[Len(Order(pc[t])) - Left(t) + 1]
       /\ May(t, x, mem'[x])
       /\ \A y \in Vars : y # x => mem'[y] = mem[y]
       /\ \A u \in Threads : \A y \in Vars :
            u = t \/ y # x => Load(u, y)' = Load(u, y)
  BY <1>1, <1>3, <1>6, <1>7, <1>12, <1>13
<1> HIDE DEF x
<1> QED
  BY <1>1, <1>2, <1>8, <1>9, <1>10, <1>11, <1>14

-------------------------------------------------------------------------------
(* What is a thread's last store to a variable in its order, if it is      *)
(* still in the buffer, is what it reads.                                  *)
LEMMA Pending ==
  ASSUME TypeOK, NEW t \in Threads, BufferInv(t),
         NEW n \in (Len(Order(pc[t])) - Left(t) + 1)..Len(Order(pc[t]))
  PROVE  May(t, Order(pc[t])[n], Load(t, Order(pc[t])[n]))
<1> DEFINE o == Order(pc[t])
           m == n - (Len(o) - Left(t))
<1>1. Len(o) \in Nat /\ Left(t) \in Nat
  BY OrderOnce DEF TypeOK, Left
<1>2. m \in 1..Left(t) /\ Len(o) - Left(t) + m = n
  <2> HIDE DEF o
  <2>1. n \in (Len(o) - Left(t) + 1)..Len(o)
    BY DEF o
  <2> QED BY <1>1, <2>1
<1>3. buffer[t][m].var = o[n] /\ May(t, buffer[t][m].var, buffer[t][m].val)
  <2> HIDE DEF m
  <2> QED BY <1>2 DEF BufferInv
<1>4. Load(t, buffer[t][m].var) = buffer[t][m].val
  BY <1>2, LoadOwn
<1> QED BY <1>3, <1>4

(* What it has not stored, or is in the memory, it reads from the memory.  *)
LEMMA NotPending ==
  ASSUME TypeOK, NEW t \in Threads, BufferInv(t), NEW x,
         \A n \in (Len(Order(pc[t])) - Left(t) + 1)..Len(Order(pc[t])) :
           Order(pc[t])[n] # x
  PROVE  Load(t, x) = mem[x]
<1> DEFINE o == Order(pc[t])
<1>1. Len(o) \in Nat /\ Left(t) \in Nat
  BY OrderOnce DEF TypeOK, Left
<1>2. ASSUME NEW m \in 1..Left(t) PROVE buffer[t][m].var # x
  <2>1. buffer[t][m].var = o[Len(o) - Left(t) + m]
    BY <1>2 DEF BufferInv
  <2> HIDE DEF o
  <2>2. Len(o) - Left(t) + m \in (Len(o) - Left(t) + 1)..Len(o)
    BY <1>1, <1>2
  <2> QED BY <2>1, <2>2 DEF o
<1> QED BY <1>2, LoadMemory

(* The variables, by name.                                                 *)
LEMMA Flags ==
  ASSUME TypeOK
  PROVE  /\ mem.waitRun \in BOOLEAN /\ mem.waitYield \in BOOLEAN
         /\ mem.finished \in BOOLEAN /\ mem.round \in Nat /\ mem.i \in Nat
<1>1. /\ "waitRun" \in Vars \ Counters /\ "waitYield" \in Vars \ Counters
      /\ "finished" \in Vars \ Counters
      /\ "round" \in Counters /\ "i" \in Counters /\ Counters \subseteq Vars
  BY DEF Vars, Counters
<1> QED BY <1>1 DEF TypeOK, Vals

(* Counts are numbers, whether read from the buffer or from the memory.    *)
LEMMA Counts ==
  ASSUME TypeOK, NEW t \in Threads, BufferInv(t), NEW x \in Counters
  PROVE  Load(t, x) \in Nat
<1>1. CASE \E n \in 1..Left(t) : buffer[t][n].var = x
  <2>1. PICK n \in 1..Left(t) : buffer[t][n].var = x
    BY <1>1
  <2>2. May(t, x, buffer[t][n].val)
    BY <2>1 DEF BufferInv
  <2>3. buffer[t][n].val \in Nat
    BY <2>2 DEF May
  <2> QED BY <2>1, <2>3, LoadOwn
<1>2. CASE \A n \in 1..Left(t) : buffer[t][n].var # x
  BY <1>2, LoadMemory DEF TypeOK, Vals, Vars
<1> QED BY <1>1, <1>2

(* How many stores may be left, by the place.                              *)
LEMMA Lefts ==
  ASSUME TypeOK, NEW t \in Threads, BufferInv(t)
  PROVE  Left(t) \in 0..Len(Order(pc[t])) /\ Len(Order(pc[t])) \in Nat
<1>1. Len(Order(pc[t])) \in Nat /\ Left(t) \in Nat
  BY OrderOnce DEF TypeOK, Left
<1>2. Len(Order(pc[t])) - Left(t) >= 0
  BY DEF BufferInv
<1> QED BY <1>1, <1>2

-------------------------------------------------------------------------------
(* koro_run begins: it finds the worker parked.                            *)
LEMMA RunCallInv ==
  ASSUME IInv, RunCall PROVE IInv'
<1>1. TypeOK /\ \A u \in Threads : BufferInv(u)
  BY DEF IInv, Threads
<1>2. /\ pc["app"] = "user" /\ pc' = [pc EXCEPT !["app"] = "cy_wait"]
      /\ UNCHANGED mem /\ Store("app", "round", Rounds + 1)
      /\ Stored(pc["app"], "round", "cy_wait")
  BY NextOrders DEF RunCall, Step, Rounds
<1>3. /\ "app" \in Threads /\ "worker" \in Threads /\ "cy_wait" \in Pcs("app")
      /\ "round" \in Vars /\ "round" \in Counters
  BY DEF Threads, Pcs, Vars, Counters
<1>4. Rounds \in Nat
  BY <1>3, Counts DEF IInv, Rounds
<1>5. May("app", "round", Rounds + 1) /\ Rounds + 1 \in BOOLEAN \union Nat
  BY <1>3, <1>4 DEF May
<1>6. StoreStep("app", "cy_wait", "round", Rounds + 1)
  BY <1>2, <1>3, <1>5 DEF StoreStep
<1>7. StoreEffect("app", "round", Rounds + 1)
  BY <1>3, <1>1, <1>6, StoreMoves
<1>8. /\ Rounds' = Rounds + 1 /\ Segments' = Segments
      /\ Left("worker")' = Left("worker")
      /\ pc'["app"] = "cy_wait" /\ pc'["worker"] = pc["worker"]
  BY <1>2, <1>3, <1>7 DEF IInv, TypeOK, Rounds, Segments, StoreEffect
<1>9. Parked /\ Rounds = Segments
  BY <1>2 DEF IInv, TurnInv
<1>10. Parked'
  BY <1>2, <1>8, <1>9 DEF Parked
<1>11. TurnInv'
  BY <1>8, <1>9, <1>10 DEF TurnInv
<1>12. FinishedInv'
  BY <1>2, <1>8 DEF IInv, FinishedInv
<1> QED BY <1>3, <1>7, <1>11, <1>12 DEF IInv, StoreEffect

(* It has seen the worker wait.                                            *)
LEMMA ContinueYieldWaitInv ==
  ASSUME IInv, ContinueYieldWait PROVE IInv'
<1>1. TypeOK /\ \A u \in Threads : BufferInv(u)
  BY DEF IInv, Threads
<1>2. /\ pc["app"] = "cy_wait" /\ pc' = [pc EXCEPT !["app"] = "cy_clear"]
      /\ UNCHANGED <<mem, buffer>> /\ Load("app", "waitYield")
      /\ Order("cy_clear") = Order(pc["app"])
  BY Orders DEF ContinueYieldWait, Step
<1>3. "app" \in Threads /\ "worker" \in Threads /\ "cy_clear" \in Pcs("app")
  BY DEF Threads, Pcs
<1>4. /\ TypeOK'
      /\ \A u \in Threads : BufferInv(u)' /\ Left(u)' = Left(u)
      /\ \A u \in Threads : \A x : Load(u, x)' = Load(u, x)
  BY <1>2, <1>3, <1>1, Moves
<1>5. /\ Rounds' = Rounds /\ Segments' = Segments
      /\ Left("worker")' = Left("worker")
      /\ pc'["app"] = "cy_clear" /\ pc'["worker"] = pc["worker"]
  BY <1>2, <1>3, <1>4 DEF IInv, TypeOK, Rounds, Segments
<1>6. mem.waitYield
  <2>1. \A n \in 1..1 : Order(pc["app"])[n] # "waitYield"
    BY <1>2, Orders
  <2>2. /\ Len(Order(pc["app"])) = 1
        /\ Left("app") \in 0..1
    BY <1>2, <1>3, Orders, Lefts DEF IInv
  <2>3. Load("app", "waitYield") = mem.waitYield
    BY <1>3, <2>1, <2>2, NotPending DEF IInv
  <2> QED BY <1>2, <2>3
<1>7. Parked /\ Rounds = Segments + 1
  BY <1>2 DEF IInv, TurnInv
<1>8. Seen'
  BY <1>2, <1>5, <1>6, <1>7 DEF Parked, Seen
<1>9. TurnInv'
  BY <1>5, <1>7, <1>8 DEF TurnInv
<1>10. FinishedInv'
  BY <1>2, <1>5 DEF IInv, FinishedInv
<1> QED BY <1>3, <1>4, <1>9, <1>10 DEF IInv

(* It clears wait_yield, which the worker does not see yet.                *)
LEMMA ContinueYieldClearInv ==
  ASSUME IInv, ContinueYieldClear PROVE IInv'
<1>1. TypeOK /\ \A u \in Threads : BufferInv(u)
  BY DEF IInv, Threads
<1>2. /\ pc["app"] = "cy_clear" /\ pc' = [pc EXCEPT !["app"] = "wr_set"]
      /\ UNCHANGED mem /\ Store("app", "waitYield", FALSE)
      /\ Stored(pc["app"], "waitYield", "wr_set")
  BY NextOrders DEF ContinueYieldClear, Step
<1>3. /\ "app" \in Threads /\ "worker" \in Threads /\ "wr_set" \in Pcs("app")
      /\ "waitYield" \in Vars
  BY DEF Threads, Pcs, Vars
<1>4. May("app", "waitYield", FALSE) /\ FALSE \in BOOLEAN \union Nat
  BY DEF May, Counters
<1>5. StoreStep("app", "wr_set", "waitYield", FALSE)
  BY <1>2, <1>3, <1>4 DEF StoreStep
<1>6. StoreEffect("app", "waitYield", FALSE)
  BY <1>3, <1>1, <1>5, StoreMoves
<1>7. /\ Rounds' = Rounds /\ Segments' = Segments
      /\ Left("worker")' = Left("worker") /\ Left("app")' = Left("app") + 1
      /\ pc'["app"] = "wr_set" /\ pc'["worker"] = pc["worker"]
  BY <1>2, <1>3, <1>6 DEF IInv, TypeOK, Rounds, Segments, StoreEffect
<1>8. Left("app") \in Nat
  BY <1>3, Lefts DEF IInv
<1>9. Seen /\ Rounds = Segments + 1
  BY <1>2 DEF IInv, TurnInv
<1>10. Seen'
  BY <1>2, <1>7, <1>9 DEF Seen
<1>11. TurnInv'
  BY <1>7, <1>8, <1>9, <1>10 DEF TurnInv
<1>12. FinishedInv'
  BY <1>2, <1>7 DEF IInv, FinishedInv
<1> QED BY <1>3, <1>6, <1>11, <1>12 DEF IInv, StoreEffect

(* It sets wait_run.  The worker may already be at work.                   *)
LEMMA WaitForRunSetInv ==
  ASSUME IInv, WaitForRunSet PROVE IInv'
<1>1. TypeOK /\ \A u \in Threads : BufferInv(u)
  BY DEF IInv, Threads
<1>2. /\ pc["app"] = "wr_set" /\ pc' = [pc EXCEPT !["app"] = "wr_wait"]
      /\ UNCHANGED mem /\ Store("app", "waitRun", TRUE)
      /\ Stored(pc["app"], "waitRun", "wr_wait")
  BY NextOrders DEF WaitForRunSet, Step
<1>3. /\ "app" \in Threads /\ "worker" \in Threads /\ "wr_wait" \in Pcs("app")
      /\ "waitRun" \in Vars
  BY DEF Threads, Pcs, Vars
<1>4. May("app", "waitRun", TRUE) /\ TRUE \in BOOLEAN \union Nat
  BY DEF May, Counters
<1>5. StoreStep("app", "wr_wait", "waitRun", TRUE)
  BY <1>2, <1>3, <1>4 DEF StoreStep
<1>6. StoreEffect("app", "waitRun", TRUE)
  BY <1>3, <1>1, <1>5, StoreMoves
<1>7. /\ Rounds' = Rounds /\ Segments' = Segments
      /\ Left("worker")' = Left("worker") /\ Left("app")' = Left("app") + 1
      /\ pc'["app"] = "wr_wait" /\ pc'["worker"] = pc["worker"]
  BY <1>2, <1>3, <1>6 DEF IInv, TypeOK, Rounds, Segments, StoreEffect
<1>8. Left("app") \in Nat
  BY <1>3, Lefts DEF IInv
<1>9. TurnInv'
  <2>1. CASE Left("app") >= 1
    <3>1. Seen /\ Rounds = Segments + 1
      BY <1>2, <1>7, <2>1 DEF IInv, TurnInv
    <3>2. Seen'
      BY <1>2, <1>7, <3>1 DEF Seen
    <3> QED BY <1>7, <1>8, <2>1, <3>1, <3>2 DEF TurnInv
  <2>2. CASE Left("app") = 0
    <3>1. AtWork /\ ~mem.waitRun
      BY <1>2, <2>2 DEF IInv, TurnInv
    <3>2. AtWork' /\ ~mem'.waitRun
      BY <1>2, <1>7, <3>1 DEF AtWork
    <3> QED BY <1>7, <2>2, <3>2 DEF TurnInv
  <2> QED BY <1>8, <2>1, <2>2
<1>10. FinishedInv'
  BY <1>2, <1>7 DEF IInv, FinishedInv
<1> QED BY <1>3, <1>6, <1>9, <1>10 DEF IInv, StoreEffect

(* It finds wait_run cleared: the worker is parked again, or has ended.    *)
LEMMA WaitForRunWaitInv ==
  ASSUME IInv, WaitForRunWait PROVE IInv'
<1>1. TypeOK /\ \A u \in Threads : BufferInv(u)
  BY DEF IInv, Threads
<1>2. /\ pc["app"] = "wr_wait" /\ pc' = [pc EXCEPT !["app"] = "user"]
      /\ UNCHANGED <<mem, buffer>> /\ ~Load("app", "waitRun")
  BY DEF WaitForRunWait, Step
<1>3. "app" \in Threads /\ "worker" \in Threads /\ "user" \in Pcs("app")
  BY DEF Threads, Pcs
<1>4. Left("app") = 0
  <2>1. Len(Order(pc["app"])) = 3 /\ Order(pc["app"])[3] = "waitRun"
    BY <1>2, Orders
  <2>2. Left("app") \in 0..3
    BY <1>3, <2>1, Lefts DEF IInv
  <2>3. ASSUME Left("app") # 0 PROVE FALSE
    <3>1. 3 \in (3 - Left("app") + 1)..3
      BY <2>2, <2>3
    <3>2. May("app", "waitRun", Load("app", "waitRun"))
      BY <1>3, <2>1, <3>1, Pending DEF IInv
    <3>3. Load("app", "waitRun") = ("app" = "app")
      BY <1>3, <3>2, Mays DEF Vars
    <3> QED BY <1>2, <3>3
  <2> QED BY <2>3
<1>5. Load("app", "waitRun") = mem.waitRun
  <2>1. \A n \in 1..Left("app") : buffer["app"][n].var # "waitRun"
    BY <1>4
  <2> QED BY <1>3, <2>1, LoadMemory DEF IInv
<1>6. /\ TypeOK'
      /\ \A u \in Threads : BufferInv(u)' /\ Left(u)' = Left(u)
      /\ \A u \in Threads : \A x : Load(u, x)' = Load(u, x)
  BY <1>2, <1>3, <1>4, <1>1, Moves
<1>7. /\ Rounds' = Rounds /\ Segments' = Segments
      /\ Left("worker")' = Left("worker")
      /\ pc'["app"] = "user" /\ pc'["worker"] = pc["worker"]
  BY <1>2, <1>3, <1>6 DEF IInv, TypeOK, Rounds, Segments
<1>8. Parked /\ Rounds = Segments
  BY <1>2, <1>4, <1>5 DEF IInv, TurnInv, Returning
<1>9. Parked'
  BY <1>2, <1>7, <1>8 DEF Parked
<1>10. TurnInv'
  BY <1>7, <1>8, <1>9 DEF TurnInv
<1>11. FinishedInv'
  BY <1>2, <1>7 DEF IInv, FinishedInv
<1> QED BY <1>3, <1>6, <1>10, <1>11 DEF IInv

(* The worker sets wait_yield, and waits for koro_run.                     *)
LEMMA WaitForYieldSetInv ==
  ASSUME IInv, WaitForYieldSet PROVE IInv'
<1>1. TypeOK /\ \A u \in Threads : BufferInv(u)
  BY DEF IInv, Threads
<1>2. /\ pc["worker"] = "wy_set" /\ pc' = [pc EXCEPT !["worker"] = "wy_wait"]
      /\ UNCHANGED mem /\ Store("worker", "waitYield", TRUE)
      /\ Stored(pc["worker"], "waitYield", "wy_wait")
  BY NextOrders DEF WaitForYieldSet, Step
<1>3. /\ "app" \in Threads /\ "worker" \in Threads
      /\ "wy_wait" \in Pcs("worker") /\ "waitYield" \in Vars
  BY DEF Threads, Pcs, Vars
<1>4. May("worker", "waitYield", TRUE) /\ TRUE \in BOOLEAN \union Nat
  BY DEF May, Counters
<1>5. StoreStep("worker", "wy_wait", "waitYield", TRUE)
  BY <1>2, <1>3, <1>4 DEF StoreStep
<1>6. StoreEffect("worker", "waitYield", TRUE)
  BY <1>3, <1>1, <1>5, StoreMoves
<1>7. /\ Rounds' = Rounds /\ Segments' = Segments
      /\ Left("worker")' = Left("worker") + 1 /\ Left("app")' = Left("app")
      /\ pc'["worker"] = "wy_wait" /\ pc'["app"] = pc["app"]
  BY <1>2, <1>3, <1>6 DEF IInv, TypeOK, Rounds, Segments, StoreEffect
<1>8. Left("worker") \in Nat
  BY <1>3, Lefts DEF IInv
<1>9. ~Seen /\ ~AtWork
  BY <1>2 DEF Seen, AtWork
<1>10. Parked => Parked'
  BY <1>2, <1>7, <1>8 DEF Parked
<1>11. Returning => Returning'
  BY <1>2, <1>7, <1>8 DEF Returning
<1>12. TurnInv'
  BY <1>7, <1>9, <1>10, <1>11 DEF IInv, TurnInv
<1>13. FinishedInv'
  BY <1>7 DEF FinishedInv
<1> QED BY <1>3, <1>6, <1>12, <1>13 DEF IInv, StoreEffect

(* It finds wait_yield cleared: it has the baton.                          *)
LEMMA WaitForYieldWaitInv ==
  ASSUME IInv, WaitForYieldWait PROVE IInv'
<1>1. TypeOK /\ \A u \in Threads : BufferInv(u)
  BY DEF IInv, Threads
<1>2. /\ pc["worker"] = "wy_wait" /\ pc' = [pc EXCEPT !["worker"] = "body"]
      /\ UNCHANGED <<mem, buffer>> /\ ~Load("worker", "waitYield")
  BY DEF WaitForYieldWait, Step
<1>3. "app" \in Threads /\ "worker" \in Threads /\ "body" \in Pcs("worker")
  BY DEF Threads, Pcs
<1>4. Left("worker") = 0
  <2>1. Len(Order(pc["worker"])) = 3 /\ Order(pc["worker"])[3] = "waitYield"
    BY <1>2, Orders
  <2>2. Left("worker") \in 0..3
    BY <1>3, <2>1, Lefts DEF IInv
  <2>3. ASSUME Left("worker") # 0 PROVE FALSE
    <3>1. 3 \in (3 - Left("worker") + 1)..3
      BY <2>2, <2>3
    <3>2. May("worker", "waitYield", Load("worker", "waitYield"))
      BY <1>3, <2>1, <3>1, Pending DEF IInv
    <3>3. Load("worker", "waitYield") = ("worker" = "worker")
      BY <1>3, <3>2, Mays DEF Vars
    <3> QED BY <1>2, <3>3
  <2> QED BY <2>3
<1>5. Load("worker", "waitYield") = mem.waitYield
  <2>1. \A n \in 1..Left("worker") : buffer["worker"][n].var # "waitYield"
    BY <1>4
  <2> QED BY <1>3, <2>1, LoadMemory DEF IInv
<1>6. /\ TypeOK'
      /\ \A u \in Threads : BufferInv(u)' /\ Left(u)' = Left(u)
      /\ \A u \in Threads : \A x : Load(u, x)' = Load(u, x)
  BY <1>2, <1>3, <1>4, <1>1, Moves
<1>7. /\ Rounds' = Rounds /\ Segments' = Segments
      /\ Left("worker")' = Left("worker") /\ Left("app")' = Left("app")
      /\ pc'["worker"] = "body" /\ pc'["app"] = pc["app"]
  BY <1>2, <1>3, <1>6 DEF IInv, TypeOK, Rounds, Segments
<1>8. ~Parked /\ ~Seen /\ ~Returning
  BY <1>2, <1>4, <1>5 DEF Parked, Seen, Returning
<1>9. AtWork => AtWork'
  BY <1>2, <1>7 DEF AtWork
<1>10. TurnInv'
  BY <1>2, <1>7, <1>8, <1>9 DEF IInv, TurnInv
<1>11. FinishedInv'
  BY <1>7 DEF FinishedInv
<1> QED BY <1>3, <1>6, <1>10, <1>11 DEF IInv

(* The body counts its segment, and ends it.                               *)
LEMMA BodyCountInv ==
  ASSUME IInv, BodyCount PROVE IInv'
<1>1. TypeOK /\ \A u \in Threads : BufferInv(u)
  BY DEF IInv, Threads
<1>2. PICK to \in {"cr_wait", "fin_set"} :
        /\ pc["worker"] = "body" /\ pc' = [pc EXCEPT !["worker"] = to]
        /\ UNCHANGED mem /\ Store("worker", "i", Segments + 1)
  BY DEF BodyCount, Step, Segments
<1>3. /\ "app" \in Threads /\ "worker" \in Threads /\ to \in Pcs("worker")
      /\ "i" \in Vars /\ "i" \in Counters
  BY DEF Threads, Pcs, Vars, Counters
<1>4. Segments \in Nat
  BY <1>3, Counts DEF IInv, Segments
<1>5. May("worker", "i", Segments + 1) /\ Segments + 1 \in BOOLEAN \union Nat
  BY <1>3, <1>4 DEF May
<1>6. Stored(pc["worker"], "i", to)
  BY <1>2, NextOrders
<1>7. StoreStep("worker", to, "i", Segments + 1)
  BY <1>2, <1>3, <1>5, <1>6 DEF StoreStep
<1>8. StoreEffect("worker", "i", Segments + 1)
  BY <1>3, <1>1, <1>7, StoreMoves
<1>9. /\ Rounds' = Rounds /\ Segments' = Segments + 1
      /\ Left("app")' = Left("app")
      /\ pc'["worker"] = to /\ pc'["app"] = pc["app"]
  BY <1>2, <1>3, <1>8 DEF IInv, TypeOK, Rounds, Segments, StoreEffect
<1>10. ~Parked /\ ~Seen /\ ~Returning
  BY <1>2 DEF Parked, Seen, Returning
<1>11. AtWork => AtWork'
  BY <1>2, <1>9 DEF AtWork
<1>12. TurnInv'
  BY <1>2, <1>9, <1>10, <1>11 DEF IInv, TurnInv
<1>13. FinishedInv'
  BY <1>9 DEF FinishedInv
<1> QED BY <1>3, <1>8, <1>12, <1>13 DEF IInv, StoreEffect

(* The worker has seen koro_run wait.                                      *)
LEMMA ContinueRunWaitInv ==
  ASSUME IInv, ContinueRunWait PROVE IInv'
<1>1. TypeOK /\ \A u \in Threads : BufferInv(u)
  BY DEF IInv, Threads
<1>2. PICK to \in {"cr_clear", "fin_clear"} :
        /\ pc["worker"] = IF to = "cr_clear" THEN "cr_wait" ELSE "fin_wait"
        /\ pc' = [pc EXCEPT !["worker"] = to]
        /\ UNCHANGED <<mem, buffer>> /\ Load("worker", "waitRun")
  BY DEF ContinueRunWait, Step
<1>3. "app" \in Threads /\ "worker" \in Threads /\ to \in Pcs("worker")
  BY DEF Threads, Pcs
<1>4. Order(to) = Order(pc["worker"])
  BY <1>2, Orders
<1>5. /\ TypeOK'
      /\ \A u \in Threads : BufferInv(u)' /\ Left(u)' = Left(u)
      /\ \A u \in Threads : \A x : Load(u, x)' = Load(u, x)
  BY <1>2, <1>3, <1>4, <1>1, Moves
<1>6. /\ Rounds' = Rounds /\ Segments' = Segments
      /\ Left("worker")' = Left("worker") /\ Left("app")' = Left("app")
      /\ pc'["worker"] = to /\ pc'["app"] = pc["app"]
  BY <1>2, <1>3, <1>5 DEF IInv, TypeOK, Rounds, Segments
<1>7. mem.waitRun
  <2> DEFINE o == Order(pc["worker"])
  <2>1. Len(o) \in 1..2 /\ \A n \in 1..Len(o) : o[n] # "waitRun"
    <3>1. CASE to = "cr_clear"
      BY <1>2, <3>1, Orders
    <3>2. CASE to = "fin_clear"
      BY <1>2, <3>2, Orders
    <3> QED BY <3>1, <3>2
  <2>2. Left("worker") \in 0..Len(o)
    BY <1>3, Lefts DEF IInv
  <2>3. \A n \in (Len(o) - Left("worker") + 1)..Len(o) : o[n] # "waitRun"
    <3> HIDE DEF o
    <3> QED BY <2>1, <2>2
  <2>4. Load("worker", "waitRun") = mem.waitRun
    BY <1>3, <2>3, NotPending DEF IInv
  <2> QED BY <1>2, <2>4
<1>8. ~Parked /\ ~Seen /\ ~Returning
  BY <1>2 DEF Parked, Seen, Returning
<1>9. AtWork => AtWork'
  BY <1>2, <1>6, <1>7 DEF AtWork
<1>10. TurnInv'
  BY <1>2, <1>6, <1>8, <1>9 DEF IInv, TurnInv
<1>11. FinishedInv'
  BY <1>2, <1>6 DEF IInv, FinishedInv
<1> QED BY <1>3, <1>5, <1>10, <1>11 DEF IInv

(* It clears wait_run: the baton is on its way back.                       *)
LEMMA ContinueRunClearInv ==
  ASSUME IInv, ContinueRunClear PROVE IInv'
<1>1. TypeOK /\ \A u \in Threads : BufferInv(u)
  BY DEF IInv, Threads
<1>2. PICK to \in {"wy_set", "exit"} :
        /\ pc["worker"] = IF to = "wy_set" THEN "cr_clear" ELSE "fin_clear"
        /\ pc' = [pc EXCEPT !["worker"] = to]
        /\ UNCHANGED mem /\ Store("worker", "waitRun", FALSE)
  BY DEF ContinueRunClear, Step
<1>3. /\ "app" \in Threads /\ "worker" \in Threads /\ to \in Pcs("worker")
      /\ "waitRun" \in Vars
  BY DEF Threads, Pcs, Vars
<1>4. May("worker", "waitRun", FALSE) /\ FALSE \in BOOLEAN \union Nat
  BY DEF May, Counters
<1>5. Stored(pc["worker"], "waitRun", to)
  BY <1>2, NextOrders
<1>6. StoreStep("worker", to, "waitRun", FALSE)
  BY <1>2, <1>3, <1>4, <1>5 DEF StoreStep
<1>7. StoreEffect("worker", "waitRun", FALSE)
  BY <1>3, <1>1, <1>6, StoreMoves
<1>8. /\ Rounds' = Rounds /\ Segments' = Segments
      /\ Left("worker")' = Left("worker") + 1 /\ Left("app")' = Left("app")
      /\ pc'["worker"] = to /\ pc'["app"] = pc["app"]
  BY <1>2, <1>3, <1>7 DEF IInv, TypeOK, Rounds, Segments, StoreEffect
<1>9. Left("worker") \in Nat
  BY <1>3, Lefts DEF IInv
<1>10. ~Parked /\ ~Seen /\ ~Returning
  BY <1>2 DEF Parked, Seen, Returning
<1>11. AtWork => Returning' /\ Rounds = Segments
  BY <1>2, <1>8, <1>9 DEF AtWork, Returning
<1>12. AtWork => mem.waitRun
  BY <1>2 DEF AtWork
<1>13. TurnInv'
  BY <1>2, <1>8, <1>10, <1>11, <1>12 DEF IInv, TurnInv
<1>14. FinishedInv'
  BY <1>2, <1>8, <1>9 DEF IInv, FinishedInv
<1> QED BY <1>3, <1>7, <1>13, <1>14 DEF IInv, StoreEffect

(* The body has returned: h->finished.                                     *)
LEMMA FinishedSetInv ==
  ASSUME IInv, FinishedSet PROVE IInv'
<1>1. TypeOK /\ \A u \in Threads : BufferInv(u)
  BY DEF IInv, Threads
<1>2. /\ pc["worker"] = "fin_set" /\ pc' = [pc EXCEPT !["worker"] = "fin_wait"]
      /\ UNCHANGED mem /\ Store("worker", "finished", TRUE)
      /\ Stored(pc["worker"], "finished", "fin_wait")
  BY NextOrders DEF FinishedSet, Step
<1>3. /\ "app" \in Threads /\ "worker" \in Threads
      /\ "fin_wait" \in Pcs("worker") /\ "finished" \in Vars
  BY DEF Threads, Pcs, Vars
<1>4. May("worker", "finished", TRUE) /\ TRUE \in BOOLEAN \union Nat
  BY DEF May, Counters
<1>5. StoreStep("worker", "fin_wait", "finished", TRUE)
  BY <1>2, <1>3, <1>4 DEF StoreStep
<1>6. StoreEffect("worker", "finished", TRUE)
  BY <1>3, <1>1, <1>5, StoreMoves
<1>7. /\ Rounds' = Rounds /\ Segments' = Segments
      /\ Left("worker")' = Left("worker") + 1 /\ Left("app")' = Left("app")
      /\ pc'["worker"] = "fin_wait" /\ pc'["app"] = pc["app"]
  BY <1>2, <1>3, <1>6 DEF IInv, TypeOK, Rounds, Segments, StoreEffect
<1>8. Left("worker") \in Nat
  BY <1>3, Lefts DEF IInv
<1>9. ~Parked /\ ~Seen /\ ~Returning
  BY <1>2 DEF Parked, Seen, Returning
<1>10. AtWork => AtWork'
  BY <1>2, <1>7 DEF AtWork
<1>11. TurnInv'
  BY <1>2, <1>7, <1>9, <1>10 DEF IInv, TurnInv
<1>12. FinishedInv'
  BY <1>7, <1>8 DEF FinishedInv
<1> QED BY <1>3, <1>6, <1>11, <1>12 DEF IInv, StoreEffect

(* A store of the application comes to the memory.                         *)
LEMMA CommitAppInv ==
  ASSUME IInv, Commit("app") PROVE IInv'
<1>1. TypeOK /\ \A u \in Threads : BufferInv(u)
  BY DEF IInv, Threads
<1>2. "app" \in Threads /\ "worker" \in Threads
  BY DEF Threads
<1> DEFINE o == Order(pc["app"])
           left == Left("app")
<1>3. /\ TypeOK'
      /\ \A u \in Threads :
           /\ BufferInv(u)'
           /\ Left(u)' = IF u = "app" THEN Left(u) - 1 ELSE Left(u)
      /\ left >= 1
  BY <1>1, <1>2, CommitMoves
<1>4. PICK x \in Vars :
        /\ x = o[Len(o) - left + 1]
        /\ May("app", x, mem'[x])
        /\ \A y \in Vars : y # x => mem'[y] = mem[y]
        /\ \A u \in Threads : \A y \in Vars :
             u = "app" \/ y # x => Load(u, y)' = Load(u, y)
  BY <1>1, <1>2, CommitMoves
<1>5. pc' = pc
  BY DEF Commit
<1>6. left \in 1..Len(o) /\ Len(o) \in Nat
  BY <1>1, <1>2, <1>3, Lefts
<1>7. pc["app"] \in Pcs("app")
  BY <1>1, <1>2 DEF TypeOK
(* Where the application is, and what has come to the memory.              *)
<1>8. \/ pc["app"] \in {"cy_wait", "cy_clear"} /\ x = "round"
      \/ pc["app"] = "wr_set" /\ left = 2 /\ x = "round"
      \/ pc["app"] = "wr_set" /\ left = 1 /\ x = "waitYield"
      \/ pc["app"] = "wr_wait" /\ left = 3 /\ x = "round"
      \/ pc["app"] = "wr_wait" /\ left = 2 /\ x = "waitYield"
      \/ pc["app"] = "wr_wait" /\ left = 1 /\ x = "waitRun"
  <2>1. CASE pc["app"] = "user"
    <3>1. Len(o) = 0
      BY <2>1, Orders
    <3> HIDE DEF o, left
    <3> QED BY <1>6, <3>1
  <2>2. CASE pc["app"] \in {"cy_wait", "cy_clear"}
    <3>1. Len(o) = 1 /\ o[1] = "round"
      BY <2>2, Orders
    <3> HIDE DEF o, left
    <3>2. Len(o) - left + 1 = 1
      BY <1>6, <3>1
    <3> QED BY <2>2, <1>4, <3>1, <3>2
  <2>3. CASE pc["app"] = "wr_set"
    <3>1. Len(o) = 2 /\ o[1] = "round" /\ o[2] = "waitYield"
      BY <2>3, Orders
    <3> HIDE DEF o, left
    <3>2. \/ left = 2 /\ Len(o) - left + 1 = 1
          \/ left = 1 /\ Len(o) - left + 1 = 2
      BY <1>6, <3>1
    <3> QED BY <2>3, <1>4, <3>1, <3>2
  <2>4. CASE pc["app"] = "wr_wait"
    <3>1. /\ Len(o) = 3
          /\ o[1] = "round" /\ o[2] = "waitYield" /\ o[3] = "waitRun"
      BY <2>4, Orders
    <3> HIDE DEF o, left
    <3>2. \/ left = 3 /\ Len(o) - left + 1 = 1
          \/ left = 2 /\ Len(o) - left + 1 = 2
          \/ left = 1 /\ Len(o) - left + 1 = 3
      BY <1>6, <3>1
    <3> QED BY <2>4, <1>4, <3>1, <3>2
  <2> QED BY <1>7, <2>1, <2>2, <2>3, <2>4 DEF Pcs
<1>9. /\ x # "waitRun" => (mem'.waitRun <=> mem.waitRun)
      /\ x # "waitYield" => (mem'.waitYield <=> mem.waitYield)
      /\ mem'.finished <=> mem.finished
  <2>1. x \notin {"finished", "i"}
    BY <1>8
  <2> QED BY <1>4, <2>1 DEF Vars
<1>10. /\ x = "waitRun" => mem'.waitRun
       /\ x = "waitYield" => ~mem'.waitYield
  <2>1. /\ x = "waitRun" => mem'[x] = ("app" = "app")
        /\ x = "waitYield" => mem'[x] = ("app" = "worker")
    BY <1>2, <1>4, Mays
  <2>2. ("app" = "app") = TRUE /\ ("app" = "worker") = FALSE
    OBVIOUS
  <2>3. /\ x = "waitRun" => mem'[x] = TRUE
        /\ x = "waitYield" => mem'[x] = FALSE
    BY <2>1, <2>2, Zenon
  <2> QED BY <2>3
<1>11. /\ Rounds' = Rounds /\ Segments' = Segments
       /\ Left("worker")' = Left("worker") /\ Left("app")' = left - 1
  BY <1>2, <1>3, <1>4, <1>8 DEF Rounds, Segments, Vars, Counters
<1>12. pc'["worker"] = pc["worker"] /\ pc'["app"] = pc["app"]
  BY <1>5
<1> HIDE DEF o, left
<1>13. CASE x = "round"
  <2>1. /\ Parked => Parked'
        /\ Seen => Seen'
    BY <1>9, <1>11, <1>12, <1>13 DEF Parked, Seen
  <2>2. TurnInv'
    <3>1. CASE pc["app"] = "cy_wait"
      BY <1>11, <1>12, <2>1, <3>1 DEF IInv, TurnInv
    <3>2. CASE pc["app"] = "cy_clear"
      BY <1>11, <1>12, <2>1, <3>2 DEF IInv, TurnInv
    <3>3. CASE pc["app"] = "wr_set" /\ left = 2
      BY <1>11, <1>12, <2>1, <3>3 DEF IInv, TurnInv, left
    <3>4. CASE pc["app"] = "wr_wait" /\ left = 3
      BY <1>11, <1>12, <2>1, <3>4 DEF IInv, TurnInv, left
    <3> QED BY <1>8, <1>13, <3>1, <3>2, <3>3, <3>4
  <2> QED BY <1>2, <1>3, <1>9, <1>11, <1>12, <2>2 DEF IInv, FinishedInv
<1>14. CASE x = "waitYield"
  <2>1. Seen /\ Rounds = Segments + 1 => AtWork' /\ ~mem'.waitRun
    BY <1>9, <1>10, <1>11, <1>12, <1>14 DEF Seen, AtWork
  <2>2. TurnInv'
    <3>1. CASE pc["app"] = "wr_set" /\ left = 1
      BY <1>11, <1>12, <2>1, <3>1 DEF IInv, TurnInv, left
    <3>2. CASE pc["app"] = "wr_wait" /\ left = 2
      BY <1>11, <1>12, <2>1, <3>2 DEF IInv, TurnInv, left
    <3> QED BY <1>8, <1>14, <3>1, <3>2
  <2> QED BY <1>2, <1>3, <1>9, <1>11, <1>12, <2>2 DEF IInv, FinishedInv
<1>15. CASE x = "waitRun"
  <2>1. pc["app"] = "wr_wait" /\ left = 1
    BY <1>8, <1>15
  <2>2. AtWork
    BY <2>1 DEF IInv, TurnInv, left
  <2>3. AtWork' /\ mem'.waitRun
    BY <1>9, <1>10, <1>11, <1>12, <1>15, <2>2 DEF AtWork
  <2>4. TurnInv'
    BY <1>11, <1>12, <2>1, <2>3 DEF TurnInv
  <2> QED BY <1>2, <1>3, <1>9, <1>11, <1>12, <2>4 DEF IInv, FinishedInv
<1> QED BY <1>8, <1>13, <1>14, <1>15

(* A store of the worker comes to the memory.                              *)
LEMMA CommitWorkerInv ==
  ASSUME IInv, Commit("worker") PROVE IInv'
<1>1. TypeOK /\ \A u \in Threads : BufferInv(u)
  BY DEF IInv, Threads
<1>2. "app" \in Threads /\ "worker" \in Threads
  BY DEF Threads
<1> DEFINE o == Order(pc["worker"])
           left == Left("worker")
<1>3. /\ TypeOK'
      /\ \A u \in Threads :
           /\ BufferInv(u)'
           /\ Left(u)' = IF u = "worker" THEN Left(u) - 1 ELSE Left(u)
      /\ left >= 1
  BY <1>1, <1>2, CommitMoves
<1>4. PICK x \in Vars :
        /\ x = o[Len(o) - left + 1]
        /\ May("worker", x, mem'[x])
        /\ \A y \in Vars : y # x => mem'[y] = mem[y]
        /\ \A u \in Threads : \A y \in Vars :
             u = "worker" \/ y # x => Load(u, y)' = Load(u, y)
  BY <1>1, <1>2, CommitMoves
<1>5. pc' = pc
  BY DEF Commit
<1>6. left \in 1..Len(o) /\ Len(o) \in Nat
  BY <1>1, <1>2, <1>3, Lefts
<1>7. pc["worker"] \in Pcs("worker")
  BY <1>1, <1>2 DEF TypeOK
(* Where the worker is, and what has come to the memory.                   *)
<1>8. \/ pc["worker"] \in {"cr_wait", "cr_clear", "fin_set"} /\ x = "i"
      \/ pc["worker"] \in {"fin_wait", "fin_clear"} /\ left = 2 /\ x = "i"
      \/ pc["worker"] \in {"fin_wait", "fin_clear"} /\ left = 1
           /\ x = "finished"
      \/ pc["worker"] = "wy_set" /\ left = 2 /\ x = "i"
      \/ pc["worker"] = "wy_set" /\ left = 1 /\ x = "waitRun"
      \/ pc["worker"] \in {"wy_wait", "exit"} /\ left = 3 /\ x = "i"
      \/ pc["worker"] = "wy_wait" /\ left = 2 /\ x = "waitRun"
      \/ pc["worker"] = "wy_wait" /\ left = 1 /\ x = "waitYield"
      \/ pc["worker"] = "exit" /\ left = 2 /\ x = "finished"
      \/ pc["worker"] = "exit" /\ left = 1 /\ x = "waitRun"
  <2>1. CASE pc["worker"] = "body"
    <3>1. Len(o) = 0
      BY <2>1, Orders
    <3> HIDE DEF o, left
    <3> QED BY <1>6, <3>1
  <2>2. CASE pc["worker"] \in {"cr_wait", "cr_clear", "fin_set"}
    <3>1. Len(o) = 1 /\ o[1] = "i"
      BY <2>2, Orders
    <3> HIDE DEF o, left
    <3>2. Len(o) - left + 1 = 1
      BY <1>6, <3>1
    <3> QED BY <2>2, <1>4, <3>1, <3>2
  <2>3. CASE pc["worker"] \in {"fin_wait", "fin_clear"}
    <3>1. Len(o) = 2 /\ o[1] = "i" /\ o[2] = "finished"
      BY <2>3, Orders
    <3> HIDE DEF o, left
    <3>2. \/ left = 2 /\ Len(o) - left + 1 = 1
          \/ left = 1 /\ Len(o) - left + 1 = 2
      BY <1>6, <3>1
    <3> QED BY <2>3, <1>4, <3>1, <3>2
  <2>4. CASE pc["worker"] = "wy_set"
    <3>1. Len(o) = 2 /\ o[1] = "i" /\ o[2] = "waitRun"
      BY <2>4, Orders
    <3> HIDE DEF o, left
    <3>2. \/ left = 2 /\ Len(o) - left + 1 = 1
          \/ left = 1 /\ Len(o) - left + 1 = 2
      BY <1>6, <3>1
    <3> QED BY <2>4, <1>4, <3>1, <3>2
  <2>5. CASE pc["worker"] = "wy_wait"
    <3>1. Len(o) = 3 /\ o[1] = "i" /\ o[2] = "waitRun" /\ o[3] = "waitYield"
      BY <2>5, Orders
    <3> HIDE DEF o, left
    <3>2. \/ left = 3 /\ Len(o) - left + 1 = 1
          \/ left = 2 /\ Len(o) - left + 1 = 2
          \/ left = 1 /\ Len(o) - left + 1 = 3
      BY <1>6, <3>1
    <3> QED BY <2>5, <1>4, <3>1, <3>2
  <2>6. CASE pc["worker"] = "exit"
    <3>1. Len(o) = 3 /\ o[1] = "i" /\ o[2] = "finished" /\ o[3] = "waitRun"
      BY <2>6, Orders
    <3> HIDE DEF o, left
    <3>2. \/ left = 3 /\ Len(o) - left + 1 = 1
          \/ left = 2 /\ Len(o) - left + 1 = 2
          \/ left = 1 /\ Len(o) - left + 1 = 3
      BY <1>6, <3>1
    <3> QED BY <2>6, <1>4, <3>1, <3>2
  <2> QED BY <1>7, <2>1, <2>2, <2>3, <2>4, <2>5, <2>6 DEF Pcs
<1>9. /\ x # "waitRun" => (mem'.waitRun <=> mem.waitRun)
      /\ x # "waitYield" => (mem'.waitYield <=> mem.waitYield)
      /\ x # "finished" => (mem'.finished <=> mem.finished)
  BY <1>4 DEF Vars
<1>10. /\ x = "waitRun" => ~mem'.waitRun
       /\ x = "waitYield" => mem'.waitYield
       /\ x = "finished" => mem'.finished
  <2>1. /\ x = "waitRun" => mem'[x] = ("worker" = "app")
        /\ x = "waitYield" => mem'[x] = ("worker" = "worker")
        /\ x = "finished" => mem'[x] = TRUE
    BY <1>2, <1>4, Mays
  <2>2. ("worker" = "app") = FALSE /\ ("worker" = "worker") = TRUE
    OBVIOUS
  <2>3. /\ x = "waitRun" => mem'[x] = FALSE
        /\ x = "waitYield" => mem'[x] = TRUE
    BY <2>1, <2>2, Zenon
  <2> QED BY <2>1, <2>3
<1>11. /\ Rounds' = Rounds /\ Segments' = Segments
       /\ Left("app")' = Left("app") /\ Left("worker")' = left - 1
  BY <1>2, <1>3, <1>4, <1>8 DEF Rounds, Segments, Vars, Counters
<1>12. pc'["worker"] = pc["worker"] /\ pc'["app"] = pc["app"]
  BY <1>5
<1>13. FinishedInv'
  <2>1. FinishedInv /\ left = Left("worker")
    BY DEF IInv
  <2> HIDE DEF o, left
  <2>2. ASSUME pc["worker"] \in {"fin_wait", "fin_clear"}, left - 1 = 0
        PROVE  mem'.finished
    BY <1>6, <1>8, <1>10, <2>2
  <2>3. ASSUME pc["worker"] = "exit", left - 1 <= 1 PROVE mem'.finished
    <3>1. CASE left = 2
      BY <1>8, <1>10, <2>3, <3>1
    <3>2. CASE left = 1
      BY <1>8, <1>9, <2>1, <2>3, <3>2 DEF FinishedInv
    <3> QED BY <1>6, <2>3, <3>1, <3>2
  <2> QED BY <1>11, <1>12, <2>2, <2>3 DEF FinishedInv
<1>14. TurnInv'
  <2>1. left \in Nat /\ left = Left("worker")
    BY <1>6
  <2> HIDE DEF o, left
  <2>2. ~Seen
    BY <2>1, <1>3 DEF Seen
  <2>3. AtWork => AtWork' /\ (mem'.waitRun <=> mem.waitRun)
    <3> SUFFICES ASSUME AtWork
                 PROVE  AtWork' /\ (mem'.waitRun <=> mem.waitRun)
      OBVIOUS
    <3>1. pc["worker"] \in {"cr_wait", "cr_clear", "fin_set", "fin_wait",
                            "fin_clear"}
      BY <1>3, <1>8, <2>1 DEF AtWork
    <3>2. x \in {"i", "finished"}
      BY <1>8, <3>1
    <3> QED BY <1>9, <1>11, <1>12, <3>1, <3>2 DEF AtWork
  <2>4. Parked => Parked'
    <3> SUFFICES ASSUME Parked PROVE Parked'
      OBVIOUS
    <3>1. pc["worker"] = "wy_wait" /\ left = 1 /\ x = "waitYield"
      BY <1>3, <1>8, <2>1 DEF Parked
    <3> QED BY <1>9, <1>10, <1>11, <1>12, <3>1 DEF Parked
  <2>5. Returning => Returning' \/ Parked'
    <3> SUFFICES ASSUME Returning PROVE Returning' \/ Parked'
      OBVIOUS
    <3>1. CASE x = "waitRun"
      <4>1. \/ pc["worker"] \in {"wy_set", "exit"} /\ left = 1
            \/ pc["worker"] = "wy_wait" /\ left = 2
        BY <1>8, <3>1
      <4>2. Parked'
        BY <1>9, <1>10, <1>11, <1>12, <3>1, <4>1 DEF Parked, Returning
      <4> QED BY <4>2
    <3>2. CASE x # "waitRun"
      <4>1. \/ pc["worker"] \in {"wy_set", "exit"} /\ left >= 2
            \/ pc["worker"] = "wy_wait" /\ left >= 3
        BY <1>8, <2>1, <3>2 DEF Returning
      <4>2. x # "waitYield"
        BY <1>8, <4>1
      <4>3. Returning'
        BY <1>9, <1>11, <1>12, <2>1, <3>2, <4>1, <4>2 DEF Returning
      <4> QED BY <4>3
    <3> QED BY <3>1, <3>2
  <2> QED BY <1>11, <1>12, <2>2, <2>3, <2>4, <2>5 DEF IInv, TurnInv
<1> QED BY <1>2, <1>3, <1>13, <1>14 DEF IInv

-------------------------------------------------------------------------------
(* The inductive invariant, for any number of calls of koro_run: each      *)
(* buffer holds nothing but the last of what its thread has stored in this *)
(* round, and it is one thread's turn at a time.                           *)
THEOREM Invariant == Spec => []IInv
<1>1. Init => IInv
  <2> SUFFICES ASSUME Init PROVE IInv
    OBVIOUS
  <2>1. /\ DOMAIN mem = Vars
        /\ mem.waitRun = FALSE /\ mem.waitYield = FALSE /\ mem.finished = FALSE
        /\ mem.round = 0 /\ mem.i = 0
        /\ pc["app"] = "user" /\ pc["worker"] = "wy_set"
        /\ buffer["app"] = <<>> /\ buffer["worker"] = <<>>
    BY DEF Init, Vars, Counters, Threads
  <2>2. TypeOK
    <3>1. \A x \in Vars : mem[x] \in Vals(x)
      <4>1. \A x \in Counters : mem[x] \in Nat
        BY <2>1 DEF Counters
      <4>2. \A x \in Vars \ Counters : mem[x] \in BOOLEAN
        BY <2>1 DEF Vars, Counters
      <4> QED BY <4>1, <4>2 DEF Vals
    <3>2. buffer \in [Threads -> Seq(Stores)]
      BY DEF Init
    <3>3. /\ pc \in [Threads -> Pcs("app") \union Pcs("worker")]
          /\ \A t \in Threads : pc[t] \in Pcs(t)
      BY DEF Init, Threads, Pcs
    <3> QED BY <2>1, <3>1, <3>2, <3>3 DEF TypeOK
  <2>3. Left("app") = 0 /\ Left("worker") = 0
    BY <2>1 DEF Left
  <2>4. BufferInv("app") /\ BufferInv("worker")
    <3>1. Len(Order("user")) = 0 /\ Len(Order("wy_set")) = 2
      BY Orders
    <3> QED BY <2>1, <2>3, <3>1 DEF BufferInv
  <2>5. Rounds = 0 /\ Segments = 0
    BY <2>1, <2>2, <2>3, LoadMemory DEF Rounds, Segments, Threads
  <2>6. TurnInv /\ FinishedInv
    BY <2>1, <2>3, <2>5 DEF TurnInv, FinishedInv, Parked
  <2> QED BY <2>2, <2>4, <2>6 DEF IInv
<1>2. IInv /\ [Next]_vars => IInv'
  <2> SUFFICES ASSUME IInv, [Next]_vars PROVE IInv'
    OBVIOUS
  <2>1. CASE UNCHANGED vars
    <3>1. UNCHANGED <<mem, buffer, pc>>
      BY <2>1 DEF vars
    <3>2. /\ TypeOK' /\ Left("app")' = Left("app")
          /\ Left("worker")' = Left("worker")
          /\ Rounds' = Rounds /\ Segments' = Segments
      BY <3>1 DEF IInv, TypeOK, Left, Rounds, Segments, Load
    <3>3. BufferInv("app")' /\ BufferInv("worker")'
      BY <3>1 DEF IInv, BufferInv, Left
    <3>4. TurnInv' /\ FinishedInv'
      BY <3>1, <3>2 DEF IInv, TurnInv, FinishedInv, Parked, Seen, AtWork,
         Returning
    <3> QED BY <3>2, <3>3, <3>4 DEF IInv
  <2>2. ASSUME NEW t \in Threads, Commit(t) PROVE IInv'
    BY <2>2, CommitAppInv, CommitWorkerInv DEF Threads
  <2> QED
    BY <2>1, <2>2, RunCallInv, ContinueYieldWaitInv, ContinueYieldClearInv,
       WaitForRunSetInv, WaitForRunWaitInv, WaitForYieldSetInv,
       WaitForYieldWaitInv, BodyCountInv, ContinueRunWaitInv,
       ContinueRunClearInv, FinishedSetInv DEF Next
<1> QED BY <1>1, <1>2, PTL DEF Spec

(* The two waits pass the baton, and all that was written before it, when  *)
(* stores are delayed too, for any number of calls of koro_run:            *)
(* HandshakeOrders of the run "memory".                                    *)
THEOREM BatonCarriesStores == Spec => []HandshakeOrders
<1>1. ASSUME IInv, pc["worker"] = "body"
      PROVE  Load("worker", "round") = Load("worker", "i") + 1
  <2>1. "app" \in Threads /\ "worker" \in Threads
    BY DEF Threads
  <2>2. AtWork
    BY <1>1 DEF IInv, TurnInv, Parked, Seen, Returning
  <2>3. /\ pc["app"] \in {"wr_set", "wr_wait"}
        /\ pc["app"] = "wr_set" => Left("app") = 0
        /\ Left("app") \in 0..1
    BY <1>1 DEF IInv, TurnInv, Parked, Seen, Returning
  <2>4. Rounds = mem.round
    <3> DEFINE o == Order(pc["app"])
    <3>1. \/ Len(o) = 2
          \/ Len(o) = 3 /\ o[3] # "round"
      BY <2>3, Orders
    <3>2. \/ Left("app") = 0
          \/ Left("app") = 1 /\ Len(o) = 3 /\ o[3] # "round"
      <4>1. pc["app"] = "wr_wait" => Len(o) = 3 /\ o[3] # "round"
        BY Orders
      <4> QED BY <2>3, <4>1
    <3>3. \A n \in (Len(o) - Left("app") + 1)..Len(o) : o[n] # "round"
      <4> HIDE DEF o
      <4> QED BY <3>1, <3>2
    <3> QED BY <1>1, <2>1, <3>3, NotPending DEF IInv, Rounds
  <2>5. Load("worker", "round") = mem.round
    <3>1. Left("worker") \in 0..0
      BY <1>1, <2>1, Lefts, Orders DEF IInv
    <3> QED BY <1>1, <2>1, <3>1, LoadMemory DEF IInv
  <2> QED BY <1>1, <2>2, <2>4, <2>5 DEF AtWork, Segments
<1>2. ASSUME IInv, pc["app"] = "user"
      PROVE  /\ pc["worker"] \notin {"body", "fin_set"}
             /\ Load("app", "i") = Load("app", "round")
             /\ pc["worker"] = "exit" => Load("app", "finished")
  <2>1. "app" \in Threads /\ "worker" \in Threads
    BY DEF Threads
  <2>2. Parked /\ Rounds = Segments
    BY <1>2 DEF IInv, TurnInv
  <2>3. Left("app") \in 0..0
    BY <1>2, <2>1, Lefts, Orders DEF IInv
  <2>4. Load("app", "i") = mem.i /\ Load("app", "finished") = mem.finished
    BY <1>2, <2>1, <2>3, LoadMemory DEF IInv
  <2>5. Segments = mem.i
    <3> DEFINE o == Order(pc["worker"])
    <3>1. \/ Left("worker") = 0
          \/ Left("worker") = 1 /\ Len(o) = 3 /\ o[3] # "i"
      <4>1. pc["worker"] = "wy_wait" => Len(o) = 3 /\ o[3] # "i"
        BY Orders
      <4>2. Left("worker") \in Nat
        BY <1>2, <2>1, Lefts DEF IInv
      <4> HIDE DEF o
      <4> QED BY <2>2, <4>1, <4>2 DEF Parked
    <3>2. Len(o) \in Nat
      BY <1>2, <2>1, Lefts DEF IInv
    <3>3. \A n \in (Len(o) - Left("worker") + 1)..Len(o) : o[n] # "i"
      <4> HIDE DEF o
      <4> QED BY <3>1, <3>2
    <3> QED BY <1>2, <2>1, <3>3, NotPending DEF IInv, Segments
  <2>6. pc["worker"] = "exit" => mem.finished
    BY <1>2, <2>2 DEF IInv, Parked, FinishedInv
  <2> QED BY <2>2, <2>4, <2>5, <2>6 DEF Parked, Rounds
<1>3. IInv => HandshakeOrders
  BY <1>1, <1>2 DEF HandshakeOrders
<1> QED BY <1>3, Invariant, PTL

===============================================================================
