----------------------------- MODULE TinyCnd_proofs -----------------------------
(***************************************************************************)
(* Proofs about TinyCnd and the mutex below it, for any number of threads  *)
(* and every type of mutex.                                                *)
(*                                                                         *)
(* What a thread was told (held), what Windows knows (owner, depth,        *)
(* abandoned) and what the mutex notes (alreadyLocked) agree, but for a    *)
(* thread that has ended and for what it leaves behind; the count covers   *)
(* the waiters; and what an undisturbed call owes is either for ALL, which *)
(* stays, or for ONE, which only a thread that it found can take.          *)
(***************************************************************************)
EXTENDS TinyCnd, FiniteSetTheorems, TLAPS

-------------------------------------------------------------------------------
(* The inductive invariant                                                 *)

SomebodyDied  == \E q \in Threads : pc[q] = "dead"
SomebodyHolds == \E q \in Threads : held[q] > 0

(* Who has locked the mutex owns the object, and a non-recursive mutex     *)
(* knows it.                                                               *)
HolderInv ==
  \A t \in Threads :
    /\ held[t] > 0 => owner = t \/ pc[t] = "dead"
    /\ pc[t] = "dead" => held[t] > 0
    /\ pc[t] = "stuck" => owner = t
    /\ pc[t] = "counted" => held[t] > 0
    /\ ~Recursive => held[t] <= 1
    /\ ~Recursive /\ held[t] > 0 => alreadyLocked \/ pc[t] = "dead"

(* The object is owned as often as its owner was told, and once more only  *)
(* when the owner sleeps for ever or has the object after WAIT_ABANDONED.  *)
DepthInv ==
  /\ owner = None <=> depth = 0
  /\ \A t \in Threads :
       owner = t =>
         /\ held[t] <= depth
         /\ held[t] # depth => pc[t] = "stuck" \/ SomebodyDied

(* Nothing is owned, noted or waited for on behalf of nobody.              *)
HeldInv ==
  /\ alreadyLocked => SomebodyHolds
  /\ \A t \in Threads : pc[t] = "stuck" => SomebodyHolds
  /\ abandoned => owner = None /\ SomebodyDied /\ (Recursive \/ alreadyLocked)

MutexInv == HolderInv /\ DepthInv /\ HeldInv

AtEvents == {t \in Threads : pc[t] \in Counted}

(* Only waiters are on their way through a wait, and no more of them are   *)
(* owed a wake-up than were found blocked and are.                         *)
WaitInv ==
  /\ \A t \in Threads :
       pc[t] \in Counted \union {"reset", "relock"} => t \in Waiters
  /\ found \subseteq Blocked
  /\ owed <= Cardinality(found)

(* While nothing has disturbed the calls: what is owed is to come from     *)
(* ALL, which nobody is about to reset, or it is one wake-up, to come from *)
(* ONE, and all that are blocked now were found by the call.               *)
CallsInv ==
  ~disturbed /\ owed > 0 =>
    \/ AllComing /\ ~Resetting
    \/ OneComing /\ owed <= 1 /\ Blocked \subseteq found

IInv == TypeOK /\ MutexInv /\ WaitInv /\ NoUndercount /\ CallsInv

-------------------------------------------------------------------------------
(* The mutex                                                               *)

MutexTypes ==
  /\ type \in Types
  /\ alreadyLocked \in BOOLEAN
  /\ owner \in Threads \union {None}
  /\ depth \in Nat
  /\ abandoned \in BOOLEAN
  /\ DOMAIN pc = Threads
  /\ held \in [Threads -> Nat]

(* A step that leaves the mutex alone.                                     *)
LEMMA OtherStepKeepsMutex ==
  ASSUME MutexInv, DOMAIN pc = Threads,
         NEW t \in Threads, pc[t] \notin {"dead", "stuck"},
         NEW label, label \notin {"dead", "stuck"},
         label = "counted" => held[t] > 0,
         pc' = [pc EXCEPT ![t] = label], UNCHANGED mtxVars
  PROVE  MutexInv'
<1>1. UNCHANGED <<type, alreadyLocked, owner, depth, abandoned, held>>
  BY DEF mtxVars, objectVars
<1>2. pc'[t] = label /\ \A q \in Threads : q # t => pc'[q] = pc[q]
  OBVIOUS
<1>3. SomebodyDied' <=> SomebodyDied
  BY <1>2 DEF SomebodyDied
<1>4. SomebodyHolds' <=> SomebodyHolds
  BY <1>1 DEF SomebodyHolds
<1>5. Recursive' <=> Recursive
  BY <1>1 DEF Recursive
<1>6. HolderInv'
  BY <1>1, <1>2, <1>5 DEF MutexInv, HolderInv
<1>7. DepthInv'
  BY <1>1, <1>2, <1>3 DEF MutexInv, DepthInv
<1>8. HeldInv'
  BY <1>1, <1>2, <1>3, <1>4, <1>5 DEF MutexInv, HeldInv
<1>. QED
  BY <1>6, <1>7, <1>8 DEF MutexInv

(* A thread that could get the object and has not locked the mutex is told *)
(* nothing by the mutex: nobody alive has it.                              *)
LEMMA AvailableMeansMine ==
  ASSUME MutexInv, MutexTypes, None \notin Threads,
         NEW t \in Threads, owner \in {None, t}, pc[t] # "dead"
  PROVE  /\ \A q \in Threads : q # t /\ held[q] > 0 => pc[q] = "dead"
         /\ owner = None => held[t] = 0
  BY DEF MutexInv, HolderInv, MutexTypes

(* The mutex is granted.                                                   *)
LEMMA GrantKeepsMutex ==
  ASSUME MutexInv, MutexTypes, None \notin Threads,
         NEW t \in Threads, pc[t] \notin {"dead", "stuck"},
         Acquire(t), ~abandoned, ~alreadyLocked, Grant(t, "user"), type' = type
  PROVE  MutexInv'
<1>1. /\ owner \in {None, t} /\ owner' = t /\ depth' = depth + 1
      /\ ~abandoned' /\ alreadyLocked' = ~Recursive
      /\ held' = [held EXCEPT ![t] = @ + 1]
      /\ pc' = [pc EXCEPT ![t] = "user"]
  BY DEF Acquire, Available, Grant, Goto
<1>2. pc'[t] = "user" /\ \A q \in Threads : q # t => pc'[q] = pc[q]
  BY <1>1 DEF MutexTypes
<1>3. held'[t] = held[t] + 1 /\ \A q \in Threads : q # t => held'[q] = held[q]
  BY <1>1 DEF MutexTypes
<1>4. SomebodyDied' <=> SomebodyDied
  BY <1>2 DEF SomebodyDied
<1>5. Recursive' <=> Recursive
  BY DEF Recursive
<1>6. depth \in Nat /\ \A q \in Threads : held[q] \in Nat
  BY DEF MutexTypes
<1>7. SomebodyHolds'
  BY <1>3, <1>6 DEF SomebodyHolds
<1>8. /\ \A q \in Threads : q # t /\ held[q] > 0 => pc[q] = "dead"
      /\ owner = None => held[t] = 0
  BY <1>1, AvailableMeansMine
<1>9. ~Recursive => held[t] = 0
  BY <1>6 DEF MutexInv, HolderInv
<1>10. ~Recursive => alreadyLocked'
  BY <1>1
<1>11. held'[t] > 0 /\ (~Recursive => held'[t] <= 1)
  BY <1>3, <1>6, <1>9
<1>12. HolderInv'
  <2>. SUFFICES ASSUME NEW q \in Threads
       PROVE /\ held'[q] > 0 => owner' = q \/ pc'[q] = "dead"
             /\ pc'[q] = "dead" => held'[q] > 0
             /\ pc'[q] = "stuck" => owner' = q
             /\ pc'[q] = "counted" => held'[q] > 0
             /\ ~Recursive => held'[q] <= 1
             /\ ~Recursive /\ held'[q] > 0 => alreadyLocked' \/ pc'[q] = "dead"
    BY <1>5 DEF HolderInv
  <2>1. CASE q = t
    BY <2>1, <1>1, <1>2, <1>10, <1>11, Zenon
  <2>2. CASE q # t
    BY <2>2, <1>1, <1>2, <1>3, <1>8 DEF MutexInv, HolderInv
  <2>. QED
    BY <2>1, <2>2
<1>13. DepthInv'
  <2>1. CASE owner = None
    BY <2>1, <1>1, <1>2, <1>3, <1>6, <1>8 DEF MutexInv, DepthInv
  <2>2. CASE owner = t
    BY <2>2, <1>1, <1>2, <1>3, <1>4, <1>6 DEF MutexInv, DepthInv
  <2>. QED
    BY <2>1, <2>2, <1>1
<1>14. HeldInv'
  BY <1>1, <1>7 DEF HeldInv
<1>. QED
  BY <1>12, <1>13, <1>14 DEF MutexInv

(* The owner of a non-recursive mutex falls asleep for ever.               *)
LEMMA StuckKeepsMutex ==
  ASSUME MutexInv, MutexTypes, None \notin Threads,
         NEW t \in Threads, pc[t] \notin {"dead", "stuck"},
         Acquire(t), ~abandoned, alreadyLocked,
         Goto(t, "stuck"), UNCHANGED <<type, alreadyLocked, held>>
  PROVE  MutexInv'
<1>1. /\ owner \in {None, t} /\ owner' = t /\ depth' = depth + 1
      /\ ~abandoned'
      /\ pc' = [pc EXCEPT ![t] = "stuck"]
  BY DEF Acquire, Available, Goto
<1>2. pc'[t] = "stuck" /\ \A q \in Threads : q # t => pc'[q] = pc[q]
  BY <1>1 DEF MutexTypes
<1>3. SomebodyDied' <=> SomebodyDied
  BY <1>2 DEF SomebodyDied
<1>4. Recursive' <=> Recursive
  BY DEF Recursive
<1>5. depth \in Nat /\ \A q \in Threads : held[q] \in Nat
  BY DEF MutexTypes
<1>6. SomebodyHolds'
  BY DEF MutexInv, HeldInv, SomebodyHolds
<1>7. /\ \A q \in Threads : q # t /\ held[q] > 0 => pc[q] = "dead"
      /\ owner = None => held[t] = 0
  BY <1>1, AvailableMeansMine
<1>8. HolderInv'
  <2>. SUFFICES ASSUME NEW q \in Threads
       PROVE /\ held[q] > 0 => owner' = q \/ pc'[q] = "dead"
             /\ pc'[q] = "dead" => held[q] > 0
             /\ pc'[q] = "stuck" => owner' = q
             /\ pc'[q] = "counted" => held[q] > 0
             /\ ~Recursive => held[q] <= 1
             /\ ~Recursive /\ held[q] > 0 => alreadyLocked \/ pc'[q] = "dead"
    BY <1>4 DEF HolderInv
  <2>1. CASE q = t
    BY <2>1, <1>1, <1>2 DEF MutexInv, HolderInv
  <2>2. CASE q # t
    BY <2>2, <1>1, <1>2, <1>7 DEF MutexInv, HolderInv
  <2>. QED
    BY <2>1, <2>2
<1>9. DepthInv'
  <2>1. CASE owner = None
    BY <2>1, <1>1, <1>2, <1>5, <1>7 DEF MutexInv, DepthInv
  <2>2. CASE owner = t
    BY <2>2, <1>1, <1>2, <1>5 DEF MutexInv, DepthInv
  <2>. QED
    BY <2>1, <2>2, <1>1
<1>10. HeldInv'
  BY <1>1, <1>6 DEF HeldInv
<1>. QED
  BY <1>8, <1>9, <1>10 DEF MutexInv

(* After WAIT_ABANDONED: the thread has the object.  mtx_lock tells it     *)
(* that it has not; _cnd_timedwait_win32 does not look at the answer.      *)
LEMMA AbandonedKeepsMutex ==
  ASSUME MutexInv, MutexTypes, None \notin Threads,
         NEW t \in Threads, pc[t] \notin {"dead", "stuck"},
         Acquire(t), abandoned, UNCHANGED <<type, alreadyLocked>>,
         Goto(t, "user"),
         held' = held \/ held' = [held EXCEPT ![t] = @ + 1]
  PROVE  MutexInv'
<1>1. /\ owner = None /\ owner' = t /\ depth' = depth + 1
      /\ ~abandoned'
      /\ pc' = [pc EXCEPT ![t] = "user"]
  BY DEF Acquire, Available, Goto, MutexInv, HeldInv
<1>2. pc'[t] = "user" /\ \A q \in Threads : q # t => pc'[q] = pc[q]
  BY <1>1 DEF MutexTypes
<1>3. SomebodyDied /\ SomebodyDied'
  BY <1>2 DEF MutexInv, HeldInv, SomebodyDied
<1>4. Recursive' <=> Recursive
  BY DEF Recursive
<1>5. depth \in Nat /\ \A q \in Threads : held[q] \in Nat
  BY DEF MutexTypes
<1>6. /\ \A q \in Threads : q # t /\ held[q] > 0 => pc[q] = "dead"
      /\ held[t] = 0
  BY <1>1, AvailableMeansMine
<1>7. /\ held'[t] \in {0, 1}
      /\ \A q \in Threads : q # t => held'[q] = held[q]
  BY <1>5, <1>6 DEF MutexTypes
<1>8. PICK d \in Threads : pc[d] = "dead" /\ held[d] > 0
  BY <1>3 DEF SomebodyDied, MutexInv, HolderInv
<1>9. SomebodyHolds'
  BY <1>7, <1>8 DEF SomebodyHolds
<1>10. ~Recursive => alreadyLocked
  BY DEF MutexInv, HeldInv
<1>11. HolderInv'
  <2>. SUFFICES ASSUME NEW q \in Threads
       PROVE /\ held'[q] > 0 => owner' = q \/ pc'[q] = "dead"
             /\ pc'[q] = "dead" => held'[q] > 0
             /\ pc'[q] = "stuck" => owner' = q
             /\ pc'[q] = "counted" => held'[q] > 0
             /\ ~Recursive => held'[q] <= 1
             /\ ~Recursive /\ held'[q] > 0 => alreadyLocked \/ pc'[q] = "dead"
    BY <1>4 DEF HolderInv
  <2>1. CASE q = t
    BY <2>1, <1>1, <1>2, <1>7, <1>10
  <2>2. CASE q # t
    BY <2>2, <1>1, <1>2, <1>6, <1>7 DEF MutexInv, HolderInv
  <2>. QED
    BY <2>1, <2>2
<1>12. DepthInv'
  BY <1>1, <1>3, <1>5, <1>7 DEF MutexInv, DepthInv
<1>13. HeldInv'
  BY <1>1, <1>9 DEF HeldInv
<1>. QED
  BY <1>11, <1>12, <1>13 DEF MutexInv

(* The mutex is given back by a thread that has it.                        *)
LEMMA UnlockKeepsMutex ==
  ASSUME MutexInv, MutexTypes, None \notin Threads,
         NEW t \in Threads, pc[t] \notin {"dead", "stuck"}, held[t] > 0,
         NEW next, next \notin {"dead", "stuck", "counted"},
         Unlock(t, next)
  PROVE  MutexInv' /\ depth > 0
<1>1. /\ type' = type /\ ~alreadyLocked' /\ abandoned' = abandoned
      /\ depth' = depth - 1
      /\ owner' = IF depth = 1 THEN None ELSE owner
      /\ held' = [held EXCEPT ![t] = @ - 1]
      /\ pc' = [pc EXCEPT ![t] = next]
  BY DEF Unlock, Release, Goto
<1>2. pc'[t] = next /\ \A q \in Threads : q # t => pc'[q] = pc[q]
  BY <1>1 DEF MutexTypes
<1>3. held'[t] = held[t] - 1 /\ \A q \in Threads : q # t => held'[q] = held[q]
  BY <1>1 DEF MutexTypes
<1>4. SomebodyDied' <=> SomebodyDied
  BY <1>2 DEF SomebodyDied
<1>5. Recursive' <=> Recursive
  BY <1>1 DEF Recursive
<1>6. depth \in Nat /\ \A q \in Threads : held[q] \in Nat
  BY DEF MutexTypes
<1>7. /\ owner = t /\ owner # None /\ ~abandoned
      /\ \A q \in Threads : q # t /\ held[q] > 0 => pc[q] = "dead"
      /\ \A q \in Threads : pc[q] # "stuck"
  BY <1>6 DEF MutexInv, HolderInv, HeldInv
<1>8. depth > 0 /\ held[t] <= depth
  BY <1>6, <1>7 DEF MutexInv, DepthInv
<1>9. held'[t] \in Nat /\ held'[t] <= depth' /\ (~Recursive => held'[t] = 0)
  BY <1>1, <1>3, <1>6, <1>8 DEF MutexInv, HolderInv
<1>10. held'[t] # depth' => SomebodyDied
  BY <1>1, <1>3, <1>6, <1>7, <1>8 DEF MutexInv, DepthInv
<1>11. owner' # None => owner' = t /\ depth' > 0
  BY <1>1, <1>6, <1>7, <1>8
<1>12. owner' = None <=> depth' = 0
  BY <1>1, <1>6, <1>7, <1>8
<1>13. HolderInv'
  <2>. SUFFICES ASSUME NEW q \in Threads
       PROVE /\ held'[q] > 0 => owner' = q \/ pc'[q] = "dead"
             /\ pc'[q] = "dead" => held'[q] > 0
             /\ pc'[q] = "stuck" => owner' = q
             /\ pc'[q] = "counted" => held'[q] > 0
             /\ ~Recursive => held'[q] <= 1
             /\ ~Recursive /\ held'[q] > 0 => alreadyLocked' \/ pc'[q] = "dead"
    BY <1>5 DEF HolderInv
  <2>1. CASE q = t
    <3>1. held'[t] > 0 => owner' = t
      BY <1>1, <1>3, <1>6, <1>7, <1>8
    <3>. QED
      BY <2>1, <3>1, <1>2, <1>9
  <2>2. CASE q # t
    <3>1. pc'[q] = pc[q] /\ held'[q] = held[q] /\ pc[q] # "stuck"
      BY <2>2, <1>2, <1>3, <1>7
    <3>. QED
      BY <2>2, <3>1, <1>7 DEF MutexInv, HolderInv
  <2>. QED
    BY <2>1, <2>2
<1>14. DepthInv'
  BY <1>4, <1>9, <1>10, <1>11, <1>12 DEF DepthInv
<1>15. HeldInv'
  BY <1>1, <1>2, <1>7 DEF HeldInv
<1>. QED
  BY <1>8, <1>13, <1>14, <1>15 DEF MutexInv

(* A thread ends with the mutex.                                           *)
LEMMA DieKeepsMutex ==
  ASSUME MutexInv, MutexTypes, None \notin Threads,
         NEW t \in Threads, Die(t)
  PROVE  MutexInv'
<1>1. /\ pc[t] = "user" /\ held[t] > 0
      /\ UNCHANGED <<type, alreadyLocked, held>>
      /\ pc' = [pc EXCEPT ![t] = "dead"]
      /\ \/ owner' = None /\ depth' = 0 /\ abandoned'
         \/ UNCHANGED <<owner, depth, abandoned>>
  BY DEF Die, Goto, objectVars
<1>2. pc'[t] = "dead" /\ \A q \in Threads : q # t => pc'[q] = pc[q]
  BY <1>1 DEF MutexTypes
<1>3. SomebodyDied' /\ SomebodyHolds'
  BY <1>1, <1>2 DEF SomebodyDied, SomebodyHolds
<1>4. Recursive' <=> Recursive
  BY <1>1 DEF Recursive
<1>5. depth \in Nat /\ \A q \in Threads : held[q] \in Nat
  BY DEF MutexTypes
<1>6. /\ owner = t /\ owner # None /\ ~abandoned
      /\ \A q \in Threads : q # t /\ held[q] > 0 => pc[q] = "dead"
      /\ \A q \in Threads : pc[q] # "stuck"
  BY <1>1, <1>5 DEF MutexInv, HolderInv, HeldInv
<1>7. Recursive \/ alreadyLocked
  BY <1>1 DEF MutexInv, HolderInv
<1>8. HolderInv'
  <2>. SUFFICES ASSUME NEW q \in Threads
       PROVE /\ held[q] > 0 => owner' = q \/ pc'[q] = "dead"
             /\ pc'[q] = "dead" => held[q] > 0
             /\ pc'[q] = "stuck" => owner' = q
             /\ pc'[q] = "counted" => held[q] > 0
             /\ ~Recursive => held[q] <= 1
             /\ ~Recursive /\ held[q] > 0 => alreadyLocked \/ pc'[q] = "dead"
    BY <1>1, <1>4 DEF HolderInv
  <2>1. CASE q = t
    BY <2>1, <1>1, <1>2 DEF MutexInv, HolderInv
  <2>2. CASE q # t
    <3>1. pc'[q] = pc[q] /\ pc[q] # "stuck"
      BY <2>2, <1>2, <1>6
    <3>. QED
      BY <2>2, <3>1, <1>6 DEF MutexInv, HolderInv
  <2>. QED
    BY <2>1, <2>2
<1>9. DepthInv'
  <2>1. CASE owner' = None /\ depth' = 0 /\ abandoned'
    BY <2>1, <1>3 DEF DepthInv
  <2>2. CASE UNCHANGED <<owner, depth, abandoned>>
    BY <2>2, <1>1, <1>3 DEF MutexInv, DepthInv
  <2>. QED
    BY <1>1, <2>1, <2>2
<1>10. HeldInv'
  BY <1>1, <1>3, <1>4, <1>6, <1>7 DEF HeldInv
<1>. QED
  BY <1>8, <1>9, <1>10 DEF MutexInv

(* Where the steps of TinyMtx, and the last one of a wait, take a thread.  *)
MutexMove(t) ==
  /\ pc[t] \in {"user", "lock", "timedlock", "relock"}
  /\ \E label \in {"user", "lock", "timedlock", "stuck", "dead"} :
       pc' = [pc EXCEPT ![t] = label]

(* A thread gets the object, with any of the three outcomes.               *)
LEMMA AcquireKeepsMutex ==
  ASSUME MutexInv, MutexTypes, None \notin Threads,
         NEW t \in Threads, pc[t] \in {"user", "lock", "timedlock", "relock"},
         Acquire(t), type' = type,
         \/ /\ abandoned /\ Goto(t, "user") /\ UNCHANGED alreadyLocked
            /\ held' = held \/ held' = [held EXCEPT ![t] = @ + 1]
         \/ /\ ~abandoned /\ alreadyLocked /\ Goto(t, "stuck")
            /\ UNCHANGED <<alreadyLocked, held>>
         \/ ~abandoned /\ ~alreadyLocked /\ Grant(t, "user")
  PROVE  MutexInv' /\ MutexTypes' /\ MutexMove(t)
<1>1. owner' = t /\ abandoned' \in BOOLEAN
  BY DEF Acquire
<1>2. depth' \in Nat
  BY DEF Acquire, MutexTypes
<1>3. CASE /\ abandoned /\ Goto(t, "user") /\ UNCHANGED alreadyLocked
           /\ held' = held \/ held' = [held EXCEPT ![t] = @ + 1]
  <2>1. MutexInv'
    BY <1>3, AbandonedKeepsMutex
  <2>2. held' \in [Threads -> Nat] /\ DOMAIN pc' = Threads
    BY <1>3 DEF MutexTypes, Goto
  <2>3. MutexTypes'
    BY <1>1, <1>3, <1>2, <2>2, Zenon DEF MutexTypes
  <2>. QED
    BY <1>3, <2>1, <2>3 DEF MutexMove, Goto
<1>4. CASE /\ ~abandoned /\ alreadyLocked /\ Goto(t, "stuck")
           /\ UNCHANGED <<alreadyLocked, held>>
  <2>1. MutexInv'
    BY <1>4, StuckKeepsMutex
  <2>2. DOMAIN pc' = Threads
    BY <1>4 DEF MutexTypes, Goto
  <2>3. MutexTypes'
    BY <1>1, <1>4, <1>2, <2>2, Zenon DEF MutexTypes
  <2>. QED
    BY <1>4, <2>1, <2>3 DEF MutexMove, Goto
<1>5. CASE ~abandoned /\ ~alreadyLocked /\ Grant(t, "user")
  <2>1. MutexInv'
    BY <1>5, GrantKeepsMutex
  <2>2. alreadyLocked' \in BOOLEAN
    BY <1>5 DEF Grant
  <2>3. held' \in [Threads -> Nat] /\ DOMAIN pc' = Threads
    BY <1>5 DEF MutexTypes, Grant, Goto
  <2>4. MutexTypes'
    BY <1>1, <1>2, <2>2, <2>3, Zenon DEF MutexTypes
  <2>. QED
    BY <1>5, <2>1, <2>4 DEF MutexMove, Grant, Goto
<1>. QED
  BY <1>3, <1>4, <1>5

(* A thread gives the mutex back.                                          *)
LEMMA UnlockKeepsTypes ==
  ASSUME MutexInv, MutexTypes, None \notin Threads,
         NEW t \in Threads, pc[t] \notin {"dead", "stuck"}, held[t] > 0,
         NEW next, next \notin {"dead", "stuck", "counted"},
         Unlock(t, next)
  PROVE  MutexInv' /\ MutexTypes'
<1>1. MutexInv' /\ depth > 0
  BY UnlockKeepsMutex
<1>2. /\ type' = type /\ alreadyLocked' = FALSE /\ abandoned' = abandoned
      /\ depth' = depth - 1
      /\ owner' = IF depth = 1 THEN None ELSE owner
      /\ held' = [held EXCEPT ![t] = @ - 1]
      /\ pc' = [pc EXCEPT ![t] = next]
  BY DEF Unlock, Release, Goto
<1>3. depth' \in Nat /\ held' \in [Threads -> Nat]
  BY <1>1, <1>2 DEF MutexTypes
<1>4. owner' \in Threads \union {None} /\ DOMAIN pc' = Threads
  BY <1>2 DEF MutexTypes
<1>5. MutexTypes'
  BY <1>2, <1>3, <1>4 DEF MutexTypes
<1>. QED
  BY <1>1, <1>5

(* Every step of TinyMtx.                                                  *)
LEMMA MtxNextKeepsMutex ==
  ASSUME MutexInv, MutexTypes, None \notin Threads,
         NEW t \in Threads, MtxNext(t)
  PROVE  MutexInv' /\ MutexTypes' /\ MutexMove(t)
<1>1. CASE LockCall(t) \/ TimedLockCall(t)
  <2>1. PICK label \in {"lock", "timedlock"} :
          /\ pc' = [pc EXCEPT ![t] = label]
          /\ pc[t] = "user" /\ UNCHANGED mtxVars
    BY <1>1 DEF LockCall, TimedLockCall, Goto
  <2>2. MutexInv'
    BY <2>1, OtherStepKeepsMutex DEF MutexTypes
  <2>3. MutexTypes'
    BY <2>1 DEF MutexTypes, mtxVars, objectVars
  <2>. QED
    BY <2>1, <2>2, <2>3 DEF MutexMove
<1>2. CASE LockStep(t)
  <2>1. /\ pc[t] \in {"lock", "timedlock"} /\ Acquire(t) /\ type' = type
        /\ \/ /\ abandoned /\ Goto(t, "user") /\ UNCHANGED alreadyLocked
              /\ held' = held
           \/ /\ ~abandoned /\ alreadyLocked /\ Goto(t, "stuck")
              /\ UNCHANGED <<alreadyLocked, held>>
           \/ ~abandoned /\ ~alreadyLocked /\ Grant(t, "user")
    BY <1>2 DEF LockStep, Lock, Refused
  <2>. QED
    BY <2>1, AcquireKeepsMutex
<1>3. CASE LockTimeOut(t)
  <2>1. /\ pc' = [pc EXCEPT ![t] = "user"]
        /\ pc[t] = "timedlock" /\ UNCHANGED mtxVars
    BY <1>3 DEF LockTimeOut, Refused, Goto, mtxVars
  <2>2. MutexInv'
    BY <2>1, OtherStepKeepsMutex DEF MutexTypes
  <2>3. MutexTypes'
    BY <2>1 DEF MutexTypes, mtxVars, objectVars
  <2>. QED
    BY <2>1, <2>2, <2>3 DEF MutexMove
<1>4. CASE TryLock(t)
  <2>1. CASE Refused(t) /\ UNCHANGED <<alreadyLocked, objectVars, type>>
    <3>1. /\ pc' = [pc EXCEPT ![t] = "user"]
          /\ pc[t] = "user" /\ UNCHANGED mtxVars
      BY <1>4, <2>1 DEF TryLock, Refused, Goto, mtxVars
    <3>2. MutexInv'
      BY <3>1, OtherStepKeepsMutex DEF MutexTypes
    <3>3. MutexTypes'
      BY <3>1 DEF MutexTypes, mtxVars, objectVars
    <3>. QED
      BY <3>1, <3>2, <3>3 DEF MutexMove
  <2>2. CASE /\ Acquire(t)
             /\ \/ abandoned /\ Refused(t) /\ UNCHANGED alreadyLocked
                \/ ~abandoned /\ ~alreadyLocked /\ Grant(t, "user")
    BY <1>4, <2>2, AcquireKeepsMutex DEF TryLock, Refused
  <2>. QED
    BY <1>4, <2>1, <2>2 DEF TryLock
<1>5. CASE UnlockCall(t)
  <2>1. pc[t] = "user" /\ held[t] > 0 /\ Unlock(t, "user")
    BY <1>5 DEF UnlockCall
  <2>2. MutexMove(t)
    BY <2>1 DEF MutexMove, Unlock, Goto
  <2>. QED
    BY <2>1, <2>2, UnlockKeepsTypes
<1>6. CASE Die(t)
  <2>1. MutexInv'
    BY <1>6, DieKeepsMutex
  <2>2. /\ UNCHANGED <<type, alreadyLocked, held>>
        /\ pc[t] = "user" /\ pc' = [pc EXCEPT ![t] = "dead"]
        /\ \/ owner' = None /\ depth' = 0 /\ abandoned' = TRUE
           \/ UNCHANGED <<owner, depth, abandoned>>
    BY <1>6 DEF Die, Goto, objectVars
  <2>3. abandoned' \in BOOLEAN /\ alreadyLocked' \in BOOLEAN
    BY <2>2, Zenon DEF MutexTypes
  <2>4. /\ owner' \in Threads \union {None} /\ depth' \in Nat
        /\ DOMAIN pc' = Threads
    BY <2>2 DEF MutexTypes
  <2>5. MutexTypes'
    BY <2>2, <2>3, <2>4, Zenon DEF MutexTypes
  <2>. QED
    BY <2>1, <2>2, <2>5 DEF MutexMove
<1>. QED
  BY <1>1, <1>2, <1>3, <1>4, <1>5, <1>6 DEF MtxNext

-------------------------------------------------------------------------------
(* The condition variable                                                  *)

CndInv == WaitInv /\ NoUndercount /\ CallsInv

CndTypes ==
  /\ one \in BOOLEAN /\ all \in BOOLEAN
  /\ waitersCount \in Nat
  /\ owed \in Nat
  /\ disturbed \in BOOLEAN
  /\ DOMAIN pc = Threads

cndVars == <<one, all, waitersCount, history>>

(* Every set of threads is finite.                                         *)
LEMMA PartFinite ==
  ASSUME NEW S \in SUBSET Threads
  PROVE  IsFiniteSet(S) /\ Cardinality(S) \in Nat
BY CndAssumption, FS_Subset, FS_CardinalityType

(* The two sets that are counted.                                          *)
LEMMA CountedSets ==
  /\ IsFiniteSet(Blocked) /\ Cardinality(Blocked) \in Nat
  /\ IsFiniteSet(AtEvents) /\ Cardinality(AtEvents) \in Nat
  /\ Blocked \in SUBSET Threads /\ AtEvents \in SUBSET Threads
  /\ Blocked \subseteq AtEvents
  /\ Cardinality(Blocked) <= Cardinality(AtEvents)
<1>1. /\ Blocked \in SUBSET Threads /\ AtEvents \in SUBSET Threads
      /\ Blocked \subseteq AtEvents
  BY DEF Blocked, AtEvents, Counted
<1>. QED
  BY <1>1, PartFinite, FS_Subset

(* How a count changes with one thread.                                    *)
LEMMA CountMoves ==
  ASSUME NEW S \in SUBSET Threads, NEW t \in Threads
  PROVE  /\ Cardinality(S \union {t}) \in Nat
         /\ Cardinality(S \ {t}) \in Nat
         /\ Cardinality(S \union {t}) >= Cardinality(S)
         /\ t \notin S => Cardinality(S \union {t}) = Cardinality(S) + 1
         /\ t \in S => Cardinality(S \ {t}) = Cardinality(S) - 1
<1>1. /\ IsFiniteSet(S) /\ Cardinality(S) \in Nat
      /\ Cardinality(S \union {t}) \in Nat /\ Cardinality(S \ {t}) \in Nat
  BY PartFinite
<1>2. t \notin S => Cardinality(S \union {t}) = Cardinality(S) + 1
  BY <1>1, FS_AddElement
<1>3. t \in S => Cardinality(S \ {t}) = Cardinality(S) - 1
  BY <1>1, FS_RemoveElement
<1>4. t \in S => S \union {t} = S
  OBVIOUS
<1>5. Cardinality(S \union {t}) >= Cardinality(S)
  <2>1. CASE t \in S
    BY <2>1, <1>1, <1>4
  <2>2. CASE t \notin S
    BY <2>2, <1>1, <1>2
  <2>. QED
    BY <2>1, <2>2
<1>. QED
  BY <1>1, <1>2, <1>3, <1>5

(* The types that the counts need.                                         *)
LEMMA NumberTypes ==
  ASSUME CndTypes, WaitInv, NoUndercount
  PROVE  /\ waitersCount \in Nat /\ owed \in Nat
         /\ found \in SUBSET Threads /\ found \subseteq Blocked
         /\ Cardinality(found) \in Nat
         /\ owed <= Cardinality(found)
         /\ Cardinality(found) <= Cardinality(Blocked)
         /\ waitersCount >= Cardinality(AtEvents)
<1>1. found \in SUBSET Threads /\ found \subseteq Blocked
  BY CountedSets DEF WaitInv
<1>2. Cardinality(found) \in Nat /\ Cardinality(found) <= Cardinality(Blocked)
  BY <1>1, CountedSets, PartFinite, FS_Subset
<1>. QED
  BY <1>1, <1>2 DEF CndTypes, WaitInv, NoUndercount, AtEvents

(* How the counted sets change when one thread moves.                      *)
LEMMA SetsMove ==
  ASSUME DOMAIN pc = Threads, NEW t \in Threads, NEW label,
         pc' = [pc EXCEPT ![t] = label]
  PROVE  /\ label = "wait" => Blocked' = Blocked \union {t}
         /\ label # "wait" => Blocked' = Blocked \ {t}
         /\ label \in Counted => AtEvents' = AtEvents \union {t}
         /\ label \notin Counted => AtEvents' = AtEvents \ {t}
<1>1. pc'[t] = label /\ \A q \in Threads : q # t => pc'[q] = pc[q]
  OBVIOUS
<1>. QED
  BY <1>1 DEF Blocked, AtEvents

(* Neither event is announced or withdrawn, nor the end of a broadcast, by *)
(* a step in between.                                                      *)
LEMMA EventsStay ==
  ASSUME DOMAIN pc = Threads, NEW t \in Threads, NEW label,
         pc' = [pc EXCEPT ![t] = label],
         pc[t] \notin {"set_one", "set_all", "reset"},
         label \notin {"set_one", "set_all", "reset"}
  PROVE  /\ Resetting' <=> Resetting
         /\ one' = one => (OneComing' <=> OneComing)
         /\ all' = all => (AllComing' <=> AllComing)
<1>1. pc'[t] = label /\ \A q \in Threads : q # t => pc'[q] = pc[q]
  OBVIOUS
<1>. QED
  BY <1>1 DEF OneComing, AllComing, Resetting

(* A step that is neither part of a wait nor of a signal.                  *)
LEMMA QuietKeepsCnd ==
  ASSUME CndInv, CndTypes, NEW t \in Threads, MutexMove(t), UNCHANGED cndVars
  PROVE  CndInv' /\ CndTypes'
<1>1. PICK label \in {"user", "lock", "timedlock", "stuck", "dead"} :
        pc' = [pc EXCEPT ![t] = label]
  BY DEF MutexMove
<1>2. pc[t] \in {"user", "lock", "timedlock", "relock"}
  BY DEF MutexMove
<1>3. DOMAIN pc = Threads
  BY DEF CndTypes
<1>4. pc'[t] = label /\ \A q \in Threads : q # t => pc'[q] = pc[q]
  BY <1>1, <1>3
<1>5. Blocked' = Blocked /\ AtEvents' = AtEvents
  BY <1>2, <1>4 DEF Blocked, AtEvents, Counted
<1>6. /\ OneComing' <=> OneComing
      /\ AllComing' <=> AllComing
      /\ Resetting' <=> Resetting
  BY <1>1, <1>2, <1>3, EventsStay DEF cndVars
<1>7. WaitInv'
  BY <1>4, <1>5 DEF CndInv, WaitInv, Counted, cndVars, history
<1>8. NoUndercount'
  BY <1>5 DEF CndInv, NoUndercount, AtEvents, cndVars
<1>9. CallsInv'
  BY <1>5, <1>6 DEF CndInv, CallsInv, cndVars, history
<1>10. CndTypes'
  BY <1>1, <1>3 DEF CndTypes, cndVars, history
<1>. QED
  BY <1>7, <1>8, <1>9, <1>10 DEF CndInv

(* cnd_signal and cnd_broadcast read the count.  A signal that finds none  *)
(* owed a wake-up owes one; otherwise ALL is on its way for all of them.   *)
LEMMA NotifyKeepsCnd ==
  ASSUME CndInv, CndTypes, NEW t \in Threads,
         SignalCall(t) \/ BroadcastCall(t)
  PROVE  CndInv' /\ CndTypes'
<1>1. PICK count \in Nat, label \in {"set_one", "set_all"} :
        /\ pc[t] = "user" /\ pc' = [pc EXCEPT ![t] = label]
        /\ owed' = AtMost(count, Cardinality(Blocked))
        /\ found' = Blocked
        /\ UNCHANGED <<one, all, waitersCount>>
        /\ \/ /\ label = "set_one" /\ count = owed + 1
              /\ disturbed' = (disturbed \/ OneAwaited)
           \/ /\ label = "set_all"
              /\ disturbed' = (disturbed \/ Resetting)
  <2>1. owed + 1 \in Nat /\ Cardinality(Threads) \in Nat
    BY PartFinite DEF CndTypes
  <2>2. CASE SignalCall(t)
    BY <2>1, <2>2 DEF SignalCall, Notify, Goto
  <2>3. CASE BroadcastCall(t)
    BY <2>1, <2>3 DEF BroadcastCall, Notify, Goto
  <2>. QED
    BY <2>2, <2>3
<1>2. DOMAIN pc = Threads
  BY DEF CndTypes
<1>3. pc'[t] = label /\ \A q \in Threads : q # t => pc'[q] = pc[q]
  BY <1>1, <1>2
<1>4. Blocked' = Blocked /\ AtEvents' = AtEvents
  BY <1>1, <1>3 DEF Blocked, AtEvents, Counted
<1>5. owed' \in Nat /\ owed' <= Cardinality(Blocked) /\ owed' <= count
  BY <1>1, CountedSets DEF AtMost
<1>6. WaitInv'
  BY <1>1, <1>3, <1>4, <1>5 DEF CndInv, WaitInv, Counted
<1>7. NoUndercount'
  BY <1>1, <1>4 DEF CndInv, NoUndercount, AtEvents
<1>8. Resetting' <=> Resetting
  BY <1>1, <1>3 DEF Resetting
<1>9. CallsInv'
  <2>. SUFFICES ASSUME ~disturbed', owed' > 0
                PROVE  \/ AllComing' /\ ~Resetting'
                       \/ OneComing' /\ owed' <= 1 /\ Blocked' \subseteq found'
    BY DEF CallsInv
  <2>1. CASE label = "set_one" /\ owed > 0
    <3>1. AllComing /\ ~Resetting
      BY <1>1, <2>1 DEF OneAwaited
    <3>2. AllComing'
      BY <1>1, <1>3, <3>1 DEF AllComing
    <3>. QED
      BY <1>8, <3>1, <3>2
  <2>2. CASE label = "set_one" /\ ~(owed > 0)
    <3>1. owed' <= 1
      BY <1>1, <1>5, <2>2 DEF CndTypes
    <3>2. OneComing'
      BY <1>3, <2>2 DEF OneComing
    <3>. QED
      BY <1>1, <1>4, <3>1, <3>2
  <2>3. CASE label = "set_all"
    <3>1. AllComing'
      BY <1>3, <2>3 DEF AllComing
    <3>. QED
      BY <1>1, <1>8, <2>3, <3>1
  <2>. QED
    BY <1>1, <2>1, <2>2, <2>3
<1>10. disturbed' \in BOOLEAN
  BY <1>1, Zenon
<1>11. CndTypes'
  BY <1>1, <1>2, <1>5, <1>10 DEF CndTypes
<1>. QED
  BY <1>6, <1>7, <1>9, <1>11 DEF CndInv

(* An event is set.                                                        *)
LEMMA SetKeepsCnd ==
  ASSUME CndInv, CndTypes, NEW t \in Threads, SetOne(t) \/ SetAll(t)
  PROVE  CndInv' /\ CndTypes'
<1>1. /\ pc[t] \in {"set_one", "set_all"} /\ pc' = [pc EXCEPT ![t] = "user"]
      /\ \/ pc[t] = "set_one" /\ one' = TRUE /\ all' = all
         \/ pc[t] = "set_all" /\ all' = TRUE /\ one' = one
      /\ UNCHANGED <<waitersCount, found, owed, disturbed>>
  BY DEF SetOne, SetAll, Goto, history
<1>2. DOMAIN pc = Threads
  BY DEF CndTypes
<1>3. pc'[t] = "user" /\ \A q \in Threads : q # t => pc'[q] = pc[q]
  BY <1>1, <1>2
<1>4. Blocked' = Blocked /\ AtEvents' = AtEvents
  BY <1>1, <1>3 DEF Blocked, AtEvents, Counted
<1>5. WaitInv'
  BY <1>1, <1>3, <1>4 DEF CndInv, WaitInv, Counted
<1>6. NoUndercount'
  BY <1>1, <1>4 DEF CndInv, NoUndercount, AtEvents
<1>7. CallsInv'
  <2>1. OneComing => OneComing'
    BY <1>1, <1>3 DEF OneComing
  <2>2. AllComing => AllComing'
    BY <1>1, <1>3 DEF AllComing
  <2>3. Resetting' <=> Resetting
    BY <1>1, <1>3 DEF Resetting
  <2>. QED
    BY <1>1, <1>4, <2>1, <2>2, <2>3 DEF CndInv, CallsInv
<1>8. one' \in BOOLEAN /\ all' \in BOOLEAN
  BY <1>1, Zenon DEF CndTypes
<1>9. CndTypes'
  BY <1>1, <1>2, <1>8 DEF CndTypes
<1>. QED
  BY <1>5, <1>6, <1>7, <1>9 DEF CndInv

(* A waiter is counted, and gives up the mutex.                            *)
LEMMA BeginKeepsCnd ==
  ASSUME CndInv, CndTypes, NEW t \in Threads,
         WaitCall(t) \/ WaitUnlock(t)
  PROVE  CndInv' /\ CndTypes'
<1>1. PICK label \in {"counted", "wait"} :
        /\ pc' = [pc EXCEPT ![t] = label]
        /\ \/ /\ label = "counted" /\ pc[t] = "user" /\ t \in Waiters
              /\ waitersCount' = waitersCount + 1
              /\ disturbed' = disturbed
           \/ /\ label = "wait" /\ pc[t] = "counted"
              /\ waitersCount' = waitersCount
              /\ disturbed' = (disturbed \/ OneAwaited)
        /\ UNCHANGED <<one, all, found, owed>>
  BY DEF WaitCall, WaitUnlock, Unlock, Goto, history
<1>2. DOMAIN pc = Threads
  BY DEF CndTypes
<1>3. pc'[t] = label /\ \A q \in Threads : q # t => pc'[q] = pc[q]
  BY <1>1, <1>2
<1>4. /\ waitersCount \in Nat /\ owed <= Cardinality(found)
      /\ found \subseteq Blocked
      /\ waitersCount >= Cardinality(AtEvents)
  BY NumberTypes DEF CndInv
<1>5. \A q \in Threads :
        pc'[q] \in Counted \union {"reset", "relock"} => q \in Waiters
  BY <1>1, <1>3 DEF CndInv, WaitInv, Counted
<1>6. Blocked \subseteq Blocked'
  BY <1>1, <1>3 DEF Blocked
<1>7. WaitInv'
  BY <1>1, <1>4, <1>5, <1>6 DEF WaitInv
<1>8. waitersCount' >= Cardinality(AtEvents')
  <2>1. CASE label = "counted"
    <3>1. t \notin AtEvents /\ AtEvents' = AtEvents \union {t}
      BY <1>1, <1>2, <2>1, SetsMove DEF AtEvents, Counted
    <3>2. Cardinality(AtEvents \union {t}) = Cardinality(AtEvents) + 1
      BY <3>1, CountedSets, CountMoves
    <3>. QED
      BY <3>1, <3>2, <1>1, <1>4, <2>1, CountedSets
  <2>2. CASE label = "wait"
    <3>1. AtEvents' = AtEvents
      BY <1>1, <1>3, <2>2 DEF AtEvents, Counted
    <3>. QED
      BY <3>1, <1>1, <1>4, <2>2
  <2>. QED
    BY <2>1, <2>2
<1>9. NoUndercount'
  BY <1>8 DEF NoUndercount, AtEvents
<1>10. /\ OneComing' <=> OneComing
       /\ AllComing' <=> AllComing
       /\ Resetting' <=> Resetting
  BY <1>1, <1>2, EventsStay
<1>11. CallsInv'
  <2>1. CASE label = "counted"
    <3>1. Blocked' = Blocked
      BY <1>1, <1>3, <2>1 DEF Blocked
    <3>. QED
      BY <3>1, <1>1, <1>10, <2>1 DEF CndInv, CallsInv
  <2>2. CASE label = "wait"
    BY <1>1, <1>10, <2>2 DEF CallsInv, OneAwaited
  <2>. QED
    BY <2>1, <2>2
<1>12. waitersCount' \in Nat
  BY <1>1, <1>4
<1>13. disturbed' \in BOOLEAN
  BY <1>1, Zenon DEF CndTypes
<1>14. CndTypes'
  BY <1>1, <1>2, <1>12, <1>13 DEF CndTypes
<1>. QED
  BY <1>7, <1>9, <1>11, <1>14 DEF CndInv

(* A waiter gets through its wait, or gives up.                            *)
LEMMA EndKeepsCnd ==
  ASSUME CndInv, CndTypes, NEW t \in Threads, Wake(t) \/ WaitTimeOut(t)
  PROVE  CndInv' /\ CndTypes'
<1>1. PICK label \in {"woken_one", "woken_all", "relock"} :
        /\ pc[t] = "wait" /\ pc' = [pc EXCEPT ![t] = label]
        /\ found' = found \ {t}
        /\ UNCHANGED <<all, waitersCount, disturbed>>
        /\ \/ /\ label = "relock" /\ ~one /\ ~all /\ one' = one
              /\ owed' = AtMost(owed, Cardinality(found'))
           \/ /\ label # "relock"
              /\ one' = FALSE
              /\ owed' = IF t \in found /\ owed > 0 THEN owed - 1 ELSE owed
  <2>1. CASE Wake(t)
    BY <2>1 DEF Wake, Unblocked, Goto
  <2>2. CASE WaitTimeOut(t)
    BY <2>2 DEF WaitTimeOut, Unblocked, Goto
  <2>. QED
    BY <2>1, <2>2
<1>2. DOMAIN pc = Threads
  BY DEF CndTypes
<1>3. pc'[t] = label /\ \A q \in Threads : q # t => pc'[q] = pc[q]
  BY <1>1, <1>2
<1>4. /\ waitersCount \in Nat /\ owed \in Nat
      /\ found \in SUBSET Threads /\ found \subseteq Blocked
      /\ Cardinality(found) \in Nat
      /\ owed <= Cardinality(found)
      /\ Cardinality(found) <= Cardinality(Blocked)
      /\ waitersCount >= Cardinality(AtEvents)
  BY NumberTypes DEF CndInv
<1>5. /\ t \in Blocked /\ t \in AtEvents
      /\ Blocked' = Blocked \ {t}
  BY <1>1, <1>2, SetsMove DEF Blocked, AtEvents, Counted
<1>6. /\ Cardinality(found') \in Nat
      /\ t \in found => Cardinality(found') = Cardinality(found) - 1
      /\ t \notin found => found' = found
      /\ found' \subseteq Blocked'
  BY <1>1, <1>4, <1>5, CountMoves
<1>7. owed' \in Nat /\ owed' <= Cardinality(found') /\ owed' <= owed
  <2>1. CASE label = "relock"
    BY <2>1, <1>1, <1>4, <1>6 DEF AtMost
  <2>2. CASE label # "relock" /\ t \in found
    BY <2>2, <1>1, <1>4, <1>6
  <2>3. CASE label # "relock" /\ t \notin found
    BY <2>3, <1>1, <1>4, <1>6
  <2>. QED
    BY <2>1, <2>2, <2>3
<1>8. \A q \in Threads :
        pc'[q] \in Counted \union {"reset", "relock"} => q \in Waiters
  BY <1>1, <1>3 DEF CndInv, WaitInv, Counted
<1>9. WaitInv'
  BY <1>6, <1>7, <1>8 DEF WaitInv
<1>10. waitersCount' >= Cardinality(AtEvents')
  <2>1. CASE label = "relock"
    <3>1. AtEvents' = AtEvents \ {t}
      BY <1>1, <1>2, <2>1, SetsMove DEF Counted
    <3>2. Cardinality(AtEvents') = Cardinality(AtEvents) - 1
      BY <3>1, <1>5, CountedSets, CountMoves
    <3>. QED
      BY <3>2, <1>1, <1>4, CountedSets
  <2>2. CASE label # "relock"
    <3>1. AtEvents' = AtEvents
      BY <1>1, <1>3, <2>2 DEF AtEvents, Counted
    <3>. QED
      BY <3>1, <1>1, <1>4
  <2>. QED
    BY <2>1, <2>2
<1>11. NoUndercount'
  BY <1>10 DEF NoUndercount, AtEvents
<1>12. CallsInv'
  <2>. SUFFICES ASSUME ~disturbed', owed' > 0
                PROVE  \/ AllComing' /\ ~Resetting'
                       \/ OneComing' /\ owed' <= 1 /\ Blocked' \subseteq found'
    BY DEF CallsInv
  <2>1. /\ Resetting' <=> Resetting
        /\ AllComing' <=> AllComing
        /\ one' = one => (OneComing' <=> OneComing)
    BY <1>1, <1>2, EventsStay
  <2>2. \/ AllComing /\ ~Resetting
        \/ OneComing /\ owed <= 1 /\ Blocked \subseteq found
    BY <1>1, <1>4, <1>7 DEF CndInv, CallsInv
  <2>3. CASE OneComing /\ owed <= 1 /\ Blocked \subseteq found
    <3>1. t \in found
      BY <1>5, <2>3
    <3>2. label = "relock"
      BY <1>1, <1>4, <2>3, <3>1
    <3>. QED
      BY <1>1, <1>4, <1>5, <1>7, <2>1, <2>3, <3>2
  <2>. QED
    BY <2>1, <2>2, <2>3
<1>13. one' \in BOOLEAN
  BY <1>1, Zenon DEF CndTypes
<1>14. CndTypes'
  BY <1>1, <1>2, <1>7, <1>13 DEF CndTypes
<1>. QED
  BY <1>9, <1>11, <1>12, <1>14 DEF CndInv

(* A waiter leaves the count.  The last one of a broadcast finds that      *)
(* nobody is blocked, so nobody is owed a wake-up.                         *)
LEMMA LeaveKeepsCnd ==
  ASSUME CndInv, CndTypes, NEW t \in Threads, Leave(t)
  PROVE  CndInv' /\ CndTypes'
<1>1. PICK label \in {"reset", "relock"} :
        /\ pc[t] \in {"woken_one", "woken_all"}
        /\ pc' = [pc EXCEPT ![t] = label]
        /\ waitersCount' = waitersCount - 1
        /\ label = "reset" => waitersCount' = 0
        /\ UNCHANGED <<one, all, found, owed, disturbed>>
  BY DEF Leave, Goto, history
<1>2. DOMAIN pc = Threads
  BY DEF CndTypes
<1>3. pc'[t] = label /\ \A q \in Threads : q # t => pc'[q] = pc[q]
  BY <1>1, <1>2
<1>4. /\ waitersCount \in Nat /\ owed \in Nat
      /\ found \in SUBSET Threads /\ found \subseteq Blocked
      /\ Cardinality(found) \in Nat
      /\ owed <= Cardinality(found)
      /\ Cardinality(found) <= Cardinality(Blocked)
      /\ waitersCount >= Cardinality(AtEvents)
  BY NumberTypes DEF CndInv
<1>5. Blocked' = Blocked /\ t \in AtEvents /\ AtEvents' = AtEvents \ {t}
  BY <1>1, <1>2, <1>3, SetsMove DEF Blocked, AtEvents, Counted
<1>6. /\ Cardinality(AtEvents') = Cardinality(AtEvents) - 1
      /\ Cardinality(AtEvents') \in Nat
  BY <1>5, CountedSets, CountMoves
<1>7. waitersCount' \in Nat /\ waitersCount' >= Cardinality(AtEvents')
  BY <1>1, <1>4, <1>6, CountedSets
<1>8. waitersCount' = 0 => owed = 0
  <2>1. t \notin Blocked
    BY <1>1 DEF Blocked
  <2>2. IsFiniteSet(AtEvents') /\ Blocked \subseteq AtEvents'
    BY <2>1, <1>5, CountedSets, FS_RemoveElement
  <2>3. Cardinality(Blocked) <= Cardinality(AtEvents')
    BY <2>2, FS_Subset
  <2>. QED
    BY <2>3, <1>4, <1>6, <1>7, CountedSets
<1>9. WaitInv'
  BY <1>1, <1>3, <1>5 DEF CndInv, WaitInv, Counted
<1>10. NoUndercount'
  BY <1>7 DEF NoUndercount, AtEvents
<1>11. /\ OneComing' <=> OneComing
       /\ AllComing' <=> AllComing
       /\ label = "relock" => (Resetting' <=> Resetting)
  BY <1>1, <1>3 DEF OneComing, AllComing, Resetting
<1>12. CallsInv'
  BY <1>1, <1>4, <1>5, <1>8, <1>11 DEF CndInv, CallsInv
<1>13. CndTypes'
  BY <1>1, <1>2, <1>7 DEF CndTypes
<1>. QED
  BY <1>9, <1>10, <1>12, <1>13 DEF CndInv

(* ALL is reset: whatever is owed is to come from ONE.                     *)
LEMMA ResetKeepsCnd ==
  ASSUME CndInv, CndTypes, NEW t \in Threads, Reset(t)
  PROVE  CndInv' /\ CndTypes'
<1>1. /\ pc[t] = "reset" /\ pc' = [pc EXCEPT ![t] = "relock"]
      /\ all' = FALSE
      /\ UNCHANGED <<one, waitersCount, found, owed, disturbed>>
  BY DEF Reset, Goto, history
<1>2. DOMAIN pc = Threads
  BY DEF CndTypes
<1>3. pc'[t] = "relock" /\ \A q \in Threads : q # t => pc'[q] = pc[q]
  BY <1>1, <1>2
<1>4. Blocked' = Blocked /\ AtEvents' = AtEvents
  BY <1>1, <1>3 DEF Blocked, AtEvents, Counted
<1>5. WaitInv'
  BY <1>1, <1>3, <1>4 DEF CndInv, WaitInv, Counted
<1>6. NoUndercount'
  BY <1>1, <1>4 DEF CndInv, NoUndercount, AtEvents
<1>7. Resetting /\ (OneComing' <=> OneComing)
  BY <1>1, <1>3 DEF Resetting, OneComing
<1>8. CallsInv'
  BY <1>1, <1>4, <1>7 DEF CndInv, CallsInv
<1>9. all' \in BOOLEAN
  BY <1>1, Zenon
<1>10. CndTypes'
  BY <1>1, <1>2, <1>9 DEF CndTypes
<1>. QED
  BY <1>5, <1>6, <1>8, <1>10 DEF CndInv

-------------------------------------------------------------------------------
(* All of it                                                               *)

CndLabels == Counted \union {"reset", "relock", "set_one", "set_all"}
Labels    == {"user", "lock", "timedlock", "stuck", "dead"} \union CndLabels

LabelType == pc \in [Threads -> Labels]

(* The parts of TypeOK.                                                    *)
LEMMA TypesFromTypeOK ==
  ASSUME TypeOK
  PROVE  MutexTypes /\ CndTypes /\ LabelType /\ None \notin Threads
<1>1. LabelType /\ DOMAIN pc = Threads
  BY DEF TypeOK, MtxTypeOK, LabelType, Labels, CndLabels
<1>2. MutexTypes
  BY <1>1, Zenon DEF TypeOK, MtxTypeOK, MutexTypes
<1>3. owed \in Nat
  <2>1. found \in SUBSET Threads
    BY CndAssumption DEF TypeOK
  <2>2. Cardinality(found) \in Nat
    BY <2>1, PartFinite
  <2>. QED
    BY <2>2 DEF TypeOK
<1>4. CndTypes
  BY <1>1, <1>3, Zenon DEF TypeOK, CndTypes
<1>. QED
  BY <1>1, <1>2, <1>4, MtxAssumption

(* And back: those that were found blocked are waiters.                    *)
LEMMA TypeOKFromTypes ==
  ASSUME MutexTypes, CndTypes, LabelType, WaitInv
  PROVE  TypeOK
<1>1. found \subseteq Waiters /\ owed \in 0..Cardinality(found)
  <2>1. Blocked \subseteq Waiters
    BY DEF WaitInv, Blocked, Counted
  <2>2. found \in SUBSET Threads
    BY <2>1, CndAssumption DEF WaitInv
  <2>3. Cardinality(found) \in Nat
    BY <2>2, PartFinite
  <2>. QED
    BY <2>1, <2>3 DEF WaitInv, CndTypes
<1>2. MtxTypeOK(CndLabels)
  BY Zenon DEF MtxTypeOK, MutexTypes, LabelType, Labels
<1>. QED
  BY <1>1, <1>2, Zenon DEF TypeOK, CndTypes, CndLabels

(* The parts that the proof of a step is about make up the invariant.      *)
LEMMA InvFromParts ==
  MutexInv /\ CndInv /\ MutexTypes /\ CndTypes /\ LabelType => IInv
BY TypeOKFromTypes DEF IInv, CndInv

(* What the steps of a wait and of a signal do to the mutex: nothing.      *)
CndMove(t) ==
  /\ pc[t] \in CndLabels \union {"user"}
  /\ \E label \in CndLabels \union {"user"} :
       /\ pc' = [pc EXCEPT ![t] = label]
       /\ label = "counted" => held[t] > 0
  /\ UNCHANGED mtxVars

(* The mutex does not notice such a step.                                  *)
LEMMA CndMoveKeepsMutex ==
  ASSUME MutexInv, MutexTypes, NEW t \in Threads, CndMove(t)
  PROVE  MutexInv' /\ MutexTypes'
<1>1. PICK label \in CndLabels \union {"user"} :
        /\ pc' = [pc EXCEPT ![t] = label]
        /\ label = "counted" => held[t] > 0
  BY DEF CndMove
<1>2. /\ label \notin {"dead", "stuck"} /\ pc[t] \notin {"dead", "stuck"}
      /\ UNCHANGED mtxVars
  BY DEF CndMove, CndLabels, Counted
<1>3. MutexInv'
  BY <1>1, <1>2, OtherStepKeepsMutex DEF MutexTypes
<1>4. MutexTypes'
  BY <1>1, <1>2 DEF MutexTypes, mtxVars, objectVars
<1>. QED
  BY <1>3, <1>4

(* A thread goes to a place of the program.                                *)
LEMMA MoveKeepsLabels ==
  ASSUME LabelType, NEW t \in Threads, MutexMove(t) \/ CndMove(t)
  PROVE  LabelType'
<1>1. PICK label \in Labels : pc' = [pc EXCEPT ![t] = label]
  BY DEF MutexMove, CndMove, Labels, CndLabels
<1>. QED
  BY <1>1 DEF LabelType

(* The actions of TinyCnd that leave the mutex alone.                      *)
LEMMA CndNextMoves ==
  ASSUME NEW t \in Threads, pc[t] \in Labels,
         \/ SignalCall(t) \/ SetOne(t) \/ BroadcastCall(t) \/ SetAll(t)
         \/ WaitCall(t) \/ Wake(t) \/ WaitTimeOut(t) \/ Leave(t) \/ Reset(t)
  PROVE  CndMove(t)
<1>. USE DEF Goto, CndMove, CndLabels, Counted
<1>1. CASE SignalCall(t) \/ BroadcastCall(t)
  BY <1>1 DEF SignalCall, BroadcastCall, Notify
<1>2. CASE SetOne(t) \/ SetAll(t)
  BY <1>2 DEF SetOne, SetAll
<1>3. CASE WaitCall(t)
  BY <1>3 DEF WaitCall
<1>4. CASE Wake(t) \/ WaitTimeOut(t)
  BY <1>4 DEF Wake, WaitTimeOut
<1>5. CASE Leave(t) \/ Reset(t)
  BY <1>5 DEF Leave, Reset
<1>. QED
  BY <1>1, <1>2, <1>3, <1>4, <1>5

(* The invariant holds at the beginning,                                   *)
LEMMA InitInv ==
  ASSUME Init
  PROVE  IInv
<1>. USE DEF Init, MtxInit
<1>1. \A t \in Threads : pc[t] = "user" /\ held[t] = 0
  OBVIOUS
<1>2. Blocked = {} /\ AtEvents = {} /\ found = {}
  BY <1>1 DEF Blocked, AtEvents, Counted
<1>3. Cardinality({}) = 0
  BY FS_EmptySet
<1>4. WaitInv
  BY <1>1, <1>2, <1>3 DEF WaitInv, Counted
<1>5. NoUndercount
  <2>1. waitersCount >= Cardinality(AtEvents)
    BY <1>2, <1>3
  <2>. QED
    BY <2>1 DEF NoUndercount, AtEvents
<1>6. CallsInv
  BY DEF CallsInv
<1>7. MutexInv
  BY <1>1, MtxAssumption DEF MutexInv, HolderInv, DepthInv, HeldInv
<1>8. LabelType /\ DOMAIN pc = Threads
  BY DEF LabelType, Labels
<1>9. depth \in Nat /\ held \in [Threads -> Nat] /\ waitersCount \in Nat
      /\ owed \in Nat
  OBVIOUS
<1>10. MutexTypes
  BY <1>8, <1>9, Zenon DEF MutexTypes
<1>11. CndTypes
  BY <1>8, <1>9, Zenon DEF CndTypes
<1>12. TypeOK
  BY <1>4, <1>8, <1>10, <1>11, TypeOKFromTypes
<1>. QED
  BY <1>4, <1>5, <1>6, <1>7, <1>12 DEF IInv

(* and every step keeps it.                                                *)
LEMMA NextInv ==
  ASSUME IInv, [Next]_vars
  PROVE  IInv'
<1>1. MutexInv /\ CndInv /\ MutexTypes /\ CndTypes /\ LabelType
      /\ None \notin Threads
  BY TypesFromTypeOK DEF IInv, CndInv
<1>2. SUFFICES MutexInv' /\ CndInv' /\ MutexTypes' /\ CndTypes' /\ LabelType'
  <2>1. (MutexInv /\ CndInv /\ MutexTypes /\ CndTypes /\ LabelType => IInv)'
    BY InvFromParts, PTL
  <2>. QED
    BY <2>1
<1>3. CASE UNCHANGED vars
  <2>1. /\ UNCHANGED <<type, alreadyLocked, owner, depth, abandoned, pc, held>>
        /\ UNCHANGED <<one, all, waitersCount, found, owed, disturbed>>
    BY <1>3 DEF vars, mtxVars, objectVars, history
  <2>2. MutexTypes' /\ CndTypes' /\ LabelType'
    BY <1>1, <2>1 DEF MutexTypes, CndTypes, LabelType
  <2>3. MutexInv'
    BY <1>1, <2>1
    DEF MutexInv, HolderInv, DepthInv, HeldInv, SomebodyDied, SomebodyHolds,
        Recursive
  <2>4. CndInv'
    BY <1>1, <2>1
    DEF CndInv, WaitInv, NoUndercount, CallsInv, OneComing, AllComing,
        Resetting, Blocked
  <2>. QED
    BY <2>2, <2>3, <2>4
<1>4. CASE Next
  <2>1. PICK t \in Threads :
          \/ MtxNext(t) /\ UNCHANGED cndVars
          \/ SignalCall(t) \/ SetOne(t) \/ BroadcastCall(t) \/ SetAll(t)
          \/ WaitCall(t) \/ WaitUnlock(t) \/ Wake(t) \/ WaitTimeOut(t)
          \/ Leave(t) \/ Reset(t) \/ Relock(t)
    BY <1>4, Zenon DEF Next, cndVars
  <2>2. pc[t] \in Labels
    BY <1>1 DEF LabelType
  <2>3. ASSUME CndMove(t) PROVE MutexInv' /\ MutexTypes' /\ LabelType'
    BY <1>1, <2>3, CndMoveKeepsMutex, MoveKeepsLabels
  <2>4. CASE MtxNext(t) /\ UNCHANGED cndVars
    <3>1. MutexInv' /\ MutexTypes' /\ MutexMove(t)
      BY <1>1, <2>4, MtxNextKeepsMutex
    <3>. QED
      BY <1>1, <2>4, <3>1, QuietKeepsCnd, MoveKeepsLabels
  <2>5. CASE SignalCall(t) \/ BroadcastCall(t)
    BY <1>1, <2>2, <2>3, <2>5, NotifyKeepsCnd, CndNextMoves
  <2>6. CASE SetOne(t) \/ SetAll(t)
    BY <1>1, <2>2, <2>3, <2>6, SetKeepsCnd, CndNextMoves
  <2>7. CASE WaitCall(t)
    BY <1>1, <2>2, <2>3, <2>7, BeginKeepsCnd, CndNextMoves
  <2>8. CASE WaitUnlock(t)
    <3>1. pc[t] = "counted" /\ Unlock(t, "wait")
      BY <2>8 DEF WaitUnlock
    <3>2. held[t] > 0
      BY <1>1, <3>1 DEF MutexInv, HolderInv
    <3>3. MutexInv' /\ MutexTypes'
      BY <1>1, <3>1, <3>2, UnlockKeepsTypes
    <3>4. CndInv' /\ CndTypes'
      BY <1>1, <2>8, BeginKeepsCnd
    <3>5. LabelType'
      BY <1>1, <3>1 DEF Unlock, Goto, LabelType, Labels, CndLabels, Counted
    <3>. QED
      BY <3>3, <3>4, <3>5
  <2>9. CASE Wake(t) \/ WaitTimeOut(t)
    BY <1>1, <2>2, <2>3, <2>9, EndKeepsCnd, CndNextMoves
  <2>10. CASE Leave(t)
    BY <1>1, <2>2, <2>3, <2>10, LeaveKeepsCnd, CndNextMoves
  <2>11. CASE Reset(t)
    BY <1>1, <2>2, <2>3, <2>11, ResetKeepsCnd, CndNextMoves
  <2>12. CASE Relock(t)
    <3>1. /\ pc[t] = "relock" /\ Acquire(t) /\ type' = type
          /\ \/ /\ abandoned /\ Goto(t, "user") /\ UNCHANGED alreadyLocked
                /\ held' = [held EXCEPT ![t] = @ + 1]
             \/ /\ ~abandoned /\ alreadyLocked /\ Goto(t, "stuck")
                /\ UNCHANGED <<alreadyLocked, held>>
             \/ ~abandoned /\ ~alreadyLocked /\ Grant(t, "user")
          /\ UNCHANGED cndVars
      BY <2>12 DEF Relock, Lock, cndVars
    <3>2. MutexInv' /\ MutexTypes' /\ MutexMove(t)
      BY <1>1, <3>1, AcquireKeepsMutex
    <3>. QED
      BY <1>1, <3>1, <3>2, QuietKeepsCnd, MoveKeepsLabels
  <2>. QED
    BY <2>1, <2>4, <2>5, <2>6, <2>7, <2>8, <2>9, <2>10, <2>11, <2>12
<1>. QED
  BY <1>3, <1>4

(* What the mutex promises: HolderInv says it, but for the threads that    *)
(* have ended.                                                             *)
LEMMA ExclusiveByInv ==
  ASSUME IInv
  PROVE  MutualExclusion /\ FreeWhenUnlocked
<1>1. MutexInv /\ MutexTypes /\ None \notin Threads
  BY TypesFromTypeOK DEF IInv
<1>2. \A t \in Threads : held[t] \in Nat
  BY <1>1 DEF MutexTypes
<1>3. MutualExclusion
  BY <1>1, <1>2 DEF MutexInv, HolderInv, MutualExclusion
<1>4. FreeWhenUnlocked
  <2>. SUFFICES ASSUME \A t \in Threads : held[t] = 0
                PROVE  owner = None /\ ~alreadyLocked
    BY DEF FreeWhenUnlocked
  <2>1. ~SomebodyHolds
    BY DEF SomebodyHolds
  <2>2. ~alreadyLocked /\ \A t \in Threads : pc[t] # "stuck"
    BY <1>1, <2>1 DEF MutexInv, HeldInv
  <2>3. ~SomebodyDied
    BY <1>1 DEF MutexInv, HolderInv, SomebodyDied
  <2>4. ASSUME NEW t \in Threads, owner = t PROVE FALSE
    BY <1>1, <2>2, <2>3, <2>4 DEF MutexInv, DepthInv
  <2>. QED
    BY <1>1, <2>2, <2>4 DEF MutexTypes
<1>. QED
  BY <1>3, <1>4

-------------------------------------------------------------------------------
(* The theorems                                                            *)

(* The inductive invariant holds in every reachable state of tinycthread's *)
(* mutex and condition variable.                                           *)
THEOREM Invariant == Spec => []IInv
<1>1. Init => IInv
  BY InitInv
<1>2. IInv /\ [Next]_vars => IInv'
  BY NextInv
<1>. QED
  BY <1>1, <1>2, PTL DEF Spec

(* Every variable of TinyMtx and TinyCnd keeps its type: no count and no   *)
(* depth goes below zero.                                                  *)
THEOREM TypeCorrect == Spec => []TypeOK
<1>1. IInv => TypeOK
  BY DEF IInv
<1>. QED
  BY <1>1, Invariant, PTL

(* mtx_lock, mtx_timedlock and mtx_trylock never give the mutex to two     *)
(* threads at a time, nor a non-recursive one to the same thread twice,    *)
(* with condition variables, time-outs and WAIT_ABANDONED in between.      *)
THEOREM OneHolder == Spec => []MutualExclusion
<1>1. IInv => MutualExclusion
  BY ExclusiveByInv
<1>. QED
  BY <1>1, Invariant, PTL

(* A mutex that everybody has unlocked is free.                            *)
THEOREM NothingLeftLocked == Spec => []FreeWhenUnlocked
<1>1. IInv => FreeWhenUnlocked
  BY ExclusiveByInv
<1>. QED
  BY <1>1, Invariant, PTL

(* mWaitersCount is never below the number of threads that are in a wait   *)
(* or on their way into it, so no signal takes a waiter for nobody.        *)
THEOREM CountCoversWaiters == Spec => []NoUndercount
<1>1. IInv => NoUndercount
  BY DEF IInv
<1>. QED
  BY <1>1, Invariant, PTL

(* On Windows a thread that cnd_signal or cnd_broadcast found blocked is   *)
(* left without an event only after another cnd_signal or another wait has *)
(* begun while it depended on ONE, or a cnd_broadcast while ALL was to be  *)
(* reset.                                                                  *)
THEOREM UndisturbedCallsWake == Spec => []UndisturbedWakeups
<1>1. IInv => UndisturbedWakeups
  BY DEF IInv, CallsInv, UndisturbedWakeups, NoLostWakeup, Notifying
<1>. QED
  BY <1>1, Invariant, PTL

===============================================================================
