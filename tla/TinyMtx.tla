-------------------------------- MODULE TinyMtx --------------------------------
(***************************************************************************)
(* tinycthread.c on Windows: mtx_t.                                        *)
(*                                                                         *)
(* A mutex is a critical section or, when it is timed, a mutex handle.     *)
(* Both let the thread that owns them in again: mAlreadyLocked is there to *)
(* make a mutex non-recursive on top of that.  Only the owner of the       *)
(* object touches it, so a call is one step from the moment it has the     *)
(* object.                                                                 *)
(***************************************************************************)
EXTENDS Naturals

CONSTANTS
  Threads,
  None,      \* no thread
  Types,     \* the types given to mtx_init, each a set of flags
  MayDie,    \* may a thread end while it holds the mutex?
  MaxHeld    \* bound: locks that a thread holds at a time

ASSUME MtxAssumption ==
  /\ None \notin Threads
  /\ Types \subseteq SUBSET {"timed", "recursive"}
  /\ MayDie \in BOOLEAN
  /\ MaxHeld \in Nat \ {0}

VARIABLES
  type,           \* mTimed and mRecursive
  alreadyLocked,  \* mAlreadyLocked
  owner, depth,   \* the Windows object: who owns it, how many times
  abandoned,      \* its owner has ended: the next wait is WAIT_ABANDONED
  pc,             \* where each thread is
  held            \* the locks it was told that it has and has not unlocked

objectVars == <<owner, depth, abandoned>>
mtxVars    == <<type, alreadyLocked, objectVars, held>>

MtxTypeOK(pcs) ==
  /\ type \in Types
  /\ alreadyLocked \in BOOLEAN
  /\ owner \in Threads \union {None}
  /\ depth \in Nat
  /\ abandoned \in BOOLEAN
  /\ pc \in [Threads -> {"user", "lock", "timedlock", "stuck", "dead"}
                          \union pcs]
  /\ held \in [Threads -> Nat]

(* mtx_init, before the threads run.                                       *)
MtxInit ==
  /\ type \in Types
  /\ alreadyLocked = FALSE
  /\ owner = None /\ depth = 0 /\ abandoned = FALSE
  /\ pc = [t \in Threads |-> "user"]
  /\ held = [t \in Threads |-> 0]

Goto(t, label) == pc' = [pc EXCEPT ![t] = label]

Timed     == "timed" \in type
Recursive == "recursive" \in type

-------------------------------------------------------------------------------
(* The Windows objects                                                     *)

Available(t) == owner \in {None, t}

(* EnterCriticalSection, WaitForSingleObject.                              *)
Acquire(t) ==
  /\ Available(t)
  /\ owner' = t
  /\ depth' = depth + 1
  /\ abandoned' = FALSE

(* LeaveCriticalSection, ReleaseMutex.                                     *)
Release ==
  /\ depth' = depth - 1
  /\ owner' = IF depth = 1 THEN None ELSE owner
  /\ UNCHANGED abandoned

-------------------------------------------------------------------------------
(* mtx_lock and mtx_timedlock                                              *)

(* The thread has the object and is told so; a non-recursive mutex notes   *)
(* it.                                                                     *)
Grant(t, next) ==
  /\ alreadyLocked' = ~Recursive
  /\ held' = [held EXCEPT ![t] = @ + 1]
  /\ Goto(t, next)

(* Variant: mAlreadyLocked is set, but not tested first.                   *)
Lock_Unchecked(t, next, failed) ==
  /\ Acquire(t)
  /\ \/ abandoned /\ failed /\ UNCHANGED alreadyLocked
     \/ ~abandoned /\ Grant(t, next)
  /\ UNCHANGED type

(* After WAIT_ABANDONED the thread has the object and is told that it has  *)
(* not.  A thread that has locked a non-recursive mutex already sleeps in  *)
(* the loop that simulates a deadlock: only it could end it.               *)
Lock(t, next, failed) ==
  /\ Acquire(t)
  /\ \/ abandoned /\ failed /\ UNCHANGED alreadyLocked
     \/ /\ ~abandoned /\ alreadyLocked
        /\ Goto(t, "stuck")
        /\ UNCHANGED <<alreadyLocked, held>>
     \/ ~abandoned /\ ~alreadyLocked /\ Grant(t, next)
  /\ UNCHANGED type

(* The user is told thrd_error, thrd_busy or thrd_timedout.                *)
Refused(t) == Goto(t, "user") /\ UNCHANGED held

LockCall(t) ==
  /\ pc[t] = "user"
  /\ held[t] < MaxHeld
  /\ Goto(t, "lock")
  /\ UNCHANGED mtxVars

(* mtx_timedlock of a mutex that is not timed is an error.                 *)
TimedLockCall(t) ==
  /\ pc[t] = "user"
  /\ held[t] < MaxHeld
  /\ Timed
  /\ Goto(t, "timedlock")
  /\ UNCHANGED mtxVars

LockStep(t) ==
  /\ pc[t] \in {"lock", "timedlock"}
  /\ Lock(t, "user", Refused(t))

(* WAIT_TIMEOUT.                                                           *)
LockTimeOut(t) ==
  /\ pc[t] = "timedlock"
  /\ ~Available(t)
  /\ Refused(t)
  /\ UNCHANGED <<type, alreadyLocked, objectVars>>

-------------------------------------------------------------------------------
(* mtx_trylock and mtx_unlock                                              *)

(* Variant: mtx_trylock does not give the object back.                     *)
TryLock_Keeps(t) ==
  /\ pc[t] = "user"
  /\ held[t] < MaxHeld
  /\ Acquire(t)
  /\ IF abandoned \/ alreadyLocked
     THEN Refused(t) /\ UNCHANGED alreadyLocked
     ELSE Grant(t, "user")
  /\ UNCHANGED type

(* When another thread owns the object mtx_trylock does nothing.  A thread *)
(* that has locked a non-recursive mutex already gives the object back     *)
(* once.  It never tries so with a timed mutex, for which                  *)
(* LeaveCriticalSection is called of what is no critical section.          *)
TryLock(t) ==
  /\ pc[t] = "user"
  /\ held[t] < MaxHeld
  /\ \/ /\ alreadyLocked /\ owner = t /\ ~Timed
        /\ Refused(t)
        /\ UNCHANGED <<alreadyLocked, objectVars>>
     \/ /\ Acquire(t)
        /\ \/ abandoned /\ Refused(t) /\ UNCHANGED alreadyLocked
           \/ ~abandoned /\ ~alreadyLocked /\ Grant(t, "user")
  /\ UNCHANGED type

Unlock(t, next) ==
  /\ alreadyLocked' = FALSE
  /\ Release
  /\ held' = [held EXCEPT ![t] = @ - 1]
  /\ Goto(t, next)
  /\ UNCHANGED type

(* Variant: whoever calls it.                                              *)
UnlockCall_Unowned(t) ==
  /\ pc[t] = "user"
  /\ Unlock(t, "user")

(* A thread unlocks what it has locked.                                    *)
UnlockCall(t) ==
  /\ pc[t] = "user"
  /\ held[t] > 0
  /\ Unlock(t, "user")

(* The thread ends while it holds the mutex: Windows takes a mutex handle  *)
(* away from it, a critical section stays entered for ever.                *)
Die(t) ==
  /\ MayDie
  /\ pc[t] = "user"
  /\ held[t] > 0
  /\ Goto(t, "dead")
  /\ IF Timed
     THEN owner' = None /\ depth' = 0 /\ abandoned' = TRUE
     ELSE UNCHANGED objectVars
  /\ UNCHANGED <<type, alreadyLocked, held>>

MtxNext(t) ==
  \/ LockCall(t) \/ TimedLockCall(t) \/ LockStep(t) \/ LockTimeOut(t)
  \/ TryLock(t) \/ UnlockCall(t) \/ Die(t)

-------------------------------------------------------------------------------
(* Two threads never have the mutex at a time, and one has a non-recursive *)
(* mutex at most once (mtx_lock, mtx_trylock and mtx_timedlock of          *)
(* tinycthread.c; a thread that has ended does not count).                 *)
MutualExclusion ==
  \A t, q \in Threads :
    /\ held[t] > 0 /\ held[q] > 0 => t = q \/ "dead" \in {pc[t], pc[q]}
    /\ held[t] > 1 => Recursive

(* A mutex that everybody has unlocked is free for everybody: no refusal,  *)
(* time-out or wait has left the object owned.                             *)
FreeWhenUnlocked ==
  (\A t \in Threads : held[t] = 0) => owner = None /\ ~alreadyLocked

===============================================================================
