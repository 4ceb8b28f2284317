-------------------------------- MODULE TinyCnd --------------------------------
(***************************************************************************)
(* tinycthread.c on Windows: cnd_t, used with a mutex of TinyMtx.          *)
(*                                                                         *)
(* A condition variable is a count of the threads that wait and two        *)
(* events: ONE, which a single waiter consumes, for cnd_signal, and ALL,   *)
(* which stays set until the last waiter resets it, for cnd_broadcast.     *)
(* The count is read and written under mWaitersCountLock, in one step; the *)
(* events are set and reset after that lock has been left, and a waiter is *)
(* counted before it gives up the mutex: these are steps of their own.     *)
(* Any wait may be one with a time limit.                                  *)
(***************************************************************************)
EXTENDS TinyMtx, FiniteSets

CONSTANTS
  Waiters,  \* the threads that wait on the condition variable
  MaxCount  \* bound: the count of waiters, which time-outs never take down

ASSUME CndAssumption ==
  /\ IsFiniteSet(Threads)
  /\ Waiters \subseteq Threads
  /\ MaxCount \in Nat

VARIABLES
  one, all,      \* mEvents: _CONDITION_EVENT_ONE and _CONDITION_EVENT_ALL
  waitersCount,  \* mWaitersCount
  \* history, for the properties
  found,         \* the threads that the last cnd_signal or cnd_broadcast found
                 \* blocked, those of them that still are
  owed,          \* how many of these its callers are still to see unblocked
  disturbed      \* has one of the things happened that can lose a wake-up?

history == <<found, owed, disturbed>>
vars    == <<mtxVars, pc, one, all, waitersCount, history>>

(* Inside _cnd_timedwait_win32 until it has been taken off the count.      *)
Counted == {"counted", "wait", "woken_one", "woken_all"}

TypeOK ==
  /\ MtxTypeOK(Counted \union {"reset", "relock", "set_one", "set_all"})
  /\ one \in BOOLEAN /\ all \in BOOLEAN
  /\ waitersCount \in Nat
  /\ found \subseteq Waiters
  /\ owed \in 0..Cardinality(found)
  /\ disturbed \in BOOLEAN

(* cnd_init.                                                               *)
Init ==
  /\ MtxInit
  /\ one = FALSE /\ all = FALSE
  /\ waitersCount = 0
  /\ found = {} /\ owed = 0
  /\ disturbed = FALSE

Blocked == {t \in Threads : pc[t] = "wait"}

(* An event is set or about to be set.                                     *)
OneComing == one \/ \E t \in Threads : pc[t] = "set_one"
AllComing == all \/ \E t \in Threads : pc[t] = "set_all"
Notifying == OneComing \/ AllComing

(* A thread is about to reset ALL.                                         *)
Resetting == \E t \in Threads : pc[t] = "reset"

(* A thread that a call found blocked depends on ONE: there is no ALL that *)
(* stays until it has been let go.                                         *)
OneAwaited == owed > 0 /\ (AllComing => Resetting)

AtMost(n, m) == IF n < m THEN n ELSE m

-------------------------------------------------------------------------------
(* cnd_signal and cnd_broadcast, called with or without the mutex          *)

(* The call reads the count, and returns if nobody waits.                  *)
Notify(t, count, label) ==
  /\ pc[t] = "user"
  /\ waitersCount > 0
  /\ Goto(t, label)
  /\ found' = Blocked
  /\ owed' = AtMost(count, Cardinality(Blocked))
  /\ UNCHANGED <<mtxVars, one, all, waitersCount>>

(* The event of an earlier call may have to do for this one too.           *)
SignalCall(t) ==
  /\ Notify(t, owed + 1, "set_one")
  /\ disturbed' = (disturbed \/ OneAwaited)

(* What the call is about to set may be reset.                             *)
BroadcastCall(t) ==
  /\ Notify(t, Cardinality(Threads), "set_all")
  /\ disturbed' = (disturbed \/ Resetting)

(* Variant: PulseEvent, which leaves nothing for a thread that has given   *)
(* up the mutex and is not in WaitForMultipleObjects yet.                  *)
SetOne_Pulse(t) ==
  /\ pc[t] = "set_one"
  /\ Goto(t, "user")
  /\ UNCHANGED <<mtxVars, one, all, waitersCount, history>>

SetOne(t) ==
  /\ pc[t] = "set_one"
  /\ one' = TRUE
  /\ Goto(t, "user")
  /\ UNCHANGED <<mtxVars, all, waitersCount, history>>

SetAll(t) ==
  /\ pc[t] = "set_all"
  /\ all' = TRUE
  /\ Goto(t, "user")
  /\ UNCHANGED <<mtxVars, one, waitersCount, history>>

-------------------------------------------------------------------------------
(* _cnd_timedwait_win32                                                    *)

WaitCall(t) ==
  /\ t \in Waiters
  /\ pc[t] = "user"
  /\ held[t] > 0
  /\ waitersCount < MaxCount
  /\ waitersCount' = waitersCount + 1
  /\ Goto(t, "counted")
  /\ UNCHANGED <<mtxVars, one, all, history>>

WaitUnlock(t) ==
  /\ pc[t] = "counted"
  /\ Unlock(t, "wait")
  /\ disturbed' = (disturbed \/ OneAwaited)
  /\ UNCHANGED <<one, all, waitersCount, found, owed>>

(* The thread is not blocked any more.  What is owed to those that a call  *)
(* has found blocked is paid by one of them.                               *)
Unblocked(t) ==
  /\ found' = found \ {t}
  /\ UNCHANGED disturbed

(* WaitForMultipleObjects looks at the events in their order.              *)
Wake(t) ==
  /\ pc[t] = "wait"
  /\ one \/ all
  /\ one' = FALSE
  /\ Goto(t, IF one THEN "woken_one" ELSE "woken_all")
  /\ Unblocked(t)
  /\ owed' = IF t \in found /\ owed > 0 THEN owed - 1 ELSE owed
  /\ UNCHANGED <<mtxVars, all, waitersCount>>

(* Variant: takes the thread off the count, and leaves it to the common    *)
(* end of the function to do it again.                                     *)
WaitTimeOut_CountsTwice(t) ==
  /\ pc[t] = "wait"
  /\ ~one /\ ~all
  /\ Goto(t, "woken_one")
  /\ waitersCount' = waitersCount - 1
  /\ Unblocked(t)
  /\ owed' = AtMost(owed, Cardinality(found'))
  /\ UNCHANGED <<mtxVars, one, all>>

(* WAIT_TIMEOUT, WAIT_FAILED: the thread stays on the count.               *)
WaitTimeOut(t) ==
  /\ pc[t] = "wait"
  /\ ~one /\ ~all
  /\ Goto(t, "relock")
  /\ Unblocked(t)
  /\ owed' = AtMost(owed, Cardinality(found'))
  /\ UNCHANGED <<mtxVars, one, all, waitersCount>>

Leave(t) ==
  /\ pc[t] \in {"woken_one", "woken_all"}
  /\ waitersCount' = waitersCount - 1
  /\ Goto(t, IF pc[t] = "woken_all" /\ waitersCount' = 0
             THEN "reset" ELSE "relock")
  /\ UNCHANGED <<mtxVars, one, all, history>>

(* The last waiter ends the broadcast.                                     *)
Reset(t) ==
  /\ pc[t] = "reset"
  /\ all' = FALSE
  /\ Goto(t, "relock")
  /\ UNCHANGED <<mtxVars, one, waitersCount, history>>

(* Back to the user, who has the mutex again.  What mtx_lock answers is    *)
(* not looked at.                                                          *)
Relock(t) ==
  /\ pc[t] = "relock"
  /\ Lock(t, "user", Goto(t, "user") /\ held' = [held EXCEPT ![t] = @ + 1])
  /\ UNCHANGED <<one, all, waitersCount, history>>

-------------------------------------------------------------------------------
Next ==
  \E t \in Threads :
    \/ MtxNext(t) /\ UNCHANGED <<one, all, waitersCount, history>>
    \/ SignalCall(t) \/ SetOne(t) \/ BroadcastCall(t) \/ SetAll(t)
    \/ WaitCall(t) \/ WaitUnlock(t) \/ Wake(t) \/ WaitTimeOut(t)
    \/ Leave(t) \/ Reset(t) \/ Relock(t)

Spec == Init /\ [][Next]_vars

-------------------------------------------------------------------------------
(* Properties                                                              *)

(* cnd_signal and cnd_broadcast do nothing when the count is zero: it      *)
(* never is while a thread waits or is on its way into the wait, however   *)
(* waits, wake-ups and time-outs overlap.                                  *)
NoUndercount ==
  waitersCount >= Cardinality({t \in Threads : pc[t] \in Counted})

(* tinycthread.h: cnd_signal "unblocks one of the threads that are         *)
(* blocked [...] at the time of the call" and cnd_broadcast all of them.   *)
(* While a thread that the calls so far found blocked, and owe a wake-up,  *)
(* has not been unblocked or timed out, an event is set or about to be set *)
(* that can let it go.  A thread that was not there at the time does not   *)
(* count: what it takes is missing.                                        *)
NoLostWakeup == owed > 0 => Notifying

(* There are three ways to lose a wake-up: while a blocked thread depends  *)
(* on the event ONE another cnd_signal is called, or another thread begins *)
(* to wait (and takes the event), or a cnd_broadcast is called while the   *)
(* last waiter of an earlier one is about to reset ALL.  There is no       *)
(* fourth, however else waits, ends of waits, time-outs, signals and       *)
(* broadcasts overlap.                                                     *)
UndisturbedWakeups == ~disturbed => NoLostWakeup

===============================================================================
