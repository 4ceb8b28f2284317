------------------------------ MODULE Coroutines ------------------------------
(***************************************************************************)
(* What libkorutin promises, whichever backend is compiled in.             *)
(*                                                                         *)
(* A coroutine is a function body cut into segments by its calls of        *)
(* koro_yield.  koro_run executes exactly one segment: from where the body *)
(* left off up to its next yield or its return.  An operating system       *)
(* thread has at most one coroutine under way, and koro_run called while   *)
(* one is under way does nothing, as does koro_yield outside a coroutine   *)
(* and koro_run of a finished coroutine: those calls are stuttering steps. *)
(***************************************************************************)
EXTENDS Naturals

CONSTANTS
  Koros,    \* the koro_t handles
  Runners,  \* the application's threads, which call koro_run
  None      \* no coroutine: the NULL of scheduling.c

VARIABLES
  status,   \* where each coroutine is in its life
  seg,      \* the number of segments its body has begun since koro_init
  active    \* the coroutine each application thread is inside of, or None

vars == <<status, seg, active>>

Status == {"none", "suspended", "running", "finished"}

TypeOK ==
  /\ status \in [Koros -> Status]
  /\ seg \in [Koros -> Nat]
  /\ active \in [Runners -> Koros \union {None}]

Init ==
  /\ status = [k \in Koros |-> "none"]
  /\ seg = [k \in Koros |-> 0]
  /\ active = [r \in Runners |-> None]

(* koro_init on a handle whose coroutine is not under way.  It may be      *)
(* called by the application or by the body of another coroutine.          *)
Create(k) ==
  /\ status[k] # "running"
  /\ status' = [status EXCEPT ![k] = "suspended"]
  /\ seg' = [seg EXCEPT ![k] = 0]
  /\ UNCHANGED active

(* koro_run switches to the coroutine, which begins its next segment.      *)
Resume(r, k) ==
  /\ active[r] = None
  /\ status[k] = "suspended"
  /\ active' = [active EXCEPT ![r] = k]
  /\ status' = [status EXCEPT ![k] = "running"]
  /\ seg' = [seg EXCEPT ![k] = @ + 1]

(* The segment ends, in koro_yield or by the return of the body, and       *)
(* control is back in the koro_run that began it.                          *)
EndSegment(r, outcome) ==
  /\ active[r] # None
  /\ status' = [status EXCEPT ![active[r]] = outcome]
  /\ active' = [active EXCEPT ![r] = None]
  /\ UNCHANGED seg

Suspend(r) == EndSegment(r, "suspended")

Finish(r) == EndSegment(r, "finished")

Next ==
  \/ \E k \in Koros : Create(k)
  \/ \E r \in Runners, k \in Koros : Resume(r, k)
  \/ \E r \in Runners : Suspend(r) \/ Finish(r)

Spec == Init /\ [][Next]_vars

(* A body that is run always reaches its next yield or its end.            *)
Fairness == \A r \in Runners : WF_vars(Suspend(r) \/ Finish(r))

FairSpec == Spec /\ Fairness

-------------------------------------------------------------------------------
(* A coroutine is under way in exactly one thread, or in none: two threads *)
(* never execute the same body, nor does a body run that no koro_run is    *)
(* waiting for (what koro_run and koro_yield of libkorutin.c arrange with  *)
(* _koro_set_current).                                                     *)
OneRunner ==
  \A k \in Koros :
    /\ status[k] = "running" => \E r \in Runners : active[r] = k
    /\ \A r \in Runners : active[r] = k => status[k] = "running"
    /\ \A r, q \in Runners : active[r] = k /\ active[q] = k => r = q

===============================================================================
