------------------------------- MODULE StackGuard -------------------------------
(***************************************************************************)
(* libkorutin.c over the stack memory, with KORO_WATERMARKING and with the *)
(* hardware breakpoints of debug.c (KORO_SET_HARDWARE_BREAKPOINTS, Windows *)
(* only): how the memory is laid out, and how an overflow is noticed.      *)
(*                                                                         *)
(* One thread runs coroutines on stacks of backends/context, which keeps a *)
(* coroutine's saved registers on its stack and checks nothing.  Their     *)
(* bodies push and pop frames.  A frame need not be written all over: a    *)
(* buffer that is not used leaves what was there.  The debug registers     *)
(* also belong to a debugger, which sets and clears breakpoints of its own *)
(* while the thread is not between the GetThreadContext and the            *)
(* SetThreadContext of debug.c.                                            *)
(***************************************************************************)
EXTENDS Integers, FiniteSets

CONSTANTS
  Koros,
  None,
  Places,     \* stack memory given to koro_init: its address and its size
  Word,       \* sizeof(uint32_t)
  Magic,      \* how far h->magic is below the stack memory
  Alignment,  \* KORO_STACK_ALIGNMENT
  Context,    \* words of registers that jump_fcontext saves: 16
  Made,       \* those that make_fcontext writes, from the top: 1..6, 15, 16
  Entry,      \* words that trampoline and _executor have below the body
  Slots,      \* the debug registers: 0..3
  Watched,    \* what the debugger watches
  MaxFrame,   \* bound: words in a frame
  MaxBelow    \* bound: words that a stack grows below its memory

(* The memory may have any address and size, too small or off the words as *)
(* it may be.                                                              *)
ASSUME GuardAssumption ==
  /\ Word \in Nat \ {0} /\ Magic \in Nat \ {0}
  /\ Alignment \in Nat \ {0} /\ Alignment % Word = 0
  /\ Context \in Nat \ {0} /\ Entry \in Nat \ {0}
  /\ Made \subseteq 1..Context /\ Context \in Made
  /\ Slots \subseteq Nat /\ IsFiniteSet(Slots)
  /\ Places \subseteq [mem : Nat, size : Nat]
  /\ \A p \in Places : p.mem \notin Watched
  /\ None \notin Koros \union Watched \union Places
  /\ MaxFrame \in Nat \ {0} /\ MaxBelow \in Nat

VARIABLES
  \* the koro_t handles
  place,      \* stack_mem and stack_mem_size, or None before koro_init
  magic,      \* is h->magic still what koro_init has written?
  finished,   \* h->finished
  current,
  \* the stacks
  sp,         \* the stack pointer of each coroutine
  written,    \* the words of it that are written
  lowest,     \* the lowest stack pointer since koro_init
  sparse,     \* may the end be spared, by a hole in what is written?
  stopped,    \* an assert or a breakpoint has stopped the program
  \* the debug registers of the thread
  dr, on,     \* Dr0 to Dr3, and their L bits of Dr7
  debugger    \* the registers that the debugger uses, and what for

koroVars  == <<place, magic, finished>>
stackVars == <<sp, written, lowest, sparse>>
drVars    == <<dr, on, debugger>>
vars      == <<koroVars, current, stackVars, stopped, drVars>>

-------------------------------------------------------------------------------
(* The layout of the memory                                                *)

(* Variant: aligns upwards.                                                *)
AlignLow_Up(n) == n + ((-n) % Alignment)

(* align_ptr_low.                                                          *)
AlignLow(n) == n - (n % Alignment)

StackEnd(p)   == p.mem
StackStart(p) == AlignLow(p.mem + p.size - 1)

(* _executor calls the body from here; a body has yet to start as long as  *)
(* the stack pointer is at the start of the stack.                         *)
Base(p) == StackStart(p) - Entry * Word

(* The words of the loops of koro_init and koro_calculate_stack_watermark. *)
Words(p) ==
  {n \in StackEnd(p)..(StackStart(p) - 1) : (n - StackEnd(p)) % Word = 0}

Least(S) == CHOOSE n \in S : \A m \in S : n <= m

(* The words of a stack are multiples of Word, those of the loops need not *)
(* be.                                                                     *)
Overlap(w, n) == w < n + Word /\ n < w + Word

(* Is the word not what koro_init's loop has left there?                   *)
Changed(k, n) == \E w \in written[k] : Overlap(w, n)

(* koro_calculate_stack_watermark: from the first word that has changed.   *)
Watermark(k) ==
  LET used == {n \in Words(place[k]) : Changed(k, n)} IN
  IF used = {} THEN 0 ELSE StackStart(place[k]) - Least(used)

-------------------------------------------------------------------------------
(* debug.c                                                                 *)

(* Variant: takes the first register, used or not.                         *)
SetHwBreak_First(address) ==
  LET i == Least(Slots) IN
  /\ dr' = [dr EXCEPT ![i] = address]
  /\ on' = [on EXCEPT ![i] = TRUE]

(* _koro_set_hw_break_at: the first register whose L bit is clear, if any. *)
SetHwBreak(address) ==
  LET free == {i \in Slots : ~on[i]} IN
  IF free = {}
  THEN UNCHANGED <<dr, on>>
  ELSE /\ dr' = [dr EXCEPT ![Least(free)] = address]
       /\ on' = [on EXCEPT ![Least(free)] = TRUE]

(* _koro_clear_hw_break: the first register that holds the address, in use *)
(* or not; the address stays.                                              *)
ClearHwBreak(address) ==
  LET found == {i \in Slots : dr[i] = address} IN
  /\ on' = IF found = {} THEN on ELSE [on EXCEPT ![Least(found)] = FALSE]
  /\ UNCHANGED dr

(* The debugger takes a register that is free, or gives one back.          *)
DebuggerSet(i, address) ==
  /\ ~stopped /\ ~on[i]
  /\ dr' = [dr EXCEPT ![i] = address]
  /\ on' = [on EXCEPT ![i] = TRUE]
  /\ debugger' = [debugger EXCEPT ![i] = address]
  /\ UNCHANGED <<koroVars, current, stackVars, stopped>>

DebuggerClear(i) ==
  /\ ~stopped /\ debugger[i] # None
  /\ on' = [on EXCEPT ![i] = FALSE]
  /\ debugger' = [debugger EXCEPT ![i] = None]
  /\ UNCHANGED <<koroVars, current, stackVars, stopped, dr>>

-------------------------------------------------------------------------------
(* libkorutin.c                                                            *)

Ready == {k \in Koros : place[k] # None}

Init ==
  /\ place = [k \in Koros |-> None]
  /\ magic = [k \in Koros |-> FALSE]
  /\ finished = [k \in Koros |-> FALSE]
  /\ current = None
  /\ sp = [k \in Koros |-> 0] /\ lowest = sp
  /\ written = [k \in Koros |-> {}]
  /\ sparse = [k \in Koros |-> FALSE]
  /\ stopped = FALSE
  /\ dr = [i \in Slots |-> None] /\ debugger = dr
  /\ on = [i \in Slots |-> FALSE]

(* Variant: koro_init does not write the watermark.                        *)
Kept_All(k) == written[k]

(* What koro_init's loop leaves of what was written.                       *)
Kept(k) == {}

(* koro_init, which fills the memory with the watermark.  Then             *)
(* make_fcontext puts a first context at its top, and below the memory     *)
(* when that is too small for it.                                          *)
KoroInit(k, p) ==
  LET saved == StackStart(p) - Context * Word IN
  /\ ~stopped /\ current # k
  /\ p.size >= Word
  /\ \A j \in Ready \ {k} : place[j].mem # p.mem
  /\ place' = [place EXCEPT ![k] = p]
  /\ magic' = [magic EXCEPT ![k] = TRUE]
  /\ finished' = [finished EXCEPT ![k] = FALSE]
  /\ sp' = [sp EXCEPT ![k] = StackStart(p)]
  /\ lowest' = [lowest EXCEPT ![k] = saved]
  /\ written' = [written EXCEPT ![k] =
                   Kept(k) \union {StackStart(p) - i * Word : i \in Made}]
  /\ sparse' = [sparse EXCEPT ![k] = saved < StackEnd(p)]
  /\ UNCHANGED <<current, stopped, drVars>>

(* An assert of koro_run or koro_yield fails.                              *)
Stop == stopped' = TRUE /\ UNCHANGED <<koroVars, current, stackVars, drVars>>

(* Coroutine k pushes n words below top, and writes those of W.            *)
Push(k, top, n, W) ==
  LET low   == top - n * Word
      words == {top - i * Word : i \in W} IN
  /\ lowest' = [lowest EXCEPT ![k] = IF low < @ THEN low ELSE @]
  /\ written' = [written EXCEPT ![k] = @ \union words]
  /\ sparse' = [sparse EXCEPT ![k] = @ \/ W # 1..n]
  /\ magic' = [magic EXCEPT ![k] =
       @ /\ \A w \in words : ~Overlap(w, StackEnd(place[k]) - Magic)]
  /\ UNCHANGED place

Watching(address) == \E i \in Slots : on[i] /\ dr[i] = address

(* What it pushes is at the end of its memory.  The processor does not     *)
(* look at the low bits of the address of a breakpoint.                    *)
AtEnd(k, top, W) ==
  LET end == StackEnd(place[k]) IN
  \E i \in W : top - i * Word <= end /\ end < top - i * Word + Word

(* koro_run; nothing more happens when a coroutine is under way.  A first  *)
(* run calls the body, by way of trampoline and _executor.                 *)
KoroRun(k, W) ==
  /\ ~stopped /\ k \in Ready
  /\ \/ ~magic[k] /\ Stop
     \/ /\ magic[k] /\ current = None
        /\ current' = k
        /\ SetHwBreak(StackEnd(place[k]))
        /\ \/ /\ sp[k] = StackStart(place[k])
              /\ sp' = [sp EXCEPT ![k] = Base(place[k])]
              /\ Push(k, sp[k], Entry, W)
              /\ stopped' =
                   (AtEnd(k, sp[k], W) /\ Watching(StackEnd(place[k]))')
              /\ UNCHANGED finished
           \/ /\ sp[k] # StackStart(place[k])
              /\ UNCHANGED <<koroVars, stackVars, stopped>>
        /\ UNCHANGED debugger

(* _koro_run comes back to koro_run.                                       *)
Back ==
  /\ ClearHwBreak(StackEnd(place[current]))
  /\ current' = None
  /\ UNCHANGED <<stopped, debugger>>

(* It does so at once for a coroutine that is finished.                    *)
BackInRun ==
  /\ ~stopped /\ current # None /\ finished[current]
  /\ Back
  /\ UNCHANGED <<koroVars, stackVars>>

InBody == ~stopped /\ current # None /\ ~finished[current]

(* A breakpoint at the end of the memory stops what is pushed there.       *)
Guarded(k, top, W) == AtEnd(k, top, W) /\ Watching(StackEnd(place[k]))

(* _koro_yield: below a frame of n words jump_fcontext saves the context,  *)
(* and goes on in koro_run.                                                *)
SwitchBack(n, W) ==
  LET k   == current
      all == W \union (n + 1)..(n + Context) IN
  /\ Push(k, sp[k], n + Context, all)
  /\ UNCHANGED <<sp, finished>>
  /\ IF Guarded(k, sp[k], all)
     THEN stopped' = TRUE /\ UNCHANGED <<current, drVars>>
     ELSE Back

(* Variant: the last word is not looked at.                                *)
KoroYield_Unchecked(n, W) ==
  /\ InBody
  /\ IF magic[current] THEN SwitchBack(n, W) ELSE Stop

(* koro_yield, whose own frame is the last that the body has called: looks *)
(* at the last word, and only then pushes more.  There may be anything     *)
(* where koro_init's loop has had no word to fill.                         *)
KoroYield(n, W) ==
  LET p == place[current] IN
  /\ InBody
  /\ \/ /\ \/ ~magic[current]
           \/ Changed(current, StackEnd(p)) \/ Words(p) = {}
        /\ Stop
     \/ /\ magic[current] /\ ~Changed(current, StackEnd(p))
        /\ SwitchBack(n, W)

-------------------------------------------------------------------------------
(* The body                                                                *)

(* It calls a function with a frame of n words, of which W are written.    *)
Call(n, W) ==
  LET k   == current
      low == sp[k] - n * Word IN
  /\ InBody
  /\ low >= StackEnd(place[k]) - MaxBelow * Word
  /\ sp' = [sp EXCEPT ![k] = low]
  /\ Push(k, sp[k], n, W)
  /\ stopped' = Guarded(k, sp[k], W)
  /\ UNCHANGED <<finished, current, drVars>>

(* It returns from functions with frames of n words.                       *)
Return(n) ==
  /\ InBody
  /\ sp[current] + n * Word <= Base(place[current])
  /\ sp' = [sp EXCEPT ![current] = @ + n * Word]
  /\ UNCHANGED <<koroVars, current, written, lowest, sparse, stopped, drVars>>

(* It ends: h->finished, and _executor's jump_fcontext saves a context.    *)
BodyReturn ==
  LET k   == current
      top == Base(place[k]) IN
  /\ InBody
  /\ finished' = [finished EXCEPT ![k] = TRUE]
  /\ sp' = [sp EXCEPT ![k] = top]
  /\ Push(k, top, Context, 1..Context)
  /\ stopped' = Guarded(k, top, 1..Context)
  /\ UNCHANGED <<current, drVars>>

Next ==
  \/ \E k \in Koros :
       \/ \E W \in SUBSET (1..Entry) : KoroRun(k, W)
       \/ \E p \in Places : KoroInit(k, p)
  \/ BackInRun \/ BodyReturn
  \/ \E n \in 0..MaxFrame : \E W \in SUBSET (1..n) : KoroYield(n, W)
  \/ \E n \in 1..MaxFrame : Return(n) \/ \E W \in SUBSET (1..n) : Call(n, W)
  \/ \E i \in Slots : DebuggerClear(i) \/ \E w \in Watched : DebuggerSet(i, w)

Spec == Init /\ [][Next]_vars

-------------------------------------------------------------------------------
(* Properties                                                              *)

(* The stack starts aligned, less than an alignment's worth below the top  *)
(* of the memory that koro_init was given (and below all of it, if it is   *)
(* small).  The loops stay in that memory if it begins at a word, and      *)
(* write up to two bytes more if it does not.                              *)
LayoutInMemory ==
  \A k \in Ready :
    LET p     == place[k]
        off   == p.mem % Word
        above == IF off = 0 THEN 0 ELSE off - 1 IN
    /\ StackStart(p) % Alignment = 0
    /\ StackStart(p) \in (p.mem + p.size - Alignment)..(p.mem + p.size - 1)
    /\ \A n \in Words(p) : n >= p.mem /\ n + Word <= p.mem + p.size + above

(* koro_calculate_stack_watermark is the most that the coroutine has used  *)
(* of its memory since koro_init, its saved contexts and the first of them *)
(* included, up to a whole word.  A hole can only hide that it was more.   *)
WatermarkIsPeak ==
  \A k \in Ready :
    LET start == StackStart(place[k])
        end   == StackEnd(place[k])
        low   == IF lowest[k] < end THEN end ELSE lowest[k]
        peak  == IF low < start THEN start - low ELSE 0 IN
    /\ Watermark(k) < peak + Word
    /\ ~sparse[k] => Watermark(k) >= peak

(* A coroutine that has reached the end of its memory does not come back   *)
(* by koro_yield: only what this very koro_yield pushes after it has       *)
(* looked, and a hole, are let through.  Nor does any step that reaches    *)
(* the end let the program go on while a register guards it.               *)
OverflowNoticed ==
  [][\A k \in Ready :
       LET end == StackEnd(place[k]) IN
       /\ current = k /\ current' = None /\ ~finished[k] /\ ~sparse[k] =>
            lowest[k] > end
       /\ \/ current = k /\ Watching(end)
          \/ current' = k /\ Watching(end)'
          => (lowest[k] > end /\ lowest'[k] <= end /\ ~sparse'[k] => stopped')
    ]_vars

(* _koro_set_hw_break_at and _koro_clear_hw_break: what the debugger has   *)
(* set stays set, and a register that is in use and not the debugger's is  *)
(* that of the coroutine under way.                                        *)
BreakpointsBalanced ==
  \A i \in Slots :
    /\ debugger[i] # None => on[i] /\ dr[i] = debugger[i]
    /\ on[i] /\ debugger[i] = None =>
         current # None /\ dr[i] = StackEnd(place[current])

===============================================================================
