-------------------------- MODULE StackGuard_proofs ---------------------------
(***************************************************************************)
(* Proofs about StackGuard, for every alignment, size of a word, piece of  *)
(* memory and number of debug registers that GuardAssumption admits: the   *)
(* layout of the stack memory, what koro_run does to the registers, what   *)
(* the watermark finds, and where a stack that is full is noticed.         *)
(***************************************************************************)
EXTENDS StackGuard, WellFoundedInduction, TLAPS

(* A remainder of zero is a multiple, and the other way round.             *)
LEMMA Multiple ==
  ASSUME NEW n \in Int, NEW d \in Nat \ {0}
  PROVE  /\ n % d \in 0..(d - 1)
         /\ n = d * (n \div d) + (n % d)
         /\ n \div d \in Int
  BY Z3

(* The half of it that is used of a remainder of zero.                     *)
LEMMA ZeroRemainder ==
  ASSUME NEW n \in Int, NEW d \in Nat \ {0}, n % d = 0
  PROVE  n = d * (n \div d) /\ n \div d \in Int
<1>1. n = d * (n \div d) + (n % d) /\ n \div d \in Int
  BY Multiple
<1> QED
  BY <1>1, Z3

(* Multiples leave no remainder.                                           *)
LEMMA MultipleRemainder ==
  ASSUME NEW q \in Int, NEW d \in Nat \ {0}
  PROVE  (d * q) % d = 0
<1> DEFINE n == d * q
<1>1. n \in Int
  BY Z3
<1>2. /\ n % d \in 0..(d - 1)
      /\ n = d * (n \div d) + (n % d)
      /\ n \div d \in Int
  BY <1>1, Multiple
<1>3. d * (q - n \div d) = (n % d)
  BY <1>2, Z3
<1>4. q - n \div d = 0
  BY <1>2, <1>3, Z3
<1> QED
  BY <1>2, <1>3, <1>4, Z3

(* Two multiples, one of which is less than the other, are a whole d       *)
(* apart.                                                                  *)
LEMMA NextMultiple ==
  ASSUME NEW q \in Int, NEW r \in Int, NEW d \in Nat \ {0}, d * q < d * r
  PROVE  d * q + d <= d * r
<1>1. q < r
  BY Z3
<1>2. r - q >= 1
  BY <1>1, Z3
<1>3. d * (r - q) >= d
  BY <1>2, Z3
<1> QED
  BY <1>3, Z3

-------------------------------------------------------------------------------
(* The layout of one piece of memory                                       *)

(* What koro_init accepts.                                                 *)
Accepted == {p \in Places : p.size >= Word}

(* align_ptr_low.                                                          *)
LEMMA AlignLowBounds ==
  ASSUME NEW n \in Int
  PROVE  /\ AlignLow(n) \in (n - Alignment + 1)..n
         /\ AlignLow(n) = Alignment * (n \div Alignment)
         /\ n \div Alignment \in Int
         /\ AlignLow(n) % Alignment = 0
<1>1. Alignment \in Nat \ {0}
  BY GuardAssumption
<1>2. /\ n % Alignment \in 0..(Alignment - 1)
      /\ n = Alignment * (n \div Alignment) + (n % Alignment)
      /\ n \div Alignment \in Int
  BY <1>1, Multiple
<1>3. AlignLow(n) = Alignment * (n \div Alignment)
  BY <1>1, <1>2, Z3 DEF AlignLow
<1>4. AlignLow(n) % Alignment = 0
  BY <1>1, <1>2, <1>3, MultipleRemainder
<1>5. AlignLow(n) \in (n - Alignment + 1)..n
  BY <1>1, <1>2 DEF AlignLow
<1> QED
  BY <1>2, <1>3, <1>4, <1>5

(* How far a piece of memory begins above a word.                          *)
Off(p) == p.mem % Word

(* Any address and size will do for koro_init's own check.                 *)
LEMMA AcceptedPlace ==
  ASSUME NEW p \in Accepted
  PROVE  /\ p.mem \in Nat /\ p.size \in Nat
         /\ Off(p) \in 0..(Word - 1)
  <1>1. p.mem \in Nat /\ p.size \in Nat /\ Word \in Nat \ {0}
    BY GuardAssumption DEF Accepted
  <1>2. p.mem \in Int
    BY <1>1
  <1> QED
    BY <1>1, <1>2, Multiple DEF Off

(* The words of the two loops end where the stack starts, or before, or as *)
(* far above as the memory begins above a word.                            *)
LEMMA WordsBelowStart ==
  ASSUME NEW p \in Accepted, NEW n \in Words(p)
  PROVE  n >= p.mem /\ n + Word <= StackStart(p) + Off(p)
<1> DEFINE last == p.mem + p.size - 1
           a    == (n - p.mem) \div Word
           b    == p.mem \div Word
           c    == last \div Alignment
           d    == Alignment \div Word
<1>1. /\ Word \in Nat \ {0} /\ Alignment \in Nat \ {0}
      /\ Alignment % Word = 0
  BY GuardAssumption
<1>2. p.mem \in Nat /\ p.size \in Nat /\ Off(p) \in 0..(Word - 1)
  BY AcceptedPlace
<1>3. /\ StackStart(p) = Alignment * c /\ c \in Int
      /\ StackStart(p) \in Int
  <2>1. last \in Int
    BY <1>2
  <2>2. StackStart(p) = AlignLow(last)
    BY DEF StackStart
  <2> HIDE DEF last
  <2>3. AlignLow(last) = Alignment * c /\ c \in Int
    BY <2>1, AlignLowBounds
  <2>4. AlignLow(last) \in Int
    BY <1>1, <2>1, AlignLowBounds
  <2> QED
    BY <2>2, <2>3, <2>4
<1>4. /\ n \in p.mem..(StackStart(p) - 1)
      /\ (n - p.mem) % Word = 0
  BY DEF Words, StackEnd
<1>5. n \in Int /\ n >= p.mem /\ n < StackStart(p)
  BY <1>2, <1>3, <1>4
<1>6. n - p.mem = Word * a /\ a \in Int
  <2>1. n - p.mem \in Int
    BY <1>2, <1>5
  <2>2. /\ n - p.mem = Word * ((n - p.mem) \div Word)
        /\ (n - p.mem) \div Word \in Int
    BY <1>1, <1>4, <2>1, ZeroRemainder
  <2> QED
    BY <2>2
<1>7. p.mem = Word * b + Off(p) /\ b \in Int
  <2>1. p.mem \in Int
    BY <1>2
  <2>2. /\ p.mem = Word * (p.mem \div Word) + (p.mem % Word)
        /\ p.mem \div Word \in Int
    BY <1>1, <2>1, Multiple
  <2> QED
    BY <2>2 DEF Off
<1>8. Alignment = Word * d /\ d \in Int
  BY <1>1, ZeroRemainder
<1> DEFINE off == Off(p)
<1> HIDE DEF a, b, c, d, off
<1>9. n = Word * (a + b) + off /\ off \in Nat
  <2>1. off \in Nat /\ p.mem = Word * b + off
    BY <1>1, <1>2, <1>7 DEF off
  <2> QED
    BY <1>1, <1>2, <1>5, <1>6, <1>7, <2>1, Z3
<1>10. StackStart(p) = Word * (d * c)
  BY <1>1, <1>3, <1>8, Z3
<1>11. Word * (a + b) + Word <= Word * (d * c)
  <2>1. a + b \in Int /\ d * c \in Int
    BY <1>3, <1>6, <1>7, <1>8
  <2>2. Word * (a + b) \in Int /\ Word * (d * c) \in Int
    BY <1>1, <2>1
  <2>3. Word * (a + b) < Word * (d * c)
    BY <1>5, <1>9, <1>10, <2>2
  <2> QED
    BY <1>1, <2>1, <2>3, NextMultiple
<1>12. n + Word <= StackStart(p) + off
  <2>1. Word * (a + b) \in Int
    BY <1>1, <1>6, <1>7
  <2> QED
    BY <1>1, <1>3, <1>9, <1>10, <1>11, <2>1
<1> QED
  BY <1>5, <1>12 DEF off

(* The layout of a piece of memory that koro_init has accepted: the three  *)
(* parts of LayoutInMemory.                                                *)
LEMMA PlaceLayout ==
  ASSUME NEW p \in Accepted
  PROVE  /\ StackStart(p) % Alignment = 0
         /\ StackStart(p) \in
              (p.mem + p.size - Alignment)..(p.mem + p.size - 1)
         /\ \A n \in Words(p) :
              /\ n >= p.mem
              /\ n + Word <=
                   p.mem + p.size + (IF Off(p) = 0 THEN 0 ELSE Off(p) - 1)
<1>1. Alignment \in Nat \ {0} /\ Word \in Nat \ {0}
  BY GuardAssumption
<1>2. p.mem \in Nat /\ p.size \in Nat /\ Off(p) \in 0..(Word - 1)
  BY AcceptedPlace
<1>3. /\ StackStart(p) % Alignment = 0
      /\ StackStart(p) \in (p.mem + p.size - Alignment)..(p.mem + p.size - 1)
  <2> DEFINE last == p.mem + p.size - 1
  <2>1. last \in Int
    BY <1>2
  <2>2. StackStart(p) = AlignLow(last)
    BY DEF StackStart
  <2> HIDE DEF last
  <2>3. /\ AlignLow(last) % Alignment = 0
        /\ AlignLow(last) \in (last - Alignment + 1)..last
    BY <2>1, AlignLowBounds
  <2>4. last - Alignment + 1 = p.mem + p.size - Alignment
    BY <1>1, <1>2 DEF last
  <2> QED
    BY <2>2, <2>3, <2>4 DEF last
<1>4. ASSUME NEW n \in Words(p)
      PROVE  /\ n >= p.mem
             /\ n + Word <=
                  p.mem + p.size + (IF Off(p) = 0 THEN 0 ELSE Off(p) - 1)
  <2>1. n \in Int
    BY <1>2, <1>3 DEF Words, StackEnd
  <2>2. n >= p.mem /\ n + Word <= StackStart(p) + Off(p)
    BY WordsBelowStart
  <2> QED
    BY <1>1, <1>2, <1>3, <2>1, <2>2
<1> QED
  BY <1>3, <1>4

-------------------------------------------------------------------------------
(* The layout of every handle                                              *)

(* A handle has the memory of its last koro_init, which accepted it.       *)
PlaceInv == place \in [Koros -> Accepted \union {None}]

(* koro_init is the only operation that gives a handle its memory, and     *)
(* asks that it be large enough.                                           *)
LEMMA NextPlace ==
  ASSUME PlaceInv, [Next]_vars
  PROVE  PlaceInv'
<1> USE DEF PlaceInv
<1>1. ASSUME NEW k \in Koros, NEW p \in Places, KoroInit(k, p)
      PROVE  PlaceInv'
  <2>1. p \in Accepted /\ place' = [place EXCEPT ![k] = p]
    BY <1>1 DEF KoroInit, Accepted
  <2> QED
    BY <2>1
<1>2. CASE UNCHANGED place
  BY <1>2
<1>3. ASSUME NEW k \in Koros, NEW W, KoroRun(k, W)
      PROVE  UNCHANGED place
  BY <1>3 DEF KoroRun, Push, Stop, koroVars
<1>4. CASE BackInRun
  BY <1>4 DEF BackInRun, koroVars
<1>5. ASSUME NEW n, NEW W, KoroYield(n, W)
      PROVE  UNCHANGED place
  BY <1>5 DEF KoroYield, SwitchBack, Push, Stop, koroVars
<1>6. ASSUME NEW n, BodyReturn \/ Return(n)
      PROVE  UNCHANGED place
  BY <1>6 DEF BodyReturn, Push, Return, koroVars
<1>7. ASSUME NEW n, NEW W, Call(n, W)
      PROVE  UNCHANGED place
  BY <1>7 DEF Call, Push
<1>8. ASSUME NEW i \in Slots,
             DebuggerClear(i) \/ \E w \in Watched : DebuggerSet(i, w)
      PROVE  UNCHANGED place
  BY <1>8 DEF DebuggerClear, DebuggerSet, koroVars
<1>9. CASE UNCHANGED vars
  BY <1>9 DEF vars, koroVars
<1> QED
  BY <1>1, <1>2, <1>3, <1>4, <1>5, <1>6, <1>7, <1>8, <1>9 DEF Next

(* Whatever koro_init was given, its stack starts aligned and less than an *)
(* alignment's worth below the top of it, and its loop and that of         *)
(* koro_calculate_stack_watermark stay in it, or go as far out of it as it *)
(* is off the words: LayoutInMemory of the run "guard".                    *)
THEOREM StackInMemory ==
  Spec => []LayoutInMemory
<1>1. Init => PlaceInv
  BY DEF Init, PlaceInv
<1>2. PlaceInv /\ [Next]_vars => PlaceInv'
  BY NextPlace
<1>3. PlaceInv => LayoutInMemory
  <2> SUFFICES ASSUME PlaceInv, NEW k \in Ready
               PROVE  /\ StackStart(place[k]) % Alignment = 0
                      /\ StackStart(place[k]) \in
                           (place[k].mem + place[k].size - Alignment)
                             ..(place[k].mem + place[k].size - 1)
                      /\ \A n \in Words(place[k]) :
                           /\ n >= place[k].mem
                           /\ n + Word <=
                                place[k].mem + place[k].size +
                                  (IF Off(place[k]) = 0 THEN 0
                                   ELSE Off(place[k]) - 1)
    BY DEF LayoutInMemory, Off
  <2>1. place[k] \in Accepted
    BY DEF PlaceInv, Ready
  <2> QED
    BY <2>1, PlaceLayout
<1> QED
  BY <1>1, <1>2, <1>3, PTL DEF Spec

-------------------------------------------------------------------------------
(* The debug registers                                                     *)

(* A set of numbers has a least one, the register that debug.c's loops     *)
(* pick.                                                                   *)
LEMMA LeastIsLeast ==
  ASSUME NEW S, S \subseteq Nat, S # {}
  PROVE  Least(S) \in S /\ \A m \in S : Least(S) <= m
<1>1. PICK x \in S : \A y \in S : ~(<<y, x>> \in OpToRel(<, Nat))
  BY NatLessThanWellFounded, WFMin
<1>2. \A y \in S : x <= y
  <2> SUFFICES ASSUME NEW y \in S, y < x
               PROVE  FALSE
    BY SMT
  <2>1. <<y, x>> \in Nat \X Nat /\ <<y, x>>[1] < <<y, x>>[2]
    BY SMT
  <2>2. <<y, x>> \in {ss \in Nat \X Nat : ss[1] < ss[2]}
    BY <2>1, Zenon
  <2> QED
    BY <1>1, <2>2, Zenon DEF OpToRel
<1> QED
  BY <1>1, <1>2 DEF Least

Addresses == Watched \union {p.mem : p \in Places} \union {None}

(* The end of the stack of the coroutine under way.                        *)
End == StackEnd(place[current])

DebugTypeOK ==
  /\ dr \in [Slots -> Addresses]
  /\ on \in [Slots -> BOOLEAN]
  /\ debugger \in [Slots -> Watched \union {None}]
  /\ current \in Koros \union {None}
  /\ current # None => place[current] \in Accepted

(* What the debugger has set stays set.                                    *)
DebuggersKept ==
  \A i \in Slots : debugger[i] # None => on[i] /\ dr[i] = debugger[i]

(* A register that is in use and not the debugger's is the one that        *)
(* _koro_clear_hw_break is going to find: none before it has its address.  *)
OursIsFound ==
  \A j \in Slots : on[j] /\ debugger[j] = None =>
    /\ current # None
    /\ dr[j] = End
    /\ \A i \in Slots : i < j => dr[i] # End

DebugInv == PlaceInv /\ DebugTypeOK /\ DebuggersKept /\ OursIsFound

(* The debugger watches no end of a stack, by GuardAssumption.             *)
LEMMA EndNotWatched ==
  ASSUME NEW p \in Accepted
  PROVE  /\ StackEnd(p) \in Addresses
         /\ StackEnd(p) \notin Watched
  BY GuardAssumption DEF Accepted, StackEnd, Addresses

(* koro_run takes a register that is free, and all before it are the       *)
(* debugger's.                                                             *)
LEMMA RunTakesFree ==
  ASSUME DebugInv, NEW k \in Koros, NEW W, KoroRun(k, W)
  PROVE  DebugTypeOK' /\ DebuggersKept' /\ OursIsFound'
<1> USE DEF DebugInv, DebugTypeOK
<1>1. CASE Stop
  <2>1. UNCHANGED <<place, current, dr, on, debugger>>
    BY <1>1 DEF Stop, koroVars, drVars
  <2> QED
    BY <2>1 DEF DebuggersKept, OursIsFound, End
<1>2. CASE ~Stop
  <2> DEFINE end  == StackEnd(place[k])
             free == {i \in Slots : ~on[i]}
             l    == Least(free)
  <2>1. /\ current = None /\ current' = k
        /\ SetHwBreak(end)
        /\ UNCHANGED <<place, debugger>>
    BY <1>2 DEF KoroRun, Push, koroVars
  <2>2. place[k] \in Accepted /\ end \in Addresses /\ end \notin Watched
    BY EndNotWatched DEF KoroRun, Ready, PlaceInv
  <2>3. End' = end
    BY <2>1 DEF End
  <2>4. \A i \in Slots : on[i] => debugger[i] # None /\ dr[i] \in Watched
    BY <2>1 DEF OursIsFound, DebuggersKept
  <2>5. k # None
    BY GuardAssumption
  <2>6. CASE free = {}
    <3>1. UNCHANGED <<dr, on>>
      BY <2>1, <2>6 DEF SetHwBreak
    <3> QED
      BY <2>1, <2>2, <2>4, <2>5, <3>1 DEF DebuggersKept, OursIsFound
  <2>7. CASE free # {}
    <3>1. l \in free /\ \A m \in free : l <= m
      BY <2>7, LeastIsLeast, GuardAssumption
    <3>2. /\ dr' = [dr EXCEPT ![l] = end]
          /\ on' = [on EXCEPT ![l] = TRUE]
      BY <2>1, <2>7 DEF SetHwBreak
    <3> HIDE DEF l, end
    <3>3. l \in Slots /\ ~on[l] /\ Slots \subseteq Nat
      BY <3>1, GuardAssumption
    <3>4. \A i \in Slots : i < l => on[i]
      BY <3>1, <3>3
    <3>5. DebugTypeOK'
      BY <2>1, <2>2, <3>2
    <3>6. DebuggersKept'
      BY <2>1, <3>2, <3>3 DEF DebuggersKept
    <3>7. OursIsFound'
      <4> SUFFICES ASSUME NEW j \in Slots, on'[j], debugger'[j] = None
                   PROVE  /\ current' # None
                          /\ dr'[j] = End'
                          /\ \A i \in Slots : i < j => dr'[i] # End'
        BY DEF OursIsFound
      <4>1. j = l
        BY <2>1, <2>4, <3>2
      <4>2. \A i \in Slots : i < l => dr'[i] = dr[i]
        <5>1. \A i \in Slots : i # l => dr'[i] = dr[i]
          BY <3>2, Zenon
        <5>2. \A i \in Slots : i < l => i # l
          BY <3>3
        <5> QED
          BY <5>1, <5>2, Zenon
      <4> QED
        BY <2>1, <2>2, <2>3, <2>4, <2>5, <3>2, <3>3, <3>4, <4>1, <4>2
    <3> QED
      BY <3>5, <3>6, <3>7
  <2> QED
    BY <2>6, <2>7
<1> QED
  BY <1>1, <1>2

(* Back in koro_run the register that it has taken is found, or there is   *)
(* none to find.                                                           *)
LEMMA BackFindsOurs ==
  ASSUME DebugInv, current # None, Back, UNCHANGED place
  PROVE  DebugTypeOK' /\ DebuggersKept' /\ OursIsFound'
<1> USE DEF DebugInv, DebugTypeOK
<1> DEFINE found == {i \in Slots : dr[i] = End}
           l     == Least(found)
<1>1. /\ current' = None
      /\ on' = IF found = {} THEN on ELSE [on EXCEPT ![l] = FALSE]
      /\ UNCHANGED <<place, dr, debugger>>
  BY DEF Back, ClearHwBreak, End
<1>2. End \notin Watched
  BY EndNotWatched DEF End
<1>3. \A i \in found : debugger[i] = None
  BY <1>2 DEF DebuggersKept
<1>4. \A j \in Slots : on[j] /\ debugger[j] = None =>
        j \in found /\ \A i \in found : ~(i < j)
  BY DEF OursIsFound
<1>5. CASE found = {}
  <2>1. on' = on
    BY <1>1, <1>5
  <2>2. \A j \in Slots : ~(on[j] /\ debugger[j] = None)
    BY <1>4, <1>5
  <2> QED
    BY <1>1, <2>1, <2>2 DEF DebuggersKept, OursIsFound
<1>6. CASE found # {}
  <2>1. /\ l \in found /\ \A m \in found : l <= m
        /\ found \subseteq Nat
    BY <1>6, LeastIsLeast, GuardAssumption
  <2>2. on' = [on EXCEPT ![l] = FALSE]
    BY <1>1, <1>6
  <2> HIDE DEF l
  <2>3. \A j \in Slots : on[j] /\ debugger[j] = None => j = l
    <3> SUFFICES ASSUME NEW j \in Slots, on[j], debugger[j] = None
                 PROVE  j = l
      OBVIOUS
    <3>1. j \in found /\ ~(l < j)
      BY <1>4, <2>1
    <3> QED
      BY <2>1, <3>1
  <2>4. DebugTypeOK' /\ DebuggersKept'
    BY <1>1, <1>3, <2>1, <2>2 DEF DebuggersKept
  <2>5. OursIsFound'
    BY <1>1, <2>1, <2>2, <2>3 DEF OursIsFound
  <2> QED
    BY <2>4, <2>5
<1> QED
  BY <1>5, <1>6

(* Every step keeps the invariant of the debug registers.                  *)
LEMMA NextDebug ==
  ASSUME DebugInv, [Next]_vars
  PROVE  DebugInv'
<1> USE DEF DebugInv
<1>1. PlaceInv'
  BY NextPlace
<1>2. CASE UNCHANGED <<place, current, dr, on, debugger>>
  BY <1>1, <1>2 DEF DebugTypeOK, DebuggersKept, OursIsFound, End
<1>3. ASSUME NEW k \in Koros, NEW p \in Places, KoroInit(k, p)
      PROVE  DebugInv'
  <2>1. /\ current # k /\ place' = [place EXCEPT ![k] = p]
        /\ UNCHANGED <<current, dr, on, debugger>>
    BY <1>3 DEF KoroInit, drVars
  <2>2. current # None => place'[current] = place[current]
    BY <2>1 DEF PlaceInv, DebugTypeOK
  <2> QED
    BY <1>1, <2>1, <2>2
    DEF DebugTypeOK, DebuggersKept, OursIsFound, End
<1>4. ASSUME NEW k \in Koros, NEW W, KoroRun(k, W)
      PROVE  DebugInv'
  BY <1>1, <1>4, RunTakesFree
<1>5. CASE BackInRun
  BY <1>1, <1>5, BackFindsOurs DEF BackInRun, koroVars
<1>6. ASSUME NEW n, NEW W, KoroYield(n, W)
      PROVE  DebugInv'
  <2>1. UNCHANGED place /\ current # None
    BY <1>6 DEF KoroYield, SwitchBack, Push, Stop, koroVars, InBody
  <2>2. CASE Back
    BY <1>1, <2>1, <2>2, BackFindsOurs
  <2>3. CASE UNCHANGED <<current, drVars>>
    BY <1>2, <2>1, <2>3 DEF drVars
  <2> QED
    BY <1>6, <2>2, <2>3 DEF KoroYield, SwitchBack, Stop
<1>7. ASSUME NEW n, BodyReturn \/ Return(n)
      PROVE  DebugInv'
  BY <1>2, <1>7 DEF BodyReturn, Push, Return, koroVars, drVars
<1>8. ASSUME NEW n, NEW W, Call(n, W)
      PROVE  DebugInv'
  BY <1>2, <1>8 DEF Call, Push, drVars
<1>9. ASSUME NEW i \in Slots, NEW w \in Watched, DebuggerSet(i, w)
      PROVE  DebugInv'
  <2>1. /\ ~on[i]
        /\ dr' = [dr EXCEPT ![i] = w]
        /\ on' = [on EXCEPT ![i] = TRUE]
        /\ debugger' = [debugger EXCEPT ![i] = w]
        /\ UNCHANGED <<place, current>>
    BY <1>9 DEF DebuggerSet, koroVars
  <2>2. w # None /\ w \in Addresses
    BY GuardAssumption DEF Addresses
  <2>3. current # None => w # End
    BY EndNotWatched DEF DebugTypeOK, End
  <2>4. End' = End
    BY <2>1 DEF End
  <2>5. DebugTypeOK' /\ DebuggersKept'
    BY <2>1, <2>2 DEF DebugTypeOK, DebuggersKept
  <2>6. OursIsFound'
    BY <2>1, <2>2, <2>3, <2>4 DEF OursIsFound, DebugTypeOK
  <2> QED
    BY <1>1, <2>5, <2>6
<1>10. ASSUME NEW i \in Slots, DebuggerClear(i)
       PROVE  DebugInv'
  <2>1. /\ on' = [on EXCEPT ![i] = FALSE]
        /\ debugger' = [debugger EXCEPT ![i] = None]
        /\ UNCHANGED <<place, current, dr>>
    BY <1>10 DEF DebuggerClear, koroVars
  <2>2. End' = End
    BY <2>1 DEF End
  <2> QED
    BY <1>1, <2>1, <2>2 DEF DebugTypeOK, DebuggersKept, OursIsFound
<1>11. CASE UNCHANGED vars
  BY <1>2, <1>11 DEF vars, koroVars, drVars
<1> QED
  BY <1>3, <1>4, <1>5, <1>6, <1>7, <1>8, <1>9, <1>10, <1>11 DEF Next

(* Whatever registers a debugger takes and gives back, and when, koro_run  *)
(* leaves its registers alone and none of its own behind:                  *)
(* BreakpointsBalanced of the run "guard".                                 *)
THEOREM RegistersBalanced ==
  Spec => []BreakpointsBalanced
<1>1. Init => DebugInv
  BY DEF Init, DebugInv, PlaceInv, DebugTypeOK, DebuggersKept, OursIsFound,
         Addresses
<1>2. DebugInv /\ [Next]_vars => DebugInv'
  BY NextDebug
<1>3. DebugInv => BreakpointsBalanced
  BY DEF DebugInv, DebuggersKept, OursIsFound, BreakpointsBalanced, End
<1> QED
  BY <1>1, <1>2, <1>3, PTL DEF Spec

-------------------------------------------------------------------------------
(* What is written of a stack                                              *)

(* The words from a up to b.                                               *)
Grid(a, b) == {n \in a..(b - 1) : n % Word = 0}

(* Where make_fcontext puts the first context.                             *)
Saved(p) == StackStart(p) - Context * Word

(* The stack pointer and its lowest place are below the start, at words;   *)
(* what is written lies between, and is all of it below the first context  *)
(* when no hole has been left.                                             *)
StackOf(k) ==
  LET start == StackStart(place[k])
      saved == Saved(place[k]) IN
  /\ sp[k] \in Int /\ sp[k] % Word = 0 /\ sp[k] <= start
  /\ sp[k] = start \/ sp[k] <= Base(place[k])
  /\ lowest[k] \in Int /\ lowest[k] % Word = 0
  /\ lowest[k] <= sp[k] /\ lowest[k] <= saved
  /\ written[k] \subseteq Grid(lowest[k], start)
  /\ ~sparse[k] => /\ StackEnd(place[k]) <= saved
                   /\ Grid(lowest[k], saved + 1) \subseteq written[k]

StackInv == \A k \in Ready : StackOf(k)

(* A body that is under way has been called by _executor.                  *)
BodyInv ==
  current # None /\ ~finished[current] => sp[current] <= Base(place[current])

(* What is in a Grid, without its definition.                              *)
LEMMA GridType ==
  ASSUME NEW a \in Int, NEW b \in Int
  PROVE  \A n : n \in Grid(a, b) <=>
                  n \in Int /\ a <= n /\ n < b /\ n % Word = 0
  BY DEF Grid

(* A whole number of words up or down from a word is a word.               *)
LEMMA WordsApart ==
  ASSUME NEW a \in Int, a % Word = 0, NEW q \in Int
  PROVE  /\ q * Word \in Int
         /\ (a - q * Word) % Word = 0
<1>1. Word \in Nat \ {0}
  BY GuardAssumption
<1>2. a = Word * (a \div Word) /\ a \div Word \in Int
  BY <1>1, ZeroRemainder
<1> DEFINE b == a \div Word
<1> HIDE DEF b
<1>3. a = Word * b /\ b \in Int
  BY <1>2 DEF b
<1>4. a - q * Word = Word * (b - q)
  BY <1>1, <1>3, Z3
<1>5. (Word * (b - q)) % Word = 0
  BY <1>1, <1>3, MultipleRemainder
<1> QED
  BY <1>1, <1>4, <1>5

(* There is a last word at or below any address.                           *)
LEMMA WordBelow ==
  ASSUME NEW end \in Nat
  PROVE  \E f \in Int :
           /\ f % Word = 0 /\ f <= end /\ end < f + Word
           /\ \A a \in Int : a % Word = 0 /\ a <= end => a <= f
<1>1. Word \in Nat \ {0} /\ end \in Int
  BY GuardAssumption
<1>2. /\ end % Word \in 0..(Word - 1)
      /\ end = Word * (end \div Word) + (end % Word)
      /\ end \div Word \in Int
  BY <1>1, Multiple
<1> DEFINE c == end \div Word
           f == Word * c
<1> HIDE DEF c
<1>3. c \in Int /\ f \in Int /\ f % Word = 0
  BY <1>1, <1>2, MultipleRemainder DEF c
<1>4. f <= end /\ end < f + Word
  BY <1>1, <1>2, <1>3 DEF c
<1>5. ASSUME NEW a \in Int, a % Word = 0, a <= end
      PROVE  a <= f
  <2>1. a = Word * (a \div Word) /\ a \div Word \in Int
    BY <1>1, <1>5, ZeroRemainder
  <2>2. ~(Word * c < Word * (a \div Word))
    <3>1. ASSUME Word * c < Word * (a \div Word) PROVE FALSE
      <4>1. Word * c + Word <= Word * (a \div Word)
        BY <1>1, <1>3, <2>1, <3>1, NextMultiple
      <4> QED
        BY <1>1, <1>3, <1>4, <1>5, <2>1, <4>1
    <3> QED
      BY <3>1
  <2> QED
    BY <1>3, <1>5, <2>1, <2>2
<1> QED
  BY <1>3, <1>4, <1>5

(* And two words are a whole number of words apart.                        *)
LEMMA WordsBetween ==
  ASSUME NEW a \in Int, a % Word = 0, NEW b \in Int, b % Word = 0
  PROVE  \E q \in Int : a - b = q * Word
<1>1. Word \in Nat \ {0}
  BY GuardAssumption
<1>2. a = Word * (a \div Word) /\ a \div Word \in Int
  BY <1>1, ZeroRemainder
<1>3. b = Word * (b \div Word) /\ b \div Word \in Int
  BY <1>1, ZeroRemainder
<1> DEFINE c == a \div Word
           d == b \div Word
<1> HIDE DEF c, d
<1>4. a = Word * c /\ b = Word * d /\ c \in Int /\ d \in Int
  BY <1>2, <1>3 DEF c, d
<1>5. a - b = (c - d) * Word /\ c - d \in Int
  BY <1>1, <1>4, Z3
<1> QED
  BY <1>5

(* Stacks start at words, and so do the first contexts.                    *)
LEMMA PlaceWords ==
  ASSUME NEW p \in Accepted
  PROVE  /\ StackEnd(p) \in Nat
         /\ StackStart(p) \in Int /\ StackStart(p) % Word = 0
         /\ Saved(p) \in Int /\ Saved(p) % Word = 0
         /\ Saved(p) < StackStart(p)
         /\ Base(p) \in Int /\ Base(p) % Word = 0 /\ Base(p) < StackStart(p)
<1>1. /\ Word \in Nat \ {0} /\ Alignment \in Nat \ {0}
      /\ Alignment % Word = 0
      /\ Context \in Nat \ {0} /\ Entry \in Nat \ {0}
  BY GuardAssumption
<1>2. p.mem \in Nat /\ p.size \in Nat /\ StackEnd(p) = p.mem
  BY AcceptedPlace DEF StackEnd
<1>3. StackStart(p) % Alignment = 0 /\ StackStart(p) \in Int
  BY <1>1, <1>2, PlaceLayout
<1>4. StackStart(p) % Word = 0
  <2> DEFINE s == StackStart(p)
             c == s \div Alignment
             d == Alignment \div Word
  <2>1. s = Alignment * c /\ c \in Int
    BY <1>1, <1>3, ZeroRemainder
  <2>2. Alignment = Word * d /\ d \in Int
    BY <1>1, ZeroRemainder
  <2> HIDE DEF s, c, d
  <2>3. s = Word * (d * c) /\ d * c \in Int
    BY <1>1, <2>1, <2>2, Z3
  <2>4. s % Word = 0
    BY <1>1, <2>3, MultipleRemainder
  <2> QED
    BY <2>4 DEF s
<1>5. ASSUME NEW n \in Nat \ {0}
      PROVE  /\ StackStart(p) - n * Word \in Int
             /\ (StackStart(p) - n * Word) % Word = 0
             /\ StackStart(p) - n * Word < StackStart(p)
  <2>1. n * Word \in Int /\ (StackStart(p) - n * Word) % Word = 0
    BY <1>3, <1>4, WordsApart
  <2>2. n * Word > 0
    BY <1>1, Z3
  <2> QED
    BY <1>3, <2>1, <2>2
<1> QED
  BY <1>1, <1>2, <1>3, <1>4, <1>5 DEF Saved, Base

(* What a frame covers: nothing but words of it, and all of them when no   *)
(* hole is left.                                                           *)
LEMMA FrameWords ==
  ASSUME NEW s \in Int, s % Word = 0, NEW n \in Nat, NEW W \in SUBSET (1..n)
  PROVE  LET words == {s - i * Word : i \in W} IN
         /\ s - n * Word \in Int
         /\ s - n * Word <= s
         /\ (s - n * Word) % Word = 0
         /\ words \subseteq Grid(s - n * Word, s)
         /\ W = 1..n => words = Grid(s - n * Word, s)
<1>1. Word \in Nat \ {0}
  BY GuardAssumption
<1> DEFINE low   == s - n * Word
           words == {s - i * Word : i \in W}
<1>2. low \in Int /\ low % Word = 0
  <2>1. n \in Int
    OBVIOUS
  <2>2. n * Word \in Int /\ (s - n * Word) % Word = 0
    BY <2>1, WordsApart
  <2> QED
    BY <2>2
<1>3. \A i \in Int : i >= 0 => i * Word >= 0
  BY <1>1, Z3
<1>4. \A i \in Int : i <= n => i * Word <= n * Word
  BY <1>1, Z3
<1>5. \A i \in Int : i >= 1 => i * Word >= 1
  BY <1>1, Z3
<1>6. \A i \in Int : i * Word \in Int
  BY <1>1
<1>7. low <= s
  BY <1>3, <1>6
<1>8. ASSUME NEW i \in W
      PROVE  s - i * Word \in Grid(low, s)
  <2>1. i \in Int /\ i >= 1 /\ i <= n
    OBVIOUS
  <2>2. i * Word >= 1 /\ i * Word <= n * Word /\ i * Word \in Int
    BY <2>1, <1>4, <1>5, <1>6
  <2>3. (s - i * Word) % Word = 0
    BY <2>1, WordsApart
  <2>4. s - i * Word \in Int /\ low <= s - i * Word /\ s - i * Word < s
    BY <2>2, <1>6
  <2> QED
    BY <1>2, <2>3, <2>4, GridType
<1>9. ASSUME W = 1..n, NEW m \in Grid(low, s)
      PROVE  m \in words
  <2>1. m \in Int /\ low <= m /\ m < s /\ m % Word = 0
    BY <1>2, GridType
  <2>2. PICK q \in Int : s - m = q * Word
    BY <2>1, WordsBetween
  <2>3. q * Word > 0 /\ q * Word <= n * Word
    BY <2>1, <2>2, <1>6
  <2>4. q >= 1 /\ q <= n
    BY <1>1, <2>3, Z3
  <2>5. q \in W /\ m = s - q * Word
    BY <1>6, <1>9, <2>1, <2>2, <2>4
  <2> QED
    BY <2>5
<1>10. words \subseteq Grid(low, s)
  BY <1>8
<1>11. W = 1..n => words = Grid(low, s)
  BY <1>9, <1>10
<1> QED
  BY <1>2, <1>7, <1>10, <1>11

-------------------------------------------------------------------------------
(* The stack, step by step                                                 *)

StackTypes ==
  /\ DOMAIN sp = Koros /\ DOMAIN lowest = Koros
  /\ DOMAIN written = Koros /\ DOMAIN magic = Koros
  /\ DOMAIN finished = Koros
  /\ sparse \in [Koros -> BOOLEAN]

GuardInv == DebugInv /\ StackTypes /\ StackInv /\ BodyInv

(* A handle that koro_init has seen has memory that it accepted.           *)
LEMMA ReadyPlace ==
  ASSUME PlaceInv, NEW k \in Ready
  PROVE  k \in Koros /\ place[k] \in Accepted
  BY DEF PlaceInv, Ready

(* A coroutine under way is such a handle.                                 *)
LEMMA CurrentReady ==
  ASSUME DebugInv, current # None
  PROVE  current \in Ready
<1>1. current \in Koros /\ place[current] \in Accepted
  BY DEF DebugInv, DebugTypeOK
<1>2. place[current] # None
  <2>1. ASSUME place[current] = None PROVE FALSE
    BY <2>1, <1>1, GuardAssumption DEF Accepted
  <2> QED
    BY <2>1
<1> QED
  BY <1>1, <1>2 DEF Ready

(* What is pushed below a place that the stack has reached leaves no gap,  *)
(* unless it has a hole.                                                   *)
LEMMA PushWords ==
  ASSUME PlaceInv, StackTypes, NEW k \in Ready, StackOf(k),
         NEW top \in Int, top % Word = 0,
         lowest[k] <= top, top <= StackStart(place[k]),
         NEW n \in Nat, NEW W \in SUBSET (1..n), Push(k, top, n, W)
  PROVE  LET words == {top - i * Word : i \in W} IN
         /\ lowest'[k] \in Int /\ lowest'[k] % Word = 0
         /\ lowest'[k] <= top - n * Word /\ lowest'[k] <= lowest[k]
         /\ written'[k] = written[k] \union words
         /\ written'[k] \subseteq Grid(lowest'[k], StackStart(place[k]))
         /\ ~sparse'[k] =>
              /\ ~sparse[k]
              /\ Grid(lowest'[k], Saved(place[k]) + 1) \subseteq written'[k]
<1>1. k \in Koros /\ place[k] \in Accepted
  BY ReadyPlace
<1>2. PICK low, start, saved, words :
        /\ low = top - n * Word
        /\ start = StackStart(place[k]) /\ saved = Saved(place[k])
        /\ words = {top - i * Word : i \in W}
  OBVIOUS
<1>3. start \in Int /\ saved \in Int /\ saved < start
  BY <1>1, <1>2, PlaceWords
<1>4. /\ low \in Int /\ low <= top /\ low % Word = 0
      /\ words \subseteq Grid(low, top)
      /\ W = 1..n => words = Grid(low, top)
  BY <1>2, FrameWords
<1>5. /\ lowest'[k] = IF low < lowest[k] THEN low ELSE lowest[k]
      /\ written'[k] = written[k] \union words
  BY <1>1, <1>2 DEF Push, StackTypes
<1>6. ~sparse'[k] => ~sparse[k] /\ W = 1..n
  <2>1. sparse'[k] = (sparse[k] \/ W # 1..n)
    BY <1>1, Zenon DEF Push, StackTypes
  <2> QED
    BY <2>1, Zenon
<1>7. PICK l : l = lowest'[k]
  OBVIOUS
<1>8. /\ l \in Int /\ l % Word = 0 /\ l <= low /\ l <= lowest[k]
      /\ l = low \/ l = lowest[k]
  BY <1>4, <1>5, <1>7 DEF StackOf
<1>9. /\ \A m : m \in Grid(l, start) <=>
                  m \in Int /\ l <= m /\ m < start /\ m % Word = 0
      /\ \A m : m \in Grid(lowest[k], start) <=>
                  m \in Int /\ lowest[k] <= m /\ m < start /\ m % Word = 0
      /\ \A m : m \in Grid(lowest[k], saved + 1) <=>
                  m \in Int /\ lowest[k] <= m /\ m < saved + 1 /\ m % Word = 0
      /\ \A m : m \in Grid(l, saved + 1) <=>
                  m \in Int /\ l <= m /\ m < saved + 1 /\ m % Word = 0
      /\ \A m : m \in Grid(low, top) <=>
                  m \in Int /\ low <= m /\ m < top /\ m % Word = 0
  BY <1>3, <1>4, <1>8, GridType DEF StackOf
<1>10. /\ Grid(lowest[k], start) \subseteq Grid(l, start)
       /\ Grid(low, top) \subseteq Grid(l, start)
  BY <1>2, <1>3, <1>4, <1>8, <1>9 DEF StackOf
<1>11. Grid(l, saved + 1) \subseteq
         Grid(lowest[k], saved + 1) \union Grid(low, top)
  BY <1>3, <1>4, <1>8, <1>9 DEF StackOf
<1>12. written'[k] \subseteq Grid(l, start)
  BY <1>2, <1>4, <1>5, <1>10 DEF StackOf
<1>13. ~sparse'[k] => Grid(l, saved + 1) \subseteq written'[k]
  BY <1>2, <1>4, <1>5, <1>6, <1>11 DEF StackOf
<1> QED
  BY <1>2, <1>5, <1>6, <1>7, <1>8, <1>12, <1>13

(* And it is seen at the end of the memory when it gets there.             *)
LEMMA PushAtEnd ==
  ASSUME PlaceInv, StackTypes, NEW k \in Ready, StackOf(k),
         NEW top \in Int, top % Word = 0,
         lowest[k] <= top, top <= StackStart(place[k]),
         NEW n \in Nat, NEW W \in SUBSET (1..n), Push(k, top, n, W),
         lowest[k] > StackEnd(place[k]), lowest'[k] <= StackEnd(place[k]),
         ~sparse'[k]
  PROVE  AtEnd(k, top, W)
<1>1. PICK end, saved, l, words :
        /\ end = StackEnd(place[k]) /\ saved = Saved(place[k])
        /\ l = lowest'[k]
        /\ words = {top - i * Word : i \in W}
  OBVIOUS
<1>2. /\ end \in Nat /\ saved \in Int /\ StackStart(place[k]) \in Int
      /\ Word \in Nat
  BY <1>1, ReadyPlace, PlaceWords, GuardAssumption
<1>3. /\ l \in Int /\ l % Word = 0
      /\ written'[k] = written[k] \union words
      /\ ~sparse[k] /\ Grid(l, saved + 1) \subseteq written'[k]
  BY <1>1, PushWords
<1>4. PICK f \in Int :
        /\ f % Word = 0 /\ f <= end /\ end < f + Word
        /\ \A a \in Int : a % Word = 0 /\ a <= end => a <= f
  BY <1>2, WordBelow
<1>5. l <= f /\ f <= saved
  BY <1>1, <1>2, <1>3, <1>4 DEF StackOf
<1>6. f \in written'[k]
  BY <1>2, <1>3, <1>4, <1>5, GridType
<1>7. f \notin written[k]
  BY <1>1, <1>2, <1>4, GridType DEF StackOf
<1>8. PICK i \in W : f = top - i * Word
  BY <1>1, <1>3, <1>6, <1>7
<1> QED
  BY <1>1, <1>4, <1>8 DEF AtEnd

(* A step that pushes, and moves the stack pointer to s.                   *)
LEMMA PushStep ==
  ASSUME PlaceInv, StackTypes, StackInv, NEW k \in Ready,
         NEW top \in Int, top % Word = 0,
         lowest[k] <= top, top <= StackStart(place[k]),
         NEW n \in Nat, NEW W \in SUBSET (1..n), Push(k, top, n, W),
         NEW s \in Int, s % Word = 0, s <= StackStart(place[k]),
         s = StackStart(place[k]) \/ s <= Base(place[k]),
         lowest[k] <= s \/ top - n * Word <= s,
         sp' = [sp EXCEPT ![k] = s] \/ (sp' = sp /\ s = sp[k]),
         DOMAIN finished' = DOMAIN finished
  PROVE  StackTypes' /\ StackInv'
<1>1. k \in Koros /\ place[k] \in Accepted /\ StackOf(k)
  BY ReadyPlace DEF StackInv
<1>2. StackTypes'
  <2>1. sparse' \in [Koros -> BOOLEAN]
    BY Zenon DEF StackTypes, Push
  <2> QED
    BY <2>1 DEF StackTypes, Push
<1>3. place' = place /\ Ready' = Ready
  BY DEF Push, Ready
<1>4. ASSUME NEW j \in Ready, j # k PROVE StackOf(j)'
  <2>1. StackOf(j) /\ j \in Koros
    BY ReadyPlace DEF StackInv
  <2>2. /\ sp'[j] = sp[j] /\ lowest'[j] = lowest[j]
        /\ written'[j] = written[j] /\ sparse'[j] = sparse[j]
    BY <1>4, <2>1 DEF Push, StackTypes
  <2> QED
    BY <1>3, <2>1, <2>2 DEF StackOf
<1>5. StackOf(k)'
  <2>1. sp'[k] = s
    BY <1>1 DEF StackTypes
  <2>2. /\ lowest'[k] \in Int /\ lowest'[k] % Word = 0
        /\ lowest'[k] <= top - n * Word /\ lowest'[k] <= lowest[k]
        /\ written'[k] \subseteq Grid(lowest'[k], StackStart(place[k]))
        /\ ~sparse'[k] =>
             /\ ~sparse[k]
             /\ Grid(lowest'[k], Saved(place[k]) + 1) \subseteq written'[k]
    BY <1>1, PushWords
  <2>3. top - n * Word \in Int
    BY FrameWords
  <2>4. lowest'[k] <= s /\ lowest'[k] <= Saved(place[k])
    BY <1>1, <2>2, <2>3, PlaceWords DEF StackOf
  <2> QED
    BY <1>1, <1>3, <2>1, <2>2, <2>4 DEF StackOf
<1> QED
  BY <1>2, <1>3, <1>4, <1>5 DEF StackInv

(* A step that touches no stack leaves StackInv alone.                     *)
LEMMA StackKept ==
  ASSUME GuardInv,
         UNCHANGED <<place, sp, written, lowest, sparse>>,
         DOMAIN magic' = DOMAIN magic, DOMAIN finished' = DOMAIN finished
  PROVE  StackTypes' /\ StackInv'
BY DEF GuardInv, StackTypes, StackInv, StackOf, Ready

(* koro_init: a stack with nothing on it but a first context.              *)
LEMMA KoroInitStack ==
  ASSUME GuardInv, NEW k \in Koros, NEW p \in Places, KoroInit(k, p)
  PROVE  StackTypes' /\ StackInv' /\ BodyInv'
<1>1. PICK start, saved, made :
        /\ start = StackStart(p) /\ saved = Saved(p)
        /\ made = {start - i * Word : i \in Made}
  OBVIOUS
<1>2. /\ p \in Accepted /\ current # k
      /\ place' = [place EXCEPT ![k] = p]
      /\ magic' = [magic EXCEPT ![k] = TRUE]
      /\ finished' = [finished EXCEPT ![k] = FALSE]
      /\ sp' = [sp EXCEPT ![k] = start]
      /\ lowest' = [lowest EXCEPT ![k] = saved]
      /\ written' = [written EXCEPT ![k] = made]
      /\ sparse' = [sparse EXCEPT ![k] = saved < StackEnd(p)]
      /\ UNCHANGED current
  BY <1>1 DEF KoroInit, Kept, Accepted, Saved
<1>3. DOMAIN place = Koros
  BY DEF GuardInv, DebugInv, PlaceInv
<1>4. StackTypes'
  <2>1. (saved < StackEnd(p)) \in BOOLEAN
    OBVIOUS
  <2>2. sparse' \in [Koros -> BOOLEAN]
    BY <1>2, <2>1, Zenon DEF GuardInv, StackTypes
  <2> QED
    BY <1>2, <2>2 DEF GuardInv, StackTypes
<1>5. \A j \in Ready' \ {k} :
        /\ j \in Ready
        /\ place'[j] = place[j] /\ sp'[j] = sp[j] /\ lowest'[j] = lowest[j]
        /\ written'[j] = written[j] /\ sparse'[j] = sparse[j]
        /\ finished'[j] = finished[j]
  BY <1>2, <1>3 DEF GuardInv, StackTypes, Ready
<1>6. /\ place'[k] = p /\ sp'[k] = start
      /\ lowest'[k] = saved /\ written'[k] = made
  BY <1>2, <1>3 DEF GuardInv, StackTypes
<1>7. ~sparse'[k] => ~(saved < StackEnd(p))
  <2>1. sparse'[k] = (saved < StackEnd(p))
    BY <1>2, Zenon DEF GuardInv, StackTypes
  <2> QED
    BY <2>1, Zenon
<1>8. /\ start \in Int /\ start % Word = 0 /\ StackEnd(p) \in Nat
      /\ saved \in Int /\ saved % Word = 0 /\ saved < start
  BY <1>1, <1>2, PlaceWords
<1>9. made \subseteq Grid(saved, start) /\ saved \in made
  <2>1. Context \in Nat /\ Made \in SUBSET (1..Context) /\ Context \in Made
    BY GuardAssumption
  <2>2. made \subseteq Grid(start - Context * Word, start)
    BY <1>1, <1>8, <2>1, FrameWords
  <2> QED
    BY <1>1, <2>1, <2>2 DEF Saved
<1>10. Grid(saved, saved + 1) \subseteq made
  <2>1. \A m \in Grid(saved, saved + 1) : m = saved
    BY <1>8, GridType
  <2> QED
    BY <1>9, <2>1
<1>11. ASSUME NEW j \in Ready' PROVE StackOf(j)'
  <2>1. CASE j = k
    BY <2>1, <1>1, <1>6, <1>7, <1>8, <1>9, <1>10 DEF StackOf
  <2>2. CASE j # k
    <3>1. StackOf(j)
      BY <2>2, <1>5 DEF GuardInv, StackInv
    <3> QED
      BY <2>2, <3>1, <1>5 DEF StackOf
  <2> QED
    BY <2>1, <2>2
<1>12. StackInv'
  BY <1>11 DEF StackInv
<1>13. BodyInv'
  <2>1. CASE current # None
    <3>1. current \in Koros
      BY <2>1, CurrentReady, ReadyPlace DEF GuardInv, DebugInv
    <3>2. /\ sp'[current] = sp[current] /\ place'[current] = place[current]
          /\ finished'[current] = finished[current]
      BY <1>2, <1>3, <3>1 DEF GuardInv, StackTypes
    <3> QED
      BY <1>2, <3>2 DEF GuardInv, BodyInv
  <2>2. CASE current = None
    BY <1>2, <2>2 DEF BodyInv
  <2> QED
    BY <2>1, <2>2
<1> QED
  BY <1>4, <1>12, <1>13

(* What GuardInv says of a body under way.                                 *)
LEMMA BodyStack ==
  ASSUME GuardInv, InBody
  PROVE  LET p == place[current] IN
         /\ current \in Ready /\ current \in Koros /\ p \in Accepted
         /\ PlaceInv /\ StackTypes /\ StackInv /\ StackOf(current)
         /\ sp[current] <= Base(p)
         /\ Base(p) \in Int /\ Base(p) % Word = 0
         /\ StackStart(p) \in Int /\ Base(p) < StackStart(p)
<1>1. current \in Ready
  BY CurrentReady DEF GuardInv, InBody
<1>2. current \in Koros /\ place[current] \in Accepted
  BY <1>1, ReadyPlace DEF GuardInv, DebugInv
<1> QED
  BY <1>1, <1>2, PlaceWords
  DEF GuardInv, DebugInv, StackInv, BodyInv, InBody

(* koro_run: a first run calls the body.                                   *)
LEMMA KoroRunStack ==
  ASSUME GuardInv, NEW k \in Koros, NEW W \in SUBSET (1..Entry), KoroRun(k, W)
  PROVE  StackTypes' /\ StackInv' /\ BodyInv'
<1>1. k \in Ready /\ place[k] \in Accepted /\ k # None
  BY ReadyPlace, GuardAssumption DEF KoroRun, GuardInv, DebugInv
<1>2. CASE Stop
  <2>1. UNCHANGED <<place, magic, finished, current, sp, written, lowest,
                    sparse>>
    BY <1>2 DEF Stop, koroVars, stackVars
  <2> QED
    BY <2>1, StackKept DEF GuardInv, BodyInv
<1>3. CASE /\ current' = k
           /\ sp[k] = StackStart(place[k])
           /\ sp' = [sp EXCEPT ![k] = Base(place[k])]
           /\ Push(k, sp[k], Entry, W)
           /\ UNCHANGED finished
  <2>1. StackOf(k)
    BY <1>1 DEF GuardInv, StackInv
  <2>2. Entry \in Nat /\ Entry \in Int
    BY GuardAssumption
  <2>3. /\ Base(place[k]) \in Int /\ Base(place[k]) % Word = 0
        /\ Base(place[k]) < StackStart(place[k])
        /\ StackStart(place[k]) \in Int
    BY <1>1, PlaceWords
  <2>4. /\ sp[k] \in Int /\ sp[k] % Word = 0 /\ lowest[k] <= sp[k]
        /\ sp[k] - Entry * Word <= Base(place[k])
    BY <1>3, <2>1, <2>3 DEF StackOf, Base
  <2>5. StackTypes' /\ StackInv'
    <3>1. PICK top, s : top = sp[k] /\ s = Base(place[k])
      OBVIOUS
    <3>2. /\ top \in Int /\ top % Word = 0
          /\ lowest[k] <= top /\ top <= StackStart(place[k])
          /\ s \in Int /\ s % Word = 0 /\ s <= StackStart(place[k])
          /\ s = StackStart(place[k]) \/ s <= Base(place[k])
          /\ lowest[k] <= s \/ top - Entry * Word <= s
      BY <1>3, <2>3, <2>4, <3>1
    <3>3. /\ PlaceInv /\ StackTypes /\ StackInv
          /\ DOMAIN finished' = DOMAIN finished
      BY <1>3 DEF GuardInv, DebugInv
    <3>4. Push(k, top, Entry, W) /\ sp' = [sp EXCEPT ![k] = s]
      BY <1>3, <3>1
    <3> QED
      BY <1>1, <2>1, <2>2, <3>2, <3>3, <3>4, PushStep, Zenon
  <2>6. sp'[k] = Base(place[k]) /\ place' = place
    BY <1>3 DEF GuardInv, StackTypes, Push
  <2> QED
    BY <1>3, <2>3, <2>5, <2>6 DEF BodyInv
<1>4. CASE /\ current' = k
           /\ sp[k] # StackStart(place[k])
           /\ UNCHANGED <<koroVars, stackVars>>
  <2>1. UNCHANGED <<place, magic, finished, sp, written, lowest, sparse>>
    BY <1>4 DEF koroVars, stackVars
  <2>2. sp[k] <= Base(place[k])
    BY <1>1, <1>4 DEF GuardInv, StackInv, StackOf
  <2> QED
    BY <1>4, <2>1, <2>2, StackKept DEF BodyInv
<1> QED
  BY <1>2, <1>3, <1>4 DEF KoroRun

(* koro_yield: the stack pointer is where it was when it comes back.       *)
LEMMA KoroYieldStack ==
  ASSUME GuardInv, NEW n \in 0..MaxFrame, NEW W \in SUBSET (1..n),
         KoroYield(n, W)
  PROVE  StackTypes' /\ StackInv' /\ BodyInv'
<1>1. InBody
  BY DEF KoroYield
<1>2. CASE Stop
  <2>1. UNCHANGED <<place, magic, finished, current, sp, written, lowest,
                    sparse>>
    BY <1>2 DEF Stop, koroVars, stackVars
  <2> QED
    BY <2>1, StackKept DEF GuardInv, BodyInv
<1>3. CASE SwitchBack(n, W)
  <2> DEFINE all == W \union (n + 1)..(n + Context)
  <2>1. /\ Push(current, sp[current], n + Context, all)
        /\ UNCHANGED <<sp, finished>>
        /\ current' = current \/ current' = None
    BY <1>3 DEF SwitchBack, Back
  <2>2. n + Context \in Nat /\ all \in SUBSET (1..(n + Context))
    <3>1. n \in Nat /\ Context \in Nat /\ MaxFrame \in Nat
      BY GuardAssumption
    <3>2. (n + 1)..(n + Context) \subseteq 1..(n + Context)
      BY <3>1
    <3>3. 1..n \subseteq 1..(n + Context)
      BY <3>1
    <3> QED
      BY <3>1, <3>2, <3>3
  <2> HIDE DEF all
  <2>3. StackOf(current)
    BY <1>1, BodyStack
  <2>4. /\ sp[current] \in Int /\ sp[current] % Word = 0
        /\ lowest[current] <= sp[current]
        /\ sp[current] <= StackStart(place[current])
        /\ \/ sp[current] = StackStart(place[current])
           \/ sp[current] <= Base(place[current])
    BY <2>3 DEF StackOf
  <2>5. StackTypes' /\ StackInv'
    <3>1. PICK k, top : k = current /\ top = sp[k]
      OBVIOUS
    <3>2. /\ top \in Int /\ top % Word = 0
          /\ lowest[k] <= top /\ top <= StackStart(place[k])
          /\ top = StackStart(place[k]) \/ top <= Base(place[k])
          /\ lowest[k] <= top \/ top - (n + Context) * Word <= top
      BY <2>4, <3>1
    <3>3. /\ PlaceInv /\ StackTypes /\ StackInv /\ k \in Ready
          /\ DOMAIN finished' = DOMAIN finished
      BY <1>1, <2>1, <3>1, BodyStack
    <3>4. Push(k, top, n + Context, all) /\ sp' = sp
      BY <2>1, <3>1
    <3> QED
      BY <2>2, <3>1, <3>2, <3>3, <3>4, PushStep, Zenon
  <2> QED
    BY <2>1, <2>5 DEF GuardInv, BodyInv, Push
<1> QED
  BY <1>2, <1>3 DEF KoroYield

(* A body calls a function.                                                *)
LEMMA CallStack ==
  ASSUME GuardInv, NEW n \in 1..MaxFrame, NEW W \in SUBSET (1..n), Call(n, W)
  PROVE  StackTypes' /\ StackInv' /\ BodyInv'
<1>1. InBody
  BY DEF Call
<1>2. PICK k, low, base :
        k = current /\ low = sp[k] - n * Word /\ base = Base(place[k])
  OBVIOUS
<1>3. /\ sp' = [sp EXCEPT ![k] = low]
      /\ Push(k, sp[k], n, W)
      /\ UNCHANGED <<finished, current>>
  BY <1>2 DEF Call
<1>4. /\ k \in Ready /\ k \in Koros /\ StackOf(k)
      /\ PlaceInv /\ StackTypes /\ StackInv
      /\ sp[k] <= base /\ base \in Int /\ StackStart(place[k]) \in Int
      /\ base < StackStart(place[k])
  BY <1>1, <1>2, BodyStack
<1>5. n \in Nat /\ n \in Int
  OBVIOUS
<1>6. /\ sp[k] \in Int /\ sp[k] % Word = 0
      /\ lowest[k] <= sp[k] /\ sp[k] <= StackStart(place[k])
  BY <1>4 DEF StackOf
<1>7. low \in Int /\ low % Word = 0 /\ low <= sp[k]
  BY <1>2, <1>5, <1>6, FrameWords
<1>8. low <= base /\ low <= StackStart(place[k])
  BY <1>4, <1>6, <1>7
<1>9. StackTypes' /\ StackInv'
  <2>1. PICK top : top = sp[k]
    OBVIOUS
  <2>2. /\ top \in Int /\ top % Word = 0
        /\ lowest[k] <= top /\ top <= StackStart(place[k])
        /\ low = StackStart(place[k]) \/ low <= Base(place[k])
        /\ lowest[k] <= low \/ top - n * Word <= low
    BY <1>2, <1>6, <1>7, <1>8, <2>1
  <2>3. DOMAIN finished' = DOMAIN finished
    BY <1>3
  <2>4. Push(k, top, n, W)
    BY <1>3, <2>1
  <2> QED
    BY <1>3, <1>4, <1>5, <1>7, <1>8, <2>2, <2>3, <2>4, PushStep, Zenon
<1>10. BodyInv'
  BY <1>2, <1>3, <1>4, <1>8 DEF BodyInv, Push, StackTypes
<1> QED
  BY <1>9, <1>10

(* The body ends.                                                          *)
LEMMA BodyReturnStack ==
  ASSUME GuardInv, BodyReturn
  PROVE  StackTypes' /\ StackInv' /\ BodyInv'
<1>1. InBody
  BY DEF BodyReturn
<1>2. PICK k, base : k = current /\ base = Base(place[k])
  OBVIOUS
<1>3. /\ sp' = [sp EXCEPT ![k] = base]
      /\ Push(k, base, Context, 1..Context)
      /\ finished' = [finished EXCEPT ![k] = TRUE]
      /\ UNCHANGED current
  BY <1>2 DEF BodyReturn
<1>4. /\ k \in Ready /\ k \in Koros /\ StackOf(k)
      /\ PlaceInv /\ StackTypes /\ StackInv
      /\ sp[k] <= base /\ base \in Int /\ base % Word = 0
      /\ StackStart(place[k]) \in Int /\ base < StackStart(place[k])
  BY <1>1, <1>2, BodyStack
<1>5. Context \in Nat /\ 1..Context \in SUBSET (1..Context)
  BY GuardAssumption
<1>6. lowest[k] <= base /\ base <= StackStart(place[k])
  BY <1>4 DEF StackOf
<1>7. StackTypes' /\ StackInv'
  <2>1. DOMAIN finished' = DOMAIN finished
    BY <1>3
  <2>2. /\ base = StackStart(place[k]) \/ base <= Base(place[k])
        /\ lowest[k] <= base \/ base - Context * Word <= base
    BY <1>2, <1>4, <1>6
  <2> QED
    BY <1>3, <1>4, <1>5, <1>6, <2>1, <2>2, PushStep, Zenon
<1>8. BodyInv'
  <2>1. finished'[k]
    BY <1>3, <1>4 DEF StackTypes
  <2> QED
    BY <1>2, <1>3, <2>1 DEF BodyInv
<1> QED
  BY <1>7, <1>8

(* A body returns from its functions: what they have written stays.        *)
LEMMA ReturnStack ==
  ASSUME GuardInv, NEW n \in 1..MaxFrame, Return(n)
  PROVE  StackTypes' /\ StackInv' /\ BodyInv'
<1>1. InBody
  BY DEF Return
<1>2. PICK k, s, base :
        k = current /\ s = sp[k] + n * Word /\ base = Base(place[k])
  OBVIOUS
<1>3. /\ sp' = [sp EXCEPT ![k] = s] /\ s <= base
      /\ UNCHANGED <<place, magic, finished, current, written, lowest, sparse>>
  BY <1>2 DEF Return, koroVars
<1>4. /\ k \in Ready /\ k \in Koros /\ StackOf(k)
      /\ PlaceInv /\ StackTypes /\ StackInv
      /\ base \in Int /\ StackStart(place[k]) \in Int
      /\ base < StackStart(place[k])
  BY <1>1, <1>2, BodyStack
<1>5. s \in Int /\ s % Word = 0 /\ sp[k] <= s
  <2>1. -n \in Int /\ sp[k] \in Int /\ sp[k] % Word = 0
    BY <1>4 DEF StackOf
  <2>2. (sp[k] - (-n) * Word) % Word = 0
    BY <2>1, WordsApart
  <2>3. n * Word \in Int /\ n * Word >= 0 /\ (-n) * Word = -(n * Word)
    BY GuardAssumption, Z3
  <2>4. sp[k] - (-n) * Word = s
    BY <1>2, <2>1, <2>3
  <2> QED
    BY <1>2, <2>1, <2>2, <2>3, <2>4
<1>6. StackTypes'
  BY <1>3, <1>4 DEF StackTypes
<1>7. ASSUME NEW j \in Ready PROVE StackOf(j)'
  <2>1. StackOf(j)
    BY DEF GuardInv, StackInv
  <2>2. CASE j = k
    <3>1. sp'[k] = s
      BY <1>3, <1>4 DEF StackTypes
    <3>2. lowest[k] <= s /\ s <= StackStart(place[k])
      BY <1>3, <1>4, <1>5 DEF StackOf
    <3> QED
      BY <2>1, <2>2, <3>1, <3>2, <1>2, <1>3, <1>5 DEF StackOf
  <2>3. CASE j # k
    BY <2>1, <2>3, <1>3 DEF StackOf
  <2> QED
    BY <2>2, <2>3
<1>8. StackInv'
  BY <1>3, <1>7 DEF StackInv, Ready
<1>9. BodyInv'
  BY <1>2, <1>3, <1>4 DEF BodyInv, StackTypes
<1> QED
  BY <1>6, <1>8, <1>9

(* Every step keeps the invariant of the stacks.                           *)
LEMMA NextGuard ==
  ASSUME GuardInv, [Next]_vars
  PROVE  GuardInv'
<1>1. DebugInv'
  BY NextDebug DEF GuardInv
<1>2. CASE UNCHANGED <<place, magic, finished, current, sp, written, lowest,
                       sparse>>
  <2>1. StackTypes' /\ StackInv' /\ BodyInv'
    BY <1>2, StackKept DEF GuardInv, BodyInv
  <2> QED
    BY <1>1, <2>1 DEF GuardInv
<1>3. CASE BackInRun
  <2>1. current' = None /\ UNCHANGED <<place, magic, finished, stackVars>>
    BY <1>3 DEF BackInRun, Back, koroVars
  <2>2. StackTypes' /\ StackInv' /\ BodyInv'
    BY <2>1, StackKept DEF BodyInv, stackVars
  <2> QED
    BY <1>1, <2>2 DEF GuardInv
<1>4. ASSUME NEW i \in Slots,
             DebuggerClear(i) \/ \E w \in Watched : DebuggerSet(i, w)
      PROVE  GuardInv'
  BY <1>2, <1>4 DEF DebuggerClear, DebuggerSet, koroVars, stackVars
<1>5. CASE UNCHANGED vars
  BY <1>2, <1>5 DEF vars, koroVars, stackVars
<1>6. CASE StackTypes' /\ StackInv' /\ BodyInv'
  BY <1>1, <1>6 DEF GuardInv
<1> QED
  BY <1>3, <1>4, <1>5, <1>6, KoroInitStack, KoroRunStack, KoroYieldStack,
     CallStack, BodyReturnStack, ReturnStack DEF Next

(* The invariant of the stacks holds in every reachable state.             *)
LEMMA GuardInvariant == Spec => []GuardInv
<1>1. ASSUME Init PROVE GuardInv
  <2>1. DebugInv
    BY <1>1 DEF Init, DebugInv, PlaceInv, DebugTypeOK, DebuggersKept,
                OursIsFound, Addresses
  <2>2. Ready = {} /\ current = None
    BY <1>1 DEF Init, Ready
  <2>3. StackTypes
    BY <1>1 DEF Init, StackTypes
  <2> QED
    BY <2>1, <2>2, <2>3 DEF GuardInv, StackInv, BodyInv
<1>2. GuardInv /\ [Next]_vars => GuardInv'
  BY NextGuard
<1> QED
  BY <1>1, <1>2, PTL DEF Spec

-------------------------------------------------------------------------------
(* What the watermark and koro_yield see of it                             *)

(* What the watermark of one coroutine is.                                 *)
LEMMA WatermarkOf ==
  ASSUME GuardInv, NEW k \in Ready
  PROVE  LET start == StackStart(place[k])
             end   == StackEnd(place[k])
             low   == IF lowest[k] < end THEN end ELSE lowest[k]
             peak  == IF low < start THEN start - low ELSE 0 IN
         /\ Watermark(k) < peak + Word
         /\ ~sparse[k] => Watermark(k) >= peak
<1> DEFINE p == place[k]
<1>1. p \in Accepted
  BY ReadyPlace DEF GuardInv, DebugInv
<1>2. PICK start, end, saved, l, low, peak, used :
        /\ start = StackStart(p) /\ end = StackEnd(p) /\ saved = Saved(p)
        /\ l = lowest[k]
        /\ low = IF l < end THEN end ELSE l
        /\ peak = IF low < start THEN start - low ELSE 0
        /\ used = {n \in Words(p) : Changed(k, n)}
  OBVIOUS
<1> HIDE DEF p
<1>3. /\ end \in Nat /\ start \in Int /\ saved \in Int /\ saved < start
      /\ Word \in Nat \ {0}
  BY <1>1, <1>2, PlaceWords, GuardAssumption
<1>4. /\ l \in Int /\ l % Word = 0
      /\ written[k] \subseteq Grid(l, start)
      /\ ~sparse[k] => end <= saved /\ Grid(l, saved + 1) \subseteq written[k]
      /\ l <= saved
  BY <1>2 DEF GuardInv, StackInv, StackOf, p
<1>5. \A n : n \in Words(p) <=>
               /\ n \in Int /\ end <= n /\ n < start
               /\ (n - end) % Word = 0
  BY <1>2, <1>3 DEF Words
<1>6. used \subseteq Nat
  BY <1>2, <1>3, <1>5
<1>7. Watermark(k) = IF used = {} THEN 0 ELSE start - Least(used)
  BY <1>2 DEF Watermark, p
<1>8. used # {} => Least(used) \in used /\ \A n \in used : Least(used) <= n
  BY <1>6, LeastIsLeast
<1>9. Watermark(k) < peak + Word
  <2>1. CASE used = {}
    BY <2>1, <1>2, <1>3, <1>4, <1>7
  <2>2. CASE used # {}
    <3>1. PICK n \in used : Watermark(k) = start - n
      BY <2>2, <1>7, <1>8
    <3>2. n \in Int /\ end <= n /\ n < start
      BY <1>2, <1>5
    <3>3. PICK w \in written[k] : w < n + Word
      BY <1>2 DEF Changed, Overlap
    <3>4. w \in Int /\ l <= w
      BY <1>3, <1>4, GridType
    <3> QED
      BY <3>1, <3>2, <3>3, <3>4, <1>2, <1>3, <1>4
  <2> QED
    BY <2>1, <2>2
<1>10. ASSUME ~sparse[k], NEW n \in Int, end <= n, n <= low, low < n + Word,
              (n - end) % Word = 0
       PROVE  Watermark(k) >= peak
  <2>1. end <= saved /\ Grid(l, saved + 1) \subseteq written[k]
    BY <1>4, <1>10
  <2>2. PICK f \in Int :
          /\ f % Word = 0 /\ f <= end /\ end < f + Word
          /\ \A a \in Int : a % Word = 0 /\ a <= end => a <= f
    BY <1>3, WordBelow
  <2>3. PICK w : w = IF l < end THEN f ELSE l
    OBVIOUS
  <2>4. w \in Int /\ w % Word = 0 /\ l <= w /\ w <= saved
    <3>1. CASE l < end
      <4>1. w = f
        BY <2>3, <3>1
      <4>2. l \in Int /\ l % Word = 0 /\ l <= end
        BY <3>1, <1>3, <1>4
      <4>3. l <= f
        BY <2>2, <4>2, Zenon
      <4> QED
        BY <2>1, <2>2, <4>1, <4>3, <1>3
    <3>2. CASE ~(l < end)
      BY <2>3, <3>2, <1>4
    <3> QED
      BY <3>1, <3>2
  <2>5. w \in written[k]
    BY <2>1, <2>4, <1>3, <1>4, GridType
  <2>6. w < n + Word /\ n < w + Word
    BY <2>2, <2>3, <1>2, <1>3, <1>4, <1>10
  <2>7. n \in used
    BY <2>1, <2>5, <2>6, <1>2, <1>3, <1>4, <1>5, <1>10 DEF Changed, Overlap
  <2>8. PICK m \in used : Watermark(k) = start - m /\ m <= n
    BY <2>7, <1>7, <1>8
  <2>9. m \in Int /\ m < start
    BY <1>2, <1>5
  <2> QED
    BY <2>8, <2>9, <1>2, <1>3, <1>4, <1>10
<1>11. \E n \in Int : /\ end <= n /\ n <= low /\ low < n + Word
                      /\ (n - end) % Word = 0
  <2>1. low - end \in Nat /\ low \in Int
    BY <1>2, <1>3, <1>4
  <2>2. PICK f \in Int :
          /\ f % Word = 0 /\ f <= low - end /\ low - end < f + Word
          /\ \A a \in Int : a % Word = 0 /\ a <= low - end => a <= f
    BY <2>1, WordBelow
  <2>3. 0 % Word = 0
    BY <1>3, Z3
  <2>4. 0 <= f
    BY <2>1, <2>2, <2>3
  <2>5. f + end \in Int /\ (f + end) - end = f
    BY <2>2, <1>3
  <2>6. /\ end <= f + end /\ f + end <= low /\ low < (f + end) + Word
        /\ ((f + end) - end) % Word = 0
    BY <2>1, <2>2, <2>4, <2>5, <1>3
  <2> QED
    BY <2>5, <2>6
<1>12. ~sparse[k] => Watermark(k) >= peak
  BY <1>10, <1>11
<1> QED
  BY <1>2, <1>9, <1>12 DEF p

(* koro_calculate_stack_watermark tells no more than a whole word above    *)
(* what a coroutine has used of its memory since koro_init, and tells no   *)
(* less if its functions write all of their frames: WatermarkIsPeak of the *)
(* run "guard".                                                            *)
THEOREM WatermarkTellsPeak ==
  Spec => []WatermarkIsPeak
<1>1. GuardInv => WatermarkIsPeak
  BY WatermarkOf DEF WatermarkIsPeak
<1> QED
  BY <1>1, GuardInvariant, PTL

(* Who has reached the end of the memory has changed the last word.        *)
LEMMA EndChanged ==
  ASSUME GuardInv, NEW k \in Ready, ~sparse[k],
         lowest[k] <= StackEnd(place[k])
  PROVE  Changed(k, StackEnd(place[k]))
<1>1. PICK end, saved : end = StackEnd(place[k]) /\ saved = Saved(place[k])
  OBVIOUS
<1>2. end \in Nat /\ saved \in Int /\ Word \in Nat \ {0}
  BY <1>1, ReadyPlace, PlaceWords, GuardAssumption DEF GuardInv, DebugInv
<1>3. /\ lowest[k] \in Int /\ lowest[k] % Word = 0
      /\ end <= saved /\ Grid(lowest[k], saved + 1) \subseteq written[k]
  BY <1>1 DEF GuardInv, StackInv, StackOf
<1>4. PICK f \in Int :
        /\ f % Word = 0 /\ f <= end /\ end < f + Word
        /\ \A a \in Int : a % Word = 0 /\ a <= end => a <= f
  BY <1>2, WordBelow
<1>5. lowest[k] <= f /\ f <= saved
  BY <1>1, <1>2, <1>3, <1>4
<1>6. f \in written[k]
  BY <1>2, <1>3, <1>4, <1>5, GridType
<1>7. Overlap(f, end)
  BY <1>2, <1>4 DEF Overlap
<1> QED
  BY <1>1, <1>6, <1>7 DEF Changed

(* The first half of OverflowNoticed: only koro_yield, which looks at the  *)
(* last word, and the end of a body come back.                             *)
LEMMA YieldLooks ==
  ASSUME GuardInv, [Next]_vars, NEW k \in Ready,
         current = k, current' = None, ~finished[k], ~sparse[k]
  PROVE  lowest[k] > StackEnd(place[k])
<1>1. k # None /\ k \in Koros
  BY ReadyPlace, GuardAssumption DEF GuardInv, DebugInv
<1>2. PICK n \in 0..MaxFrame : \E W \in SUBSET (1..n) : KoroYield(n, W)
  <2>1. current' # current
    BY <1>1
  <2>2. \A j, W : ~KoroRun(j, W)
    BY <1>1 DEF KoroRun, Stop
  <2>3. ~BackInRun
    BY DEF BackInRun
  <2>4. /\ \A j \in Koros, p \in Places : ~KoroInit(j, p)
        /\ ~BodyReturn
        /\ \A m : ~Return(m)
        /\ \A m, W : ~Call(m, W)
    BY <2>1 DEF KoroInit, BodyReturn, Return, Call
  <2>5. \A i \in Slots :
          ~DebuggerClear(i) /\ \A w \in Watched : ~DebuggerSet(i, w)
    BY <2>1 DEF DebuggerClear, DebuggerSet
  <2>6. ~UNCHANGED vars
    BY <2>1 DEF vars
  <2> QED
    BY <2>2, <2>3, <2>4, <2>5, <2>6 DEF Next
<1>3. ~Changed(k, StackEnd(place[k]))
  BY <1>1, <1>2 DEF KoroYield, Stop
<1>4. lowest[k] \in Int /\ StackEnd(place[k]) \in Nat
  BY ReadyPlace, PlaceWords DEF GuardInv, DebugInv, StackInv, StackOf
<1> QED
  BY <1>3, <1>4, EndChanged

(* The second half: whatever pushes reaches the end where the processor    *)
(* looks.                                                                  *)
LEMMA GuardHits ==
  ASSUME GuardInv, [Next]_vars, NEW k \in Ready,
         \/ current = k /\ Watching(StackEnd(place[k]))
         \/ current' = k /\ Watching(StackEnd(place[k]))',
         lowest[k] > StackEnd(place[k]), lowest'[k] <= StackEnd(place[k]),
         ~sparse'[k]
  PROVE  stopped'
<1>1. k # None /\ k \in Koros /\ place[k] \in Accepted
  BY ReadyPlace, GuardAssumption DEF GuardInv, DebugInv
<1>2. StackOf(k) /\ PlaceInv /\ StackTypes
  BY DEF GuardInv, DebugInv, StackInv
<1>3. lowest'[k] # lowest[k]
  BY <1>1, <1>2, PlaceWords DEF StackOf
<1>4. ASSUME NEW top \in Int, top % Word = 0,
             lowest[k] <= top, top <= StackStart(place[k]),
             NEW n \in Nat, NEW W \in SUBSET (1..n), Push(k, top, n, W)
      PROVE  AtEnd(k, top, W)
  BY <1>2, <1>4, PushAtEnd, Zenon
<1>5. ASSUME NEW j \in Koros, NEW p \in Places, KoroInit(j, p)
      PROVE  stopped'
  <2>1. current # j /\ current' = current
    BY <1>5 DEF KoroInit
  <2>2. j # k
    BY <2>1
  <2>3. lowest'[k] = lowest[k]
    BY <1>1, <1>2, <1>5, <2>2 DEF KoroInit, StackTypes
  <2> QED
    BY <1>3, <2>3
<1>6. ASSUME NEW j \in Koros, NEW W \in SUBSET (1..Entry), KoroRun(j, W)
      PROVE  stopped'
  <2>1. CASE Stop
    BY <2>1, Zenon DEF Stop
  <2>2. CASE /\ current = None /\ current' = j
             /\ Push(j, sp[j], Entry, W)
             /\ stopped' =
                  (AtEnd(j, sp[j], W) /\ Watching(StackEnd(place[j]))')
    <3>1. j = k /\ Watching(StackEnd(place[k]))'
      BY <1>1, <2>2
    <3>2. Entry \in Nat
      BY GuardAssumption
    <3>3. /\ sp[k] \in Int /\ sp[k] % Word = 0
          /\ lowest[k] <= sp[k] /\ sp[k] <= StackStart(place[k])
      BY <1>2 DEF StackOf
    <3>4. AtEnd(j, sp[j], W)
      BY <2>2, <3>1, <3>2, <3>3, <1>4
    <3> QED
      BY <2>2, <3>1, <3>4, Zenon
  <2>3. CASE UNCHANGED stackVars
    BY <1>3, <2>3 DEF stackVars
  <2> QED
    BY <1>6, <2>1, <2>2, <2>3 DEF KoroRun
<1>7. ASSUME NEW n \in 0..MaxFrame, NEW W \in SUBSET (1..n), KoroYield(n, W)
      PROVE  stopped'
  <2>1. CASE Stop
    BY <2>1, Zenon DEF Stop
  <2>2. CASE SwitchBack(n, W)
    <3> DEFINE all == W \union (n + 1)..(n + Context)
    <3>1. /\ Push(current, sp[current], n + Context, all)
          /\ \/ stopped' = TRUE
             \/ ~Guarded(current, sp[current], all) /\ current' = None
      BY <2>2, Zenon DEF SwitchBack, Back
    <3>2. n + Context \in Nat /\ all \in SUBSET (1..(n + Context))
      <4>1. n \in Nat /\ Context \in Nat /\ MaxFrame \in Nat
        BY GuardAssumption
      <4>2. (n + 1)..(n + Context) \subseteq 1..(n + Context)
        BY <4>1
      <4>3. 1..n \subseteq 1..(n + Context)
        BY <4>1
      <4> QED
        BY <4>1, <4>2, <4>3
    <3> HIDE DEF all
    <3>3. CASE current = k /\ Watching(StackEnd(place[k]))
      <4>1. /\ sp[k] \in Int /\ sp[k] % Word = 0
            /\ lowest[k] <= sp[k] /\ sp[k] <= StackStart(place[k])
        BY <1>2 DEF StackOf
      <4>2. AtEnd(k, sp[k], all)
        BY <1>4, <3>1, <3>2, <3>3, <4>1
      <4>3. Guarded(current, sp[current], all)
        BY <3>3, <4>2 DEF Guarded
      <4> QED
        BY <3>1, <4>3, Zenon
    <3>4. CASE current' = k
      BY <1>1, <3>1, <3>4
    <3> QED
      BY <3>3, <3>4
  <2> QED
    BY <1>7, <2>1, <2>2 DEF KoroYield
<1>8. ASSUME UNCHANGED <<place, current, drVars>>,
             NEW top \in Int, top % Word = 0,
             lowest[current] <= top, top <= StackStart(place[current]),
             NEW n \in Nat, NEW W \in SUBSET (1..n), Push(current, top, n, W),
             stopped' = Guarded(current, top, W)
      PROVE  stopped'
  <2>1. current = k /\ Watching(StackEnd(place[k]))
    BY <1>8 DEF Watching, drVars
  <2>2. AtEnd(k, top, W)
    BY <1>4, <1>8, <2>1
  <2>3. Guarded(current, top, W)
    BY <2>1, <2>2 DEF Guarded
  <2> QED
    BY <1>8, <2>3, Zenon
<1>9. ASSUME NEW n \in 1..MaxFrame, NEW W \in SUBSET (1..n), Call(n, W)
      PROVE  stopped'
  <2>1. /\ UNCHANGED <<place, current, drVars>>
        /\ Push(current, sp[current], n, W)
        /\ stopped' = Guarded(current, sp[current], W)
    BY <1>9, Zenon DEF Call, Push
  <2>2. /\ sp[current] \in Int /\ sp[current] % Word = 0
        /\ lowest[current] <= sp[current]
        /\ sp[current] <= StackStart(place[current])
    BY <1>9, BodyStack DEF Call, StackOf
  <2>3. n \in Nat
    OBVIOUS
  <2> QED
    BY <1>8, <2>1, <2>2, <2>3
<1>10. CASE BodyReturn
  <2>1. PICK base : base = Base(place[current])
    OBVIOUS
  <2>2. /\ UNCHANGED <<place, current, drVars>>
        /\ Push(current, base, Context, 1..Context)
        /\ stopped' = Guarded(current, base, 1..Context)
    BY <1>10, <2>1, Zenon DEF BodyReturn, Push
  <2>3. /\ base \in Int /\ base % Word = 0
        /\ lowest[current] <= base
        /\ base <= StackStart(place[current])
    BY <1>10, <2>1, BodyStack DEF BodyReturn, StackOf
  <2>4. Context \in Nat /\ 1..Context \in SUBSET (1..Context)
    BY GuardAssumption
  <2> QED
    BY <1>8, <2>2, <2>3, <2>4
<1>11. CASE UNCHANGED lowest
  BY <1>3, <1>11
<1>12. /\ BackInRun => UNCHANGED lowest
       /\ \A n : Return(n) => UNCHANGED lowest
       /\ UNCHANGED vars => UNCHANGED lowest
       /\ \A i \in Slots : /\ DebuggerClear(i) => UNCHANGED lowest
                           /\ \A w \in Watched :
                                DebuggerSet(i, w) => UNCHANGED lowest
  BY DEF BackInRun, Return, vars, DebuggerClear, DebuggerSet, stackVars
<1> QED
  BY <1>5, <1>6, <1>7, <1>9, <1>10, <1>11, <1>12 DEF Next

(* A coroutine that has reached the end of its memory does not come back   *)
(* by koro_yield, and no step reaches it unnoticed while a register guards *)
(* it: OverflowNoticed of the run "guard".                                 *)
THEOREM OverflowStops ==
  Spec => OverflowNoticed
<1> DEFINE
     Noticed(k) ==
       LET end == StackEnd(place[k]) IN
       /\ current = k /\ current' = None /\ ~finished[k] /\ ~sparse[k] =>
            lowest[k] > end
       /\ \/ current = k /\ Watching(end)
          \/ current' = k /\ Watching(end)'
          => (lowest[k] > end /\ lowest'[k] <= end /\ ~sparse'[k] => stopped')
<1>1. GuardInv /\ [Next]_vars => [\A k \in Ready : Noticed(k)]_vars
  BY YieldLooks, GuardHits
<1>2. [][\A k \in Ready : Noticed(k)]_vars <=> OverflowNoticed
  BY DEF OverflowNoticed
<1> HIDE DEF Noticed
<1> QED
  BY <1>1, <1>2, GuardInvariant, PTL DEF Spec

===============================================================================
