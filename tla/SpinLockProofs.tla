--------------------------- MODULE SpinLockProofs ---------------------------
(***************************************************************************)
(* SpinLock for every set of threads and every nesting depth: its type     *)
(* invariant, its three safety invariants and the refinement of            *)
(* ReentrantLock.                                                          *)
(***************************************************************************)
EXTENDS SpinLock, TLAPS

(* What each place in the code knows of the three words.  The last conjunct  *)
(* is what makes the others inductive: the bit is set only while some thread *)
(* is in its section, so a thread that finds it clear finds nobody there.    *)
PlaceKnows ==
    \A t \in Threads :
        /\ pc[t] = "setCount" => count = 0 /\ owner = NoThread /\ depth[t] = 0
        /\ pc[t] = "setOwner" => count = 1 /\ owner = NoThread /\ depth[t] = 0
        /\ pc[t] = "clearOwner" => count = 0 /\ owner = t /\ depth[t] = 0
        /\ pc[t] = "clearSpin" => count = 0 /\ owner = NoThread /\ depth[t] = 0
        /\ InSection(t) => spin = 1

(* A thread with an acquisition under way has room for it. *)
RoomLeft ==
    \A t \in Threads :
        pc[t] \in {"spin", "peek", "exchange", "setCount", "setOwner", "compare"}
            => depth[t] < MaxDepth

(* The owner word never names a thread that has left its section. *)
OwnerIsIn ==
    \A t \in Threads : owner = t => depth[t] > 0 \/ pc[t] = "clearOwner"

OnlyOneIn == \A t, u \in Threads : InSection(t) /\ InSection(u) => t = u

IndInv ==
    /\ TypeOK
    /\ HolderOwns
    /\ OnlyOneIn
    /\ FreeIsClean
    /\ PlaceKnows
    /\ OwnerIsIn
    /\ RoomLeft

(* The initial words, all zero, satisfy it. *)
LEMMA InitHolds == Init => IndInv
  BY ThreadsAssumption, DepthAssumption
  DEF Init, IndInv, TypeOK, HolderOwns, OnlyOneIn, FreeIsClean, PlaceKnows,
      OwnerIsIn, RoomLeft, InSection

(* IndInv is preserved by every step of the lock: each memory access of      *)
(* lock(), tryLock() and unlock() leaves it true.                            *)
LEMMA StepKeeps == IndInv /\ [Next]_vars => IndInv'
<1> SUFFICES ASSUME IndInv, [Next]_vars PROVE IndInv'
  OBVIOUS
<1> USE ThreadsAssumption, DepthAssumption
    DEF IndInv, TypeOK, HolderOwns, OnlyOneIn, FreeIsClean, PlaceKnows,
        OwnerIsIn, RoomLeft, InSection, Goto
<1>0. CASE UNCHANGED vars
  BY <1>0 DEF vars
<1>1. ASSUME NEW t \in Threads, Lock(t) PROVE IndInv'
  BY <1>1 DEF Lock
<1>2. ASSUME NEW t \in Threads, TryLock(t) PROVE IndInv'
  BY <1>2 DEF TryLock
<1>3. ASSUME NEW t \in Threads, WaitSpin(t) PROVE IndInv'
  BY <1>3 DEF WaitSpin
<1>4. ASSUME NEW t \in Threads, WaitOwner(t) PROVE IndInv'
  BY <1>4 DEF WaitOwner
<1>5. ASSUME NEW t \in Threads, Exchange(t) PROVE IndInv'
  BY <1>5 DEF Exchange
<1>6. ASSUME NEW t \in Threads, SetCount(t) PROVE IndInv'
  BY <1>6 DEF SetCount
<1>7. ASSUME NEW t \in Threads, SetOwner(t) PROVE IndInv'
  BY <1>7 DEF SetOwner
<1>8. ASSUME NEW t \in Threads, Compare(t) PROVE IndInv'
  BY <1>8 DEF Compare
<1>9. ASSUME NEW t \in Threads, Unlock(t) PROVE IndInv'
  BY <1>9 DEF Unlock
<1>10. ASSUME NEW t \in Threads, ClearOwner(t) PROVE IndInv'
  BY <1>10 DEF ClearOwner
<1>11. ASSUME NEW t \in Threads, ClearSpin(t) PROVE IndInv'
  BY <1>11 DEF ClearSpin
<1> QED
  BY <1>0, <1>1, <1>2, <1>3, <1>4, <1>5, <1>6, <1>7, <1>8, <1>9, <1>10, <1>11
  DEF Next, Acquiring, Releasing
(* The state of a SpinLock always has its type. *)
THEOREM SpinLockTypes == Spec => []TypeOK
<1>1. IndInv => TypeOK
  BY DEF IndInv
<1> QED
  BY InitHolds, StepKeeps, <1>1, PTL DEF Spec

(* unlock()'s assertions hold at every call: the caller owns the lock and    *)
(* count is its nesting depth (spinlock.cpp:105-107).                        *)
THEOREM SpinLockHolderOwns == Spec => []HolderOwns
<1>1. IndInv => HolderOwns
  BY DEF IndInv
<1> QED
  BY InitHolds, StepKeeps, <1>1, PTL DEF Spec

(* One thread at a time is between the exchange that takes the bit and the   *)
(* one that clears it, and it finds count zero (spinlock.cpp:75-79).         *)
THEOREM SpinLockExclusive == Spec => []SectionExclusive
<1>1. IndInv => SectionExclusive
  BY DEF IndInv, OnlyOneIn, PlaceKnows, SectionExclusive
<1> QED
  BY InitHolds, StepKeeps, <1>1, PTL DEF Spec

(* A lock whose bit is clear has no owner and no count. *)
THEOREM SpinLockFreeIsClean == Spec => []FreeIsClean
<1>1. IndInv => FreeIsClean
  BY DEF IndInv
<1> QED
  BY InitHolds, StepKeeps, <1>1, PTL DEF Spec

(* Every step of the lock is a step of ReentrantLock or leaves depth alone:  *)
(* SetOwner and a successful Compare acquire, Unlock releases.               *)
LEMMA StepRefines == IndInv /\ [Next]_vars => [Abstract!Next]_depth
<1> SUFFICES ASSUME IndInv, [Next]_vars PROVE [Abstract!Next]_depth
  OBVIOUS
<1>1. ASSUME NEW t \in Threads, SetOwner(t) PROVE Abstract!Acquire(t)
  <2>1. InSection(t)
    BY <1>1 DEF SetOwner, InSection
  <2>2. \A u \in Threads \ {t} : depth[u] = 0
    BY <2>1 DEF IndInv, OnlyOneIn, InSection, TypeOK
  <2> QED
    BY <1>1, <2>2 DEF SetOwner, Abstract!Acquire, IndInv, RoomLeft
<1>2. ASSUME NEW t \in Threads, Compare(t) PROVE [Abstract!Acquire(t)]_depth
  <2>1. CASE owner = t
    <3>1. InSection(t)
      BY <1>2, <2>1 DEF InSection, IndInv, OwnerIsIn
    <3>2. \A u \in Threads \ {t} : depth[u] = 0
      BY <3>1 DEF IndInv, OnlyOneIn, InSection, TypeOK
    <3> QED
      BY <1>2, <2>1, <3>2 DEF Compare, Abstract!Acquire, IndInv, RoomLeft
  <2> QED
    BY <1>2, <2>1 DEF Compare
<1>3. ASSUME NEW t \in Threads, Unlock(t) PROVE Abstract!Release(t)
  BY <1>3 DEF Unlock, Abstract!Release
<1> QED
  BY <1>1, <1>2, <1>3
  DEF Next, Acquiring, Releasing, Lock, TryLock, WaitSpin, WaitOwner, Exchange,
      SetCount, ClearOwner, ClearSpin, Abstract!Next, vars

(* SpinLock implements ReentrantLock: what its callers are told is what a    *)
(* lock held by one thread at a time would tell them.                        *)
THEOREM SpinLockRefines == Spec => ImplementsReentrantLock
<1>1. Init => Abstract!Init
  BY DEF Init, Abstract!Init
<1> QED
  BY InitHolds, StepKeeps, StepRefines, <1>1, PTL
  DEF Spec, ImplementsReentrantLock, Abstract!Spec, Abstract!vars
=============================================================================
