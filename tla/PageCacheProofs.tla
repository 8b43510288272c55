--------------------------- MODULE PageCacheProofs ---------------------------
(***************************************************************************)
(* PageCache for every number of pages, sectors, offsets and threads: its  *)
(* reference counts, its three lists and its hash table are exact, and no  *)
(* write is lost.                                                          *)
(***************************************************************************)
EXTENDS PageCache, ListLemmas

-----------------------------------------------------------------------------
(* The lists that are made whole. *)

(* Init puts every page frame on the free list, once.                        *)
LEMMA AllFramesListed ==
  /\ SetToSeq(Pages) \in Seq(Pages)
  /\ ToSet(SetToSeq(Pages)) = Pages
  /\ Once(SetToSeq(Pages))
<1> DEFINE n == Cardinality(Pages)
<1>1. n \in Nat /\ ExistsBijection(1 .. n, Pages)
  BY CacheAssumption, FS_CardinalityType
<1>2. PICK b \in Bijection(1 .. n, Pages) : TRUE
  BY <1>1 DEF ExistsBijection
<1>3. b \in [1 .. n -> Pages] /\ IsInjective(b)
  BY <1>2 DEF Bijection, Injection, IsInjective
<1> DEFINE f == SetToSeq(Pages)
<1>4. f \in [1 .. n -> Pages] /\ IsInjective(f)
  BY <1>3 DEF SetToSeq
<1> HIDE DEF f
<1>5. f \in Seq(Pages) /\ Len(f) = n
  BY <1>1, <1>4
<1>6. \A i, j \in 1 .. n : f[i] = f[j] => i = j
  BY <1>4 DEF IsInjective
<1>7. ToSet(f) = Pages
  <2>1. ToSet(f) \subseteq Pages
    BY <1>5, ListElements
  <2>2. Once(f) /\ Cardinality(ToSet(f)) = n
    BY <1>5, <1>6, OnceCounts DEF Once
  <2> QED
    BY <2>1, <2>2, CacheAssumption, FS_Subset
<1> QED
  BY <1>5, <1>6, <1>7 DEF Once, f

(* setSize() finds every cached page of the part it cuts off, once.          *)
LEMMA BeyondLists ==
  ASSUME NEW n \in Nat, TypeOK, OnePagePerOffset
  PROVE  /\ Beyond(n) \in Seq(Pages)
         /\ ToSet(Beyond(n)) =
              {p \in Pages : page[p].hashed /\ page[p].off \in n .. size - 1}
         /\ Once(Beyond(n))
<1> DEFINE found(o) == IF lookup(o) = {} THEN None ELSE CHOOSE p \in lookup(o) : TRUE
           q == [i \in 1 .. size |-> IF i > n THEN found(i - 1) ELSE None]
           S == Pages \cup {None}
<1>1. size \in 0 .. MaxSize /\ size \in Nat
  BY CacheAssumption DEF TypeOK
<1>2. \A o : found(o) \in S /\ (found(o) # None => found(o) \in lookup(o))
  BY DEF lookup
<1>3. \A o : \A p \in lookup(o) : found(o) = p
  BY DEF lookup, OnePagePerOffset
<1>4. None \notin Pages
  BY CacheAssumption
<1> HIDE DEF found
<1>5. q \in [1 .. size -> S]
  BY <1>2
<1>6. q \in Seq(S) /\ Len(q) = size
  BY <1>1, <1>5
<1>7. \A i \in 1 .. size : q[i] \in Pages =>
         i > n /\ page[q[i]].hashed /\ page[q[i]].off = i - 1
  BY <1>2, <1>4 DEF lookup
<1>8. ASSUME NEW p \in Pages, page[p].hashed, page[p].off \in n .. size - 1
      PROVE  \E i \in 1 .. size : q[i] = p
  <2>1. page[p].off + 1 \in 1 .. size /\ page[p].off + 1 > n /\ (page[p].off + 1) - 1 = page[p].off
    BY <1>1, <1>8
  <2>2. p \in lookup(page[p].off)
    BY <1>8 DEF lookup
  <2>3. q[page[p].off + 1] = p
    BY <2>1, <2>2, <1>3
  <2> QED
    BY <2>1, <2>3
<1>9. Beyond(n) = Only(q, Pages)
  BY DEF Beyond, found
<1> HIDE DEF q
<1>10. /\ Only(q, Pages) \in Seq(S)
       /\ ToSet(Only(q, Pages)) = ToSet(q) \cap Pages
       /\ OnceAmong(q, Pages) => Once(Only(q, Pages))
  BY <1>6, OnlyLists
<1>11. \A x : x \in ToSet(q) <=> \E i \in 1 .. size : q[i] = x
  BY <1>6, ListElements
<1>12. \A p \in Pages : p \in ToSet(q) <=> page[p].hashed /\ page[p].off \in n .. size - 1
  <2> SUFFICES ASSUME NEW p \in Pages
               PROVE  p \in ToSet(q) <=> page[p].hashed /\ page[p].off \in n .. size - 1
    OBVIOUS
  <2>1. ASSUME p \in ToSet(q) PROVE page[p].hashed /\ page[p].off \in n .. size - 1
    BY <2>1, <1>1, <1>7, <1>11
  <2> QED
    BY <2>1, <1>8, <1>11
<1>13. OnceAmong(q, Pages)
  BY <1>6, <1>7 DEF OnceAmong
<1> QED
  BY <1>9, <1>10, <1>12, <1>13, SeqOfSubset

-----------------------------------------------------------------------------

UsePlaces == {"fill", "filling", "copy", "mark", "change"}
PagePlaces == UsePlaces \cup {"drop", "park", "clean", "snap", "store"}
OffPlaces == UsePlaces \cup {"get", "wait", "extend"}

(* Where a call is, and what its local variables hold there. *)
CallOK(t, c) ==
    /\ c.page # None <=> c.pc \in PagePlaces
    /\ t \in Threads =>
         /\ c.pc # "update" /\ c.then # "update"
         /\ c.op \in {"read", "write", "get"} => c.off \in Offsets
         /\ c.pc \in OffPlaces => c.op \in {"read", "write", "get"}
         /\ "flush" \in {c.pc, c.then} => c.op \notin {"idle", "put"}
    /\ t = Updater =>
         /\ c.pc \in {"idle", "update", "clean", "snap", "store", "drop", "park"}
         /\ c.pc # "idle" => c.then = "update"

PlacesOK == \A t \in Actors : CallOK(t, th[t])

(* A page frame is unused, the cached page of an offset below the size, or   *)
(* cut off and waiting for its last holder.                                  *)
PageOK(r, n) ==
    /\ r.hashed => r.off \in 0 .. n - 1 /\ ~r.free
    /\ r.free => r.off \in Offsets
    /\ r.changed => r.hashed
    /\ r.off = None <=> ~r.hashed /\ ~r.free
    /\ r.off = None => r.ref = 0

PagesOK == \A p \in Pages : PageOK(page[p], size)

(* A page that was cut off has a holder left, or one that parks it.          *)
Parked(p) == \E t \in Actors : th[t].pc = "park" /\ th[t].page = p

CutOffIsHeld == \A p \in Pages : page[p].free /\ page[p].ref = 0 => Parked(p)

(* Who parks a page has the last word on it. *)
ParkingAlone ==
    \A t \in Actors : th[t].pc = "park" =>
        /\ page[th[t].page].ref = 0 /\ page[th[t].page].off # None
        /\ \A u \in Actors \ {t} : th[u].pc # "park"

RefsOK ==
    /\ \A p \in Pages : IsFiniteSet(Callers(p)) /\ IsFiniteSet(Mappers(p))
    /\ RefExact

ListsOK ==
    /\ \A p \in Pages :
         /\ p \in ToSet(changedList) <=> page[p].changed
         /\ p \in ToSet(freeList) <=> page[p].off = None
         /\ p \in ToSet(standbyList) <=> page[p].ref = 0 /\ page[p].hashed /\ ~Parked(p)
    /\ Once(freeList) /\ Once(standbyList) /\ Once(changedList)

(* get() is called for a thread that maps nothing yet. *)
GetIsFirst == \A t \in Threads : th[t].op = "get" => mapped[t] = None

IndInv ==
    /\ TypeOK /\ PlacesOK /\ PagesOK /\ CutOffIsHeld /\ ParkingAlone /\ RefsOK /\ ListsOK
    /\ OnePagePerOffset /\ HeldStays /\ GetIsFirst

-----------------------------------------------------------------------------
One(b) == IF b THEN 1 ELSE 0

(* A step of one thread adds or removes that thread among the holders.       *)
LEMMA CallersStep ==
  ASSUME NEW t \in Actors, \A u \in Actors \ {t} : th'[u] = th[u],
         NEW p \in Pages, IsFiniteSet(Callers(p))
  PROVE  /\ IsFiniteSet(Callers(p)')
         /\ Cardinality(Callers(p)) \in Nat
         /\ Cardinality(Callers(p)') = Cardinality(Callers(p))
                + One(t \in Callers(p)') - One(t \in Callers(p))
<1>1. \A u \in Actors \ {t} : u \in Callers(p)' <=> u \in Callers(p)
  BY DEF Callers
<1>2. Callers(p) \subseteq Actors /\ Callers(p)' \subseteq Actors
  BY DEF Callers, Actors
<1>3. CASE t \in Callers(p)'
  <2>1. Callers(p)' = Callers(p) \cup {t}
    BY <1>1, <1>2, <1>3
  <2> QED
    BY <2>1, <1>3, FS_AddElement, FS_CardinalityType DEF One
<1>4. CASE t \notin Callers(p)'
  <2>1. Callers(p)' = Callers(p) \ {t}
    BY <1>1, <1>2, <1>4
  <2> QED
    BY <2>1, <1>4, FS_RemoveElement, FS_CardinalityType DEF One
<1> QED
  BY <1>3, <1>4

(* The same for the mappings. *)
LEMMA MappersStep ==
  ASSUME NEW t \in Actors, \A u \in Threads \ {t} : mapped'[u] = mapped[u],
         NEW p \in Pages, IsFiniteSet(Mappers(p))
  PROVE  /\ IsFiniteSet(Mappers(p)')
         /\ Cardinality(Mappers(p)) \in Nat
         /\ Cardinality(Mappers(p)') = Cardinality(Mappers(p))
                + One(t \in Mappers(p)') - One(t \in Mappers(p))
<1>1. \A u \in Threads \ {t} : u \in Mappers(p)' <=> u \in Mappers(p)
  BY DEF Mappers
<1>2. Mappers(p) \subseteq Threads /\ Mappers(p)' \subseteq Threads
  BY DEF Mappers
<1>3. CASE t \in Mappers(p)'
  <2>1. Mappers(p)' = Mappers(p) \cup {t}
    BY <1>1, <1>2, <1>3
  <2> QED
    BY <2>1, <1>3, FS_AddElement, FS_CardinalityType DEF One
<1>4. CASE t \notin Mappers(p)'
  <2>1. Mappers(p)' = Mappers(p) \ {t}
    BY <1>1, <1>2, <1>4
  <2> QED
    BY <2>1, <1>4, FS_RemoveElement, FS_CardinalityType DEF One
<1> QED
  BY <1>3, <1>4

(* The counts stay exact if each page's count moves with what the step does  *)
(* to the three kinds of references.                                         *)
LEMMA RefsStep ==
  ASSUME TypeOK, RefsOK, NEW t \in Actors,
         \A u \in Actors \ {t} : th'[u] = th[u],
         \A u \in Threads \ {t} : mapped'[u] = mapped[u],
         \A p \in Pages :
            /\ page'[p].ref \in Int
            /\ page'[p].ref - page[p].ref =
                  One(page'[p].changed) - One(page[p].changed)
                + One(t \in Callers(p)') - One(t \in Callers(p))
                + One(t \in Mappers(p)') - One(t \in Mappers(p))
  PROVE  RefsOK'
<1> SUFFICES ASSUME NEW p \in Pages
             PROVE  /\ IsFiniteSet(Callers(p)') /\ IsFiniteSet(Mappers(p)')
                    /\ page'[p].ref = Cardinality(Callers(p)') + Cardinality(Mappers(p)')
                                         + One(page'[p].changed)
  BY DEF RefsOK, RefExact, One
<1>1. /\ IsFiniteSet(Callers(p)) /\ IsFiniteSet(Mappers(p))
      /\ page[p].ref = Cardinality(Callers(p)) + Cardinality(Mappers(p)) + One(page[p].changed)
      /\ page[p].ref \in Nat
  BY DEF RefsOK, RefExact, One, TypeOK, PageObjects
<1>2. /\ IsFiniteSet(Callers(p)')
      /\ Cardinality(Callers(p)) \in Nat
      /\ Cardinality(Callers(p)') = Cardinality(Callers(p))
                + One(t \in Callers(p)') - One(t \in Callers(p))
  BY <1>1, CallersStep
<1>3. /\ IsFiniteSet(Mappers(p)')
      /\ Cardinality(Mappers(p)) \in Nat
      /\ Cardinality(Mappers(p)') = Cardinality(Mappers(p))
                + One(t \in Mappers(p)') - One(t \in Mappers(p))
  BY <1>1, MappersStep
<1>4. \A b : One(b) \in Int
  BY DEF One
<1> QED
  BY <1>1, <1>2, <1>3, <1>4

(* Whoever holds a page keeps its count from falling to zero.                *)
LEMMA HeldIsCounted ==
  ASSUME TypeOK, RefsOK, NEW p \in Pages
  PROVE  /\ page[p].changed => page[p].ref >= 1
         /\ \A t \in Actors : t \in Callers(p) =>
               page[p].ref >= 1 + One(page[p].changed)
         /\ \A t \in Threads : t \in Mappers(p) =>
               page[p].ref >= 1 + One(page[p].changed)
<1>1. /\ IsFiniteSet(Callers(p)) /\ IsFiniteSet(Mappers(p))
      /\ page[p].ref = Cardinality(Callers(p)) + Cardinality(Mappers(p)) + One(page[p].changed)
  BY DEF RefsOK, RefExact, One
<1>2. Cardinality(Callers(p)) \in Nat /\ Cardinality(Mappers(p)) \in Nat
  BY <1>1, FS_CardinalityType
<1>3. ASSUME NEW t \in Callers(p) PROVE Cardinality(Callers(p)) >= 1
  <2>1. Cardinality(Callers(p)) # 0
    BY <1>1, FS_EmptySet
  <2> QED
    BY <2>1, <1>2
<1>4. ASSUME NEW t \in Mappers(p) PROVE Cardinality(Mappers(p)) >= 1
  <2>1. Cardinality(Mappers(p)) # 0
    BY <1>1, FS_EmptySet
  <2> QED
    BY <2>1, <1>2
<1>5. One(page[p].changed) \in 0 .. 1 /\ (page[p].changed => One(page[p].changed) = 1)
  BY DEF One
<1> QED
  BY <1>1, <1>2, <1>3, <1>4, <1>5

-----------------------------------------------------------------------------
(* No thread is inside release() when another one takes a step.              *)
LEMMA NobodyParks ==
  ASSUME "preempt" \notin Allow, NEW t \in Actors, Switch(t), th[t].pc # "park"
  PROVE  /\ \A p : ~Parked(p)
         /\ \A u \in Actors : th[u].pc # "park"
  BY DEF Switch, Parked

(* The call of a thread holds a reference to a page. *)
Holds(c, p) == c.page = p /\ c.pc # "park"

(* A call moves on: what the new record must satisfy, and where it leads.    *)
LEMMA CallStep ==
  ASSUME TypeOK, PlacesOK, NEW t \in Actors, NEW c \in CallRecords, CallOK(t, c),
         th' = [th EXCEPT ![t] = c]
  PROVE  /\ th' \in [Actors -> CallRecords]
         /\ PlacesOK'
         /\ th'[t] = c
         /\ \A u \in Actors \ {t} : th'[u] = th[u]
<1>1. /\ th \in [Actors -> CallRecords]
      /\ th'[t] = c
      /\ \A u \in Actors \ {t} : th'[u] = th[u]
      /\ th' \in [Actors -> CallRecords]
  BY DEF TypeOK
<1>2. ASSUME NEW u \in Actors PROVE CallOK(u, th'[u])
  <2>1. CASE u = t
    BY <2>1, <1>1
  <2>2. CASE u # t
    BY <2>2, <1>1 DEF PlacesOK
  <2> QED
    BY <2>1, <2>2
<1> QED
  BY <1>1, <1>2 DEF PlacesOK, CallOK

(* A step of one thread that changes one page, and parks none.               *)
LEMMA OnePageStep ==
  ASSUME IndInv, NEW t \in Actors, \A u \in Actors : th[u].pc # "park",
         NEW p \in Pages, NEW r \in PageObjects, NEW c \in CallRecords,
         page' = [page EXCEPT ![p] = r],
         th' = [th EXCEPT ![t] = c],
         CallOK(t, c), c.pc # "park",
         PageOK(r, size), r.free => r.ref # 0, size' = size,
         r.hashed => \A q \in Pages \ {p} : ~(page[q].hashed /\ page[q].off = r.off),
         \A u \in Actors : th[u].page = p => r.off = page[p].off,
         t \in Threads /\ c.pc \in UsePlaces =>
            c.off = IF c.page = p THEN r.off ELSE page[c.page].off,
         \A u \in Threads \ {t} : mapped'[u] = mapped[u],
         mapped' \in [Threads -> Pages \cup {None}],
         t \in Threads /\ c.op = "get" => mapped'[t] = None,
         monitor' \in {None, Updater},
         store' \in [Offsets -> [Sectors -> BOOLEAN]],
         \A q \in Pages \ {p} :
            One(Holds(c, q)) + One(t \in Threads /\ mapped'[t] = q)
              = One(Holds(th[t], q)) + One(t \in Threads /\ mapped[t] = q),
         r.ref - page[p].ref =
              One(r.changed) - One(page[p].changed)
            + One(Holds(c, p)) - One(Holds(th[t], p))
            + One(t \in Threads /\ mapped'[t] = p) - One(t \in Threads /\ mapped[t] = p),
         freeList' \in Seq(Pages), standbyList' \in Seq(Pages), changedList' \in Seq(Pages),
         Once(freeList'), Once(standbyList'), Once(changedList'),
         \A q \in Pages \ {p} :
            /\ q \in ToSet(changedList') <=> q \in ToSet(changedList)
            /\ q \in ToSet(freeList') <=> q \in ToSet(freeList)
            /\ q \in ToSet(standbyList') <=> q \in ToSet(standbyList),
         p \in ToSet(changedList') <=> r.changed,
         p \in ToSet(freeList') <=> r.off = None,
         p \in ToSet(standbyList') <=> r.ref = 0 /\ r.hashed
  PROVE  IndInv'
<1> USE DEF IndInv
<1>1. /\ page \in [Pages -> PageObjects]
      /\ page'[p] = r
      /\ \A q \in Pages \ {p} : page'[q] = page[q]
      /\ page' \in [Pages -> PageObjects]
  BY DEF TypeOK
<1>2. /\ th' \in [Actors -> CallRecords]
      /\ PlacesOK'
      /\ th'[t] = c
      /\ \A u \in Actors \ {t} : th'[u] = th[u]
  BY CallStep, Zenon
<1>3. (\A u \in Actors : th'[u].pc # "park") /\ (\A q : ~Parked(q)) /\ (\A q : ~Parked(q)')
  <2>1. \A u \in Actors : th'[u].pc # "park"
    BY <1>2
  <2> QED
    BY <2>1 DEF Parked
<1>4. TypeOK'
  BY <1>1, <1>2 DEF TypeOK
<1>5. PagesOK'
  <2>1. ASSUME NEW q \in Pages PROVE PageOK(page'[q], size)
    <3>1. CASE q = p
      BY <3>1, <1>1
    <3>2. CASE q # p
      BY <3>2, <1>1 DEF PagesOK
    <3> QED
      BY <3>1, <3>2
  <2> QED
    BY <2>1 DEF PagesOK, PageOK
<1>6. CutOffIsHeld'
  <2>1. ASSUME NEW q \in Pages PROVE ~(page'[q].free /\ page'[q].ref = 0)
    <3>1. CASE q = p
      BY <3>1, <1>1
    <3>2. CASE q # p
      BY <3>2, <1>1, <1>3 DEF CutOffIsHeld
    <3> QED
      BY <3>1, <3>2
  <2> QED
    BY <2>1 DEF CutOffIsHeld
<1>7. ParkingAlone'
  BY <1>3 DEF ParkingAlone
<1>8. RefsOK'
  <2>1. \A q \in Pages : /\ t \in Callers(q)' <=> Holds(c, q)
                         /\ t \in Callers(q) <=> Holds(th[t], q)
                         /\ t \in Mappers(q)' <=> t \in Threads /\ mapped'[t] = q
                         /\ t \in Mappers(q) <=> t \in Threads /\ mapped[t] = q
    BY <1>2 DEF Callers, Mappers, Holds
  <2>2. /\ \A b : One(b) \in Int
        /\ \A q \in Pages : page[q].ref \in Int /\ page'[q].ref \in Int
    BY <1>1 DEF One, PageObjects
  <2>3. \A q \in Pages :
            /\ page'[q].ref \in Int
            /\ page'[q].ref - page[q].ref =
                  One(page'[q].changed) - One(page[q].changed)
                + One(t \in Callers(q)') - One(t \in Callers(q))
                + One(t \in Mappers(q)') - One(t \in Mappers(q))
    <3> SUFFICES ASSUME NEW q \in Pages
                 PROVE  page'[q].ref - page[q].ref =
                          One(page'[q].changed) - One(page[q].changed)
                        + One(t \in Callers(q)') - One(t \in Callers(q))
                        + One(t \in Mappers(q)') - One(t \in Mappers(q))
      BY <2>2
    <3>1. /\ One(t \in Callers(q)') = One(Holds(c, q))
          /\ One(t \in Callers(q)) = One(Holds(th[t], q))
          /\ One(t \in Mappers(q)') = One(t \in Threads /\ mapped'[t] = q)
          /\ One(t \in Mappers(q)) = One(t \in Threads /\ mapped[t] = q)
      BY <2>1 DEF One
    <3>2. CASE q = p
      BY <3>1, <3>2, <2>2, <1>1
    <3>3. CASE q # p
      <4>1. page'[q] = page[q]
        BY <3>3, <1>1
      <4>2. One(Holds(c, q)) + One(t \in Threads /\ mapped'[t] = q)
              = One(Holds(th[t], q)) + One(t \in Threads /\ mapped[t] = q)
        BY <3>3
      <4> QED
        BY <3>1, <4>1, <4>2, <2>2 DEF One
    <3> QED
      BY <3>2, <3>3
  <2> QED
    BY <2>3, <1>2, RefsStep
<1>9. ListsOK'
  <2>1. ASSUME NEW q \in Pages
        PROVE  /\ q \in ToSet(changedList') <=> page'[q].changed
               /\ q \in ToSet(freeList') <=> page'[q].off = None
               /\ q \in ToSet(standbyList') <=> page'[q].ref = 0 /\ page'[q].hashed
    <3>1. CASE q = p
      BY <3>1, <1>1
    <3>2. CASE q # p
      BY <3>2, <1>1, <1>3 DEF ListsOK
    <3> QED
      BY <3>1, <3>2
  <2> QED
    BY <2>1, <1>3, Zenon DEF ListsOK, ToSet, Once
<1>10. OnePagePerOffset'
  BY <1>1 DEF OnePagePerOffset
<1>11. HeldStays'
  <2> SUFFICES ASSUME NEW u \in Threads, th'[u].pc \in UsePlaces
               PROVE  page'[th'[u].page].off = th'[u].off
    BY DEF HeldStays, UsePlaces
  <2>0. u \in Actors
    BY DEF Actors
  <2>1. CASE u = t
    <3>1. c.page \in Pages
      BY <2>0, <2>1, <1>2 DEF CallRecords, CallOK, PagePlaces
    <3> QED
      BY <2>1, <3>1, <1>1, <1>2
  <2>2. CASE u # t
    <3>1. th'[u] = th[u] /\ page[th[u].page].off = th[u].off
      BY <2>0, <2>2, <1>2 DEF HeldStays, UsePlaces
    <3>2. th[u].page \in Pages
      BY <2>0, <2>2, <3>1 DEF TypeOK, PlacesOK, CallOK, PagePlaces, CallRecords
    <3> QED
      BY <2>0, <3>1, <3>2, <1>1
  <2> QED
    BY <2>1, <2>2
<1>12. GetIsFirst'
  BY <1>2 DEF GetIsFirst, Actors
<1> QED
  BY <1>2, <1>4, <1>5, <1>6, <1>7, <1>8, <1>9, <1>10, <1>11, <1>12

(* A step of one thread that leaves the counts, the hash table and the lists *)
(* alone.                                                                    *)
LEMMA StillStep ==
  ASSUME IndInv, NEW t \in Actors, \A u \in Actors : th[u].pc # "park",
         NEW c \in CallRecords, th' = [th EXCEPT ![t] = c], CallOK(t, c), c.pc # "park",
         page' \in [Pages -> PageObjects],
         \A q \in Pages :
            /\ page'[q].ref = page[q].ref /\ page'[q].off = page[q].off
            /\ page'[q].hashed = page[q].hashed /\ page'[q].changed = page[q].changed
            /\ page'[q].free = page[q].free,
         UNCHANGED lists, size' = size,
         t \in Threads /\ c.pc \in UsePlaces => c.off = page[c.page].off,
         \A u \in Threads \ {t} : mapped'[u] = mapped[u],
         mapped' \in [Threads -> Pages \cup {None}],
         t \in Threads /\ c.op = "get" => mapped'[t] = None,
         monitor' \in {None, Updater},
         store' \in [Offsets -> [Sectors -> BOOLEAN]],
         \A q \in Pages :
            One(Holds(c, q)) + One(t \in Threads /\ mapped'[t] = q)
              = One(Holds(th[t], q)) + One(t \in Threads /\ mapped[t] = q)
  PROVE  IndInv'
<1> USE DEF IndInv
<1>1. UNCHANGED <<freeList, standbyList, changedList>>
  BY DEF lists
<1>2. /\ th' \in [Actors -> CallRecords]
      /\ PlacesOK'
      /\ th'[t] = c
      /\ \A u \in Actors \ {t} : th'[u] = th[u]
  BY CallStep, Zenon
<1>3. (\A u \in Actors : th'[u].pc # "park") /\ (\A q : ~Parked(q)) /\ (\A q : ~Parked(q)')
  <2>1. \A u \in Actors : th'[u].pc # "park"
    BY <1>2
  <2> QED
    BY <2>1 DEF Parked
<1>4. TypeOK'
  BY <1>1, <1>2 DEF TypeOK
<1>5. PagesOK'
  BY DEF PagesOK, PageOK
<1>6. CutOffIsHeld'
  BY <1>3 DEF CutOffIsHeld
<1>7. ParkingAlone'
  BY <1>3 DEF ParkingAlone
<1>8. RefsOK'
  <2>1. \A q \in Pages : /\ t \in Callers(q)' <=> Holds(c, q)
                         /\ t \in Callers(q) <=> Holds(th[t], q)
                         /\ t \in Mappers(q)' <=> t \in Threads /\ mapped'[t] = q
                         /\ t \in Mappers(q) <=> t \in Threads /\ mapped[t] = q
    BY <1>2 DEF Callers, Mappers, Holds
  <2>2. \A q \in Pages : page[q].ref \in Int
    BY DEF TypeOK, PageObjects
  <2>3. \A q \in Pages :
            /\ page'[q].ref \in Int
            /\ page'[q].ref - page[q].ref =
                  One(page'[q].changed) - One(page[q].changed)
                + One(t \in Callers(q)') - One(t \in Callers(q))
                + One(t \in Mappers(q)') - One(t \in Mappers(q))
    BY <2>1, <2>2 DEF One
  <2> QED
    BY <2>3, <1>2, RefsStep
<1>9. ListsOK'
  BY <1>1, <1>3 DEF ListsOK
<1>10. OnePagePerOffset'
  BY DEF OnePagePerOffset
<1>11. HeldStays'
  <2> SUFFICES ASSUME NEW u \in Threads, th'[u].pc \in UsePlaces
               PROVE  page'[th'[u].page].off = th'[u].off
    BY DEF HeldStays, UsePlaces
  <2>0. u \in Actors
    BY DEF Actors
  <2>1. th'[u].page \in Pages
    BY <2>0, <1>2 DEF CallRecords, PlacesOK, CallOK, PagePlaces
  <2>2. u # t => page[th[u].page].off = th[u].off /\ th'[u] = th[u]
    BY <2>0, <1>2 DEF HeldStays, UsePlaces
  <2> QED
    BY <2>0, <2>1, <2>2, <1>2
<1>12. GetIsFirst'
  BY <1>2 DEF GetIsFirst, Actors
<1> QED
  BY <1>2, <1>4, <1>5, <1>6, <1>7, <1>8, <1>9, <1>10, <1>11, <1>12

(* What a thread may count on between two steps.                             *)
LEMMA Known ==
  ASSUME IndInv, NEW t \in Actors
  PROVE  /\ th[t] \in CallRecords
         /\ CallOK(t, th[t])
         /\ th[t].pc \in {"get", "wait", "flush", "extend"} \cup UsePlaces => t \in Threads
         /\ page \in [Pages -> PageObjects]
         /\ mapped \in [Threads -> Pages \cup {None}]
         /\ monitor \in {None, Updater}
         /\ store \in [Offsets -> [Sectors -> BOOLEAN]]
         /\ size \in 0 .. MaxSize
         /\ t \in Threads /\ th[t].op = "get" => mapped[t] = None
  BY DEF IndInv, TypeOK, PlacesOK, CallOK, Actors, UsePlaces, GetIsFirst

(* What a thread knows of the page it holds.                                 *)
LEMMA KnownPage ==
  ASSUME IndInv, NEW t \in Actors, th[t].pc \in PagePlaces
  PROVE  /\ th[t].page \in Pages
         /\ page[th[t].page] \in PageObjects
         /\ page[th[t].page].off \in Offsets
         /\ PageOK(page[th[t].page], size)
         /\ th[t].pc # "park" =>
              page[th[t].page].ref >= 1 + One(page[th[t].page].changed)
         /\ th[t].pc \in UsePlaces => th[t].off = page[th[t].page].off
<1> DEFINE p == th[t].page
<1>1. p \in Pages /\ page[p] \in PageObjects /\ PageOK(page[p], size)
  BY Known DEF CallOK, CallRecords, IndInv, PagesOK
<1>2. th[t].pc # "park" => page[p].ref >= 1 + One(page[p].changed)
  BY <1>1, HeldIsCounted DEF IndInv, Callers
<1>3. page[p].off # None
  BY <1>1, <1>2 DEF IndInv, ParkingAlone, PageOK, One
<1>4. page[p].off \in Offsets
  BY <1>1, <1>3 DEF PageObjects
<1>5. th[t].pc \in UsePlaces => th[t].off = page[p].off
  BY Known DEF IndInv, HeldStays, UsePlaces
<1> QED
  BY <1>1, <1>2, <1>4, <1>5

(* A call goes on at another place. *)
LEMMA Goes ==
  ASSUME NEW r \in CallRecords, NEW x \in Places
  PROVE  LET c == [r EXCEPT !.pc = x]
         IN  /\ c \in CallRecords
             /\ c.pc = x /\ c.op = r.op /\ c.off = r.off /\ c.whole = r.whole
             /\ c.secs = r.secs /\ c.page = r.page /\ c.map = r.map /\ c.then = r.then
  BY DEF CallRecords

(* A call ends. *)
LEMMA Ends ==
  ASSUME NEW t \in Actors
  PROVE  /\ Idle \in CallRecords /\ CallOK(t, Idle)
         /\ Idle.pc = "idle" /\ Idle.op = "idle" /\ Idle.page = None
<1>1. /\ Idle \in CallRecords
      /\ Idle.pc = "idle" /\ Idle.op = "idle" /\ Idle.page = None /\ Idle.then = "idle"
  BY DEF Idle, CallRecords, Places
<1> HIDE DEF Idle
<1> QED
  BY <1>1 DEF CallOK, PagePlaces, UsePlaces, OffPlaces

(* A step by which a call neither gains nor loses a page.                    *)
LEMMA CallerStep ==
  ASSUME IndInv, NEW t \in Actors, \A u \in Actors : th[u].pc # "park",
         NEW c \in CallRecords, th' = [th EXCEPT ![t] = c], CallOK(t, c), c.pc # "park",
         c.page = th[t].page,
         t \in Threads /\ c.pc \in UsePlaces => c.off = page[c.page].off,
         c.op = "get" => th[t].op = "get" \/ mapped[t] = None,
         page' \in [Pages -> PageObjects],
         \A q \in Pages :
            /\ page'[q].ref = page[q].ref /\ page'[q].off = page[q].off
            /\ page'[q].hashed = page[q].hashed /\ page'[q].changed = page[q].changed
            /\ page'[q].free = page[q].free,
         store' \in [Offsets -> [Sectors -> BOOLEAN]],
         UNCHANGED <<lists, size, mapped>>, monitor' \in {None, Updater}
  PROVE  IndInv'
<1>1. \A q \in Pages : Holds(c, q) <=> Holds(th[t], q)
  BY DEF Holds
<1>2. \A q \in Pages :
         One(Holds(c, q)) + One(t \in Threads /\ mapped'[t] = q)
           = One(Holds(th[t], q)) + One(t \in Threads /\ mapped[t] = q)
  BY <1>1 DEF One
<1>3. /\ mapped' \in [Threads -> Pages \cup {None}]
      /\ \A u \in Threads \ {t} : mapped'[u] = mapped[u]
      /\ t \in Threads /\ c.op = "get" => mapped'[t] = None
      /\ UNCHANGED lists /\ size' = size
  BY Known
<1> QED
  BY <1>2, <1>3, StillStep

(* A step that only moves a call from one place to another.                  *)
LEMMA MoveStep ==
  ASSUME IndInv, NEW t \in Actors, \A u \in Actors : th[u].pc # "park",
         NEW x \in Places, x # "park", Goto(t, x), CallOK(t, [th[t] EXCEPT !.pc = x]),
         x \in UsePlaces => th[t].pc \in UsePlaces,
         page' \in [Pages -> PageObjects],
         \A q \in Pages :
            /\ page'[q].ref = page[q].ref /\ page'[q].off = page[q].off
            /\ page'[q].hashed = page[q].hashed /\ page'[q].changed = page[q].changed
            /\ page'[q].free = page[q].free,
         store' \in [Offsets -> [Sectors -> BOOLEAN]],
         UNCHANGED <<lists, size, monitor, mapped>>
  PROVE  IndInv'
<1> DEFINE c == [th[t] EXCEPT !.pc = x]
<1>1. /\ c \in CallRecords /\ c.pc = x /\ c.op = th[t].op /\ c.off = th[t].off
      /\ c.page = th[t].page
  BY Goes, Known
<1>2. th' = [th EXCEPT ![t] = c] /\ CallOK(t, c)
  BY DEF Goto
<1> HIDE DEF c
<1>3. t \in Threads /\ c.pc \in UsePlaces => c.off = page[c.page].off
  BY <1>1, KnownPage DEF PagePlaces
<1>4. UNCHANGED <<lists, size, mapped>> /\ monitor' \in {None, Updater}
      /\ c.pc # "park" /\ (c.op = "get" => th[t].op = "get" \/ mapped[t] = None)
  BY <1>1, Known
<1> QED
  BY <1>1, <1>2, <1>3, <1>4, CallerStep

(* PageTable::wait() *)
LEMMA WaitKeeps ==
  ASSUME IndInv, NEW t \in Actors, \A u \in Actors : th[u].pc # "park", wait(t)
  PROVE  IndInv'
<1>1. /\ "get" \in Places /\ "get" \notin UsePlaces /\ Goto(t, "get")
      /\ UNCHANGED <<page, lists, size, monitor, store, mapped>>
  BY DEF wait, Places, UsePlaces
<1>2. CallOK(t, [th[t] EXCEPT !.pc = "get"])
  BY Known, Goes, <1>1 DEF wait, CallOK, PagePlaces, UsePlaces, OffPlaces
<1> QED
  BY <1>1, <1>2, Known, MoveStep

(* Page::fill(), what follows it *)
LEMMA AfterFillKeeps ==
  ASSUME IndInv, NEW t \in Actors, \A u \in Actors : th[u].pc # "park",
         th[t].pc \in {"fill", "filling"}, AfterFill(t),
         page' \in [Pages -> PageObjects],
         \A q \in Pages :
            /\ page'[q].ref = page[q].ref /\ page'[q].off = page[q].off
            /\ page'[q].hashed = page[q].hashed /\ page'[q].changed = page[q].changed
            /\ page'[q].free = page[q].free,
         UNCHANGED <<lists, size, monitor, store>>
  PROVE  IndInv'
<1>1. t \in Threads /\ store' \in [Offsets -> [Sectors -> BOOLEAN]]
  BY Known DEF UsePlaces
<1>2. CASE th[t].op = "get"
  <2> DEFINE p == th[t].page
  <2>1. /\ th' = [th EXCEPT ![t] = Idle]
        /\ mapped' = [mapped EXCEPT ![t] = p]
        /\ p \in Pages
    BY <1>2, KnownPage DEF AfterFill, PagePlaces, UsePlaces
  <2>2. /\ mapped[t] = None
        /\ mapped' \in [Threads -> Pages \cup {None}]
        /\ mapped'[t] = p
        /\ \A u \in Threads \ {t} : mapped'[u] = mapped[u]
    BY <2>1, <1>1, <1>2, Known
  <2>3. /\ Idle \in CallRecords /\ CallOK(t, Idle) /\ Idle.pc \notin UsePlaces
        /\ Idle.pc # "park" /\ Idle.op # "get"
        /\ \A q \in Pages : ~Holds(Idle, q) /\ (Holds(th[t], q) <=> p = q)
        /\ None \notin Pages
    BY Ends, CacheAssumption DEF Holds, UsePlaces
  <2>4. \A q \in Pages :
          One(Holds(Idle, q)) + One(t \in Threads /\ mapped'[t] = q)
            = One(Holds(th[t], q)) + One(t \in Threads /\ mapped[t] = q)
    BY <1>1, <2>2, <2>3 DEF One
  <2>5. UNCHANGED lists /\ size' = size /\ monitor' \in {None, Updater}
    BY Known
  <2> DEFINE c == Idle
  <2>6. /\ c \in CallRecords /\ th' = [th EXCEPT ![t] = c] /\ CallOK(t, c) /\ c.pc # "park"
        /\ t \in Threads /\ c.pc \in UsePlaces => c.off = page[c.page].off
        /\ t \in Threads /\ c.op = "get" => mapped'[t] = None
        /\ \A q \in Pages :
              One(Holds(c, q)) + One(t \in Threads /\ mapped'[t] = q)
                = One(Holds(th[t], q)) + One(t \in Threads /\ mapped[t] = q)
    BY <2>1, <2>3, <2>4
  <2> HIDE DEF c
  <2> QED
    BY <1>1, <2>2, <2>5, <2>6, StillStep
<1>3. CASE th[t].op # "get"
  <2>1. PICK x \in {"drop", "copy"} : Goto(t, x)
    BY <1>3 DEF AfterFill
  <2>2. /\ x \in Places /\ x # "park" /\ th[t].pc \in UsePlaces
        /\ UNCHANGED <<lists, size, monitor, mapped>>
    BY <1>3 DEF AfterFill, Places, UsePlaces
  <2>3. CallOK(t, [th[t] EXCEPT !.pc = x])
    BY <2>1, <2>2, Known, Goes DEF CallOK, PagePlaces, UsePlaces, OffPlaces
  <2> QED
    BY <2>1, <2>2, <2>3, <1>1, MoveStep
<1> QED
  BY <1>2, <1>3

(* Page::fill() *)
LEMMA FillKeeps ==
  ASSUME IndInv, NEW t \in Actors, \A u \in Actors : th[u].pc # "park", fill(t)
  PROVE  IndInv'
<1>1. th[t].pc = "fill" /\ UNCHANGED <<page, lists, size, monitor, store>>
  BY DEF fill
<1>2. CASE AfterFill(t)
  BY <1>1, <1>2, Known, AfterFillKeeps
<1>3. CASE Goto(t, "filling") /\ mapped' = mapped
  <2>1. "filling" \in Places /\ th[t].pc \in UsePlaces
    BY <1>1 DEF Places, UsePlaces
  <2>2. CallOK(t, [th[t] EXCEPT !.pc = "filling"])
    BY <1>1, <2>1, Known, Goes DEF CallOK, PagePlaces, UsePlaces, OffPlaces
  <2> QED
    BY <1>1, <1>3, <2>1, <2>2, Known, MoveStep
<1> QED
  BY <1>2, <1>3 DEF fill

(* Page::fill(), the end of the read *)
LEMMA FilledKeeps ==
  ASSUME IndInv, NEW t \in Actors, \A u \in Actors : th[u].pc # "park", filled(t)
  PROVE  IndInv'
<1> DEFINE p == th[t].page
           r == [page[p] EXCEPT !.data = store[page[p].off], !.filled = TRUE]
<1>1. th[t].pc = "filling" /\ UNCHANGED <<lists, size, monitor, store>> /\ AfterFill(t)
  BY DEF filled
<1>2. p \in Pages /\ page[p] \in PageObjects /\ page[p].off \in Offsets
  BY <1>1, KnownPage DEF PagePlaces, UsePlaces
<1>3. store[page[p].off] \in [Sectors -> BOOLEAN]
  BY <1>2, Known
<1>4. /\ r \in PageObjects /\ r.ref = page[p].ref /\ r.off = page[p].off
      /\ r.hashed = page[p].hashed /\ r.changed = page[p].changed /\ r.free = page[p].free
  BY <1>2, <1>3 DEF PageObjects
<1>5. page' = [page EXCEPT ![p] = r]
  BY DEF filled
<1> HIDE DEF r
<1>6. /\ page' \in [Pages -> PageObjects]
      /\ \A q \in Pages : page'[q] = IF q = p THEN r ELSE page[q]
  BY <1>2, <1>4, <1>5, Known
<1> QED
  BY <1>1, <1>4, <1>6, AfterFillKeeps

(* Writing into a page changes contents only. *)
LEMMA StoreTyped ==
  ASSUME IndInv, NEW p \in Pages, page[p].off \in Offsets, NEW secs, NEW covers \in BOOLEAN,
         Store(p, secs, covers)
  PROVE  /\ page' \in [Pages -> PageObjects]
         /\ \A q \in Pages :
              /\ page'[q].ref = page[q].ref /\ page'[q].off = page[q].off
              /\ page'[q].hashed = page[q].hashed /\ page'[q].changed = page[q].changed
              /\ page'[q].free = page[q].free
              /\ page'[q].map = page[q].map /\ page'[q].filled = page[q].filled
         /\ store' \in [Offsets -> [Sectors -> BOOLEAN]]
<1>1. page \in [Pages -> PageObjects] /\ store \in [Offsets -> [Sectors -> BOOLEAN]]
  BY DEF IndInv, TypeOK
<1>2. ASSUME NEW q \in Pages, NEW d \in [Sectors -> BOOLEAN]
      PROVE  LET r == [page[q] EXCEPT !.data = d]
             IN  /\ r \in PageObjects /\ r.ref = page[q].ref /\ r.off = page[q].off
                 /\ r.hashed = page[q].hashed /\ r.changed = page[q].changed
                 /\ r.free = page[q].free /\ r.map = page[q].map /\ r.filled = page[q].filled
  BY <1>1 DEF PageObjects
<1> DEFINE d1(q) == [s \in Sectors |-> IF s \in secs THEN ~page[q].free /\ (covers \/ page[q].data[s])
                                       ELSE page[q].data[s]]
           d2(q) == [s \in Sectors |-> s \notin secs /\ page[q].data[s]]
<1>3. ASSUME NEW q \in Pages
      PROVE  d1(q) \in [Sectors -> BOOLEAN] /\ d2(q) \in [Sectors -> BOOLEAN]
  <2>1. page[q].data \in [Sectors -> BOOLEAN]
    BY <1>1 DEF PageObjects
  <2> QED
    BY <2>1
<1>4. page' = [q \in Pages |->
                  IF q = p THEN [page[q] EXCEPT !.data = d1(q)]
                  ELSE IF page[q].off = page[p].off /\ ~page[p].free
                  THEN [page[q] EXCEPT !.data = d2(q)]
                  ELSE page[q]]
  BY DEF Store
<1> HIDE DEF d1, d2
<1>5. \A q \in Pages :
        /\ page'[q] \in PageObjects
        /\ page'[q].ref = page[q].ref /\ page'[q].off = page[q].off
        /\ page'[q].hashed = page[q].hashed /\ page'[q].changed = page[q].changed
        /\ page'[q].free = page[q].free
        /\ page'[q].map = page[q].map /\ page'[q].filled = page[q].filled
  <2> SUFFICES ASSUME NEW q \in Pages
               PROVE  /\ page'[q] \in PageObjects
                      /\ page'[q].ref = page[q].ref /\ page'[q].off = page[q].off
                      /\ page'[q].hashed = page[q].hashed /\ page'[q].changed = page[q].changed
                      /\ page'[q].free = page[q].free
                      /\ page'[q].map = page[q].map /\ page'[q].filled = page[q].filled
    OBVIOUS
  <2>1. \/ page'[q] = [page[q] EXCEPT !.data = d1(q)]
        \/ page'[q] = [page[q] EXCEPT !.data = d2(q)]
        \/ page'[q] = page[q]
    BY <1>4
  <2>2. CASE page'[q] = page[q]
    BY <2>2, <1>1
  <2>3. ASSUME NEW d \in [Sectors -> BOOLEAN], page'[q] = [page[q] EXCEPT !.data = d]
        PROVE  /\ page'[q] \in PageObjects
               /\ page'[q].ref = page[q].ref /\ page'[q].off = page[q].off
               /\ page'[q].hashed = page[q].hashed /\ page'[q].changed = page[q].changed
               /\ page'[q].free = page[q].free
               /\ page'[q].map = page[q].map /\ page'[q].filled = page[q].filled
    BY <2>3, <1>2
  <2> QED
    BY <2>1, <2>2, <2>3, <1>3
<1>6. page' \in [Pages -> PageObjects]
  BY <1>4, <1>5
<1>7. store' \in [Offsets -> [Sectors -> BOOLEAN]]
  <2> DEFINE e == [s \in Sectors |-> s \notin secs /\ store[page[p].off][s]]
  <2>1. e \in [Sectors -> BOOLEAN]
    BY <1>1
  <2>2. store' = store \/ store' = [store EXCEPT ![page[p].off] = e]
    BY DEF Store
  <2> HIDE DEF e
  <2> QED
    BY <2>1, <2>2, <1>1
<1> QED
  BY <1>5, <1>6, <1>7

(* Page::write() *)
LEMMA CopyKeeps ==
  ASSUME IndInv, NEW t \in Actors, \A u \in Actors : th[u].pc # "park", copy(t)
  PROVE  IndInv'
<1>1. /\ th[t].pc = "copy" /\ Goto(t, "mark") /\ UNCHANGED <<lists, size, monitor, mapped>>
      /\ Store(th[t].page, th[t].secs, th[t].whole)
      /\ "mark" \in Places /\ th[t].pc \in UsePlaces
  BY DEF copy, Places, UsePlaces
<1>2. /\ th[t].page \in Pages /\ page[th[t].page].off \in Offsets /\ th[t].whole \in BOOLEAN
  BY <1>1, KnownPage, Known DEF PagePlaces, CallRecords
<1>3. CallOK(t, [th[t] EXCEPT !.pc = "mark"])
  BY <1>1, Known, Goes DEF CallOK, PagePlaces, UsePlaces, OffPlaces
<1>4. /\ page' \in [Pages -> PageObjects]
      /\ \A q \in Pages :
            /\ page'[q].ref = page[q].ref /\ page'[q].off = page[q].off
            /\ page'[q].hashed = page[q].hashed /\ page'[q].changed = page[q].changed
            /\ page'[q].free = page[q].free
      /\ store' \in [Offsets -> [Sectors -> BOOLEAN]]
  BY <1>1, <1>2, StoreTyped
<1> QED
  BY <1>1, <1>3, <1>4, MoveStep

(* Page::write() notes the sectors; Cache::write() sets `filled'. *)
LEMMA MarkKeeps ==
  ASSUME IndInv, NEW t \in Actors, \A u \in Actors : th[u].pc # "park", mark(t)
  PROVE  IndInv'
<1> DEFINE p == th[t].page
           r == [page[p] EXCEPT !.map = @ \cup th[t].secs, !.filled = TRUE]
<1>1. /\ th[t].pc = "mark" /\ Goto(t, "change")
      /\ UNCHANGED <<lists, size, monitor, store, mapped>>
      /\ "change" \in Places /\ th[t].pc \in UsePlaces
  BY DEF mark, Places, UsePlaces
<1>2. p \in Pages /\ page[p] \in PageObjects /\ th[t].secs \in SUBSET Sectors
  BY <1>1, KnownPage, Known DEF PagePlaces, CallRecords
<1>3. CallOK(t, [th[t] EXCEPT !.pc = "change"])
  BY <1>1, Known, Goes DEF CallOK, PagePlaces, UsePlaces, OffPlaces
<1>4. /\ r \in PageObjects /\ r.ref = page[p].ref /\ r.off = page[p].off
      /\ r.hashed = page[p].hashed /\ r.changed = page[p].changed /\ r.free = page[p].free
  BY <1>2 DEF PageObjects
<1>5. page' = [page EXCEPT ![p] = r]
  BY DEF mark
<1> HIDE DEF r
<1>6. /\ page' \in [Pages -> PageObjects]
      /\ \A q \in Pages : page'[q] = IF q = p THEN r ELSE page[q]
      /\ store' \in [Offsets -> [Sectors -> BOOLEAN]]
  BY <1>1, <1>2, <1>4, <1>5, Known
<1>7. \A q \in Pages :
         /\ page'[q].ref = page[q].ref /\ page'[q].off = page[q].off
         /\ page'[q].hashed = page[q].hashed /\ page'[q].changed = page[q].changed
         /\ page'[q].free = page[q].free
  BY <1>4, <1>6
<1> QED
  BY <1>1, <1>3, <1>6, <1>7, MoveStep

(* Page::sync() turns off the map. *)
LEMMA SnapKeeps ==
  ASSUME IndInv, NEW t \in Actors, \A u \in Actors : th[u].pc # "park", snap(t)
  PROVE  IndInv'
<1> DEFINE p == th[t].page
           r == [page[p] EXCEPT !.map = {}]
           c == [th[t] EXCEPT !.map = page[p].map, !.pc = "store"]
<1>1. /\ th[t].pc = "snap" /\ UNCHANGED <<lists, size, monitor, store, mapped>>
      /\ th' = [th EXCEPT ![t] = c] /\ page' = [page EXCEPT ![p] = r]
  BY DEF snap
<1>2. p \in Pages /\ page[p] \in PageObjects /\ page[p].map \in SUBSET Sectors
  BY <1>1, KnownPage DEF PagePlaces, PageObjects
<1>3. /\ c \in CallRecords /\ c.pc = "store" /\ c.op = th[t].op /\ c.off = th[t].off
      /\ c.page = p /\ c.then = th[t].then
  BY <1>2, Known DEF CallRecords, Places
<1>4. /\ r \in PageObjects /\ r.ref = page[p].ref /\ r.off = page[p].off
      /\ r.hashed = page[p].hashed /\ r.changed = page[p].changed /\ r.free = page[p].free
  BY <1>2 DEF PageObjects
<1> HIDE DEF r, c
<1>5. CallOK(t, c) /\ c.pc # "park" /\ c.pc \notin UsePlaces
  BY <1>1, <1>3, Known DEF CallOK, PagePlaces, UsePlaces, OffPlaces
<1>6. /\ page' \in [Pages -> PageObjects]
      /\ \A q \in Pages : page'[q] = IF q = p THEN r ELSE page[q]
  BY <1>1, <1>2, <1>4, Known
<1>7. \A q \in Pages :
         /\ page'[q].ref = page[q].ref /\ page'[q].off = page[q].off
         /\ page'[q].hashed = page[q].hashed /\ page'[q].changed = page[q].changed
         /\ page'[q].free = page[q].free
  BY <1>4, <1>6
<1>8. /\ UNCHANGED <<lists, size, mapped>> /\ monitor' \in {None, Updater}
      /\ store' \in [Offsets -> [Sectors -> BOOLEAN]]
  BY <1>1, Known
<1> QED
  BY <1>1, <1>3, <1>5, <1>6, <1>7, <1>8, CallerStep

(* Page::sync() writes.                                                      *)
LEMMA SyncKeeps ==
  ASSUME IndInv, NEW t \in Actors, \A u \in Actors : th[u].pc # "park", sync(t)
  PROVE  IndInv'
<1> DEFINE p == th[t].page
           c == [th[t] EXCEPT !.map = {}, !.pc = "drop"]
<1>1. /\ th[t].pc = "store" /\ UNCHANGED <<page, lists, size, monitor, mapped>>
      /\ th' = [th EXCEPT ![t] = c]
  BY DEF sync
<1>2. p \in Pages /\ page[p] \in PageObjects /\ page[p].off \in Offsets
      /\ page[p].data \in [Sectors -> BOOLEAN]
  BY <1>1, KnownPage DEF PagePlaces, PageObjects
<1>3. /\ c \in CallRecords /\ c.pc = "drop" /\ c.op = th[t].op /\ c.off = th[t].off
      /\ c.page = p /\ c.then = th[t].then
  BY ZenonT(30), <1>2, Known DEF CallRecords, Places
<1> HIDE DEF c
<1>4. store' \in [Offsets -> [Sectors -> BOOLEAN]]
  <2>1. PICK failed : store' = [store EXCEPT ![page[p].off] = [s \in Sectors |->
                         IF s \in th[t].map \ failed THEN page[p].data[s] ELSE @[s]]]
    BY DEF sync
  <2> DEFINE e == [s \in Sectors |-> IF s \in th[t].map \ failed THEN page[p].data[s]
                                     ELSE store[page[p].off][s]]
  <2>2. e \in [Sectors -> BOOLEAN]
    BY <1>2, Known
  <2>3. store' = [store EXCEPT ![page[p].off] = e]
    BY <2>1
  <2> HIDE DEF e
  <2> QED
    BY <2>2, <2>3, <1>2, Known
<1>5. CallOK(t, c) /\ c.pc # "park" /\ c.pc \notin UsePlaces
  BY <1>1, <1>3, Known DEF CallOK, PagePlaces, UsePlaces, OffPlaces
<1>6. /\ page' \in [Pages -> PageObjects]
      /\ \A q \in Pages :
            /\ page'[q].ref = page[q].ref /\ page'[q].off = page[q].off
            /\ page'[q].hashed = page[q].hashed /\ page'[q].changed = page[q].changed
            /\ page'[q].free = page[q].free
  BY <1>1, Known
<1>7. UNCHANGED <<lists, size, mapped>> /\ monitor' \in {None, Updater}
  BY <1>1, Known
<1> QED
  BY <1>1, <1>3, <1>4, <1>5, <1>6, <1>7, CallerStep

(* A thread makes a call, which holds no page yet.                           *)
LEMMA StartStep ==
  ASSUME IndInv, NEW t \in Threads, \A u \in Actors : th[u].pc # "park",
         th[t].pc = "idle",
         NEW c \in CallRecords, th' = [th EXCEPT ![t] = c],
         c.page = None, c.pc \in {"get", "extend", "flush"}, c.then = "idle",
         c.pc = "flush" => c.op = "flush",
         c.pc # "flush" => c.op \in {"read", "write", "get"} /\ c.off \in Offsets,
         c.op = "get" => mapped[t] = None,
         UNCHANGED <<page, lists, size, monitor, store, mapped>>
  PROVE  IndInv'
<1>1. t \in Actors /\ t # Updater
  BY CacheAssumption DEF Actors
<1>2. th[t].page = None
  BY <1>1, Known DEF CallOK, PagePlaces, UsePlaces
<1>3. CallOK(t, c) /\ c.pc # "park" /\ c.pc \notin UsePlaces
  BY <1>1 DEF CallOK, PagePlaces, UsePlaces, OffPlaces
<1>4. /\ page' \in [Pages -> PageObjects]
      /\ \A q \in Pages :
            /\ page'[q].ref = page[q].ref /\ page'[q].off = page[q].off
            /\ page'[q].hashed = page[q].hashed /\ page'[q].changed = page[q].changed
            /\ page'[q].free = page[q].free
      /\ UNCHANGED <<lists, size, mapped>> /\ monitor' \in {None, Updater}
      /\ store' \in [Offsets -> [Sectors -> BOOLEAN]]
  BY <1>1, Known
<1> QED
  BY <1>1, <1>2, <1>3, <1>4, CallerStep

(* read(), write(), flush() and get() *)
LEMMA CallsKeep ==
  ASSUME IndInv, NEW t \in Threads, \A u \in Actors : th[u].pc # "park",
         read(t) \/ write(t) \/ Flush(t) \/ get(t)
  PROVE  IndInv'
<1>1. CASE read(t)
  <2>1. PICK o \in Offsets : Call(t, "read", o, "get")
    BY <1>1 DEF read
  <2> DEFINE c == [Idle EXCEPT !.op = "read", !.off = o, !.pc = "get"]
  <2>2. th' = [th EXCEPT ![t] = c]
    BY <2>1 DEF Call
  <2>3. /\ c \in CallRecords /\ c.page = None /\ c.pc = "get" /\ c.op = "read"
        /\ c.off = o /\ c.then = "idle"
    BY DEF Idle, CallRecords, Places
  <2>4. th[t].pc = "idle" /\ UNCHANGED <<page, lists, size, monitor, store, mapped>>
    BY <1>1 DEF read
  <2> HIDE DEF c
  <2> QED
    BY <2>2, <2>3, <2>4, StartStep
<1>2. CASE write(t)
  <2>1. PICK o \in Offsets, secs \in (SUBSET Sectors) \ {{}}, whole \in BOOLEAN :
          th' = [th EXCEPT ![t] = [Idle EXCEPT
                     !.op = "write", !.off = o, !.whole = whole, !.secs = secs,
                     !.pc = IF size <= o THEN "extend" ELSE "get"]]
    BY <1>2 DEF write
  <2> DEFINE c == [Idle EXCEPT
                     !.op = "write", !.off = o, !.whole = whole, !.secs = secs,
                     !.pc = IF size <= o THEN "extend" ELSE "get"]
  <2>2. th' = [th EXCEPT ![t] = c]
    BY <2>1
  <2>3. /\ c \in CallRecords /\ c.page = None /\ c.pc \in {"get", "extend"} /\ c.op = "write"
        /\ c.off = o /\ c.then = "idle"
    BY DEF Idle, CallRecords, Places
  <2>4. th[t].pc = "idle" /\ UNCHANGED <<page, lists, size, monitor, store, mapped>>
    BY <1>2 DEF write
  <2> HIDE DEF c
  <2> QED
    BY <2>2, <2>3, <2>4, StartStep
<1>3. CASE Flush(t)
  <2> DEFINE c == [Idle EXCEPT !.op = "flush", !.off = None, !.pc = "flush"]
  <2>1. th' = [th EXCEPT ![t] = c]
    BY <1>3 DEF Flush, Call
  <2>2. /\ c \in CallRecords /\ c.page = None /\ c.pc = "flush" /\ c.op = "flush"
        /\ c.then = "idle"
    BY DEF Idle, CallRecords, Places
  <2>3. th[t].pc = "idle" /\ UNCHANGED <<page, lists, size, monitor, store, mapped>>
    BY <1>3 DEF Flush
  <2> HIDE DEF c
  <2> QED
    BY <2>1, <2>2, <2>3, StartStep
<1>4. CASE get(t)
  <2>1. PICK o \in Offsets : Call(t, "get", o, "get")
    BY <1>4 DEF get
  <2> DEFINE c == [Idle EXCEPT !.op = "get", !.off = o, !.pc = "get"]
  <2>2. th' = [th EXCEPT ![t] = c]
    BY <2>1 DEF Call
  <2>3. /\ c \in CallRecords /\ c.page = None /\ c.pc = "get" /\ c.op = "get"
        /\ c.off = o /\ c.then = "idle"
    BY DEF Idle, CallRecords, Places
  <2>4. /\ th[t].pc = "idle" /\ UNCHANGED <<page, lists, size, monitor, store, mapped>>
        /\ mapped[t] = None
    BY <1>4 DEF get
  <2> HIDE DEF c
  <2> QED
    BY <2>2, <2>3, <2>4, StartStep
<1> QED
  BY <1>1, <1>2, <1>3, <1>4

(* Cache::put() *)
LEMMA PutKeeps ==
  ASSUME IndInv, NEW t \in Actors, t \in Threads,
         \A u \in Actors : th[u].pc # "park", put(t)
  PROVE  IndInv'
<1> DEFINE p == mapped[t]
<1>1. PICK dirty \in BOOLEAN, s \in Sectors :
         /\ th' = [th EXCEPT ![t] = [Idle EXCEPT
                     !.op = "put", !.page = mapped[t],
                     !.pc = IF dirty THEN "clean" ELSE "drop"]]
         /\ IF dirty /\ "store" \in Allow THEN Store(mapped[t], {s}, FALSE)
            ELSE UNCHANGED <<page, store>>
  BY DEF put
<1> DEFINE c == [Idle EXCEPT !.op = "put", !.page = mapped[t],
                             !.pc = IF dirty THEN "clean" ELSE "drop"]
<1>2. t \in Actors /\ t # Updater /\ None \notin Pages /\ th[t].pc = "idle" /\ mapped[t] # None
      /\ mapped' = [mapped EXCEPT ![t] = None] /\ UNCHANGED <<lists, size, monitor>>
  BY CacheAssumption DEF Actors, put
<1>3. p \in Pages /\ th[t].page = None
  BY <1>2, Known DEF CallOK, PagePlaces, UsePlaces
<1>4. page[p].off \in Offsets
  <2>1. page[p].ref >= 1 + One(page[p].changed)
    BY <1>3, HeldIsCounted DEF IndInv, Mappers
  <2>2. /\ page[p].off \in Offsets \cup {None}
        /\ page[p].off = None => page[p].ref = 0
    BY <1>2, <1>3, Known DEF IndInv, PagesOK, PageOK, PageObjects
  <2>3. One(page[p].changed) \in Nat
    BY DEF One
  <2> QED
    BY <2>1, <2>2, <2>3
<1>5. /\ c \in CallRecords /\ c.page = p /\ c.pc \in {"clean", "drop"} /\ c.op = "put"
      /\ c.then = "idle"
  BY <1>3 DEF Idle, CallRecords, Places
<1>6. th' = [th EXCEPT ![t] = c]
  BY <1>1
<1> HIDE DEF c
<1>7. CallOK(t, c) /\ c.pc # "park" /\ c.pc \notin UsePlaces
  BY <1>2, <1>3, <1>5 DEF CallOK, PagePlaces, UsePlaces, OffPlaces
<1>8. /\ mapped' \in [Threads -> Pages \cup {None}]
      /\ mapped'[t] = None
      /\ \A u \in Threads \ {t} : mapped'[u] = mapped[u]
  BY <1>2, Known
<1>9. \A q \in Pages :
         One(Holds(c, q)) + One(t \in Threads /\ mapped'[t] = q)
           = One(Holds(th[t], q)) + One(t \in Threads /\ mapped[t] = q)
  BY <1>2, <1>3, <1>5, <1>8 DEF One, Holds
<1>10. /\ page' \in [Pages -> PageObjects]
       /\ \A q \in Pages :
            /\ page'[q].ref = page[q].ref /\ page'[q].off = page[q].off
            /\ page'[q].hashed = page[q].hashed /\ page'[q].changed = page[q].changed
            /\ page'[q].free = page[q].free
       /\ store' \in [Offsets -> [Sectors -> BOOLEAN]]
  <2>1. CASE Store(p, {s}, FALSE)
    BY <2>1, <1>3, <1>4, StoreTyped
  <2>2. CASE UNCHANGED <<page, store>>
    BY <2>2, <1>2, Known
  <2> QED
    BY <2>1, <2>2, <1>1
<1>11. UNCHANGED lists /\ size' = size /\ monitor' \in {None, Updater}
  BY <1>2, Known
<1>12. t \in Threads /\ c.pc \in UsePlaces => c.off = page[c.page].off
  BY <1>7
<1>13. t \in Threads /\ c.op = "get" => mapped'[t] = None
  BY <1>8
<1> HIDE DEF p
<1>14. c \in CallRecords /\ CallOK(t, c) /\ c.pc # "park"
  BY <1>5, <1>7
<1>15. /\ mapped' \in [Threads -> Pages \cup {None}]
       /\ \A u \in Threads \ {t} : mapped'[u] = mapped[u]
  BY <1>8
<1> QED
  BY <1>6, <1>9, <1>10, <1>11, <1>12, <1>13, <1>14, <1>15, StillStep

(* What the lists and the other pages make of a step that changes page p.    *)
LEMMA KnownLists ==
  ASSUME IndInv, \A u \in Actors : th[u].pc # "park"
  PROVE  /\ freeList \in Seq(Pages) /\ standbyList \in Seq(Pages) /\ changedList \in Seq(Pages)
         /\ Once(freeList) /\ Once(standbyList) /\ Once(changedList)
         /\ ToSet(freeList) \subseteq Pages /\ ToSet(standbyList) \subseteq Pages
         /\ ToSet(changedList) \subseteq Pages
         /\ \A p \in Pages :
              /\ p \in ToSet(changedList) <=> page[p].changed
              /\ p \in ToSet(freeList) <=> page[p].off = None
              /\ p \in ToSet(standbyList) <=> page[p].ref = 0 /\ page[p].hashed
         /\ \A p \in Pages :
              /\ page[p] \in PageObjects /\ PageOK(page[p], size)
              /\ page[p].free => page[p].ref # 0
              /\ page[p].hashed => \A q \in Pages \ {p} :
                   ~(page[q].hashed /\ page[q].off = page[p].off)
<1>1. freeList \in Seq(Pages) /\ standbyList \in Seq(Pages) /\ changedList \in Seq(Pages)
  BY DEF IndInv, TypeOK
<1>2. /\ ToSet(freeList) \subseteq Pages /\ ToSet(standbyList) \subseteq Pages
      /\ ToSet(changedList) \subseteq Pages
  BY <1>1, ListElements
<1>3. \A p : ~Parked(p)
  BY DEF Parked
<1>4. /\ Once(freeList) /\ Once(standbyList) /\ Once(changedList)
      /\ \A p \in Pages :
              /\ p \in ToSet(changedList) <=> page[p].changed
              /\ p \in ToSet(freeList) <=> page[p].off = None
              /\ p \in ToSet(standbyList) <=> page[p].ref = 0 /\ page[p].hashed
  BY <1>3 DEF IndInv, ListsOK
<1>5. \A p \in Pages :
              /\ page[p] \in PageObjects /\ PageOK(page[p], size)
              /\ page[p].free => page[p].ref # 0
  BY <1>3 DEF IndInv, TypeOK, PagesOK, CutOffIsHeld
<1>6. \A p \in Pages : page[p].hashed => \A q \in Pages \ {p} :
                   ~(page[q].hashed /\ page[q].off = page[p].off)
  BY DEF IndInv, OnePagePerOffset
<1> QED
  BY <1>1, <1>2, <1>4, <1>5, <1>6

(* A page with another count. *)
LEMMA Counted ==
  ASSUME NEW x \in PageObjects, NEW n \in Nat
  PROVE  LET r == [x EXCEPT !.ref = n]
         IN  /\ r \in PageObjects /\ r.ref = n /\ r.off = x.off
             /\ r.hashed = x.hashed /\ r.changed = x.changed /\ r.free = x.free
             /\ r.map = x.map /\ r.filled = x.filled /\ r.data = x.data
  BY DEF PageObjects

(* A page with another count, put on or taken off the changed list. *)
LEMMA CountedChange ==
  ASSUME NEW x \in PageObjects, NEW n \in Nat, NEW b \in BOOLEAN
  PROVE  LET r == [x EXCEPT !.ref = n, !.changed = b]
         IN  /\ r \in PageObjects /\ r.ref = n /\ r.off = x.off
             /\ r.hashed = x.hashed /\ r.changed = b /\ r.free = x.free
             /\ r.map = x.map /\ r.filled = x.filled /\ r.data = x.data
  BY DEF PageObjects

(* getChangedPage() and getStalePage() take a reference to a changed page.   *)
LEMMA TakeKeeps ==
  ASSUME IndInv, NEW t \in Actors, \A u \in Actors : th[u].pc # "park",
         NEW then \in {"flush", "update"}, changedList # <<>>, TakeChanged(t, then),
         th[t].page = None,
         t \in Threads => then = "flush" /\ th[t].op \notin {"idle", "put"},
         t = Updater => then = "update",
         UNCHANGED <<lists, size, store, mapped>>, monitor' \in {None, Updater}
  PROVE  IndInv'
<1> DEFINE p == Head(changedList)
           r == [page[p] EXCEPT !.ref = @ + 1]
           c == [th[t] EXCEPT !.page = p, !.pc = "clean", !.then = then]
<1>1. p \in ToSet(changedList)
  BY KnownLists, TailLists
<1>2. /\ p \in Pages /\ page[p] \in PageObjects /\ PageOK(page[p], size)
      /\ page[p].changed /\ page[p].hashed /\ page[p].ref \in Nat /\ page[p].ref >= 1
      /\ None \notin Pages /\ th[t] \in CallRecords
  BY <1>1, Known, KnownLists, HeldIsCounted, CacheAssumption DEF IndInv, PageOK, PageObjects
<1> HIDE DEF p
<1>3. /\ c \in CallRecords /\ c.pc = "clean" /\ c.op = th[t].op /\ c.off = th[t].off
      /\ c.page = p /\ c.then = then
  BY <1>2 DEF CallRecords, Places
<1>4. /\ r \in PageObjects /\ r.ref = page[p].ref + 1 /\ r.off = page[p].off
      /\ r.hashed = page[p].hashed /\ r.changed = page[p].changed /\ r.free = page[p].free
  <2>1. page[p].ref + 1 \in Nat
    BY <1>2
  <2> QED
    BY <1>2, <2>1, Counted
<1>5. page' = [page EXCEPT ![p] = r] /\ th' = [th EXCEPT ![t] = c]
  BY DEF TakeChanged, p
<1> HIDE DEF r, c
<1>6. CallOK(t, c) /\ c.pc # "park" /\ c.pc \notin UsePlaces
  BY <1>2, <1>3, Known DEF CallOK, PagePlaces, UsePlaces, OffPlaces
<1>7. /\ PageOK(r, size) /\ (r.free => r.ref # 0) /\ size' = size
      /\ (r.hashed => \A q \in Pages \ {p} : ~(page[q].hashed /\ page[q].off = r.off))
      /\ \A u \in Actors : th[u].page = p => r.off = page[p].off
  BY <1>2, <1>4, KnownLists DEF PageOK
<1>8. t \in Threads /\ c.pc \in UsePlaces =>
            c.off = IF c.page = p THEN r.off ELSE page[c.page].off
  BY <1>6
<1>9. /\ \A u \in Threads \ {t} : mapped'[u] = mapped[u]
      /\ mapped' \in [Threads -> Pages \cup {None}]
      /\ monitor' \in {None, Updater}
      /\ store' \in [Offsets -> [Sectors -> BOOLEAN]]
  BY Known
<1>10. t \in Threads /\ c.op = "get" => mapped'[t] = None
  BY <1>3, Known
<1>11. \A q \in Pages \ {p} :
            One(Holds(c, q)) + One(t \in Threads /\ mapped'[t] = q)
              = One(Holds(th[t], q)) + One(t \in Threads /\ mapped[t] = q)
  BY <1>2, <1>3 DEF Holds, One
<1>12. r.ref - page[p].ref =
              One(r.changed) - One(page[p].changed)
            + One(Holds(c, p)) - One(Holds(th[t], p))
            + One(t \in Threads /\ mapped'[t] = p) - One(t \in Threads /\ mapped[t] = p)
  BY <1>2, <1>3, <1>4 DEF Holds, One
<1>13. freeList' = freeList /\ standbyList' = standbyList /\ changedList' = changedList
  BY DEF lists
<1>14. /\ freeList' \in Seq(Pages) /\ standbyList' \in Seq(Pages) /\ changedList' \in Seq(Pages)
       /\ Once(freeList') /\ Once(standbyList') /\ Once(changedList')
       /\ \A q \in Pages \ {p} :
            /\ q \in ToSet(changedList') <=> q \in ToSet(changedList)
            /\ q \in ToSet(freeList') <=> q \in ToSet(freeList)
            /\ q \in ToSet(standbyList') <=> q \in ToSet(standbyList)
       /\ p \in ToSet(changedList') <=> r.changed
       /\ p \in ToSet(freeList') <=> r.off = None
       /\ p \in ToSet(standbyList') <=> r.ref = 0 /\ r.hashed
  BY <1>2, <1>4, <1>13, KnownLists
<1> QED
  BY <1>2, <1>3, <1>4, <1>5, <1>6, <1>7, <1>8, <1>9, <1>10, <1>11, <1>12, <1>14, OnePageStep

(* Cache::flush() *)
LEMMA FlushKeeps ==
  ASSUME IndInv, NEW t \in Actors, \A u \in Actors : th[u].pc # "park", flush(t)
  PROVE  IndInv'
<1>1. /\ th[t].pc = "flush" /\ t \in Threads /\ t # Updater
      /\ UNCHANGED <<lists, size, monitor, store, mapped>>
      /\ th[t].page = None /\ th[t].op \notin {"idle", "put"}
      /\ monitor' \in {None, Updater}
  BY Known, CacheAssumption DEF flush, CallOK, PagePlaces, UsePlaces
<1>2. CASE changedList # <<>>
  BY <1>1, <1>2, TakeKeeps DEF flush
<1>3. CASE changedList = <<>>
  <2> DEFINE c == IF th[t].op = "flush" THEN Idle ELSE [th[t] EXCEPT !.pc = "wait", !.then = "idle"]
  <2>1. th' = [th EXCEPT ![t] = c] /\ page' = page
    BY <1>3 DEF flush
  <2>2. th[t] \in CallRecords
    BY Known
  <2>3. /\ c \in CallRecords /\ c.page = None /\ c.pc \in {"idle", "wait"}
        /\ c.op = "idle" \/ (c.op = th[t].op /\ c.off = th[t].off)
        /\ c.pc = "wait" => c.op = th[t].op /\ c.op # "flush"
        /\ c.then = "idle"
    BY <1>1, <2>2 DEF Idle, CallRecords, Places
  <2> HIDE DEF c
  <2>4. CallOK(t, c) /\ c.pc # "park" /\ c.pc \notin UsePlaces
    BY <1>1, <2>3, Known DEF CallOK, CallRecords, PagePlaces, UsePlaces, OffPlaces
  <2>5. /\ page' \in [Pages -> PageObjects]
        /\ \A q \in Pages :
            /\ page'[q].ref = page[q].ref /\ page'[q].off = page[q].off
            /\ page'[q].hashed = page[q].hashed /\ page'[q].changed = page[q].changed
            /\ page'[q].free = page[q].free
        /\ store' \in [Offsets -> [Sectors -> BOOLEAN]]
        /\ UNCHANGED <<lists, size, mapped>>
    BY <1>1, <2>1, Known
  <2>6. /\ c.page = th[t].page /\ (c.op = "get" => th[t].op = "get" \/ mapped[t] = None)
        /\ t \in Threads /\ c.pc \in UsePlaces => c.off = page[c.page].off
    BY <1>1, <2>3, <2>4
  <2> QED
    BY <1>1, <2>1, <2>3, <2>4, <2>5, <2>6, CallerStep
<1> QED
  BY <1>2, <1>3

(* Cache::Constructor::update() and Cache::clean() *)
LEMMA UpdateKeeps ==
  ASSUME IndInv, \A u \in Actors : th[u].pc # "park", update \/ cleanNext
  PROVE  IndInv'
<1> DEFINE t == Updater
<1>1. /\ t \in Actors /\ t \notin Threads /\ th[t].pc \in {"idle", "update"}
      /\ UNCHANGED <<lists, size, store, mapped>> /\ monitor' \in {None, Updater}
  BY CacheAssumption DEF Actors, update, cleanNext, IndInv, TypeOK
<1>2. th[t].page = None
  BY <1>1, Known DEF CallOK, PagePlaces, UsePlaces
<1>3. CASE changedList # <<>> /\ TakeChanged(t, "update")
  <2> HIDE DEF t
  <2>1. t = Updater
    BY DEF t
  <2> QED
    BY <1>1, <1>2, <1>3, TakeKeeps
<1>4. CASE th' = [th EXCEPT ![t] = Idle] /\ page' = page
  <2> DEFINE c == Idle
  <2>1. /\ th' = [th EXCEPT ![t] = c]
        /\ c \in CallRecords /\ CallOK(t, c) /\ c.pc # "park" /\ c.page = th[t].page
        /\ (c.op = "get" => th[t].op = "get" \/ mapped[t] = None)
        /\ t \in Threads /\ c.pc \in UsePlaces => c.off = page[c.page].off
    BY <1>1, <1>2, <1>4, Ends
  <2>2. /\ page' \in [Pages -> PageObjects]
        /\ \A q \in Pages :
            /\ page'[q].ref = page[q].ref /\ page'[q].off = page[q].off
            /\ page'[q].hashed = page[q].hashed /\ page'[q].changed = page[q].changed
            /\ page'[q].free = page[q].free
        /\ store' \in [Offsets -> [Sectors -> BOOLEAN]]
        /\ UNCHANGED <<lists, size, mapped>>
    BY <1>1, <1>4, Known
  <2> HIDE DEF c, t
  <2> QED
    BY <1>1, <2>1, <2>2, CallerStep
<1> QED
  BY <1>3, <1>4 DEF update, cleanNext

(* A step that moves a page on or off the changed list, or lets go of it.    *)
LEMMA CountStep ==
  ASSUME IndInv, NEW t \in Actors, \A u \in Actors : th[u].pc # "park",
         NEW p \in Pages, page[p].off # None,
         NEW r \in PageObjects, r.ref # 0, r.off = page[p].off, r.hashed = page[p].hashed,
         r.changed => page[p].hashed, r.free = page[p].free,
         page' = [page EXCEPT ![p] = r],
         NEW c \in CallRecords, th' = [th EXCEPT ![t] = c],
         CallOK(t, c), c.pc # "park", c.pc \notin UsePlaces,
         c.op = "get" => th[t].op = "get",
         Holds(th[t], p), c.page \in {p, None}, page[p].ref # 0,
         r.ref - page[p].ref = One(r.changed) - One(page[p].changed) + One(c.page = p) - 1,
         UNCHANGED <<freeList, standbyList, size, monitor, store, mapped>>,
         changedList' \in Seq(Pages), Once(changedList'),
         \A q \in Pages \ {p} : q \in ToSet(changedList') <=> q \in ToSet(changedList),
         p \in ToSet(changedList') <=> r.changed
  PROVE  IndInv'
<1>1. /\ \A q \in Pages : Holds(th[t], q) <=> p = q
      /\ \A q \in Pages : Holds(c, q) <=> c.page = q
      /\ None \notin Pages
  BY CacheAssumption DEF Holds
<1>2. \A q \in Pages \ {p} :
            One(Holds(c, q)) + One(t \in Threads /\ mapped'[t] = q)
              = One(Holds(th[t], q)) + One(t \in Threads /\ mapped[t] = q)
  BY <1>1 DEF One
<1>3. r.ref - page[p].ref =
              One(r.changed) - One(page[p].changed)
            + One(Holds(c, p)) - One(Holds(th[t], p))
            + One(t \in Threads /\ mapped'[t] = p) - One(t \in Threads /\ mapped[t] = p)
  BY <1>1, KnownLists, Counted DEF One
<1>4. /\ PageOK(r, size) /\ (r.free => r.ref # 0) /\ size' = size
      /\ (r.hashed => \A q \in Pages \ {p} : ~(page[q].hashed /\ page[q].off = r.off))
      /\ \A u \in Actors : th[u].page = p => r.off = page[p].off
  BY KnownLists DEF PageOK
<1>5. /\ \A u \in Threads \ {t} : mapped'[u] = mapped[u]
      /\ mapped' \in [Threads -> Pages \cup {None}]
      /\ monitor' \in {None, Updater}
      /\ store' \in [Offsets -> [Sectors -> BOOLEAN]]
  BY Known
<1>6. t \in Threads /\ c.op = "get" => mapped'[t] = None
  BY Known
<1>7. t \in Threads /\ c.pc \in UsePlaces =>
            c.off = IF c.page = p THEN r.off ELSE page[c.page].off
  OBVIOUS
<1>8. /\ freeList' \in Seq(Pages) /\ standbyList' \in Seq(Pages) /\ changedList' \in Seq(Pages)
      /\ Once(freeList') /\ Once(standbyList') /\ Once(changedList')
      /\ \A q \in Pages \ {p} :
            /\ q \in ToSet(changedList') <=> q \in ToSet(changedList)
            /\ q \in ToSet(freeList') <=> q \in ToSet(freeList)
            /\ q \in ToSet(standbyList') <=> q \in ToSet(standbyList)
      /\ p \in ToSet(changedList') <=> r.changed
      /\ p \in ToSet(freeList') <=> r.off = None
      /\ p \in ToSet(standbyList') <=> r.ref = 0 /\ r.hashed
  BY KnownLists
<1>9. /\ r \in PageObjects /\ c \in CallRecords
      /\ page' = [page EXCEPT ![p] = r]
      /\ th' = [th EXCEPT ![t] = c]
      /\ CallOK(t, c) /\ c.pc # "park"
  OBVIOUS
<1> QED
  BY ZenonT(30), <1>2, <1>3, <1>4, <1>5, <1>6, <1>7, <1>8, <1>9, OnePageStep

(* Cache::change() *)
LEMMA ChangeKeeps ==
  ASSUME IndInv, NEW t \in Actors, \A u \in Actors : th[u].pc # "park", change(t)
  PROVE  IndInv'
<1> DEFINE p == th[t].page
           r == [page[p] EXCEPT !.ref = page[p].ref + 1, !.changed = TRUE]
           c == [th[t] EXCEPT !.pc = "drop"]
<1>1. /\ th[t].pc = "change" /\ Goto(t, "drop") /\ UNCHANGED <<size, monitor, store, mapped>>
      /\ "drop" \in Places /\ "drop" \notin UsePlaces /\ th[t].pc \in PagePlaces
  BY DEF change, Places, UsePlaces, PagePlaces
<1>2. CallOK(t, c) /\ c.pc = "drop" /\ c.page = p /\ c.op = th[t].op /\ c \in CallRecords
  BY <1>1, Known, Goes DEF CallOK, UsePlaces, OffPlaces, PagePlaces
<1>3. CASE UNCHANGED <<page, lists>>
  BY <1>1, <1>2, <1>3, Known, MoveStep
<1>4. CASE /\ ~page[p].changed /\ ~page[p].free
           /\ page' = [page EXCEPT ![p].ref = @ + 1, ![p].changed = TRUE]
           /\ changedList' = Append(changedList, p)
           /\ UNCHANGED <<freeList, standbyList>>
  <2>1. page' = [page EXCEPT ![p] = r] /\ th' = [th EXCEPT ![t] = c]
    BY <1>1, <1>4 DEF Goto
  <2>2. /\ p \in Pages /\ page[p] \in PageObjects /\ page[p].off # None /\ page[p].hashed
        /\ None \notin Offsets
    BY <1>1, <1>4, KnownPage, CacheAssumption DEF PageOK, Offsets
  <2>3. page[p].ref \in Nat
    BY <2>2, Counted DEF PageObjects
  <2>4. page[p].ref + 1 \in Nat /\ TRUE \in BOOLEAN
    BY <2>3
  <2>5. /\ r \in PageObjects /\ r.ref = page[p].ref + 1 /\ r.off = page[p].off
        /\ r.hashed = page[p].hashed /\ r.changed = TRUE /\ r.free = page[p].free
    BY <2>2, <2>4, CountedChange
  <2>6. page[p].ref # 0 /\ r.ref # 0
    <3>1. page[p].ref >= 1 + One(page[p].changed)
      BY <1>1, KnownPage
    <3> QED
      BY <3>1, <2>3, <2>5 DEF One
  <2>7. /\ changedList' \in Seq(Pages) /\ Once(changedList')
        /\ ToSet(changedList') = ToSet(changedList) \cup {p}
    BY <1>4, <2>2, KnownLists, AppendLists
  <2>8. r.ref - page[p].ref = One(r.changed) - One(page[p].changed) + One(c.page = p) - 1
    BY <1>2, <1>4, <2>3, <2>5 DEF One
  <2>9. Holds(th[t], p)
    BY <1>1 DEF Holds
  <2> HIDE DEF r, c, p
  <2> QED
    BY <1>1, <1>2, <1>4, <2>1, <2>2, <2>4, <2>5, <2>6, <2>7, <2>8, <2>9, CountStep
<1> QED
  BY <1>3, <1>4 DEF change

(* Cache::clean(page), from Page::sync() *)
LEMMA CleanKeeps ==
  ASSUME IndInv, NEW t \in Actors, \A u \in Actors : th[u].pc # "park", clean(t)
  PROVE  IndInv'
<1> DEFINE p == th[t].page
           r == [page[p] EXCEPT !.ref = page[p].ref - 1, !.changed = FALSE]
           c == [th[t] EXCEPT !.pc = "snap"]
<1>1. /\ th[t].pc = "clean" /\ UNCHANGED <<freeList, standbyList, size, monitor, store, mapped>>
      /\ {"drop", "snap"} \subseteq Places \ (UsePlaces \cup {"park"}) /\ th[t].pc \in PagePlaces
  BY DEF clean, Places, UsePlaces, PagePlaces
<1>2. /\ CallOK(t, [th[t] EXCEPT !.pc = "drop"])
      /\ CallOK(t, c) /\ c.pc = "snap" /\ c.page = p /\ c.op = th[t].op /\ c \in CallRecords
  BY <1>1, Known, Goes DEF CallOK, UsePlaces, OffPlaces, PagePlaces
<1>3. CASE UNCHANGED <<page, changedList>> /\ Goto(t, "drop")
  <2>1. UNCHANGED <<lists, size, monitor, mapped>>
    BY <1>1, <1>3 DEF lists
  <2> QED
    BY <1>1, <1>2, <1>3, <2>1, Known, MoveStep
<1>4. CASE /\ page[p].changed /\ Goto(t, "snap")
           /\ page' = [page EXCEPT ![p].changed = FALSE, ![p].ref = @ - 1]
           /\ changedList' = Only(changedList, Pages \ {p})
  <2>2. /\ p \in Pages /\ page[p] \in PageObjects /\ page[p].off # None
        /\ page[p].ref \in Nat /\ page[p].ref >= 2
    <3>1. /\ p \in Pages /\ page[p] \in PageObjects /\ page[p].off \in Offsets
          /\ page[p].ref >= 1 + One(page[p].changed) /\ None \notin Offsets
      BY <1>1, KnownPage, CacheAssumption DEF Offsets
    <3>2. page[p].ref \in Nat
      BY <3>1 DEF PageObjects
    <3> QED
      BY <3>1, <3>2, <1>4 DEF One
  <2>3. page[p].ref - 1 \in Nat /\ page[p].ref - 1 # 0 /\ FALSE \in BOOLEAN
    BY <2>2
  <2>4. /\ r \in PageObjects /\ r.ref = page[p].ref - 1 /\ r.off = page[p].off
        /\ r.hashed = page[p].hashed /\ r.changed = FALSE /\ r.free = page[p].free
    BY <2>2, <2>3, CountedChange
  <2>1. page' = [page EXCEPT ![p] = r] /\ th' = [th EXCEPT ![t] = c]
    <3>1. r = [page[p] EXCEPT !.changed = FALSE, !.ref = page[p].ref - 1]
      BY <2>2 DEF PageObjects
    <3> HIDE DEF r
    <3> QED
      BY <1>4, <3>1 DEF Goto
  <2>5. page[p].ref # 0 /\ r.ref # 0
    BY <2>2, <2>3, <2>4
  <2>6. /\ changedList' \in Seq(Pages) /\ Once(changedList')
        /\ ToSet(changedList') = ToSet(changedList) \cap (Pages \ {p})
        /\ ToSet(changedList) \subseteq Pages
    BY <1>4, <2>2, KnownLists, OnlyLists
  <2>7. r.ref - page[p].ref = One(r.changed) - One(page[p].changed) + One(c.page = p) - 1
    BY <1>2, <1>4, <2>2, <2>4 DEF One
  <2>8. Holds(th[t], p)
    BY <1>1 DEF Holds
  <2>9. /\ \A q \in Pages \ {p} : q \in ToSet(changedList') <=> q \in ToSet(changedList)
        /\ p \in ToSet(changedList') <=> r.changed
        /\ r.changed => page[p].hashed
    BY <2>4, <2>6
  <2>10. c.pc # "park" /\ c.pc \notin UsePlaces /\ c.page \in {p, None}
    BY <1>1, <1>2
  <2> HIDE DEF r, c, p
  <2> QED
    BY <1>1, <1>2, <2>1, <2>2, <2>4, <2>5, <2>6, <2>7, <2>8, <2>9, <2>10, CountStep
<1> QED
  BY <1>3, <1>4 DEF clean

(* A call goes on after Page::release().                                     *)
LEMMA Releases ==
  ASSUME NEW t \in Actors, th[t] \in CallRecords, CallOK(t, th[t]), th[t].pc \in {"drop", "park"}
  PROVE  LET c == IF th[t].then = "idle" THEN Idle
                  ELSE [th[t] EXCEPT !.pc = th[t].then, !.page = None]
         IN  /\ c \in CallRecords /\ CallOK(t, c) /\ c.pc # "park" /\ c.pc \notin UsePlaces
             /\ c.page = None /\ (c.op = "get" => th[t].op = "get")
<1>1. CASE th[t].then = "idle"
  BY <1>1, Ends DEF UsePlaces
<1>2. CASE th[t].then # "idle"
  <2> DEFINE c == [th[t] EXCEPT !.pc = th[t].then, !.page = None]
  <2>1. th[t].then \in {"flush", "update"}
    BY <1>2 DEF CallRecords
  <2>2. /\ c \in CallRecords /\ c.pc = th[t].then /\ c.page = None /\ c.then = th[t].then
        /\ c.op = th[t].op /\ c.off = th[t].off
    BY <2>1 DEF CallRecords, Places
  <2> HIDE DEF c
  <2>3. CallOK(t, c)
    BY <2>1, <2>2 DEF CallOK, PagePlaces, UsePlaces, OffPlaces
  <2> QED
    BY <1>2, <2>1, <2>2, <2>3 DEF UsePlaces, c
<1> QED
  BY <1>1, <1>2

(* Page::release() when it was the last reference. *)
LEMMA LastDropKeeps ==
  ASSUME IndInv, NEW t \in Actors, \A u \in Actors : th[u].pc # "park", drop(t),
         page[th[t].page].ref = 1
  PROVE  IndInv'
<1> USE DEF IndInv
<1> DEFINE p == th[t].page
           r == [page[p] EXCEPT !.ref = 0]
           c == [th[t] EXCEPT !.pc = "park"]
<1>1. /\ th[t].pc = "drop" /\ UNCHANGED <<lists, size, monitor, store, mapped>>
      /\ "park" \in Places /\ "park" \notin UsePlaces /\ th[t].pc \in PagePlaces
      /\ th' = [th EXCEPT ![t] = c]
  BY DEF drop, Places, UsePlaces, PagePlaces
<1>2. CallOK(t, c) /\ c.pc = "park" /\ c.page = p /\ c.op = th[t].op /\ c \in CallRecords
  BY <1>1, Known, Goes DEF CallOK, UsePlaces, OffPlaces, PagePlaces
<1>3. /\ p \in Pages /\ page[p] \in PageObjects /\ page[p].off \in Offsets /\ page[p].off # None
      /\ ~page[p].changed
  <2>1. /\ p \in Pages /\ page[p] \in PageObjects /\ page[p].off \in Offsets /\ None \notin Offsets
        /\ page[p].ref >= 1 + One(page[p].changed)
    BY <1>1, KnownPage, CacheAssumption DEF Offsets
  <2> QED
    BY <2>1 DEF One
<1>4. /\ r \in PageObjects /\ r.ref = 0 /\ r.off = page[p].off
      /\ r.hashed = page[p].hashed /\ r.changed = page[p].changed /\ r.free = page[p].free
  BY <1>3, Counted
<1>5. page' = [page EXCEPT ![p] = r]
  BY <1>3 DEF drop
<1> HIDE DEF r, c
<1>6. /\ page' \in [Pages -> PageObjects]
      /\ \A q \in Pages : page'[q] = IF q = p THEN r ELSE page[q]
  BY <1>3, <1>4, <1>5, Known
<1>7. /\ th' \in [Actors -> CallRecords]
      /\ PlacesOK'
      /\ th'[t] = c
      /\ \A u \in Actors \ {t} : th'[u] = th[u]
  BY <1>1, <1>2, CallStep, Zenon
<1>8. \A q \in Pages : Parked(q)' <=> q = p
  BY <1>2, <1>7 DEF Parked
<1>9. UNCHANGED <<freeList, standbyList, changedList, size, monitor, store, mapped>>
  BY <1>1 DEF lists
<1>10. TypeOK'
  BY <1>6, <1>7, <1>9 DEF TypeOK
<1>11. PagesOK'
  BY <1>3, <1>4, <1>6, <1>9 DEF PagesOK, PageOK
<1>12. CutOffIsHeld'
  BY <1>6, <1>8, KnownLists DEF CutOffIsHeld
<1>13. ParkingAlone'
  BY <1>2, <1>3, <1>4, <1>6, <1>7 DEF ParkingAlone
<1>14. RefsOK'
  <2>1. /\ p \in Pages /\ page[p].ref = 1 /\ r.ref = 0 /\ r.changed = page[p].changed
        /\ \A q \in Pages : page[q].ref \in Int
    BY <1>3, <1>4, Known DEF PageObjects
  <2>2. /\ \A q \in Pages : t \notin Callers(q)' /\ (t \in Callers(q) <=> q = p)
        /\ \A q \in Pages : t \in Mappers(q)' <=> t \in Mappers(q)
    BY <1>1, <1>2, <1>7, <1>9 DEF Callers, Mappers
  <2>3. \A q \in Pages :
            /\ page'[q].ref \in Int
            /\ page'[q].ref - page[q].ref =
                  One(page'[q].changed) - One(page[q].changed)
                + One(t \in Callers(q)') - One(t \in Callers(q))
                + One(t \in Mappers(q)') - One(t \in Mappers(q))
    BY <1>6, <2>1, <2>2 DEF One
  <2> QED
    BY <2>3, <1>7, <1>9, RefsStep
<1>15. ListsOK'
  BY <1>3, <1>4, <1>6, <1>8, <1>9, KnownLists DEF ListsOK
<1>16. OnePagePerOffset'
  BY <1>3, <1>4, <1>6 DEF OnePagePerOffset
<1>17. HeldStays'
  <2> SUFFICES ASSUME NEW u \in Threads, th'[u].pc \in UsePlaces
               PROVE  page'[th'[u].page].off = th'[u].off
    BY DEF HeldStays, UsePlaces
  <2>1. u \in Actors /\ u # t
    BY <1>1, <1>2, <1>7 DEF Actors
  <2>2. th'[u] = th[u] /\ th[u].page \in Pages /\ th[u].off = page[th[u].page].off
    BY <2>1, <1>7, KnownPage DEF PagePlaces
  <2> QED
    BY <2>2, <1>4, <1>6
<1>18. GetIsFirst'
  BY <1>2, <1>7, <1>9 DEF GetIsFirst, Actors
<1> QED
  BY <1>7, <1>10, <1>11, <1>12, <1>13, <1>14, <1>15, <1>16, <1>17, <1>18

(* Page::release() *)
LEMMA DropKeeps ==
  ASSUME IndInv, NEW t \in Actors, \A u \in Actors : th[u].pc # "park", drop(t)
  PROVE  IndInv'
<1>1. CASE page[th[t].page].ref = 1
  BY <1>1, LastDropKeeps
<1>2. CASE page[th[t].page].ref # 1
  <2> DEFINE p == th[t].page
             r == [page[p] EXCEPT !.ref = page[p].ref - 1]
             c == IF th[t].then = "idle" THEN Idle
                  ELSE [th[t] EXCEPT !.pc = th[t].then, !.page = None]
  <2>1. /\ th[t].pc = "drop" /\ UNCHANGED <<lists, size, monitor, store, mapped>>
        /\ th[t].pc \in PagePlaces /\ th' = [th EXCEPT ![t] = c]
    BY <1>2 DEF drop, PagePlaces
  <2>2. /\ c \in CallRecords /\ CallOK(t, c) /\ c.pc # "park" /\ c.pc \notin UsePlaces
        /\ c.page = None /\ (c.op = "get" => th[t].op = "get")
    BY <2>1, Known, Releases
  <2>3. /\ p \in Pages /\ page[p] \in PageObjects /\ page[p].off # None /\ None \notin Pages
        /\ page[p].ref \in Nat /\ page[p].ref >= 2
    <3>1. /\ p \in Pages /\ page[p] \in PageObjects /\ page[p].off \in Offsets /\ None \notin Offsets
          /\ page[p].ref >= 1 + One(page[p].changed) /\ None \notin Pages
      BY <2>1, KnownPage, CacheAssumption DEF Offsets
    <3>2. page[p].ref \in Nat
      BY <3>1 DEF PageObjects
    <3> QED
      BY <3>1, <3>2, <1>2 DEF One
  <2>4. page[p].ref - 1 \in Nat /\ page[p].ref - 1 # 0
    BY <2>3
  <2>5. /\ r \in PageObjects /\ r.ref = page[p].ref - 1 /\ r.off = page[p].off
        /\ r.hashed = page[p].hashed /\ r.changed = page[p].changed /\ r.free = page[p].free
    BY <2>3, <2>4, Counted
  <2>6. page' = [page EXCEPT ![p] = r] /\ page[p].ref # 0 /\ r.ref # 0
    BY <2>3, <2>5 DEF drop
  <2>7. r.ref - page[p].ref = One(r.changed) - One(page[p].changed) + One(c.page = p) - 1
    BY <2>2, <2>3, <2>5 DEF One
  <2>8. /\ changedList' = changedList
        /\ UNCHANGED <<freeList, standbyList, size, monitor, store, mapped>>
    BY <2>1 DEF lists
  <2>9. /\ changedList' \in Seq(Pages) /\ Once(changedList')
        /\ \A q \in Pages \ {p} : q \in ToSet(changedList') <=> q \in ToSet(changedList)
        /\ p \in ToSet(changedList') <=> r.changed
        /\ r.changed => page[p].hashed
    BY <2>3, <2>5, <2>8, KnownLists DEF PageOK
  <2>10. Holds(th[t], p) /\ c.page \in {p, None}
    BY <2>1, <2>2 DEF Holds
  <2> HIDE DEF p, r, c
  <2> QED
    BY <2>1, <2>2, <2>3, <2>5, <2>6, <2>7, <2>8, <2>9, <2>10, CountStep
<1> QED
  BY <1>1, <1>2

(* A page whose count is zero is held by nobody. *)
LEMMA NobodyHolds ==
  ASSUME IndInv, NEW p \in Pages, page[p].ref = 0
  PROVE  /\ ~page[p].changed
         /\ \A u \in Actors : th[u].page = p => th[u].pc = "park"
         /\ \A u \in Threads : mapped[u] # p
<1>1. page[p].ref \in Nat
  BY Counted DEF IndInv, TypeOK
<1>2. One(page[p].changed) \in Nat
  BY DEF One
<1>3. ~(page[p].ref >= 1 + One(page[p].changed)) /\ ~(page[p].ref >= 1)
  BY <1>1, <1>2
<1>4. (\A u \in Actors : u \notin Callers(p)) /\ (\A u \in Threads : u \notin Mappers(p))
      /\ ~page[p].changed
  BY <1>3, HeldIsCounted DEF IndInv
<1> QED
  BY <1>4 DEF Callers, Mappers

(* PageSet::free() and PageSet::standby(), from Page::release() *)
LEMMA ParkKeeps ==
  ASSUME IndInv, NEW t \in Actors, park(t)
  PROVE  IndInv'
<1> USE DEF IndInv
<1> DEFINE p == th[t].page
           r == IF page[p].free THEN [page[p] EXCEPT !.off = None, !.free = FALSE] ELSE page[p]
           c == IF th[t].then = "idle" THEN Idle
                ELSE [th[t] EXCEPT !.pc = th[t].then, !.page = None]
<1>1. /\ th[t].pc = "park" /\ UNCHANGED <<size, monitor, store, mapped>>
      /\ th[t].pc \in PagePlaces /\ th' = [th EXCEPT ![t] = c]
  BY DEF park, PagePlaces
<1>2. /\ c \in CallRecords /\ CallOK(t, c) /\ c.pc # "park" /\ c.pc \notin UsePlaces
      /\ c.page = None /\ (c.op = "get" => th[t].op = "get")
  BY <1>1, Known, Releases
<1>3. /\ p \in Pages /\ page[p] \in PageObjects /\ page[p].off # None /\ page[p].ref = 0
      /\ PageOK(page[p], size) /\ None \notin Pages
      /\ \A u \in Actors \ {t} : th[u].pc # "park"
  BY <1>1, KnownPage, CacheAssumption DEF ParkingAlone
<1>4. /\ ~page[p].changed
      /\ \A u \in Actors \ {t} : th[u].page # p
  BY <1>3, NobodyHolds
<1>5. /\ r \in PageObjects /\ r.ref = 0 /\ r.hashed = page[p].hashed /\ ~r.changed
      /\ PageOK(r, size) /\ ~r.free
      /\ r.hashed => r = page[p]
      /\ r.off = None <=> page[p].free
      /\ r.hashed <=> ~page[p].free
  <2>1. CASE page[p].free
    <3> DEFINE x == [page[p] EXCEPT !.off = None, !.free = FALSE]
    <3>1. /\ x \in PageObjects /\ x.ref = page[p].ref /\ x.hashed = page[p].hashed
          /\ x.changed = page[p].changed /\ x.free = FALSE /\ x.off = None
      BY <1>3 DEF PageObjects
    <3> HIDE DEF x
    <3>2. ~page[p].hashed
      BY <2>1, <1>3 DEF PageOK
    <3>3. x \in PageObjects /\ x.ref = 0 /\ ~x.hashed /\ ~x.changed /\ PageOK(x, size) /\ ~x.free
      BY <3>1, <3>2, <1>3, <1>4 DEF PageOK
    <3> QED
      BY <2>1, <3>1, <3>2, <3>3 DEF x
  <2>2. CASE ~page[p].free
    BY <2>2, <1>3, <1>4 DEF PageOK
  <2> QED
    BY <2>1, <2>2
<1>6. page' = [page EXCEPT ![p] = r]
  <2>1. CASE page[p].free
    BY <2>1 DEF park
  <2>2. CASE ~page[p].free
    BY <2>2, <1>3, Known DEF park
  <2> QED
    BY <2>1, <2>2
<1>7. /\ changedList' = changedList
      /\ freeList' = IF page[p].free THEN Append(freeList, p) ELSE freeList
      /\ standbyList' = IF page[p].free THEN standbyList ELSE Append(standbyList, p)
  BY DEF park
<1> HIDE DEF r, c
<1>8. /\ page' \in [Pages -> PageObjects]
      /\ \A q \in Pages : page'[q] = IF q = p THEN r ELSE page[q]
  BY <1>3, <1>5, <1>6, Known
<1>9. /\ th' \in [Actors -> CallRecords]
      /\ PlacesOK'
      /\ th'[t] = c
      /\ \A u \in Actors \ {t} : th'[u] = th[u]
  BY <1>1, <1>2, CallStep, Zenon
<1>10. (\A u \in Actors : th'[u].pc # "park") /\ (\A q : ~Parked(q)')
       /\ (\A q : Parked(q) <=> q = p)
  <2>1. \A u \in Actors : th'[u].pc # "park"
    BY <1>2, <1>3, <1>9
  <2> QED
    BY <2>1, <1>1, <1>3 DEF Parked
<1>11. /\ freeList \in Seq(Pages) /\ standbyList \in Seq(Pages) /\ changedList \in Seq(Pages)
       /\ Once(freeList) /\ Once(standbyList) /\ Once(changedList)
       /\ p \notin ToSet(freeList) /\ p \notin ToSet(standbyList)
  BY <1>3, <1>10 DEF TypeOK, ListsOK
<1>12. /\ freeList' \in Seq(Pages) /\ standbyList' \in Seq(Pages)
       /\ Once(freeList') /\ Once(standbyList')
       /\ ToSet(freeList') = IF page[p].free THEN ToSet(freeList) \cup {p} ELSE ToSet(freeList)
       /\ ToSet(standbyList') = IF page[p].free THEN ToSet(standbyList)
                                ELSE ToSet(standbyList) \cup {p}
  <2>1. \A q \in Seq(Pages) : p \notin ToSet(q) /\ Once(q) =>
          /\ Append(q, p) \in Seq(Pages) /\ Once(Append(q, p))
          /\ ToSet(Append(q, p)) = ToSet(q) \cup {p}
    BY <1>3, AppendLists
  <2> HIDE DEF p
  <2>2. CASE page[p].free
    BY <2>1, <2>2, <1>7, <1>11
  <2>3. CASE ~page[p].free
    BY <2>1, <2>3, <1>7, <1>11
  <2> QED
    BY <2>2, <2>3
<1>13. TypeOK'
  BY <1>1, <1>7, <1>8, <1>9, <1>12 DEF TypeOK
<1>14. PagesOK'
  BY <1>1, <1>5, <1>8 DEF PagesOK, PageOK
<1>15. CutOffIsHeld'
  BY <1>5, <1>8, <1>10 DEF CutOffIsHeld
<1>16. ParkingAlone'
  BY <1>10 DEF ParkingAlone
<1>17. RefsOK'
  <2>1. /\ \A q \in Pages : page[q].ref \in Int
        /\ r.ref = page[p].ref /\ r.changed = page[p].changed
    BY <1>3, <1>4, <1>5, Known DEF PageObjects
  <2>2. /\ \A q \in Pages : t \notin Callers(q)' /\ t \notin Callers(q)
        /\ \A q \in Pages : t \in Mappers(q)' <=> t \in Mappers(q)
    BY <1>1, <1>2, <1>3, <1>9 DEF Callers, Mappers
  <2>3. \A q \in Pages : page'[q].ref = page[q].ref /\ page'[q].changed = page[q].changed
    BY <1>8, <2>1
  <2>4. \A q \in Pages :
            /\ page'[q].ref \in Int
            /\ page'[q].ref - page[q].ref =
                  One(page'[q].changed) - One(page[q].changed)
                + One(t \in Callers(q)') - One(t \in Callers(q))
                + One(t \in Mappers(q)') - One(t \in Mappers(q))
    BY <2>1, <2>2, <2>3 DEF One
  <2> QED
    BY <2>4, <1>1, <1>9, RefsStep
<1>18. ListsOK'
  <2>1. ASSUME NEW q \in Pages
        PROVE  /\ q \in ToSet(changedList') <=> page'[q].changed
               /\ q \in ToSet(freeList') <=> page'[q].off = None
               /\ q \in ToSet(standbyList') <=> page'[q].ref = 0 /\ page'[q].hashed
    <3>1. CASE q = p
      BY <3>1, <1>3, <1>4, <1>5, <1>7, <1>8, <1>11, <1>12 DEF ListsOK
    <3>2. CASE q # p
      BY <3>2, <1>7, <1>8, <1>10, <1>12 DEF ListsOK
    <3> QED
      BY <3>1, <3>2
  <2> QED
    BY <2>1, <1>7, <1>10, <1>11, <1>12, Zenon DEF ListsOK, ToSet, Once
<1>19. OnePagePerOffset'
  BY <1>5, <1>8 DEF OnePagePerOffset
<1>20. HeldStays'
  <2> SUFFICES ASSUME NEW u \in Threads, th'[u].pc \in UsePlaces
               PROVE  page'[th'[u].page].off = th'[u].off
    BY DEF HeldStays, UsePlaces
  <2>1. u \in Actors /\ u # t
    BY <1>2, <1>9 DEF Actors
  <2>2. th'[u] = th[u] /\ th[u].page \in Pages /\ th[u].off = page[th[u].page].off
    BY <2>1, <1>9, KnownPage DEF PagePlaces
  <2> QED
    BY <2>1, <2>2, <1>4, <1>8
<1>21. GetIsFirst'
  BY <1>1, <1>2, <1>9 DEF GetIsFirst, Actors
<1> QED
  BY <1>9, <1>13, <1>14, <1>15, <1>16, <1>17, <1>18, <1>19, <1>20, <1>21

(* Page p as getPage() hands it out for offset o. *)
HandedOut(p, r, o) ==
    /\ r.off = o /\ r.hashed /\ ~r.free
    /\ r.ref = page[p].ref + 1 /\ r.changed = page[p].changed

(* getPage() gives a page to its caller.                                     *)
LEMMA HaveKeeps ==
  ASSUME IndInv, NEW t \in Actors, \A u \in Actors : th[u].pc # "park",
         th[t].pc = "get", NEW p \in Pages, NEW r \in PageObjects,
         page' = [page EXCEPT ![p] = r],
         NEW c \in CallRecords, th' = [th EXCEPT ![t] = c], c.pc \in {"copy", "fill"},
         Holds(c, p), c.op = th[t].op, c.off = th[t].off, c.then = th[t].then,
         th[t].off < size, HandedOut(p, r, th[t].off),
         \A q \in Pages \ {p} : ~(page[q].hashed /\ page[q].off = r.off),
         \A u \in Actors : th[u].page = p => r.off = page[p].off,
         changedList' = changedList, UNCHANGED <<size, monitor, store, mapped>>,
         freeList' \in Seq(Pages), standbyList' \in Seq(Pages),
         Once(freeList'), Once(standbyList'),
         \A q \in Pages \ {p} :
            /\ q \in ToSet(freeList') <=> q \in ToSet(freeList)
            /\ q \in ToSet(standbyList') <=> q \in ToSet(standbyList),
         p \notin ToSet(freeList'), p \notin ToSet(standbyList')
  PROVE  IndInv'
<1>1. /\ th[t] \in CallRecords /\ CallOK(t, th[t]) /\ t \in Threads /\ t # Updater
      /\ size \in 0 .. MaxSize /\ None \notin Pages /\ None \notin Nat /\ MaxSize \in Nat
      /\ th[t].page = None
  BY Known, CacheAssumption DEF CallOK, PagePlaces, UsePlaces
<1>4. CallOK(t, c) /\ c.pc # "park" /\ c.off \in Offsets
  BY <1>1 DEF CallOK, PagePlaces, UsePlaces, OffPlaces, Holds
<1>5. r.off \in Offsets /\ r.off \in 0 .. size - 1 /\ r.off # None
  BY <1>1, <1>4 DEF Offsets, HandedOut
<1>6. page[p].ref \in Nat /\ r.ref # 0
  <2>1. page[p] \in PageObjects
    BY KnownLists
  <2>2. page[p].ref \in Nat
    BY <2>1 DEF PageObjects
  <2> QED
    BY <2>2 DEF HandedOut
<1>7. PageOK(r, size) /\ (r.free => r.ref # 0) /\ size' = size
      /\ (r.hashed => \A q \in Pages \ {p} : ~(page[q].hashed /\ page[q].off = r.off))
  BY <1>5, <1>6, KnownLists DEF PageOK, HandedOut
<1>8. t \in Threads /\ c.pc \in UsePlaces =>
            c.off = IF c.page = p THEN r.off ELSE page[c.page].off
  BY DEF HandedOut, Holds
<1>9. /\ \A u \in Threads \ {t} : mapped'[u] = mapped[u]
      /\ mapped' \in [Threads -> Pages \cup {None}]
      /\ monitor' \in {None, Updater}
      /\ store' \in [Offsets -> [Sectors -> BOOLEAN]]
  BY Known
<1>10. t \in Threads /\ c.op = "get" => mapped'[t] = None
  BY Known
<1>11. (\A q \in Pages : ~Holds(th[t], q)) /\ (\A q \in Pages : Holds(c, q) <=> q = p)
  BY <1>1 DEF Holds
<1>12. \A q \in Pages \ {p} :
            One(Holds(c, q)) + One(t \in Threads /\ mapped'[t] = q)
              = One(Holds(th[t], q)) + One(t \in Threads /\ mapped[t] = q)
  BY <1>11 DEF One
<1>13. r.ref - page[p].ref =
              One(r.changed) - One(page[p].changed)
            + One(Holds(c, p)) - One(Holds(th[t], p))
            + One(t \in Threads /\ mapped'[t] = p) - One(t \in Threads /\ mapped[t] = p)
  BY <1>6, <1>11 DEF One, HandedOut
<1>14. /\ changedList' \in Seq(Pages) /\ Once(changedList')
       /\ \A q \in Pages \ {p} :
            /\ q \in ToSet(changedList') <=> q \in ToSet(changedList)
            /\ q \in ToSet(freeList') <=> q \in ToSet(freeList)
            /\ q \in ToSet(standbyList') <=> q \in ToSet(standbyList)
       /\ p \in ToSet(changedList') <=> r.changed
       /\ p \in ToSet(freeList') <=> r.off = None
       /\ p \in ToSet(standbyList') <=> r.ref = 0 /\ r.hashed
  BY <1>5, <1>6, KnownLists DEF HandedOut
<1> HIDE DEF IndInv
<1>15. /\ Once(freeList') /\ Once(standbyList') /\ Once(changedList')
       /\ freeList' \in Seq(Pages) /\ standbyList' \in Seq(Pages) /\ changedList' \in Seq(Pages)
       /\ \A u \in Actors : th[u].page = p => r.off = page[p].off
       /\ page' = [page EXCEPT ![p] = r] /\ p \in Pages /\ r \in PageObjects
  BY <1>14
<1> QED
  BY ZenonT(30), <1>4, <1>7, <1>8, <1>9, <1>10, <1>12, <1>13, <1>14, <1>15, OnePageStep

(* Page::set() *)
LEMMA SetPage ==
  ASSUME IndInv, NEW p \in Pages, NEW o \in Offsets
  PROVE  /\ set(p, o) \in PageObjects
         /\ set(p, o).ref = page[p].ref + 1 /\ set(p, o).off = o /\ set(p, o).hashed = TRUE
         /\ set(p, o).changed = FALSE /\ set(p, o).free = FALSE /\ set(p, o).filled = FALSE
<1>1. page[p] \in PageObjects
  BY DEF IndInv, TypeOK
<1>2. Stale \in [Sectors -> BOOLEAN]
  BY DEF Stale
<1>3. page[p].ref + 1 \in Nat
  BY <1>1 DEF PageObjects
<1> HIDE DEF Stale
<1> QED
  <2> DEFINE x == page[p]
             n == x.ref + 1
             d == Stale
  <2>1. x \in PageObjects /\ n \in Nat /\ d \in [Sectors -> BOOLEAN]
    BY <1>1, <1>2, <1>3
  <2>2. set(p, o) = [x EXCEPT !.ref = n, !.off = o, !.hashed = TRUE,
                              !.changed = FALSE, !.free = FALSE, !.filled = FALSE, !.data = d]
    BY DEF set
  <2> HIDE DEF x, n, d
  <2>3. /\ set(p, o) \in PageObjects
        /\ set(p, o).ref = n /\ set(p, o).off = o /\ set(p, o).hashed = TRUE
        /\ set(p, o).changed = FALSE /\ set(p, o).free = FALSE /\ set(p, o).filled = FALSE
    BY <2>1, <2>2 DEF PageObjects
  <2> QED
    BY <2>3 DEF n, x

(* Cache::getPage() *)
LEMMA GetPageKeeps ==
  ASSUME IndInv, NEW t \in Actors, \A u \in Actors : th[u].pc # "park", getPage(t)
  PROVE  IndInv'
<1> DEFINE o == th[t].off
           x == IF th[t].op = "write" /\ th[t].whole THEN "copy" ELSE "fill"
<1>1. /\ th[t].pc = "get" /\ UNCHANGED <<size, monitor, store, mapped>>
      /\ t \in Threads /\ o \in Offsets /\ None \notin Offsets
      /\ th[t].page = None
  <2>1. th[t].pc = "get" /\ UNCHANGED <<size, monitor, store, mapped>>
    BY DEF getPage
  <2>2. th[t] \in CallRecords /\ CallOK(t, th[t]) /\ t \in Threads
    BY <2>1, Known
  <2>3. o \in Offsets /\ th[t].page = None
    BY <2>1, <2>2 DEF CallOK, PagePlaces, UsePlaces, OffPlaces
  <2>4. None \notin Offsets
    BY CacheAssumption DEF Offsets
  <2> QED
    BY <2>1, <2>2, <2>3, <2>4
<1>2. x \in {"copy", "fill"}
  OBVIOUS
<1>3. CASE th' = [th EXCEPT ![t] = Idle] /\ UNCHANGED <<page, lists>>
  <2> DEFINE c == Idle
  <2>1. /\ th' = [th EXCEPT ![t] = c]
        /\ c \in CallRecords /\ CallOK(t, c) /\ c.pc # "park" /\ c.page = th[t].page
        /\ (c.op = "get" => th[t].op = "get" \/ mapped[t] = None)
        /\ c.pc \notin UsePlaces
    BY <1>1, <1>3, Ends DEF UsePlaces
  <2>2. /\ page' \in [Pages -> PageObjects]
        /\ \A q \in Pages :
            /\ page'[q].ref = page[q].ref /\ page'[q].off = page[q].off
            /\ page'[q].hashed = page[q].hashed /\ page'[q].changed = page[q].changed
            /\ page'[q].free = page[q].free
        /\ store' \in [Offsets -> [Sectors -> BOOLEAN]]
        /\ UNCHANGED <<lists, size, mapped>> /\ monitor' \in {None, Updater}
    BY <1>1, <1>3, Known
  <2> HIDE DEF c
  <2> QED
    BY <1>1, <2>1, <2>2, CallerStep
<1>4. CASE Goto(t, "flush") /\ UNCHANGED <<page, lists>>
  <2>1. "flush" \in Places /\ "flush" \notin UsePlaces
    BY DEF Places, UsePlaces
  <2>2. CallOK(t, [th[t] EXCEPT !.pc = "flush"])
    BY <1>1, <2>1, Known, Goes DEF CallOK, PagePlaces, UsePlaces, OffPlaces
  <2> QED
    BY <1>1, <1>4, <2>1, <2>2, Known, MoveStep
<1> DEFINE c(p) == [th[t] EXCEPT !.page = p, !.pc = x]
<1>5. ASSUME NEW p \in Pages, th' = [th EXCEPT ![t].page = p, ![t].pc = x]
      PROVE  /\ c(p) \in CallRecords /\ th' = [th EXCEPT ![t] = c(p)]
             /\ c(p).pc \in {"copy", "fill"} /\ Holds(c(p), p)
             /\ c(p).op = th[t].op /\ c(p).off = th[t].off /\ c(p).then = th[t].then
  <2>1. th[t] \in CallRecords /\ th \in [Actors -> CallRecords]
    BY DEF IndInv, TypeOK
  <2> HIDE DEF x
  <2>2. /\ c(p) \in CallRecords /\ c(p).page = p /\ c(p).pc = x
        /\ c(p).op = th[t].op /\ c(p).off = th[t].off /\ c(p).then = th[t].then
    BY <2>1, <1>2 DEF CallRecords, Places
  <2>3. th' = [th EXCEPT ![t] = c(p)]
    BY <1>5, <2>1
  <2> QED
    BY <2>2, <2>3, <1>2 DEF Holds
<1>6. changedList' = changedList
  BY DEF getPage, lists
<1>7. ASSUME o < size, NEW p \in lookup(o),
             page' = [page EXCEPT ![p].ref = @ + 1],
             standbyList' = IF page[p].ref = 0
                                     THEN Only(standbyList, Pages \ {p})
                                     ELSE standbyList,
             freeList' = freeList,
             th' = [th EXCEPT ![t].page = p, ![t].pc = x]
      PROVE  IndInv'
  <2> DEFINE r == [page[p] EXCEPT !.ref = page[p].ref + 1]
  <2>1. p \in Pages /\ page[p] \in PageObjects /\ page[p].hashed /\ page[p].off = o
        /\ PageOK(page[p], size) /\ page[p].ref \in Nat
    BY KnownLists DEF lookup, PageObjects
  <2>2. page[p].ref + 1 \in Nat
    BY <2>1
  <2>3. /\ r \in PageObjects /\ r.ref = page[p].ref + 1 /\ r.off = page[p].off
        /\ r.hashed = page[p].hashed /\ r.changed = page[p].changed /\ r.free = page[p].free
    BY <2>1, <2>2, Counted
  <2>4. page' = [page EXCEPT ![p] = r]
    BY <1>7
  <2> HIDE DEF r, c, x, o
  <2>5. HandedOut(p, r, th[t].off) /\ th[t].off < size
    BY <2>1, <2>3, <1>7 DEF HandedOut, PageOK, o
  <2>6. /\ \A q \in Pages \ {p} : ~(page[q].hashed /\ page[q].off = r.off)
        /\ \A u \in Actors : th[u].page = p => r.off = page[p].off
    BY <2>1, <2>3, KnownLists
  <2>7. /\ freeList' \in Seq(Pages) /\ Once(freeList')
        /\ \A q \in Pages \ {p} : q \in ToSet(freeList') <=> q \in ToSet(freeList)
        /\ p \notin ToSet(freeList')
    BY <2>1, <1>1, <1>7, KnownLists
  <2>8. /\ standbyList' \in Seq(Pages) /\ Once(standbyList')
        /\ \A q \in Pages \ {p} : q \in ToSet(standbyList') <=> q \in ToSet(standbyList)
        /\ p \notin ToSet(standbyList')
    BY <2>1, <1>7, KnownLists, OnlyLists
  <2>9. UNCHANGED <<size, monitor, store, mapped>> /\ th[t].pc = "get"
    BY <1>1
  <2>10. /\ c(p) \in CallRecords /\ th' = [th EXCEPT ![t] = c(p)]
         /\ c(p).pc \in {"copy", "fill"} /\ Holds(c(p), p)
         /\ c(p).op = th[t].op /\ c(p).off = th[t].off /\ c(p).then = th[t].then
    BY <2>1, <1>5, <1>7
  <2> QED
    BY <2>1, <2>3, <2>4, <2>5, <2>6, <2>7, <2>8, <2>9, <2>10, <1>6, HaveKeeps
<1>8. ASSUME o < size, lookup(o) = {}, NEW p \in Pages, page[p].ref = 0, ~page[p].changed,
             page' = [page EXCEPT ![p] = set(p, o)],
             th' = [th EXCEPT ![t].page = p, ![t].pc = x],
             freeList' \in Seq(Pages), Once(freeList'),
             standbyList' \in Seq(Pages), Once(standbyList'),
             ToSet(freeList') = ToSet(freeList) \ {p},
             ToSet(standbyList') = ToSet(standbyList) \ {p}
      PROVE  IndInv'
  <2> DEFINE r == set(p, o)
  <2>0. page[p].changed = FALSE
    BY <1>8, KnownLists DEF PageObjects
  <2>1. r \in PageObjects /\ HandedOut(p, r, th[t].off) /\ r.off = th[t].off
    BY <1>1, <2>0, SetPage DEF HandedOut
  <2>2. th[t].off < size /\ page' = [page EXCEPT ![p] = r]
    BY <1>8
  <2> HIDE DEF r, c, x
  <2>3. \A q \in Pages \ {p} : ~(page[q].hashed /\ page[q].off = r.off)
    BY <2>1, <1>8 DEF lookup
  <2>4. \A u \in Actors : th[u].page = p => r.off = page[p].off
    BY <1>8, NobodyHolds
  <2>5. /\ \A q \in Pages \ {p} :
            /\ q \in ToSet(freeList') <=> q \in ToSet(freeList)
            /\ q \in ToSet(standbyList') <=> q \in ToSet(standbyList)
        /\ p \notin ToSet(freeList') /\ p \notin ToSet(standbyList')
    BY <1>8
  <2>6. UNCHANGED <<size, monitor, store, mapped>> /\ th[t].pc = "get"
    BY <1>1
  <2>7. /\ c(p) \in CallRecords /\ th' = [th EXCEPT ![t] = c(p)]
         /\ c(p).pc \in {"copy", "fill"} /\ Holds(c(p), p)
         /\ c(p).op = th[t].op /\ c(p).off = th[t].off /\ c(p).then = th[t].then
    BY <1>5, <1>8
  <2> QED
    BY <2>1, <2>2, <2>3, <2>4, <2>5, <2>6, <2>7, <1>6, <1>8, HaveKeeps
<1>9. ASSUME o < size, lookup(o) = {}, freeList # <<>>,
             page' = [page EXCEPT ![Head(freeList)] = set(Head(freeList), o)],
             th' = [th EXCEPT ![t].page = Head(freeList), ![t].pc = x],
             freeList' = Tail(freeList), standbyList' = standbyList
      PROVE  IndInv'
  <2> DEFINE p == Head(freeList)
  <2>1. /\ p \in ToSet(freeList) /\ freeList' \in Seq(Pages)
        /\ ToSet(freeList') = ToSet(freeList) \ {p} /\ Once(freeList')
    BY <1>9, KnownLists, TailLists
  <2>2. p \in Pages /\ page[p].off = None
    BY <2>1, KnownLists
  <2>3. page[p].ref = 0 /\ ~page[p].hashed /\ ~page[p].changed
    BY <2>2, KnownLists DEF PageOK
  <2>4. p \notin ToSet(standbyList)
    BY <2>2, <2>3, KnownLists
  <2>5. /\ standbyList' \in Seq(Pages) /\ Once(standbyList')
        /\ ToSet(standbyList') = ToSet(standbyList) \ {p}
    BY <2>4, <1>9, KnownLists
  <2> QED
    BY <2>1, <2>2, <2>3, <2>5, <1>8, <1>9
<1>10. ASSUME o < size, lookup(o) = {}, Stealable # <<>>,
             page' = [page EXCEPT ![Head(Stealable)] = set(Head(Stealable), o)],
             th' = [th EXCEPT ![t].page = Head(Stealable), ![t].pc = x],
             freeList' = freeList, standbyList' = Only(standbyList, Pages \ {Head(Stealable)})
      PROVE  IndInv'
  <2> DEFINE p == Head(Stealable)
  <2>1. p \in ToSet(standbyList) /\ p \in Pages
    <3>1. /\ Stealable \in Seq(Pages) /\ Once(Stealable)
          /\ ToSet(Stealable) = ToSet(standbyList) \cap {q \in Pages : page[q].ref = 0}
      BY KnownLists, OnlyLists DEF Stealable
    <3> HIDE DEF Stealable
    <3>2. p \in ToSet(Stealable)
      BY <3>1, <1>10, TailLists
    <3> QED
      BY <3>1, <3>2
  <2> HIDE DEF p
  <2>2. page[p].ref = 0 /\ page[p].hashed /\ page[p].off # None
    BY <2>1, KnownLists DEF PageOK
  <2>3. ~page[p].changed
    BY <2>1, <2>2, NobodyHolds
  <2>4. /\ Only(standbyList, Pages \ {p}) \in Seq(Pages) /\ Once(Only(standbyList, Pages \ {p}))
        /\ ToSet(Only(standbyList, Pages \ {p})) = ToSet(standbyList) \cap (Pages \ {p})
        /\ ToSet(standbyList) \subseteq Pages
    BY KnownLists, OnlyLists
  <2>5. /\ standbyList' \in Seq(Pages) /\ Once(standbyList')
        /\ ToSet(standbyList') = ToSet(standbyList) \ {p}
    BY <2>4, <1>10 DEF p
  <2>6. /\ freeList' \in Seq(Pages) /\ Once(freeList')
        /\ ToSet(freeList') = ToSet(freeList) \ {p}
    BY <2>1, <2>2, <1>10, KnownLists
  <2>7. /\ page' = [page EXCEPT ![p] = set(p, o)]
        /\ th' = [th EXCEPT ![t].page = p, ![t].pc = x]
    BY <1>10 DEF p
  <2> QED
    BY <2>1, <2>2, <2>3, <2>5, <2>6, <2>7, <1>8, <1>10
<1> QED
  BY <1>3, <1>4, <1>7, <1>9, <1>10 DEF getPage, lists

(* Page::free() *)
LEMMA FreedPage ==
  ASSUME IndInv, \A u \in Actors : th[u].pc # "park", NEW p \in Pages, page[p].hashed
  PROVE  LET r == freed(p)
         IN  /\ r \in PageObjects /\ ~r.hashed /\ ~r.changed
             /\ r.ref = Held(p) /\ Held(p) \in Nat
             /\ Held(p) = page[p].ref - One(page[p].changed)
             /\ Held(p) = 0 => r.off = None /\ ~r.free
             /\ Held(p) # 0 => r.off = page[p].off /\ r.free
<1> DEFINE x == page[p]
           n == Held(p)
           d == Stale
<1>1. x \in PageObjects /\ ~x.free
  BY KnownLists DEF PageOK
<1>2. x.ref \in Nat /\ (x.changed => x.ref >= 1)
  BY <1>1, HeldIsCounted DEF IndInv, PageObjects
<1>3. n = x.ref - One(x.changed) /\ n \in Nat
  BY <1>2 DEF Held, One
<1>4. d \in [Sectors -> BOOLEAN]
  BY DEF Stale
<1>5. freed(p) = IF n = 0
                 THEN [x EXCEPT !.ref = 0, !.off = None, !.hashed = FALSE,
                                !.changed = FALSE, !.data = d]
                 ELSE [x EXCEPT !.ref = n, !.hashed = FALSE, !.changed = FALSE,
                                !.free = TRUE, !.data = d]
  BY DEF freed
<1> HIDE DEF x, n, d
<1>6. CASE n = 0
  <2> DEFINE r == [x EXCEPT !.ref = 0, !.off = None, !.hashed = FALSE,
                            !.changed = FALSE, !.data = d]
  <2>1. /\ r \in PageObjects /\ r.hashed = FALSE /\ r.changed = FALSE /\ r.ref = 0
        /\ r.off = None /\ r.free = x.free
    BY <1>1, <1>4 DEF PageObjects
  <2> HIDE DEF r
  <2>2. freed(p) = r
    BY <1>5, <1>6 DEF r
  <2> QED
    BY <2>1, <2>2, <1>1, <1>3, <1>6 DEF n, x
<1>7. CASE n # 0
  <2> DEFINE r == [x EXCEPT !.ref = n, !.hashed = FALSE, !.changed = FALSE,
                                !.free = TRUE, !.data = d]
  <2>1. /\ r \in PageObjects /\ r.hashed = FALSE /\ r.changed = FALSE /\ r.ref = n
        /\ r.off = x.off /\ r.free = TRUE
    BY <1>1, <1>3, <1>4 DEF PageObjects
  <2> HIDE DEF r
  <2>2. freed(p) = r
    BY <1>5, <1>7 DEF r
  <2> QED
    BY <2>1, <2>2, <1>3, <1>7 DEF n, x
<1> QED
  BY <1>6, <1>7

(* setSize() and invalidate() cut off the pages ps. *)
LEMMA FreeKeeps ==
  ASSUME IndInv, \A u \in Actors : th[u].pc # "park",
         NEW ps \in Seq(Pages), Once(ps), free(ps),
         \A p \in ToSet(ps) : page[p].hashed,
         size' \in 0 .. MaxSize,
         \A p \in Pages \ ToSet(ps) : page[p].hashed => page[p].off < size',
         th' \in [Actors -> CallRecords], PlacesOK',
         \A u \in Actors :
            /\ th'[u].page = th[u].page /\ th'[u].off = th[u].off /\ th'[u].op = th[u].op
            /\ th'[u].pc # "park"
            /\ th'[u].pc \in UsePlaces => th[u].pc \in UsePlaces,
         mapped' = mapped, monitor' \in {None, Updater},
         store' \in [Offsets -> [Sectors -> BOOLEAN]]
  PROVE  IndInv'
<1> USE DEF IndInv
<1> DEFINE cut == ToSet(ps)
           gone == {p \in Pages : Held(p) = 0}
<1>1. cut \subseteq Pages
  BY ListElements
<1>2. /\ page' = [p \in Pages |-> IF p \in cut THEN freed(p) ELSE page[p]]
      /\ freeList' = freeList \o Only(ps, gone)
      /\ standbyList' = Only(standbyList, Pages \ cut)
      /\ changedList' = Only(changedList, Pages \ cut)
  BY DEF free
<1>3. /\ standbyList' \in Seq(Pages) /\ changedList' \in Seq(Pages)
      /\ Once(standbyList') /\ Once(changedList')
      /\ ToSet(standbyList') = ToSet(standbyList) \cap (Pages \ cut)
      /\ ToSet(changedList') = ToSet(changedList) \cap (Pages \ cut)
  BY <1>2, KnownLists, OnlyLists
<1>4. /\ Only(ps, gone) \in Seq(Pages) /\ Once(Only(ps, gone))
      /\ ToSet(Only(ps, gone)) = cut \cap gone
  BY OnlyLists
<1> HIDE DEF gone
<1>5. \A p \in cut : p \notin ToSet(freeList)
  BY <1>1, KnownLists DEF PageOK
<1>6. /\ freeList' \in Seq(Pages) /\ Once(freeList')
      /\ ToSet(freeList') = ToSet(freeList) \cup (cut \cap gone)
  <2>1. ToSet(freeList) \cap ToSet(Only(ps, gone)) = {}
    BY <1>4, <1>5
  <2>2. freeList \in Seq(Pages) /\ Once(freeList)
    BY KnownLists
  <2> HIDE DEF cut
  <2> QED
    BY <2>1, <2>2, <1>2, <1>4, ConcatLists
<1> HIDE DEF cut
<1>7. ASSUME NEW p \in cut
      PROVE  LET r == page'[p]
             IN  /\ r \in PageObjects /\ ~r.hashed /\ ~r.changed
                 /\ r.ref = Held(p) /\ Held(p) \in Nat
                 /\ Held(p) = page[p].ref - One(page[p].changed)
                 /\ Held(p) = 0 => r.off = None /\ ~r.free
                 /\ Held(p) # 0 => r.off = page[p].off /\ r.free
  <2>1. p \in Pages /\ page[p].hashed
    BY <1>1, <1>7 DEF cut
  <2>2. page'[p] = freed(p)
    BY <1>2, <1>7, <2>1
  <2> QED
    BY <2>1, <2>2, FreedPage, Zenon
<1>8. \A p \in Pages \ cut : page'[p] = page[p] /\ page[p] \in PageObjects
  BY <1>2, KnownLists
<1>9. page' \in [Pages -> PageObjects]
  <2>1. \A p \in Pages : page'[p] \in PageObjects
    BY <1>7, <1>8
  <2>2. page' = [p \in Pages |-> page'[p]]
    BY <1>2
  <2> QED
    BY <2>1, <2>2
<1>10. \A q : ~Parked(q) /\ ~Parked(q)'
  BY DEF Parked
<1>11. TypeOK'
  BY <1>3, <1>6, <1>9 DEF TypeOK
<1>12. PagesOK'
  <2>1. ASSUME NEW p \in Pages PROVE PageOK(page'[p], size')
    <3>1. CASE p \in cut
      <4>1. page[p].off \in Offsets /\ None \notin Offsets
        <5>1. /\ page[p].hashed /\ page[p] \in PageObjects /\ PageOK(page[p], size)
              /\ None \notin Offsets
          BY <3>1, KnownLists, CacheAssumption DEF cut, Offsets
        <5> QED
          BY <5>1 DEF PageOK, PageObjects
      <4> QED
        BY <3>1, <4>1, <1>7 DEF PageOK
    <3>2. CASE p \notin cut
      <4>1. page'[p] = page[p] /\ PageOK(page[p], size) /\ (page[p].hashed => page[p].off < size')
        BY <3>2, <1>8, KnownLists DEF cut
      <4>2. size \in Nat /\ size' \in Nat
        BY CacheAssumption DEF TypeOK
      <4> QED
        BY <4>1, <4>2 DEF PageOK
    <3> QED
      BY <3>1, <3>2
  <2> QED
    BY <2>1 DEF PagesOK, PageOK
<1>13. CutOffIsHeld'
  <2>1. ASSUME NEW p \in Pages PROVE ~(page'[p].free /\ page'[p].ref = 0)
    BY <1>7, <1>8, KnownLists
  <2> QED
    BY <2>1 DEF CutOffIsHeld
<1>14. ParkingAlone'
  BY DEF ParkingAlone
<1>15. RefsOK'
  <2>1. \A q \in Pages : Callers(q)' = Callers(q) /\ Mappers(q)' = Mappers(q)
    BY DEF Callers, Mappers
  <2> SUFFICES ASSUME NEW p \in Pages
               PROVE  /\ IsFiniteSet(Callers(p)') /\ IsFiniteSet(Mappers(p)')
                      /\ page'[p].ref = Cardinality(Callers(p)') + Cardinality(Mappers(p)')
                                         + One(page'[p].changed)
    BY DEF RefsOK, RefExact, One
  <2>2. /\ IsFiniteSet(Callers(p)) /\ IsFiniteSet(Mappers(p))
        /\ page[p].ref = Cardinality(Callers(p)) + Cardinality(Mappers(p)) + One(page[p].changed)
    BY DEF RefsOK, RefExact, One
  <2>3. Cardinality(Callers(p)) \in Nat /\ Cardinality(Mappers(p)) \in Nat
        /\ One(page[p].changed) \in Nat
    BY <2>2, FS_CardinalityType DEF One
  <2>4. page'[p].ref - One(page'[p].changed) = page[p].ref - One(page[p].changed)
        /\ page'[p].ref \in Nat /\ One(page'[p].changed) \in Nat
    <3>1. CASE p \in cut
      <4>1. /\ page'[p].ref = page[p].ref - One(page[p].changed) /\ ~page'[p].changed
            /\ page'[p].ref \in Nat
        BY <3>1, <1>7
      <4>2. One(page'[p].changed) = 0
        BY <4>1 DEF One
      <4> QED
        BY <4>1, <4>2
    <3>2. CASE p \notin cut
      BY <3>2, <1>8 DEF One, PageObjects
    <3> QED
      BY <3>1, <3>2
  <2>5. page[p].ref \in Nat
    BY <2>2, <2>3
  <2> QED
    BY <2>1, <2>2, <2>3, <2>4, <2>5
<1>16. ListsOK'
  <2>1. ASSUME NEW q \in Pages
        PROVE  /\ q \in ToSet(changedList') <=> page'[q].changed
               /\ q \in ToSet(freeList') <=> page'[q].off = None
               /\ q \in ToSet(standbyList') <=> page'[q].ref = 0 /\ page'[q].hashed
    <3>1. CASE q \in cut
      <4>1. page[q].hashed /\ page[q].off # None
        BY <3>1, KnownLists DEF cut, PageOK
      <4>2. q \in gone <=> Held(q) = 0
        BY DEF gone
      <4> QED
        BY <3>1, <4>1, <4>2, <1>3, <1>5, <1>6, <1>7
    <3>2. CASE q \notin cut
      BY <3>2, <1>3, <1>6, <1>8, KnownLists
    <3> QED
      BY <3>1, <3>2
  <2> QED
    BY <2>1, <1>3, <1>6, <1>10, Zenon DEF ListsOK, ToSet, Once
<1>17. OnePagePerOffset'
  BY <1>7, <1>8 DEF OnePagePerOffset
<1>18. HeldStays'
  <2> SUFFICES ASSUME NEW u \in Threads, th'[u].pc \in UsePlaces
               PROVE  page'[th'[u].page].off = th'[u].off
    BY DEF HeldStays, UsePlaces
  <2> DEFINE p == th[u].page
  <2>1. /\ u \in Actors /\ th'[u].page = p /\ th'[u].off = page[p].off
        /\ p \in Pages /\ page[p].ref >= 1 + One(page[p].changed)
    <3>1. u \in Actors /\ th[u].pc \in UsePlaces /\ th[u].pc \in PagePlaces
      BY DEF Actors, PagePlaces
    <3> QED
      BY <3>1, KnownPage
  <2> HIDE DEF p
  <2>2. CASE p \in cut
    <3>1. Held(p) = page[p].ref - One(page[p].changed) /\ One(page[p].changed) \in Nat
          /\ (Held(p) # 0 => page'[p].off = page[p].off) /\ page[p].ref \in Nat
      BY <2>1, <2>2, <1>7, KnownLists DEF One, PageObjects
    <3> QED
      BY <3>1, <2>1
  <2>3. CASE p \notin cut
    BY <2>1, <2>3, <1>8
  <2> QED
    BY <2>2, <2>3
<1>19. GetIsFirst'
  BY DEF GetIsFirst, Actors
<1> QED
  BY <1>11, <1>12, <1>13, <1>14, <1>15, <1>16, <1>17, <1>18, <1>19

(* Cache::setSize() *)
LEMMA SetSizeKeeps ==
  ASSUME IndInv, \A u \in Actors : th[u].pc # "park",
         NEW t, NEW n \in 0 .. MaxSize, NEW cut \in BOOLEAN, setSize(t, n, cut),
         th' \in [Actors -> CallRecords], PlacesOK',
         \A u \in Actors :
            /\ th'[u].page = th[u].page /\ th'[u].off = th[u].off /\ th'[u].op = th[u].op
            /\ th'[u].pc # "park"
            /\ th'[u].pc \in UsePlaces => th[u].pc \in UsePlaces
  PROVE  IndInv'
<1>1. /\ TypeOK /\ OnePagePerOffset /\ size \in Nat /\ n \in Nat /\ size \in 0 .. MaxSize
      /\ monitor \in {None, Updater}
      /\ store \in [Offsets -> [Sectors -> BOOLEAN]]
  BY CacheAssumption DEF IndInv, TypeOK
<1>2. /\ Beyond(n) \in Seq(Pages) /\ Once(Beyond(n))
      /\ ToSet(Beyond(n)) = {p \in Pages : page[p].hashed /\ page[p].off \in n .. size - 1}
  BY <1>1, BeyondLists
<1>3. /\ free(Beyond(n)) /\ size' = n /\ monitor' = monitor /\ mapped' = mapped
      /\ store' = [o \in Offsets |->
                   IF o < n \/ o >= size THEN store[o] ELSE IF cut THEN Current ELSE Stale]
  BY DEF setSize
<1>4. store' \in [Offsets -> [Sectors -> BOOLEAN]]
  BY <1>1, <1>3 DEF Current, Stale
<1> DEFINE ps == Beyond(n)
<1> HIDE DEF ps
<1>5. /\ \A p \in ToSet(ps) : page[p].hashed
      /\ \A p \in Pages \ ToSet(ps) : page[p].hashed => page[p].off < n
  <2>1. ToSet(ps) = {p \in Pages : page[p].hashed /\ page[p].off \in n .. size - 1}
    BY <1>2 DEF ps
  <2>2. \A p \in Pages : page[p].hashed => page[p].off \in 0 .. size - 1
    BY KnownLists DEF PageOK
  <2> QED
    BY <2>1, <2>2, <1>1
<1>6. ps \in Seq(Pages) /\ Once(ps) /\ free(ps)
  BY <1>2, <1>3 DEF ps
<1>7. /\ size' \in 0 .. MaxSize
      /\ \A p \in Pages \ ToSet(ps) : page[p].hashed => page[p].off < size'
      /\ mapped' = mapped /\ monitor' \in {None, Updater}
  BY <1>1, <1>3, <1>5
<1> QED
  BY <1>4, <1>5, <1>6, <1>7, FreeKeeps

(* Cache::write() makes room. *)
LEMMA ExtendKeeps ==
  ASSUME IndInv, NEW t \in Actors, \A u \in Actors : th[u].pc # "park", extend(t)
  PROVE  IndInv'
<1> DEFINE c == [th[t] EXCEPT !.pc = "get"]
<1>1. /\ th[t].pc = "extend" /\ t \in Threads /\ setSize(t, th[t].off + 1, FALSE)
      /\ th[t] \in CallRecords /\ CallOK(t, th[t])
      /\ th' = [th EXCEPT ![t] = c] /\ "get" \in Places /\ MaxSize \in Nat
      /\ TypeOK /\ PlacesOK
  BY Known, CacheAssumption DEF extend, Goto, Places, IndInv
<1>2. /\ c \in CallRecords /\ c.pc = "get" /\ c.op = th[t].op /\ c.off = th[t].off
      /\ c.page = th[t].page /\ c.then = th[t].then
  BY <1>1, Goes
<1> HIDE DEF c
<1>3. CallOK(t, c) /\ th[t].off \in Offsets
  BY <1>1, <1>2 DEF CallOK, PagePlaces, UsePlaces, OffPlaces
<1>4. th[t].off + 1 \in 0 .. MaxSize
  BY <1>1, <1>3 DEF Offsets
<1>5. /\ th' \in [Actors -> CallRecords]
      /\ PlacesOK'
      /\ th'[t] = c
      /\ \A u \in Actors \ {t} : th'[u] = th[u]
  BY <1>1, <1>2, <1>3, CallStep, Zenon
<1>6. \A u \in Actors :
            /\ th'[u].page = th[u].page /\ th'[u].off = th[u].off /\ th'[u].op = th[u].op
            /\ th'[u].pc # "park"
            /\ th'[u].pc \in UsePlaces => th[u].pc \in UsePlaces
  BY <1>2, <1>5 DEF UsePlaces
<1> QED
  BY <1>1, <1>4, <1>5, <1>6, SetSizeKeeps

(* Stream::setSize() and Cache::invalidate() *)
LEMMA ResizeKeeps ==
  ASSUME IndInv, NEW t \in Threads, \A u \in Actors : th[u].pc # "park",
         resize(t) \/ invalidate(t)
  PROVE  IndInv'
<1>1. th' = th
  BY DEF resize, invalidate
<1>2. /\ th' \in [Actors -> CallRecords] /\ PlacesOK'
      /\ \A u \in Actors :
            /\ th'[u].page = th[u].page /\ th'[u].off = th[u].off /\ th'[u].op = th[u].op
            /\ th'[u].pc # "park"
            /\ th'[u].pc \in UsePlaces => th[u].pc \in UsePlaces
  BY <1>1 DEF IndInv, TypeOK, PlacesOK, CallOK
<1>3. CASE resize(t)
  <2>1. PICK n \in 0 .. MaxSize : setSize(t, n, TRUE)
    BY <1>3 DEF resize
  <2> QED
    BY <2>1, <1>2, SetSizeKeeps
<1>4. CASE invalidate(t)
  <2>1. /\ free(changedList) /\ changedList \in Seq(Pages) /\ Once(changedList)
        /\ \A p \in ToSet(changedList) : page[p].hashed
    BY <1>4, KnownLists DEF invalidate, PageOK
  <2>2. /\ size' \in 0 .. MaxSize /\ mapped' = mapped /\ monitor' \in {None, Updater}
        /\ size' = size /\ size \in Nat
    BY <1>4, CacheAssumption DEF invalidate, IndInv, TypeOK
  <2>3. \A p \in Pages \ ToSet(changedList) : page[p].hashed => page[p].off < size'
    BY <2>2, KnownLists DEF PageOK
  <2>4. store' \in [Offsets -> [Sectors -> BOOLEAN]]
    BY <1>4 DEF invalidate, Current, IndInv, TypeOK
  <2> DEFINE ps == changedList
  <2>5. /\ ps \in Seq(Pages) /\ Once(ps) /\ free(ps)
        /\ \A p \in ToSet(ps) : page[p].hashed
        /\ \A p \in Pages \ ToSet(ps) : page[p].hashed => page[p].off < size'
    BY <2>1, <2>3
  <2> HIDE DEF ps
  <2> QED
    BY <2>2, <2>4, <2>5, <1>2, FreeKeeps
<1> QED
  BY <1>3, <1>4

-----------------------------------------------------------------------------
(* The cache starts empty. *)
LEMMA InitHolds == Init => IndInv
<1> SUFFICES ASSUME Init PROVE IndInv
  OBVIOUS
<1> DEFINE r == [ref |-> 0, off |-> None, hashed |-> FALSE, changed |-> FALSE,
                  free |-> FALSE, map |-> {}, filled |-> FALSE, data |-> Stale]
           nobody == Idle
<1>1. /\ r \in PageObjects /\ r.ref = 0 /\ r.off = None /\ ~r.hashed /\ ~r.changed /\ ~r.free
  BY DEF PageObjects, Stale
<1>2. page = [p \in Pages |-> r] /\ th = [t \in Actors |-> nobody]
  BY DEF Init
<1>3. /\ nobody \in CallRecords /\ nobody.pc = "idle" /\ nobody.op = "idle"
      /\ nobody.page = None
      /\ \A t \in Actors : CallOK(t, nobody)
  <2>1. Updater \in Actors
    BY DEF Actors
  <2>2. Idle \in CallRecords /\ Idle.pc = "idle" /\ Idle.op = "idle" /\ Idle.page = None
    BY <2>1, Ends, Zenon
  <2>3. \A t \in Actors : CallOK(t, Idle)
    BY Ends, Zenon
  <2> HIDE DEF Idle
  <2> QED
    BY <2>2, <2>3
<1> HIDE DEF r, nobody
<1>4. /\ freeList \in Seq(Pages) /\ ToSet(freeList) = Pages /\ Once(freeList)
  BY AllFramesListed DEF Init
<1>5. /\ standbyList = <<>> /\ changedList = <<>> /\ <<>> \in Seq(Pages)
      /\ ToSet(<<>>) = {} /\ Once(<<>>)
  BY DEF Init, ToSet, Once
<1>6. /\ None \notin Pages /\ MaxSize \in Nat
  BY CacheAssumption
<1>7. TypeOK
  <2>1. page \in [Pages -> PageObjects] /\ th \in [Actors -> CallRecords]
    BY <1>1, <1>2, <1>3
  <2>2. /\ size \in 0 .. MaxSize /\ monitor \in {None, Updater}
        /\ mapped \in [Threads -> Pages \cup {None}]
    BY <1>6 DEF Init
  <2>3. store \in [Offsets -> [Sectors -> BOOLEAN]]
    BY DEF Init, Current
  <2> QED
    BY <2>1, <2>2, <2>3, <1>4, <1>5 DEF TypeOK
<1>8. PlacesOK
  BY <1>2, <1>3 DEF PlacesOK
<1>9. PagesOK
  BY <1>1, <1>2 DEF PagesOK, PageOK
<1>10. CutOffIsHeld /\ ParkingAlone
  BY <1>1, <1>2, <1>3 DEF CutOffIsHeld, ParkingAlone
<1>11. RefsOK
  <2>1. \A p \in Pages : Callers(p) = {} /\ Mappers(p) = {}
    BY <1>2, <1>3, <1>6 DEF Callers, Mappers, Init
  <2>2. IsFiniteSet({}) /\ Cardinality({}) = 0
    BY FS_EmptySet
  <2>3. \A p \in Pages : page[p].ref = 0 /\ ~page[p].changed
    BY <1>1, <1>2
  <2>4. ASSUME NEW p \in Pages
        PROVE  /\ IsFiniteSet(Callers(p)) /\ IsFiniteSet(Mappers(p))
               /\ page[p].ref = Cardinality(Callers(p)) + Cardinality(Mappers(p))
                                  + (IF page[p].changed THEN 1 ELSE 0)
    <3>1. Cardinality(Callers(p)) = 0 /\ Cardinality(Mappers(p)) = 0
      BY <2>1, <2>2, Zenon
    <3>2. IsFiniteSet(Callers(p)) /\ IsFiniteSet(Mappers(p))
      BY <2>1, <2>2, Zenon
    <3> QED
      BY <2>3, <3>1, <3>2
  <2> QED
    BY <2>4, Zenon DEF RefsOK, RefExact
<1>12. ListsOK
  <2>1. \A p \in Pages : page[p].off = None /\ ~page[p].changed /\ ~page[p].hashed
    BY <1>1, <1>2
  <2> QED
    BY <2>1, <1>4, <1>5 DEF ListsOK
<1>13. OnePagePerOffset
  BY <1>1, <1>2 DEF OnePagePerOffset
<1>14. HeldStays /\ GetIsFirst
  BY <1>2, <1>3 DEF HeldStays, GetIsFirst, Actors
<1> QED
  BY <1>7, <1>8, <1>9, <1>10, <1>11, <1>12, <1>13, <1>14 DEF IndInv

(* Every step keeps the invariant, unless a thread is switched away inside   *)
(* Page::release().                                                          *)
LEMMA NextKeeps == "preempt" \notin Allow /\ IndInv /\ [Next]_vars => IndInv'
<1> SUFFICES ASSUME "preempt" \notin Allow, IndInv, [Next]_vars PROVE IndInv'
  OBVIOUS
<1>1. ASSUME NEW t \in Actors, Switch(t), Continue(t) PROVE IndInv'
  <2>1. CASE park(t)
    BY <2>1, ParkKeeps
  <2>2. CASE ~park(t)
    <3>1. th[t].pc # "park"
      BY <2>2, <1>1 DEF Continue, getPage, wait, fill, filled, copy, mark, change, drop, park,
                        flush, clean, snap, sync, extend
    <3>2. \A u \in Actors : th[u].pc # "park"
      BY <1>1, <3>1, NobodyParks
    <3> QED
      BY <2>2, <3>2, <1>1, GetPageKeeps, WaitKeeps, FillKeeps, FilledKeeps, CopyKeeps,
         MarkKeeps, ChangeKeeps, DropKeeps, FlushKeeps, CleanKeeps, SnapKeeps, SyncKeeps,
         ExtendKeeps DEF Continue
  <2> QED
    BY <2>1, <2>2
<1>2. ASSUME NEW t \in Threads, Start(t) PROVE IndInv'
  <2>1. t \in Actors /\ th[t].pc # "park" /\ Switch(t)
    BY <1>2 DEF Start, Actors, read, write, Flush, resize, invalidate, get, put
  <2>2. \A u \in Actors : th[u].pc # "park"
    BY <2>1, NobodyParks
  <2> QED
    BY <1>2, <2>1, <2>2, CallsKeep, ResizeKeeps, PutKeeps DEF Start
<1>3. CASE Update
  <2>1. Updater \in Actors /\ Switch(Updater)
    BY <1>3 DEF Actors, Update
  <2>2. CASE update \/ cleanNext
    <3>1. th[Updater].pc # "park"
      BY <2>2 DEF update, cleanNext
    <3>2. \A u \in Actors : th[u].pc # "park"
      BY <2>1, <3>1, NobodyParks
    <3> QED
      BY <2>2, <3>2, UpdateKeeps
  <2>3. CASE Continue(Updater)
    BY <2>1, <2>3, <1>1
  <2> QED
    BY <1>3, <2>2, <2>3 DEF Update
<1>4. ASSUME NEW t \in Threads, Continue(t) PROVE IndInv'
  BY <1>1, <1>4 DEF Continue, Actors
<1>5. CASE UNCHANGED vars
  <2> USE <1>5 DEF vars, IndInv
  <2>1. TypeOK'
    BY DEF TypeOK
  <2>2. PlacesOK' /\ PagesOK'
    BY DEF PlacesOK, CallOK, PagesOK, PageOK
  <2>3. CutOffIsHeld' /\ ParkingAlone'
    BY DEF CutOffIsHeld, ParkingAlone, Parked
  <2>4. RefsOK'
    <3>1. \A p \in Pages : Callers(p)' = Callers(p) /\ Mappers(p)' = Mappers(p)
      BY DEF Callers, Mappers
    <3> QED
      BY <3>1 DEF RefsOK, RefExact
  <2>5. ListsOK'
    <3>1. \A p \in Pages : Parked(p)' <=> Parked(p)
      BY DEF Parked
    <3> QED
      BY <3>1 DEF ListsOK
  <2>6. OnePagePerOffset' /\ HeldStays' /\ GetIsFirst'
    BY DEF OnePagePerOffset, HeldStays, GetIsFirst
  <2> QED
    BY <2>1, <2>2, <2>3, <2>4, <2>5, <2>6
<1> QED
  BY <1>2, <1>3, <1>4, <1>5 DEF Next

(* What the theorems below rest on: the inductive invariant, for every cache *)
(* in which no thread is switched away between the count and the list of     *)
(* Page::release(); writes of whole pages, stores through a mapping,         *)
(* write-backs that are cut off and a failing store are all admitted.        *)
THEOREM PageCacheInductive == ASSUME "preempt" \notin Allow PROVE Spec => []IndInv
<1>1. Init => IndInv
  BY InitHolds
<1>2. IndInv /\ [Next]_vars => IndInv'
  BY NextKeeps
<1> QED
  BY <1>1, <1>2, PTL DEF Spec

(* Every field of Page, Cache, PageSet and of the calls keeps its type.      *)
THEOREM PageCacheTypes == ASSUME "preempt" \notin Allow PROVE Spec => []TypeOK
<1>1. IndInv => TypeOK
  BY DEF IndInv
<1> QED
  BY <1>1, PageCacheInductive, PTL

(* Cache::getPage() never hashes two pages for one offset: it looks the page *)
(* up again under the monitor after every wait.                              *)
THEOREM PageCacheOnePagePerOffset ==
  ASSUME "preempt" \notin Allow PROVE Spec => []OnePagePerOffset
<1>1. IndInv => OnePagePerOffset
  BY DEF IndInv
<1> QED
  BY <1>1, PageCacheInductive, PTL

(* PageSet::steal(), Page::free() and Page::release() leave a page to the    *)
(* call that holds it, for the offset it was given for.                      *)
THEOREM PageCacheHeldStays == ASSUME "preempt" \notin Allow PROVE Spec => []HeldStays
<1>1. IndInv => HeldStays
  BY DEF IndInv
<1> QED
  BY <1>1, PageCacheInductive, PTL

(* Every Page::addRef() has its Page::release(), on every path.              *)
THEOREM PageCacheRefExact == ASSUME "preempt" \notin Allow PROVE Spec => []RefExact
<1>1. IndInv => RefExact
  BY DEF IndInv, RefsOK
<1> QED
  BY <1>1, PageCacheInductive, PTL

(* The free list, the standby list and the changed list hold the pages whose *)
(* state says so, each once.                                                 *)
THEOREM PageCacheListsExact == ASSUME "preempt" \notin Allow PROVE Spec => []ListsExact
<1>1. IndInv => ListsExact
  <2> SUFFICES ASSUME IndInv PROVE ListsExact
    OBVIOUS
  <2>1. \A list \in {freeList, standbyList, changedList} : Cardinality(ToSet(list)) = Len(list)
    BY OnceCounts DEF IndInv, ListsOK, TypeOK
  <2>2. \A p \in Pages :
         LET parking == \E t \in Actors : th[t].pc = "park" /\ th[t].page = p
         IN  /\ p \in ToSet(changedList) <=> page[p].changed
             /\ p \in ToSet(freeList) <=> page[p].off = None
             /\ p \in ToSet(standbyList)
                  <=> page[p].ref = 0 /\ page[p].hashed /\ ~parking
    BY DEF IndInv, ListsOK, Parked
  <2> QED
    BY <2>1, <2>2 DEF ListsExact
<1> QED
  BY <1>1, PageCacheInductive, PTL

-----------------------------------------------------------------------------
(* No write into the cache is lost, in a cache whose size one thread changes *)
(* and that stays out of the situations PageCache!Situations lists.          *)

(* Cache::write() looks at the size before it takes the monitor, and cuts    *)
(* off what another thread appended in between: one thread sets the size.    *)
OneSizer ==
    \A t, u \in Threads :
        Calls[t] \cap {"append", "setSize"} # {} /\ Calls[u] \cap {"append", "setSize"} # {}
            => t = u

(* The sector is going to be written back, by the call of t or because the   *)
(* page is on the changed list.                                              *)
PendingBy(t, p, s) ==
    /\ th[t].page = p
    /\ \/ th[t].pc \in {"change", "snap"} /\ s \in page[p].map
       \/ th[t].pc = "store" /\ s \in th[t].map
       \/ th[t].pc = "mark" /\ s \in th[t].secs

Pending(p, s) ==
    \/ page[p].changed /\ s \in page[p].map
    \/ \E t \in Actors : PendingBy(t, p, s)

(* A filled page of the hash table holds what was written last, and the      *)
(* backing store does unless a write-back is pending.                        *)
PageCoherent(p) ==
    page[p].hashed /\ page[p].filled =>
        /\ page[p].data = Current
        /\ \A s \in Sectors : store[page[p].off][s] \/ Pending(p, s)

PagesCoherent == \A p \in Pages : PageCoherent(p) /\ (page[p].changed => page[p].filled)

(* Where no page is filled, the backing store holds what was written last.   *)
StoreCoherent ==
    \A o \in Offsets : (\A p \in lookup(o) : ~page[p].filled) => store[o] = Current

(* What a call counts on at each place, given the pages and the size.        *)
UseOK(t, c, pages, n) ==
    /\ c.pc \in {"snap", "store"} => pages[c.page].hashed /\ pages[c.page].filled
    /\ c.pc \in {"copy", "mark", "change"} => pages[c.page].filled
    /\ c.pc = "filling" => ~pages[c.page].filled
    /\ c.pc = "extend" => n <= c.off /\ "append" \in Calls[t]
    /\ ~c.whole

UsesOK == \A t \in Actors : UseOK(t, th[t], page, size)

\* Page::fill() runs under the page's monitor.
OneFiller ==
    \A t, u \in Actors :
        th[t].pc = "filling" /\ th[u].pc = "filling" /\ th[t].page = th[u].page => t = u

CohInv == PagesCoherent /\ StoreCoherent /\ UsesOK /\ OneFiller

-----------------------------------------------------------------------------
(* A page of the hash table has an offset below the size. *)
LEMMA HashedOff ==
  ASSUME IndInv, NEW p \in Pages, page[p].hashed
  PROVE  page[p].off \in Offsets /\ page[p].off \in Nat /\ page[p].off < size
<1>1. page[p].off \in 0 .. size - 1 /\ size \in 0 .. MaxSize
  BY DEF IndInv, TypeOK, PagesOK, PageOK
<1>2. MaxSize \in Nat
  BY CacheAssumption
<1> QED
  BY <1>1, <1>2 DEF Offsets

(* A write-back that is pending stays so, but for what the one thread that   *)
(* takes the step and the page's place on the changed list have to do with   *)
(* it.                                                                       *)
LEMMA PendingStays ==
  ASSUME NEW t \in Actors, \A u \in Actors \ {t} : th'[u] = th[u],
         NEW p \in Pages, page[p].map \subseteq page'[p].map, NEW s,
         page[p].changed /\ s \in page[p].map => Pending(p, s)',
         PendingBy(t, p, s) => Pending(p, s)',
         Pending(p, s)
  PROVE  Pending(p, s)'
<1>1. CASE \E u \in Actors \ {t} : PendingBy(u, p, s)
  <2>1. PICK u \in Actors \ {t} : PendingBy(u, p, s)
    BY <1>1
  <2>2. PendingBy(u, p, s)'
    BY <2>1 DEF PendingBy
  <2> QED
    BY <2>2 DEF Pending
<1> QED
  BY <1>1 DEF Pending

(* The other calls count on what does not change.                            *)
LEMMA UsesStep ==
  ASSUME IndInv, CohInv, NEW t \in Actors, NEW c, th' = [th EXCEPT ![t] = c],
         \A u \in Actors \ {t} : th[u].pc \in PagePlaces \ {"park"} =>
            LET p == th[u].page
            IN  /\ page[p].hashed => page'[p].hashed \/ th[u].pc \notin {"snap", "store"}
                /\ page[p].filled => page'[p].filled
                /\ ~page[p].filled => ~page'[p].filled \/ th[u].pc # "filling",
         \A u \in Actors \ {t} : th[u].pc = "extend" => size' <= th[u].off,
         UseOK(t, c, page', size'),
         c.pc = "filling" =>
            \A u \in Actors \ {t} : ~(th[u].pc = "filling" /\ th[u].page = c.page)
  PROVE  UsesOK' /\ OneFiller'
<1>1. th'[t] = c /\ \A u \in Actors \ {t} : th'[u] = th[u]
  BY DEF IndInv, TypeOK
<1>2. ASSUME NEW u \in Actors PROVE UseOK(u, th'[u], page', size')
  <2>1. CASE u = t
    <3>1. th'[u] = c
      BY <2>1, <1>1
    <3> QED
      BY <3>1, <2>1 DEF UseOK
  <2>2. CASE u # t
    <3>1. th'[u] = th[u] /\ UseOK(u, th[u], page, size)
      BY <2>2, <1>1 DEF CohInv, UsesOK
    <3> QED
      BY <3>1, <2>2 DEF UseOK, PagePlaces, UsePlaces
  <2> QED
    BY <2>1, <2>2
<1>3. UsesOK'
  BY <1>2 DEF UsesOK
<1>4. OneFiller'
  BY <1>1 DEF CohInv, OneFiller
<1> QED
  BY <1>3, <1>4

(* A step that changes no content, and after which the same write-backs are  *)
(* pending.                                                                  *)
LEMMA QuietStep ==
  ASSUME IndInv, CohInv, NEW t \in Actors, NEW c, th' = [th EXCEPT ![t] = c],
         th[t].pc \notin {"change", "snap", "store", "mark"},
         store' = store, size' = size,
         \A p \in Pages :
            /\ page'[p].hashed <=> page[p].hashed
            /\ page'[p].filled <=> page[p].filled
            /\ page'[p].changed <=> page[p].changed
            /\ page[p].hashed => /\ page'[p].off = page[p].off
                                 /\ page'[p].data = page[p].data
            /\ page'[p].map = page[p].map,
         UseOK(t, c, page', size'),
         c.pc = "filling" =>
            \A u \in Actors \ {t} : ~(th[u].pc = "filling" /\ th[u].page = c.page)
  PROVE  CohInv'
<1>1. th'[t] = c /\ \A u \in Actors \ {t} : th'[u] = th[u]
  BY DEF IndInv, TypeOK
<1>2. ASSUME NEW p \in Pages PROVE PageCoherent(p)'
  <2> SUFFICES ASSUME page'[p].hashed, page'[p].filled
               PROVE  /\ page'[p].data = Current'
                      /\ \A s \in Sectors : store'[page'[p].off][s] \/ Pending(p, s)'
    BY DEF PageCoherent
  <2>1. /\ page[p].data = Current
        /\ \A s \in Sectors : store[page[p].off][s] \/ Pending(p, s)
    BY DEF CohInv, PagesCoherent, PageCoherent
  <2>2. ASSUME NEW s \in Sectors, Pending(p, s) PROVE Pending(p, s)'
    <3>1. ~PendingBy(t, p, s)
      BY DEF PendingBy
    <3>2. page[p].changed /\ s \in page[p].map => Pending(p, s)'
      BY DEF Pending
    <3> QED
      BY <3>1, <3>2, <2>2, <1>1, PendingStays
  <2> QED
    BY <2>1, <2>2 DEF Current
<1>3. PagesCoherent'
  BY <1>2 DEF CohInv, PagesCoherent
<1>4. StoreCoherent'
  BY DEF CohInv, StoreCoherent, lookup, Current
<1>5. UsesOK' /\ OneFiller'
  <2>1. \A u \in Actors : th[u].pc \in PagePlaces => th[u].page \in Pages
    BY KnownPage
  <2>2. \A u \in Actors \ {t} : th[u].pc = "extend" => size' <= th[u].off
    BY DEF CohInv, UsesOK, UseOK
  <2> QED
    BY <2>1, <2>2, UsesStep
<1> QED
  BY <1>3, <1>4, <1>5 DEF CohInv

(* A step that leaves the pages and the backing store alone. *)
LEMMA CallOnly ==
  ASSUME IndInv, CohInv, NEW t \in Actors, NEW c, th' = [th EXCEPT ![t] = c],
         th[t].pc \notin {"change", "snap", "store", "mark"},
         UNCHANGED <<page, store, size>>,
         UseOK(t, c, page, size),
         c.pc = "filling" =>
            \A u \in Actors \ {t} : ~(th[u].pc = "filling" /\ th[u].page = c.page)
  PROVE  CohInv'
<1>1. UseOK(t, c, page', size')
  OBVIOUS
<1> QED
  BY <1>1, QuietStep

(* Page::fill() finds the page filled. *)
LEMMA AfterFillUses ==
  ASSUME IndInv, NEW t \in Actors, th[t].pc \in {"fill", "filling"}, AfterFill(t),
         ~th[t].whole
  PROVE  \E c : /\ th' = [th EXCEPT ![t] = c] /\ ~c.whole
                /\ c.pc \in {"idle", "drop", "copy"}
                /\ c.pc = "copy" => c.page = th[t].page
<1>1. CASE th[t].op = "get"
  <2>1. th' = [th EXCEPT ![t] = Idle] /\ Idle.pc = "idle" /\ ~Idle.whole
    BY <1>1 DEF AfterFill, Idle
  <2> QED
    BY <2>1
<1>2. CASE th[t].op # "get"
  <2>1. PICK x \in {"drop", "copy"} : Goto(t, x)
    BY <1>2 DEF AfterFill
  <2> DEFINE c == [th[t] EXCEPT !.pc = x]
  <2>2. th[t] \in CallRecords /\ x \in Places
    BY Known DEF Places
  <2>3. c.pc = x /\ c.page = th[t].page /\ c.whole = th[t].whole
    BY <2>2, Goes
  <2>4. th' = [th EXCEPT ![t] = c]
    BY <2>1 DEF Goto
  <2> HIDE DEF c
  <2> QED
    BY <2>3, <2>4
<1> QED
  BY <1>1, <1>2

(* PageTable::wait() and Page::fill() *)
LEMMA FillCoheres ==
  ASSUME IndInv, CohInv, NEW t \in Actors, wait(t) \/ fill(t)
  PROVE  CohInv'
<1>1. th[t] \in CallRecords /\ UseOK(t, th[t], page, size) /\ ~th[t].whole
  BY Known DEF CohInv, UsesOK, UseOK
<1>2. CASE wait(t)
  <2> DEFINE c == [th[t] EXCEPT !.pc = "get"]
  <2>1. "get" \in Places
    BY DEF Places
  <2>2. c.pc = "get" /\ c.whole = th[t].whole
    BY <1>1, <2>1, Goes
  <2>3. /\ th' = [th EXCEPT ![t] = c] /\ UNCHANGED <<page, store, size>>
        /\ th[t].pc = "wait"
    BY <1>2 DEF wait, Goto
  <2> HIDE DEF c
  <2>4. UseOK(t, c, page, size) /\ c.pc # "filling"
    BY <1>1, <2>2 DEF UseOK
  <2> QED
    BY <2>3, <2>4, CallOnly
<1>3. CASE fill(t) /\ page[th[t].page].filled /\ AfterFill(t)
  <2>1. th[t].pc = "fill" /\ UNCHANGED <<page, store, size>>
    BY <1>3 DEF fill
  <2>2. PICK c : /\ th' = [th EXCEPT ![t] = c] /\ ~c.whole
                 /\ c.pc \in {"idle", "drop", "copy"}
                 /\ c.pc = "copy" => c.page = th[t].page
    BY <1>1, <1>3, <2>1, AfterFillUses
  <2>3. UseOK(t, c, page, size)
    BY <1>3, <2>2 DEF UseOK
  <2> QED
    BY <2>1, <2>2, <2>3, CallOnly
<1>4. CASE fill(t) /\ ~page[th[t].page].filled /\ ~Busy(th[t].page) /\ Goto(t, "filling")
  <2> DEFINE c == [th[t] EXCEPT !.pc = "filling"]
  <2>1. "filling" \in Places
    BY DEF Places
  <2>2. c.pc = "filling" /\ c.whole = th[t].whole /\ c.page = th[t].page
    BY <1>1, <2>1, Goes
  <2>3. /\ th' = [th EXCEPT ![t] = c] /\ UNCHANGED <<page, store, size>>
        /\ th[t].pc = "fill"
    BY <1>4 DEF fill, Goto
  <2> HIDE DEF c
  <2>4. UseOK(t, c, page, size)
    BY <1>1, <1>4, <2>2 DEF UseOK
  <2>5. \A u \in Actors \ {t} : ~(th[u].pc = "filling" /\ th[u].page = c.page)
    <3>1. \A u \in Actors : th[u].pc = "filling" => u \in Threads
      BY Known DEF UsePlaces
    <3> QED
      BY <1>4, <2>2, <3>1 DEF Busy
  <2> QED
    BY <2>3, <2>4, <2>5, CallOnly
<1> QED
  BY <1>2, <1>3, <1>4 DEF fill

(* A reference is taken or released. *)
LEMMA CountCoheres ==
  ASSUME IndInv, CohInv, NEW t \in Actors, NEW c, th' = [th EXCEPT ![t] = c],
         th[t].pc \notin {"change", "snap", "store", "mark"},
         NEW p \in Pages, NEW n \in Nat, page' = [page EXCEPT ![p].ref = n],
         UNCHANGED <<store, size>>,
         ~c.whole, c.pc \notin {"snap", "store", "copy", "mark", "change", "filling", "extend"}
  PROVE  CohInv'
<1> DEFINE r == [page[p] EXCEPT !.ref = n]
<1>1. page \in [Pages -> PageObjects] /\ page[p] \in PageObjects
  BY DEF IndInv, TypeOK
<1>2. /\ r \in PageObjects /\ r.off = page[p].off
      /\ r.hashed = page[p].hashed /\ r.changed = page[p].changed
      /\ r.map = page[p].map /\ r.filled = page[p].filled /\ r.data = page[p].data
  BY <1>1, Counted
<1>3. page' = [page EXCEPT ![p] = r]
  OBVIOUS
<1> HIDE DEF r
<1>4. \A q \in Pages : page'[q] = IF q = p THEN r ELSE page[q]
  BY <1>1, <1>3
<1>5. \A q \in Pages :
            /\ page'[q].hashed <=> page[q].hashed
            /\ page'[q].filled <=> page[q].filled
            /\ page'[q].changed <=> page[q].changed
            /\ page[q].hashed => /\ page'[q].off = page[q].off
                                 /\ page'[q].data = page[q].data
            /\ page'[q].map = page[q].map
  BY <1>2, <1>4
<1>6. UseOK(t, c, page', size')
  BY DEF UseOK
<1> QED
  BY <1>5, <1>6, QuietStep

(* Cache::flush(), and Cache::clean() of the update thread *)
LEMMA FlushCoheres ==
  ASSUME IndInv, CohInv, NEW t \in Actors, \A u \in Actors : th[u].pc # "park",
         NEW then \in {"flush", "update"},
         \/ changedList # <<>> /\ TakeChanged(t, then)
         \/ th' = [th EXCEPT ![t] = Idle] /\ page' = page
         \/ th' = [th EXCEPT ![t].pc = "wait", ![t].then = "idle"] /\ page' = page,
         th[t].pc \notin {"change", "snap", "store", "mark"},
         UNCHANGED <<store, size>>
  PROVE  CohInv'
<1>1. th[t] \in CallRecords /\ ~th[t].whole /\ th \in [Actors -> CallRecords]
  BY Known DEF CohInv, UsesOK, UseOK, IndInv, TypeOK
<1>2. CASE changedList # <<>> /\ TakeChanged(t, then)
  <2> DEFINE p == Head(changedList)
             c == [th[t] EXCEPT !.page = p, !.pc = "clean", !.then = then]
             n == page[p].ref + 1
  <2>1. p \in Pages
    <3>1. p \in ToSet(changedList)
      BY <1>2, KnownLists, TailLists
    <3> QED
      BY <3>1, KnownLists
  <2>2. page[p] \in PageObjects
    BY <2>1 DEF IndInv, TypeOK
  <2>3. n \in Nat
    BY <2>2 DEF PageObjects
  <2>4. page' = [page EXCEPT ![p].ref = n]
    BY <1>2 DEF TakeChanged
  <2> HIDE DEF p, n
  <2>5. th' = [th EXCEPT ![t] = c]
    BY <1>2 DEF TakeChanged, p
  <2>6. c.pc = "clean" /\ c.whole = th[t].whole
    BY <1>1 DEF CallRecords
  <2> HIDE DEF c
  <2> QED
    BY <1>1, <2>1, <2>3, <2>4, <2>5, <2>6, CountCoheres
<1>3. CASE th' = [th EXCEPT ![t] = Idle] /\ page' = page
  <2>1. UseOK(t, Idle, page, size) /\ Idle.pc # "filling"
    BY DEF Idle, UseOK
  <2> QED
    BY <1>3, <2>1, CallOnly
<1>4. CASE th' = [th EXCEPT ![t].pc = "wait", ![t].then = "idle"] /\ page' = page
  <2> DEFINE c == [th[t] EXCEPT !.pc = "wait", !.then = "idle"]
  <2>1. c.pc = "wait" /\ c.whole = th[t].whole
    BY <1>1 DEF CallRecords
  <2>2. th' = [th EXCEPT ![t] = c]
    BY <1>1, <1>4
  <2> HIDE DEF c
  <2>3. UseOK(t, c, page, size) /\ c.pc # "filling" /\ page' = page
    BY <1>1, <1>4, <2>1 DEF UseOK
  <2>4. UNCHANGED <<page, store, size>>
    BY <2>3
  <2> QED
    BY <2>2, <2>3, <2>4, CallOnly
<1> QED
  BY <1>2, <1>3, <1>4

(* Page::release() *)
LEMMA DropCoheres ==
  ASSUME IndInv, CohInv, NEW t \in Actors, \A u \in Actors : th[u].pc # "park", drop(t)
  PROVE  CohInv'
<1> DEFINE p == th[t].page
           c == IF page[p].ref = 1 THEN [th[t] EXCEPT !.pc = "park"]
                ELSE IF th[t].then = "idle" THEN Idle
                ELSE [th[t] EXCEPT !.pc = th[t].then, !.page = None]
           n == page[p].ref - 1
<1>1. /\ th[t].pc = "drop" /\ th[t].pc \in PagePlaces /\ UNCHANGED <<store, size>>
      /\ th[t] \in CallRecords /\ ~th[t].whole /\ CallOK(t, th[t])
  BY Known DEF drop, PagePlaces, CohInv, UsesOK, UseOK
<1>2. /\ p \in Pages /\ page[p] \in PageObjects /\ page[p].ref >= 1 + One(page[p].changed)
  BY <1>1, KnownPage
<1>3. n \in Nat
  BY <1>2 DEF One, PageObjects
<1>4. page' = [page EXCEPT ![p].ref = n] /\ th' = [th EXCEPT ![t] = c]
  BY DEF drop
<1>5. ~c.whole /\ c.pc \in {"park", "idle", "flush", "update"}
  <2>1. CASE page[p].ref = 1
    BY <2>1, <1>1 DEF CallRecords
  <2>2. CASE page[p].ref # 1 /\ th[t].then = "idle"
    BY <2>2 DEF Idle
  <2>3. CASE page[p].ref # 1 /\ th[t].then # "idle"
    BY <2>3, <1>1 DEF CallRecords
  <2> QED
    BY <2>1, <2>2, <2>3
<1> HIDE DEF c, n, p
<1> QED
  BY <1>1, <1>2, <1>3, <1>4, <1>5, CountCoheres

(* PageSet::free() and PageSet::standby() *)
LEMMA ParkCoheres ==
  ASSUME IndInv, CohInv, NEW t \in Actors, park(t)
  PROVE  CohInv'
<1> DEFINE p == th[t].page
           c == IF th[t].then = "idle" THEN Idle
                ELSE [th[t] EXCEPT !.pc = th[t].then, !.page = None]
<1>1. /\ th[t].pc = "park" /\ th[t].pc \in PagePlaces /\ UNCHANGED <<store, size>>
      /\ th[t] \in CallRecords /\ ~th[t].whole /\ CallOK(t, th[t])
      /\ th' = [th EXCEPT ![t] = c] /\ page \in [Pages -> PageObjects]
  BY Known DEF park, PagePlaces, CohInv, UsesOK, UseOK
<1>2. p \in Pages /\ page[p] \in PageObjects /\ PageOK(page[p], size)
  BY <1>1, KnownPage
<1>3. ~c.whole /\ c.pc \in {"idle", "flush", "update"}
  <2>1. CASE th[t].then = "idle"
    BY <2>1 DEF Idle
  <2>2. CASE th[t].then # "idle"
    BY <2>2, <1>1 DEF CallRecords
  <2> QED
    BY <2>1, <2>2
<1> HIDE DEF c
<1>4. \A q \in Pages :
            /\ page'[q].hashed <=> page[q].hashed
            /\ page'[q].filled <=> page[q].filled
            /\ page'[q].changed <=> page[q].changed
            /\ page[q].hashed => /\ page'[q].off = page[q].off
                                 /\ page'[q].data = page[q].data
            /\ page'[q].map = page[q].map
  <2>1. CASE page[p].free
    <3> DEFINE r == [page[p] EXCEPT !.off = None, !.free = FALSE]
    <3>1. /\ r.hashed = page[p].hashed /\ r.filled = page[p].filled
          /\ r.changed = page[p].changed /\ r.map = page[p].map
      BY <1>2 DEF PageObjects
    <3>2. page' = [page EXCEPT ![p] = r]
      BY <2>1 DEF park
    <3>3. ~page[p].hashed
      BY <1>2, <2>1 DEF PageOK
    <3> HIDE DEF r
    <3>4. \A q \in Pages : page'[q] = IF q = p THEN r ELSE page[q]
      BY <3>2, <1>1
    <3> QED
      BY <3>1, <3>3, <3>4
  <2>2. CASE ~page[p].free
    BY <2>2 DEF park
  <2> QED
    BY <2>1, <2>2
<1>5. UseOK(t, c, page', size') /\ c.pc # "filling"
  BY <1>3 DEF UseOK
<1> QED
  BY <1>1, <1>4, <1>5, QuietStep

(* A thread makes a call. *)
LEMMA StartCoheres ==
  ASSUME IndInv, CohInv, Allow = {}, NEW t \in Actors, t \in Threads,
         read(t) \/ write(t) \/ Flush(t) \/ get(t) \/ put(t)
  PROVE  CohInv'
<1>1. \E c : /\ th' = [th EXCEPT ![t] = c] /\ ~c.whole
             /\ c.pc \in {"get", "flush", "clean", "drop", "extend"}
             /\ c.pc = "extend" => size <= c.off /\ "append" \in Calls[t]
  <2>1. CASE read(t)
    <3>1. PICK o : th' = [th EXCEPT ![t] = [Idle EXCEPT !.op = "read", !.off = o, !.pc = "get"]]
      BY <2>1 DEF read, Call
    <3> DEFINE c == [Idle EXCEPT !.op = "read", !.off = o, !.pc = "get"]
    <3>2. ~c.whole /\ c.pc = "get"
      BY DEF Idle
    <3>3. th' = [th EXCEPT ![t] = c]
      BY <3>1
    <3> HIDE DEF c
    <3> QED
      BY <3>2, <3>3
  <2>2. CASE write(t)
    <3>1. PICK o \in Offsets, secs \in (SUBSET Sectors) \ {{}} :
             /\ (IF size <= o THEN "append" ELSE "write") \in Calls[t]
             /\ th' = [th EXCEPT ![t] = [Idle EXCEPT
                     !.op = "write", !.off = o, !.whole = FALSE, !.secs = secs,
                     !.pc = IF size <= o THEN "extend" ELSE "get"]]
      BY <2>2 DEF write
    <3> DEFINE c == [Idle EXCEPT
                     !.op = "write", !.off = o, !.whole = FALSE, !.secs = secs,
                     !.pc = IF size <= o THEN "extend" ELSE "get"]
    <3>2. ~c.whole /\ c.off = o /\ c.pc = IF size <= o THEN "extend" ELSE "get"
      BY DEF Idle
    <3> HIDE DEF c
    <3>3. th' = [th EXCEPT ![t] = c]
      BY <3>1 DEF c
    <3> QED
      BY <3>1, <3>2, <3>3
  <2>3. CASE Flush(t)
    <3>1. th' = [th EXCEPT ![t] = [Idle EXCEPT !.op = "flush", !.off = None, !.pc = "flush"]]
      BY <2>3 DEF Flush, Call
    <3> DEFINE c == [Idle EXCEPT !.op = "flush", !.off = None, !.pc = "flush"]
    <3>2. ~c.whole /\ c.pc = "flush"
      BY DEF Idle
    <3>3. th' = [th EXCEPT ![t] = c]
      BY <3>1
    <3> HIDE DEF c
    <3> QED
      BY <3>2, <3>3
  <2>4. CASE get(t)
    <3>1. PICK o : th' = [th EXCEPT ![t] = [Idle EXCEPT !.op = "get", !.off = o, !.pc = "get"]]
      BY <2>4 DEF get, Call
    <3> DEFINE c == [Idle EXCEPT !.op = "get", !.off = o, !.pc = "get"]
    <3>2. ~c.whole /\ c.pc = "get"
      BY DEF Idle
    <3>3. th' = [th EXCEPT ![t] = c]
      BY <3>1
    <3> HIDE DEF c
    <3> QED
      BY <3>2, <3>3
  <2>5. CASE put(t)
    <3>1. PICK dirty \in BOOLEAN : th' = [th EXCEPT ![t] = [Idle EXCEPT
                     !.op = "put", !.page = mapped[t],
                     !.pc = IF dirty THEN "clean" ELSE "drop"]]
      BY <2>5 DEF put
    <3> DEFINE c == [Idle EXCEPT !.op = "put", !.page = mapped[t],
                             !.pc = IF dirty THEN "clean" ELSE "drop"]
    <3>2. ~c.whole /\ c.pc \in {"clean", "drop"}
      BY DEF Idle
    <3>3. th' = [th EXCEPT ![t] = c]
      BY <3>1
    <3> HIDE DEF c
    <3> QED
      BY <3>2, <3>3
  <2> QED
    BY <2>1, <2>2, <2>3, <2>4, <2>5
<1>2. /\ th[t].pc \notin {"change", "snap", "store", "mark"}
      /\ UNCHANGED <<page, store, size>>
  BY DEF read, write, Flush, get, put
<1>3. PICK c : /\ th' = [th EXCEPT ![t] = c] /\ ~c.whole
               /\ c.pc \in {"get", "flush", "clean", "drop", "extend"}
               /\ c.pc = "extend" => size <= c.off /\ "append" \in Calls[t]
  BY <1>1
<1>4. UseOK(t, c, page, size) /\ c.pc # "filling"
  BY <1>3 DEF UseOK
<1> QED
  BY <1>2, <1>3, <1>4, CallOnly

(* A step of one thread on one page, and on the backing store of its offset. *)
LEMMA ContentStep ==
  ASSUME IndInv, CohInv, NEW t \in Actors, NEW c, th' = [th EXCEPT ![t] = c],
         NEW p \in Pages, size' = size,
         \A q \in Pages \ {p} :
            /\ page'[q].hashed <=> page[q].hashed
            /\ page'[q].filled <=> page[q].filled
            /\ page'[q].changed <=> page[q].changed
            /\ page[q].hashed => /\ page'[q].off = page[q].off
                                 /\ page'[q].data = page[q].data
                                 /\ store'[page[q].off] = store[page[q].off]
            /\ page'[q].map = page[q].map,
         \A q \in Pages \ {p} : \A s : ~PendingBy(t, q, s),
         PageCoherent(p)', page'[p].changed => page'[p].filled,
         StoreCoherent',
         \A u \in Actors \ {t} : Holds(th[u], p) =>
                /\ page[p].hashed => page'[p].hashed \/ th[u].pc \notin {"snap", "store"}
                /\ page[p].filled => page'[p].filled
                /\ ~page[p].filled => ~page'[p].filled \/ th[u].pc # "filling",
         UseOK(t, c, page', size'),
         c.pc = "filling" =>
            \A u \in Actors \ {t} : ~(th[u].pc = "filling" /\ th[u].page = c.page)
  PROVE  CohInv'
<1>1. th'[t] = c /\ \A u \in Actors \ {t} : th'[u] = th[u]
  BY DEF IndInv, TypeOK
<1>2. ASSUME NEW q \in Pages \ {p} PROVE PageCoherent(q)'
  <2> SUFFICES ASSUME page'[q].hashed, page'[q].filled
               PROVE  /\ page'[q].data = Current'
                      /\ \A s \in Sectors : store'[page'[q].off][s] \/ Pending(q, s)'
    BY DEF PageCoherent
  <2>1. /\ page[q].data = Current
        /\ \A s \in Sectors : store[page[q].off][s] \/ Pending(q, s)
    BY DEF CohInv, PagesCoherent, PageCoherent
  <2>2. ASSUME NEW s \in Sectors, Pending(q, s) PROVE Pending(q, s)'
    <3>1. ~PendingBy(t, q, s)
      OBVIOUS
    <3>2. page[q].changed /\ s \in page[q].map => Pending(q, s)'
      BY DEF Pending
    <3>3. page[q].map \subseteq page'[q].map
      OBVIOUS
    <3> QED
      BY <3>1, <3>2, <3>3, <2>2, <1>1, PendingStays
  <2> QED
    BY <2>1, <2>2 DEF Current
<1>3. PagesCoherent'
  <2>1. ASSUME NEW q \in Pages
        PROVE  PageCoherent(q)' /\ (page'[q].changed => page'[q].filled)
    <3>1. CASE q = p
      BY <3>1
    <3>2. CASE q # p
      BY <3>2, <1>2 DEF CohInv, PagesCoherent
    <3> QED
      BY <3>1, <3>2
  <2> QED
    BY <2>1 DEF PagesCoherent
<1>4. UsesOK' /\ OneFiller'
  <2>1. \A u \in Actors : th[u].pc \in PagePlaces => th[u].page \in Pages
    BY KnownPage
  <2>2. \A u \in Actors \ {t} : th[u].pc = "extend" => size' <= th[u].off
    BY DEF CohInv, UsesOK, UseOK
  <2>3. \A u \in Actors \ {t} : th[u].pc \in PagePlaces \ {"park"} =>
            LET x == th[u].page
            IN  /\ page[x].hashed => page'[x].hashed \/ th[u].pc \notin {"snap", "store"}
                /\ page[x].filled => page'[x].filled
                /\ ~page[x].filled => ~page'[x].filled \/ th[u].pc # "filling"
    <3> SUFFICES ASSUME NEW u \in Actors \ {t}, th[u].pc \in PagePlaces \ {"park"}
                 PROVE  LET x == th[u].page
                        IN  /\ page[x].hashed => page'[x].hashed \/ th[u].pc \notin {"snap", "store"}
                            /\ page[x].filled => page'[x].filled
                            /\ ~page[x].filled => ~page'[x].filled \/ th[u].pc # "filling"
      OBVIOUS
    <3>1. CASE th[u].page = p
      BY <3>1 DEF Holds
    <3>2. CASE th[u].page # p
      BY <3>2, <2>1
    <3> QED
      BY <3>1, <3>2
  <2> QED
    BY <2>2, <2>3, UsesStep
<1> QED
  BY <1>3, <1>4 DEF CohInv

(* What a thread knows of the contents of the page it uses. *)
LEMMA KnownContent ==
  ASSUME IndInv, CohInv, NEW t \in Actors, th[t].pc \in PagePlaces
  PROVE  LET p == th[t].page
         IN  /\ p \in Pages /\ page[p] \in PageObjects /\ page[p].off \in Offsets
             /\ PageOK(page[p], size) /\ PageCoherent(p)
             /\ page[p].changed => page[p].filled
             /\ UseOK(t, th[t], page, size) /\ ~th[t].whole
             /\ \A q \in Pages \ {p} : \A s : ~PendingBy(t, q, s)
             /\ th \in [Actors -> CallRecords] /\ th[t] \in CallRecords
             /\ page \in [Pages -> PageObjects]
             /\ page[p].hashed => lookup(page[p].off) = {p}
             /\ ~page[p].hashed => \A o : p \notin lookup(o)
<1>1. /\ th[t].page \in Pages /\ page[th[t].page] \in PageObjects
      /\ page[th[t].page].off \in Offsets /\ PageOK(page[th[t].page], size)
  BY KnownPage
<1>2. UseOK(t, th[t], page, size) /\ ~th[t].whole
  BY DEF CohInv, UsesOK, UseOK
<1>3. PageCoherent(th[t].page) /\ (page[th[t].page].changed => page[th[t].page].filled)
  BY <1>1 DEF CohInv, PagesCoherent
<1>4. \A q \in Pages \ {th[t].page} : \A s : ~PendingBy(t, q, s)
  BY DEF PendingBy
<1>5. /\ th \in [Actors -> CallRecords] /\ th[t] \in CallRecords
      /\ page \in [Pages -> PageObjects]
  BY DEF IndInv, TypeOK
<1>6. /\ page[th[t].page].hashed => lookup(page[th[t].page].off) = {th[t].page}
      /\ ~page[th[t].page].hashed => \A o : th[t].page \notin lookup(o)
  BY <1>1 DEF IndInv, OnePagePerOffset, lookup
<1> QED
  BY <1>1, <1>2, <1>3, <1>4, <1>5, <1>6

(* Page::fill(), the end of the read *)
LEMMA FilledCoheres ==
  ASSUME IndInv, CohInv, NEW t \in Actors, filled(t)
  PROVE  CohInv'
<1>p. PICK p : p = th[t].page
  OBVIOUS
<1> DEFINE r == [page[p] EXCEPT !.data = store[page[p].off], !.filled = TRUE]
<1>1. /\ th[t].pc = "filling" /\ th[t].pc \in PagePlaces /\ UNCHANGED <<size, store>>
      /\ AfterFill(t) /\ page' = [page EXCEPT ![p] = r]
  BY <1>p DEF filled, PagePlaces, UsePlaces
<1>2. /\ p \in Pages /\ page[p] \in PageObjects /\ page[p].off \in Offsets
      /\ PageOK(page[p], size) /\ page \in [Pages -> PageObjects]
      /\ ~page[p].filled /\ ~th[t].whole /\ ~page[p].changed
      /\ page[p].hashed => lookup(page[p].off) = {p}
      /\ ~page[p].hashed => \A o : p \notin lookup(o)
      /\ \A q \in Pages \ {p} : \A s : ~PendingBy(t, q, s)
  BY <1>p, <1>1, KnownContent DEF UseOK
<1>3. /\ r.hashed = page[p].hashed /\ r.filled = TRUE /\ r.data = store[page[p].off]
      /\ r.changed = page[p].changed /\ r.map = page[p].map /\ r.off = page[p].off
  BY <1>2 DEF PageObjects
<1>4. PICK c : /\ th' = [th EXCEPT ![t] = c] /\ ~c.whole
               /\ c.pc \in {"idle", "drop", "copy"}
               /\ c.pc = "copy" => c.page = p
  BY <1>p, <1>1, <1>2, AfterFillUses
<1> HIDE DEF r
<1>5. page'[p] = r /\ \A q \in Pages \ {p} : page'[q] = page[q]
  BY <1>1, <1>2
<1>6. \A o : lookup(o)' = lookup(o)
  BY <1>3, <1>5 DEF lookup
<1>7. PageCoherent(p)' /\ (page'[p].changed => page'[p].filled)
  <2>1. page[p].hashed => store[page[p].off] = Current
    BY <1>2 DEF CohInv, StoreCoherent
  <2>2. \A s \in Sectors : Current[s] = TRUE
    BY DEF Current
  <2>3. page'[p].hashed =>
           page'[p].data = Current /\ \A s \in Sectors : store'[page'[p].off][s]
    BY <1>1, <1>3, <1>5, <2>1, <2>2
  <2>4. ASSUME page'[p].hashed, page'[p].filled
        PROVE  /\ page'[p].data = Current'
               /\ \A s \in Sectors : store'[page'[p].off][s] \/ Pending(p, s)'
    BY <2>3, <2>4 DEF Current
  <2>5. PageCoherent(p)'
    BY <2>4 DEF PageCoherent
  <2> QED
    BY <2>5, <1>2, <1>3, <1>5
<1>8. StoreCoherent'
  <2> SUFFICES ASSUME NEW o \in Offsets, \A q \in lookup(o)' : ~page'[q].filled
               PROVE  store'[o] = Current'
    BY DEF StoreCoherent
  <2>1. p \notin lookup(o)
    BY <1>3, <1>5, <1>6
  <2>2. \A q \in lookup(o) : ~page[q].filled
    BY <2>1, <1>5, <1>6 DEF lookup
  <2> QED
    BY <2>2, <1>1 DEF CohInv, StoreCoherent, Current
<1>9. \A u \in Actors \ {t} : Holds(th[u], p) =>
                /\ page[p].hashed => page'[p].hashed \/ th[u].pc \notin {"snap", "store"}
                /\ page[p].filled => page'[p].filled
                /\ ~page[p].filled => ~page'[p].filled \/ th[u].pc # "filling"
  BY <1>p, <1>1, <1>3, <1>5 DEF CohInv, OneFiller, Holds
<1>10. UseOK(t, c, page', size') /\ c.pc # "filling"
  BY <1>3, <1>4, <1>5 DEF UseOK
<1>11. \A q \in Pages \ {p} :
            /\ page'[q].hashed <=> page[q].hashed
            /\ page'[q].filled <=> page[q].filled
            /\ page'[q].changed <=> page[q].changed
            /\ page[q].hashed => /\ page'[q].off = page[q].off
                                 /\ page'[q].data = page[q].data
                                 /\ store'[page[q].off] = store[page[q].off]
            /\ page'[q].map = page[q].map
  BY <1>1, <1>5
<1>12. /\ size' = size /\ th' = [th EXCEPT ![t] = c] /\ p \in Pages
       /\ \A q \in Pages \ {p} : \A s : ~PendingBy(t, q, s)
  BY <1>1, <1>2, <1>4
<1> QED
  BY <1>7, <1>8, <1>9, <1>10, <1>11, <1>12, ContentStep

(* The page keeps its offset, its place in the hash table and its contents.  *)
LEMMA BookStep ==
  ASSUME IndInv, CohInv, NEW t \in Actors, th[t].pc \in PagePlaces, NEW p, Holds(th[t], p),
         NEW c, th' = [th EXCEPT ![t] = c], NEW r, page' = [page EXCEPT ![p] = r],
         r.hashed = page[p].hashed, r.filled = page[p].filled, r.off = page[p].off,
         r.data = page[p].data, r.changed => r.filled,
         page[p].hashed => \A s \in Sectors : Pending(p, s) => Pending(p, s)',
         UNCHANGED <<size, store>>,
         ~c.whole, c.pc \in {"change", "drop", "snap", "store"}, c.page = th[t].page,
         c.pc = "change" => page[p].filled,
         c.pc \in {"snap", "store"} => page[p].hashed /\ page[p].filled
  PROVE  CohInv'
<1>1. /\ p \in Pages /\ page[p] \in PageObjects /\ page \in [Pages -> PageObjects]
      /\ PageCoherent(p) /\ c.page = p
      /\ \A q \in Pages \ {p} : \A s : ~PendingBy(t, q, s)
  BY KnownContent DEF Holds
<1>2. page'[p] = r /\ \A q \in Pages \ {p} : page'[q] = page[q]
  BY <1>1
<1>3. \A o : lookup(o)' = lookup(o)
  BY <1>1, <1>2 DEF lookup
<1>4. PageCoherent(p)' /\ (page'[p].changed => page'[p].filled)
  BY <1>1, <1>2 DEF PageCoherent, Current
<1>5. StoreCoherent'
  <2> SUFFICES ASSUME NEW o \in Offsets, \A q \in lookup(o)' : ~page'[q].filled
               PROVE  store'[o] = Current'
    BY DEF StoreCoherent
  <2>1. \A q \in lookup(o) : ~page[q].filled
    BY <1>2, <1>3 DEF lookup
  <2> QED
    BY <2>1 DEF CohInv, StoreCoherent, Current
<1>6. \A u \in Actors \ {t} : Holds(th[u], p) =>
                /\ page[p].hashed => page'[p].hashed \/ th[u].pc \notin {"snap", "store"}
                /\ page[p].filled => page'[p].filled
                /\ ~page[p].filled => ~page'[p].filled \/ th[u].pc # "filling"
  BY <1>2
<1>7. UseOK(t, c, page', size') /\ c.pc # "filling"
  BY <1>1, <1>2 DEF UseOK
<1>8. \A q \in Pages \ {p} :
            /\ page'[q].hashed <=> page[q].hashed
            /\ page'[q].filled <=> page[q].filled
            /\ page'[q].changed <=> page[q].changed
            /\ page[q].hashed => /\ page'[q].off = page[q].off
                                 /\ page'[q].data = page[q].data
                                 /\ store'[page[q].off] = store[page[q].off]
            /\ page'[q].map = page[q].map
  BY <1>2
<1>9. size' = size
  OBVIOUS
<1> QED
  BY <1>1, <1>4, <1>5, <1>6, <1>7, <1>8, <1>9, ContentStep

(* Page::write() notes the sectors it wrote. *)
LEMMA MarkCoheres ==
  ASSUME IndInv, CohInv, NEW t \in Actors, mark(t)
  PROVE  CohInv'
<1>p. PICK p : p = th[t].page
  OBVIOUS
<1> DEFINE r == [page[p] EXCEPT !.map = @ \cup th[t].secs, !.filled = TRUE]
           c == [th[t] EXCEPT !.pc = "change"]
<1>1. /\ th[t].pc = "mark" /\ th[t].pc \in PagePlaces /\ UNCHANGED <<size, store>>
      /\ page' = [page EXCEPT ![p] = r] /\ th' = [th EXCEPT ![t] = c] /\ "change" \in Places
  BY <1>p DEF mark, Goto, PagePlaces, UsePlaces, Places
<1>2. /\ p \in Pages /\ page[p] \in PageObjects /\ page[p].filled /\ ~th[t].whole
      /\ th[t] \in CallRecords /\ page \in [Pages -> PageObjects] /\ Holds(th[t], p)
  BY <1>p, <1>1, KnownContent DEF UseOK, Holds
<1>3. /\ r.hashed = page[p].hashed /\ r.filled = page[p].filled /\ r.off = page[p].off
      /\ r.data = page[p].data /\ r.changed = page[p].changed
      /\ r.map = page[p].map \cup th[t].secs
  BY <1>2 DEF PageObjects
<1>4. c.pc = "change" /\ c.page = th[t].page /\ c.whole = th[t].whole
  BY <1>1, <1>2, Goes
<1> HIDE DEF r, c
<1>5. page'[p] = r /\ th'[t] = c /\ \A u \in Actors \ {t} : th'[u] = th[u]
  BY <1>1, <1>2 DEF IndInv, TypeOK
<1>6. ASSUME NEW s \in Sectors, Pending(p, s) PROVE Pending(p, s)'
  <2>1. s \in th[t].secs => Pending(p, s)'
    BY <1>p, <1>3, <1>4, <1>5 DEF Pending, PendingBy
  <2>2. PendingBy(t, p, s) => Pending(p, s)'
    BY <2>1, <1>1 DEF PendingBy
  <2>3. page[p].changed /\ s \in page[p].map => Pending(p, s)'
    BY <1>3, <1>5 DEF Pending
  <2>4. page[p].map \subseteq page'[p].map
    BY <1>3, <1>5
  <2> QED
    BY <1>2, <1>5, <1>6, <2>2, <2>3, <2>4, PendingStays
<1>7. r.changed => r.filled
  BY <1>2, <1>3
<1> QED
  BY <1>1, <1>2, <1>3, <1>4, <1>6, <1>7, BookStep

(* Cache::change() *)
LEMMA ChangeCoheres ==
  ASSUME IndInv, CohInv, NEW t \in Actors, change(t)
  PROVE  CohInv'
<1>p. PICK p : p = th[t].page
  OBVIOUS
<1> DEFINE skip == page[p].changed \/ page[p].free
           r == IF skip THEN page[p]
                ELSE [page[p] EXCEPT !.ref = page[p].ref + 1, !.changed = TRUE]
           c == [th[t] EXCEPT !.pc = "drop"]
<1>1. /\ th[t].pc = "change" /\ th[t].pc \in PagePlaces /\ UNCHANGED <<size, store>>
      /\ th' = [th EXCEPT ![t] = c] /\ "drop" \in Places
  BY DEF change, Goto, PagePlaces, UsePlaces, Places
<1>2. /\ p \in Pages /\ page[p] \in PageObjects /\ page[p].filled /\ ~th[t].whole
      /\ th[t] \in CallRecords /\ page \in [Pages -> PageObjects] /\ Holds(th[t], p)
      /\ PageOK(page[p], size)
  BY <1>p, <1>1, KnownContent DEF UseOK, Holds
<1>3. /\ r.hashed = page[p].hashed /\ r.filled = page[p].filled /\ r.off = page[p].off
      /\ r.data = page[p].data /\ r.map = page[p].map
      /\ page[p].hashed => r.changed
  <2>1. page[p].ref + 1 \in Nat
    BY <1>2 DEF PageObjects
  <2>2. CASE skip
    BY <2>2, <1>2 DEF PageOK
  <2>3. CASE ~skip
    BY ZenonT(30), <2>1, <2>3, <1>2, CountedChange
  <2> QED
    BY <2>2, <2>3
<1>4. c.pc = "drop" /\ c.page = th[t].page /\ c.whole = th[t].whole
  BY <1>1, <1>2, Goes
<1>5. page' = [page EXCEPT ![p] = r]
  BY <1>p, <1>2 DEF change
<1> HIDE DEF r, c, skip
<1>6. page'[p] = r /\ th'[t] = c /\ \A u \in Actors \ {t} : th'[u] = th[u]
  BY <1>1, <1>2, <1>5 DEF IndInv, TypeOK
<1>7. ASSUME page[p].hashed, NEW s \in Sectors, Pending(p, s) PROVE Pending(p, s)'
  <2>1. s \in page[p].map => Pending(p, s)'
    BY <1>3, <1>6, <1>7 DEF Pending
  <2>2. PendingBy(t, p, s) => Pending(p, s)'
    BY <2>1, <1>1 DEF PendingBy
  <2>4. page[p].map \subseteq page'[p].map
    BY <1>3, <1>6
  <2> QED
    BY <1>2, <1>6, <1>7, <2>1, <2>2, <2>4, PendingStays
<1>8. r.changed => r.filled
  BY <1>2, <1>3
<1> QED
  BY <1>1, <1>2, <1>3, <1>4, <1>5, <1>7, <1>8, BookStep

(* Cache::clean(page), from Page::sync() *)
LEMMA CleanCoheres ==
  ASSUME IndInv, CohInv, NEW t \in Actors, clean(t)
  PROVE  CohInv'
<1>p. PICK p : p = th[t].page
  OBVIOUS
<1> DEFINE r == IF page[p].changed
                THEN [page[p] EXCEPT !.ref = page[p].ref - 1, !.changed = FALSE]
                ELSE page[p]
           x == IF page[p].changed THEN "snap" ELSE "drop"
           c == [th[t] EXCEPT !.pc = x]
<1>1. /\ th[t].pc = "clean" /\ th[t].pc \in PagePlaces /\ UNCHANGED <<size, store>>
      /\ th' = [th EXCEPT ![t] = c] /\ x \in Places
  BY <1>p DEF clean, Goto, PagePlaces, UsePlaces, Places
<1>2. /\ p \in Pages /\ page[p] \in PageObjects /\ ~th[t].whole
      /\ th[t] \in CallRecords /\ page \in [Pages -> PageObjects] /\ Holds(th[t], p)
      /\ page[p].changed => page[p].hashed /\ page[p].filled
  BY <1>p, <1>1, KnownContent DEF Holds, PageOK
<1>3. /\ r.hashed = page[p].hashed /\ r.filled = page[p].filled /\ r.off = page[p].off
      /\ r.data = page[p].data /\ r.map = page[p].map /\ r.changed = FALSE
  <2>1. CASE page[p].changed
    <3>1. page[p].ref - 1 \in Nat
      <4>1. page[p].ref >= 1 + One(page[p].changed)
        BY <1>p, <1>1, KnownPage
      <4>2. page[p].ref \in Nat
        BY <1>2 DEF PageObjects
      <4> QED
        BY <4>1, <4>2 DEF One
    <3> QED
      BY <2>1, <3>1, <1>2, CountedChange
  <2>2. CASE ~page[p].changed
    BY <2>2, <1>2 DEF PageObjects
  <2> QED
    BY <2>1, <2>2
<1>4. c.pc = x /\ c.page = th[t].page /\ c.whole = th[t].whole
  BY <1>1, <1>2, Goes
<1>5. page' = [page EXCEPT ![p] = r]
  <2>1. page[p].changed => r = [page[p] EXCEPT !.changed = FALSE, !.ref = page[p].ref - 1]
    BY <1>2 DEF PageObjects
  <2> HIDE DEF r
  <2>2. CASE page[p].changed
    BY <2>1, <2>2, <1>p DEF clean
  <2>3. CASE ~page[p].changed
    BY <2>3, <1>p, <1>2 DEF clean, r
  <2> QED
    BY <2>2, <2>3
<1> HIDE DEF r, c
<1>6. page'[p] = r /\ th'[t] = c /\ \A u \in Actors \ {t} : th'[u] = th[u]
  BY <1>1, <1>2, <1>5 DEF IndInv, TypeOK
<1>7. ASSUME NEW s \in Sectors, Pending(p, s) PROVE Pending(p, s)'
  <2>1. page[p].changed /\ s \in page[p].map => Pending(p, s)'
    BY <1>p, <1>3, <1>4, <1>6 DEF Pending, PendingBy
  <2>2. ~PendingBy(t, p, s)
    BY <1>1 DEF PendingBy
  <2>4. page[p].map \subseteq page'[p].map
    BY <1>3, <1>6
  <2> QED
    BY <1>2, <1>6, <1>7, <2>1, <2>2, <2>4, PendingStays
<1>8. /\ r.changed => r.filled
      /\ ~c.whole /\ c.pc \in {"change", "drop", "snap", "store"}
      /\ c.pc = "change" => page[p].filled
      /\ c.pc \in {"snap", "store"} => page[p].hashed /\ page[p].filled
  BY <1>2, <1>3, <1>4
<1> HIDE DEF x
<1>9. c.page = th[t].page
  BY <1>4
<1> QED
  BY <1>1, <1>2, <1>3, <1>5, <1>7, <1>8, <1>9, BookStep

(* Page::sync() takes the map, and answers for what was in it. *)
LEMMA SnapCoheres ==
  ASSUME IndInv, CohInv, NEW t \in Actors, snap(t)
  PROVE  CohInv'
<1>p. PICK p : p = th[t].page
  OBVIOUS
<1> DEFINE r == [page[p] EXCEPT !.map = {}]
           c == [th[t] EXCEPT !.map = page[p].map, !.pc = "store"]
<1>1. /\ th[t].pc = "snap" /\ th[t].pc \in PagePlaces /\ UNCHANGED <<size, store>>
      /\ th' = [th EXCEPT ![t] = c] /\ page' = [page EXCEPT ![p] = r]
  BY <1>p DEF snap, PagePlaces
<1>2. /\ p \in Pages /\ page[p] \in PageObjects /\ ~th[t].whole
      /\ th[t] \in CallRecords /\ page \in [Pages -> PageObjects] /\ Holds(th[t], p)
      /\ page[p].hashed /\ page[p].filled
  BY <1>p, <1>1, KnownContent DEF Holds, UseOK
<1>3. /\ r.hashed = page[p].hashed /\ r.filled = page[p].filled /\ r.off = page[p].off
      /\ r.data = page[p].data /\ r.changed = page[p].changed
  BY <1>2 DEF PageObjects
<1>4. c.pc = "store" /\ c.page = th[t].page /\ c.whole = th[t].whole /\ c.map = page[p].map
  BY <1>2 DEF CallRecords
<1> HIDE DEF r, c
<1>6. page'[p] = r /\ th'[t] = c /\ \A u \in Actors \ {t} : th'[u] = th[u]
  BY <1>1, <1>2 DEF IndInv, TypeOK
<1>7. ASSUME NEW s \in Sectors, Pending(p, s) PROVE Pending(p, s)'
  <2>1. s \in page[p].map => Pending(p, s)'
    BY <1>p, <1>4, <1>6 DEF Pending, PendingBy
  <2>2. CASE s \notin page[p].map
    <3>1. PICK u \in Actors : PendingBy(u, p, s)
      BY <1>7, <2>2 DEF Pending
    <3>2. u # t
      BY <3>1, <2>2, <1>1 DEF PendingBy
    <3>3. PendingBy(u, p, s)'
      BY <3>1, <3>2, <2>2, <1>6 DEF PendingBy
    <3> QED
      BY <3>3 DEF Pending
  <2> QED
    BY <2>1, <2>2
<1>8. r.changed => r.filled
  BY <1>2, <1>3
<1>9. ~c.whole /\ c.pc = "store" /\ c.page = th[t].page
  BY <1>2, <1>4
<1> QED
  BY <1>1, <1>2, <1>3, <1>7, <1>8, <1>9, BookStep

(* Page::sync() writes what the map told. *)
LEMMA SyncCoheres ==
  ASSUME IndInv, CohInv, "fault" \notin Allow, NEW t \in Actors, sync(t)
  PROVE  CohInv'
<1>p. PICK p : p = th[t].page
  OBVIOUS
<1>m. PICK m : m = th[t].map
  OBVIOUS
<1> DEFINE c == [th[t] EXCEPT !.map = {}, !.pc = "drop"]
           e == [s \in Sectors |-> IF s \in m THEN page[p].data[s] ELSE store[page[p].off][s]]
<1>1. /\ th[t].pc = "store" /\ th[t].pc \in PagePlaces /\ UNCHANGED <<size, page>>
      /\ th' = [th EXCEPT ![t] = c]
  BY DEF sync, PagePlaces
<1>2. /\ p \in Pages /\ page[p] \in PageObjects /\ ~th[t].whole
      /\ th[t] \in CallRecords /\ page \in [Pages -> PageObjects] /\ Holds(th[t], p)
      /\ page[p].hashed /\ page[p].filled /\ page[p].off \in Offsets /\ PageCoherent(p)
      /\ lookup(page[p].off) = {p}
      /\ \A q \in Pages \ {p} : \A s : ~PendingBy(t, q, s)
  BY <1>p, <1>1, KnownContent DEF Holds, UseOK
<1>3. c.pc = "drop" /\ c.whole = th[t].whole
  BY <1>2 DEF CallRecords
<1>4. store' = [store EXCEPT ![page[p].off] = e]
  <2>1. m \ {} = m
    OBVIOUS
  <2>2. store' = [store EXCEPT ![page[p].off] = [s \in Sectors |->
                    IF s \in m \ {} THEN page[p].data[s] ELSE store[page[p].off][s]]]
    BY <1>p, <1>m DEF sync
  <2> QED
    BY <2>1, <2>2
<1>5. /\ \A o \in Offsets \ {page[p].off} : store'[o] = store[o]
      /\ store'[page[p].off] = e
  BY <1>2, <1>4 DEF IndInv, TypeOK
<1>6. /\ \A s \in Sectors : s \in m => e[s]
      /\ \A s \in Sectors : s \notin m => e[s] = store[page[p].off][s]
      /\ page[p].data = Current
      /\ \A s \in Sectors : store[page[p].off][s] \/ Pending(p, s)
  BY <1>2 DEF PageCoherent, Current
<1> HIDE DEF c, e
<1>7. th'[t] = c /\ (\A u \in Actors \ {t} : th'[u] = th[u]) /\ \A q : page'[q] = page[q]
  BY <1>1, <1>2 DEF IndInv, TypeOK
<1>8. PageCoherent(p)' /\ (page'[p].changed => page'[p].filled)
  <2>1. ASSUME NEW s \in Sectors, s \notin m, Pending(p, s) PROVE Pending(p, s)'
    <3>1. ~PendingBy(t, p, s)
      BY <1>m, <1>1, <2>1 DEF PendingBy
    <3>2. page[p].changed /\ s \in page[p].map => Pending(p, s)'
      BY <1>7 DEF Pending
    <3>3. page[p].map \subseteq page'[p].map
      BY <1>7
    <3> QED
      BY <1>2, <1>7, <2>1, <3>1, <3>2, <3>3, PendingStays
  <2>2. \A s \in Sectors : store'[page[p].off][s] \/ Pending(p, s)'
    BY <2>1, <1>5, <1>6
  <2>3. page'[p].data = Current' /\ page'[p].off = page[p].off
    BY <1>6, <1>7 DEF Current
  <2> QED
    BY <1>2, <1>7, <2>2, <2>3 DEF PageCoherent
<1>9. StoreCoherent'
  <2> SUFFICES ASSUME NEW o \in Offsets, \A q \in lookup(o)' : ~page'[q].filled
               PROVE  store'[o] = Current'
    BY DEF StoreCoherent
  <2>1. lookup(o)' = lookup(o)
    BY <1>7 DEF lookup
  <2>2. o # page[p].off
    BY <2>1, <1>2, <1>7
  <2> QED
    BY <2>1, <2>2, <1>5, <1>7 DEF CohInv, StoreCoherent, Current
<1>10. \A u \in Actors \ {t} : Holds(th[u], p) =>
                /\ page[p].hashed => page'[p].hashed \/ th[u].pc \notin {"snap", "store"}
                /\ page[p].filled => page'[p].filled
                /\ ~page[p].filled => ~page'[p].filled \/ th[u].pc # "filling"
  BY <1>7
<1>11. UseOK(t, c, page', size') /\ c.pc # "filling"
  BY <1>2, <1>3 DEF UseOK
<1>12. \A q \in Pages \ {p} :
            /\ page'[q].hashed <=> page[q].hashed
            /\ page'[q].filled <=> page[q].filled
            /\ page'[q].changed <=> page[q].changed
            /\ page[q].hashed => /\ page'[q].off = page[q].off
                                 /\ page'[q].data = page[q].data
                                 /\ store'[page[q].off] = store[page[q].off]
            /\ page'[q].map = page[q].map
  <2>1. ASSUME NEW q \in Pages \ {p}, page[q].hashed
        PROVE  page[q].off \in Offsets \ {page[p].off}
    BY <2>1, <1>2, HashedOff DEF IndInv, OnePagePerOffset
  <2> QED
    BY <2>1, <1>5, <1>7
<1>13. size' = size /\ p \in Pages /\ th' = [th EXCEPT ![t] = c]
       /\ \A q \in Pages \ {p} : \A s : ~PendingBy(t, q, s)
  BY <1>1, <1>2
<1> QED
  BY <1>8, <1>9, <1>10, <1>11, <1>12, <1>13, ContentStep

(* The part of a page's content that a write into it leaves alone. *)
LEMMA StoreHides ==
  ASSUME IndInv, NEW p \in Pages, page[p].off \in Offsets, NEW secs, Store(p, secs, FALSE)
  PROVE  /\ page[p].hashed => page'[p].data = page[p].data
         /\ \A q \in Pages \ {p} : page[q].hashed =>
               /\ page'[q].data = page[q].data
               /\ store'[page[q].off] = store[page[q].off]
         /\ ~page[p].hashed => store' = store
         /\ \A s \in Sectors \ secs : store'[page[p].off][s] = store[page[p].off][s]
         /\ \A o \in Offsets \ {page[p].off} : store'[o] = store[o]
<1>1. /\ page \in [Pages -> PageObjects] /\ store \in [Offsets -> [Sectors -> BOOLEAN]]
      /\ PageOK(page[p], size) /\ None \notin Offsets
  BY CacheAssumption DEF IndInv, TypeOK, PagesOK, Offsets
<1>2. page[p].hashed <=> ~page[p].free
  BY <1>1 DEF PageOK
<1>3. page[p].hashed =>
         \A q \in Pages \ {p} : page[q].hashed => page[q].off # page[p].off
  BY DEF IndInv, OnePagePerOffset
<1> DEFINE d == [s \in Sectors |-> IF s \in secs THEN ~page[p].free /\ (FALSE \/ page[p].data[s])
                                   ELSE page[p].data[s]]
           e == [s \in Sectors |-> s \notin secs /\ store[page[p].off][s]]
<1>4. page'[p] = [page[p] EXCEPT !.data = d]
  BY DEF Store
<1>5. page'[p].data = d
  <2>1. page[p] \in PageObjects
    BY <1>1
  <2> HIDE DEF d
  <2> QED
    BY <1>4, <2>1 DEF PageObjects
<1>6. page[p].hashed => d = page[p].data
  <2>1. page[p].data \in [Sectors -> BOOLEAN]
    BY <1>1 DEF PageObjects
  <2> QED
    BY <1>2, <2>1
<1>7. \A q \in Pages \ {p} : page[q].hashed => page'[q] = page[q]
  BY <1>2, <1>3 DEF Store
<1>8. store' = IF page[p].free THEN store ELSE [store EXCEPT ![page[p].off] = e]
  BY DEF Store
<1>9. \A s \in Sectors \ secs : e[s] = store[page[p].off][s]
  BY <1>1
<1> HIDE DEF e, d
<1>10. /\ store'[page[p].off] = IF page[p].free THEN store[page[p].off] ELSE e
       /\ \A o \in Offsets \ {page[p].off} : store'[o] = store[o]
  BY <1>1, <1>8
<1>11. \A q \in Pages \ {p} : page[q].hashed => store'[page[q].off] = store[page[q].off]
  <2>1. ASSUME NEW q \in Pages \ {p}, page[q].hashed PROVE page[q].off \in Offsets
    BY <2>1, HashedOff
  <2> QED
    BY <2>1, <1>2, <1>3, <1>8, <1>10
<1> QED
  BY <1>2, <1>5, <1>6, <1>7, <1>8, <1>9, <1>10, <1>11

(* Page::write(): what it writes is not written back yet. *)
LEMMA CopyCoheres ==
  ASSUME IndInv, CohInv, NEW t \in Actors, copy(t)
  PROVE  CohInv'
<1>p. PICK p : p = th[t].page
  OBVIOUS
<1>m. PICK secs : secs = th[t].secs
  OBVIOUS
<1> DEFINE c == [th[t] EXCEPT !.pc = "mark"]
<1>1. /\ th[t].pc = "copy" /\ th[t].pc \in PagePlaces /\ size' = size
      /\ th' = [th EXCEPT ![t] = c] /\ "mark" \in Places
      /\ Store(th[t].page, th[t].secs, th[t].whole)
  BY DEF copy, Goto, PagePlaces, UsePlaces, Places
<1>2. /\ p \in Pages /\ page[p] \in PageObjects /\ th[t].whole = FALSE
      /\ th[t] \in CallRecords /\ page \in [Pages -> PageObjects] /\ Holds(th[t], p)
      /\ page[p].filled /\ page[p].off \in Offsets /\ PageCoherent(p)
      /\ page[p].hashed => lookup(page[p].off) = {p}
      /\ page[p].changed => page[p].filled
      /\ \A q \in Pages \ {p} : \A s : ~PendingBy(t, q, s)
  <2>1. th[t].whole = FALSE
    <3>1. th[t] \in CallRecords /\ ~th[t].whole
      BY <1>1, KnownContent
    <3> QED
      BY <3>1 DEF CallRecords
  <2> QED
    BY <2>1, <1>p, <1>1, KnownContent DEF Holds, UseOK
<1>3. c.pc = "mark" /\ c.whole = th[t].whole /\ c.page = th[t].page /\ c.secs = th[t].secs
  BY <1>1, <1>2, Goes
<1>4. Store(p, secs, FALSE)
  BY <1>p, <1>m, <1>1, <1>2
<1>5. /\ page[p].hashed => page'[p].data = page[p].data
      /\ \A q \in Pages \ {p} : page[q].hashed =>
            /\ page'[q].data = page[q].data
            /\ store'[page[q].off] = store[page[q].off]
      /\ ~page[p].hashed => store' = store
      /\ \A s \in Sectors \ secs : store'[page[p].off][s] = store[page[p].off][s]
      /\ \A o \in Offsets \ {page[p].off} : store'[o] = store[o]
  BY <1>2, <1>4, StoreHides
<1>6. \A q \in Pages :
         /\ page'[q].off = page[q].off
         /\ page'[q].hashed = page[q].hashed /\ page'[q].changed = page[q].changed
         /\ page'[q].map = page[q].map /\ page'[q].filled = page[q].filled
  <2>1. FALSE \in BOOLEAN
    OBVIOUS
  <2> QED
    BY <1>2, <1>4, <2>1, StoreTyped
<1> HIDE DEF c
<1>7. th'[t] = c /\ (\A u \in Actors \ {t} : th'[u] = th[u])
  BY <1>1 DEF IndInv, TypeOK
<1>8. PageCoherent(p)' /\ (page'[p].changed => page'[p].filled)
  <2>0. ASSUME page[p].hashed PROVE page'[p].data = Current' /\ \A s \in Sectors : store[page[p].off][s] \/ Pending(p, s)
    BY <2>0, <1>2, <1>5 DEF PageCoherent, Current
  <2>1. ASSUME NEW s \in Sectors, Pending(p, s) PROVE Pending(p, s)'
    <3>1. ~PendingBy(t, p, s)
      BY <1>1 DEF PendingBy
    <3>2. page[p].changed /\ s \in page[p].map => Pending(p, s)'
      BY <1>2, <1>6 DEF Pending
    <3>3. page[p].map \subseteq page'[p].map
      BY <1>2, <1>6
    <3> QED
      BY <1>2, <1>7, <2>1, <3>1, <3>2, <3>3, PendingStays
  <2>2. ASSUME NEW s \in Sectors, s \in secs PROVE Pending(p, s)'
    BY <2>2, <1>p, <1>m, <1>3, <1>7 DEF Pending, PendingBy
  <2>3. ASSUME page[p].hashed, NEW s \in Sectors PROVE store'[page[p].off][s] \/ Pending(p, s)'
    <3>1. CASE s \in secs
      BY <3>1, <2>2
    <3>2. CASE s \notin secs
      BY <3>2, <2>0, <2>1, <2>3, <1>5
    <3> QED
      BY <3>1, <3>2
  <2> QED
    BY <2>0, <2>3, <1>2, <1>6 DEF PageCoherent
<1>9. StoreCoherent'
  <2> SUFFICES ASSUME NEW o \in Offsets, \A q \in lookup(o)' : ~page'[q].filled
               PROVE  store'[o] = Current'
    BY DEF StoreCoherent
  <2>1. lookup(o)' = lookup(o)
    BY <1>6 DEF lookup
  <2>2. ~(page[p].hashed /\ o = page[p].off)
    BY <2>1, <1>2, <1>6
  <2>3. store'[o] = store[o]
    BY <2>2, <1>5
  <2>4. \A q \in lookup(o) : ~page[q].filled
    BY <2>1, <1>6 DEF lookup
  <2> QED
    BY <2>3, <2>4 DEF CohInv, StoreCoherent, Current
<1>10. \A u \in Actors \ {t} : Holds(th[u], p) =>
                /\ page[p].hashed => page'[p].hashed \/ th[u].pc \notin {"snap", "store"}
                /\ page[p].filled => page'[p].filled
                /\ ~page[p].filled => ~page'[p].filled \/ th[u].pc # "filling"
  BY <1>2, <1>6
<1>11. UseOK(t, c, page', size') /\ c.pc # "filling"
  <2>1. c.page = p /\ c.pc = "mark" /\ c.whole = FALSE
    BY <1>p, <1>2, <1>3
  <2> QED
    BY <2>1, <1>2, <1>6 DEF UseOK
<1>12. \A q \in Pages \ {p} :
            /\ page'[q].hashed <=> page[q].hashed
            /\ page'[q].filled <=> page[q].filled
            /\ page'[q].changed <=> page[q].changed
            /\ page[q].hashed => /\ page'[q].off = page[q].off
                                 /\ page'[q].data = page[q].data
                                 /\ store'[page[q].off] = store[page[q].off]
            /\ page'[q].map = page[q].map
  BY <1>5, <1>6
<1>13. size' = size /\ p \in Pages /\ th' = [th EXCEPT ![t] = c]
       /\ \A q \in Pages \ {p} : \A s : ~PendingBy(t, q, s)
  BY <1>1, <1>2
<1> QED
  BY <1>8, <1>9, <1>10, <1>11, <1>12, <1>13, ContentStep

(* Page::set(): nobody has anything left to write to the page it reuses.     *)
LEMMA SetCoheres ==
  ASSUME IndInv, CohInv, NEW t \in Actors, th[t].pc = "get",
         \A u \in Actors : th[u].pc # "park",
         NEW o \in Offsets, NEW p \in Pages, page[p].ref = 0, lookup(o) = {},
         page' = [page EXCEPT ![p] = set(p, o)], UNCHANGED <<size, store>>,
         NEW c, th' = [th EXCEPT ![t] = c], ~c.whole, c.pc = "fill"
  PROVE  CohInv'
<1> DEFINE r == set(p, o)
<1>1. /\ r.off = o /\ r.hashed = TRUE /\ r.changed = FALSE /\ r.filled = FALSE
      /\ page' = [page EXCEPT ![p] = r]
  BY SetPage
<1>2. page \in [Pages -> PageObjects] /\ store \in [Offsets -> [Sectors -> BOOLEAN]]
  BY DEF IndInv, TypeOK
<1> HIDE DEF r
<1>3. page'[p] = r /\ \A q \in Pages \ {p} : page'[q] = page[q]
  BY <1>1, <1>2
<1>4. ~page[p].changed /\ \A u \in Actors : th[u].page # p
  BY NobodyHolds
<1>5. \A s : ~Pending(p, s)
  BY <1>4 DEF Pending, PendingBy
<1>6. PageCoherent(p)' /\ (page'[p].changed => page'[p].filled)
  BY <1>1, <1>3 DEF PageCoherent
<1>7. StoreCoherent'
  <2> SUFFICES ASSUME NEW x \in Offsets, \A q \in lookup(x)' : ~page'[q].filled
               PROVE  store[x] = Current
    BY DEF StoreCoherent, Current
  <2>1. CASE \A q \in lookup(x) : ~page[q].filled
    BY <2>1 DEF CohInv, StoreCoherent
  <2>2. CASE \E q \in lookup(x) : page[q].filled
    <3>1. PICK q \in lookup(x) : page[q].filled
      BY <2>2
    <3>2. q \in Pages /\ page[q].hashed /\ page[q].off = x
      BY <3>1 DEF lookup
    <3>3. q = p
      BY <3>1, <3>2, <1>3 DEF lookup
    <3>4. \A s \in Sectors : store[x][s]
      BY <3>1, <3>2, <3>3, <1>5 DEF CohInv, PagesCoherent, PageCoherent
    <3> QED
      BY <3>4, <1>2 DEF Current
  <2> QED
    BY <2>1, <2>2
<1>8. \A u \in Actors \ {t} : Holds(th[u], p) =>
                /\ page[p].hashed => page'[p].hashed \/ th[u].pc \notin {"snap", "store"}
                /\ page[p].filled => page'[p].filled
                /\ ~page[p].filled => ~page'[p].filled \/ th[u].pc # "filling"
  BY <1>4 DEF Holds
<1>9. UseOK(t, c, page', size') /\ c.pc # "filling"
  BY DEF UseOK
<1>10. \A q \in Pages \ {p} : \A s : ~PendingBy(t, q, s)
  BY DEF PendingBy
<1>11. \A q \in Pages \ {p} :
            /\ page'[q].hashed <=> page[q].hashed
            /\ page'[q].filled <=> page[q].filled
            /\ page'[q].changed <=> page[q].changed
            /\ page[q].hashed => /\ page'[q].off = page[q].off
                                 /\ page'[q].data = page[q].data
                                 /\ store'[page[q].off] = store[page[q].off]
            /\ page'[q].map = page[q].map
  BY <1>3
<1>12. size' = size
  OBVIOUS
<1> QED
  BY <1>6, <1>7, <1>8, <1>9, <1>10, <1>11, <1>12, ContentStep

(* Cache::getPage() *)
LEMMA GetPageCoheres ==
  ASSUME IndInv, CohInv, NEW t \in Actors, \A u \in Actors : th[u].pc # "park", getPage(t)
  PROVE  CohInv'
<1>o. PICK o : o = th[t].off
  OBVIOUS
<1>1. /\ th[t].pc = "get" /\ UNCHANGED <<size, store>> /\ o \in Offsets
      /\ th[t] \in CallRecords /\ ~th[t].whole /\ th \in [Actors -> CallRecords]
      /\ th[t].pc \notin {"change", "snap", "store", "mark"}
  BY <1>o, Known DEF getPage, CallOK, PagePlaces, UsePlaces, OffPlaces, CohInv, UsesOK, UseOK,
     IndInv, TypeOK
<1>2. ASSUME NEW p, th' = [th EXCEPT ![t].page = p, ![t].pc = "fill"]
      PROVE  \E c : th' = [th EXCEPT ![t] = c] /\ ~c.whole /\ c.pc = "fill"
  <2> DEFINE c == [th[t] EXCEPT !.page = p, !.pc = "fill"]
  <2>1. c.pc = "fill" /\ c.whole = th[t].whole
    BY <1>1 DEF CallRecords
  <2>2. th' = [th EXCEPT ![t] = c]
    BY <1>1, <1>2
  <2> HIDE DEF c
  <2> QED
    BY <1>1, <2>1, <2>2
<1>3. CASE th' = [th EXCEPT ![t] = Idle] /\ UNCHANGED page
  <2>1. UseOK(t, Idle, page, size) /\ Idle.pc # "filling"
    BY DEF Idle, UseOK
  <2> QED
    BY <1>1, <1>3, <2>1, CallOnly
<1>4. CASE Goto(t, "flush") /\ UNCHANGED page
  <2> DEFINE c == [th[t] EXCEPT !.pc = "flush"]
  <2>1. "flush" \in Places
    BY DEF Places
  <2>2. c.pc = "flush" /\ c.whole = th[t].whole
    BY <1>1, <2>1, Goes
  <2>3. th' = [th EXCEPT ![t] = c] /\ UNCHANGED <<page, store, size>>
    BY <1>1, <1>4 DEF Goto
  <2> HIDE DEF c
  <2>4. UseOK(t, c, page, size) /\ c.pc # "filling"
    BY <1>1, <2>2 DEF UseOK
  <2> QED
    BY <1>1, <2>3, <2>4, CallOnly
<1>5. ASSUME NEW p \in lookup(o), page' = [page EXCEPT ![p].ref = @ + 1],
             th' = [th EXCEPT ![t].page = p, ![t].pc = "fill"]
      PROVE  CohInv'
  <2> DEFINE n == page[p].ref + 1
  <2>1. p \in Pages /\ page[p] \in PageObjects
    BY DEF lookup, IndInv, TypeOK
  <2>2. n \in Nat
    BY <2>1 DEF PageObjects
  <2>3. page' = [page EXCEPT ![p].ref = n]
    BY <1>5
  <2> HIDE DEF n
  <2>4. PICK c : th' = [th EXCEPT ![t] = c] /\ ~c.whole /\ c.pc = "fill"
    BY <1>2, <1>5
  <2>5. ~c.whole /\ c.pc \notin {"snap", "store", "copy", "mark", "change", "filling", "extend"}
    BY <2>4
  <2> QED
    BY <1>1, <2>1, <2>2, <2>3, <2>4, <2>5, CountCoheres
<1>6. ASSUME lookup(o) = {}, NEW p \in Pages, page[p].ref = 0,
             page' = [page EXCEPT ![p] = set(p, o)],
             th' = [th EXCEPT ![t].page = p, ![t].pc = "fill"]
      PROVE  CohInv'
  <2>1. PICK c : th' = [th EXCEPT ![t] = c] /\ ~c.whole /\ c.pc = "fill"
    BY <1>2, <1>6
  <2> QED
    BY <1>1, <1>6, <2>1, SetCoheres
<1>7. ASSUME lookup(o) = {}, freeList # <<>>,
             page' = [page EXCEPT ![Head(freeList)] = set(Head(freeList), o)],
             th' = [th EXCEPT ![t].page = Head(freeList), ![t].pc = "fill"]
      PROVE  CohInv'
  <2>1. Head(freeList) \in ToSet(freeList)
    BY <1>7, KnownLists, TailLists
  <2>2. Head(freeList) \in Pages /\ page[Head(freeList)].ref = 0
    BY <2>1, KnownLists DEF PageOK
  <2> QED
    BY <1>6, <1>7, <2>2
<1>8. ASSUME lookup(o) = {}, Stealable # <<>>,
             page' = [page EXCEPT ![Head(Stealable)] = set(Head(Stealable), o)],
             th' = [th EXCEPT ![t].page = Head(Stealable), ![t].pc = "fill"]
      PROVE  CohInv'
  <2>1. /\ Stealable \in Seq(Pages) /\ Once(Stealable)
        /\ ToSet(Stealable) = ToSet(standbyList) \cap {q \in Pages : page[q].ref = 0}
    BY KnownLists, OnlyLists DEF Stealable
  <2> HIDE DEF Stealable
  <2>2. Head(Stealable) \in ToSet(Stealable)
    BY <2>1, <1>8, TailLists
  <2>3. Head(Stealable) \in Pages /\ page[Head(Stealable)].ref = 0
    BY <2>1, <2>2
  <2> QED
    BY <1>6, <1>8, <2>3
<1> DEFINE x == IF th[t].op = "write" /\ th[t].whole THEN "copy" ELSE "fill"
<1>9. x = "fill"
  BY <1>1
<1> QED
  BY <1>o, <1>3, <1>4, <1>5, <1>7, <1>8, <1>9 DEF getPage, lists

(* Page::free() does not touch `filled'. *)
LEMMA FreedFilled ==
  ASSUME IndInv, \A u \in Actors : th[u].pc # "park", NEW p \in Pages, page[p].hashed
  PROVE  ~freed(p).hashed /\ ~freed(p).changed /\ freed(p).filled = page[p].filled
<1>1. ~freed(p).hashed /\ ~freed(p).changed
  BY FreedPage
<1> DEFINE x == page[p]
           n == Held(p)
           d == Stale
<1>2. x \in PageObjects
  BY DEF IndInv, TypeOK
<1>3. freed(p) = IF n = 0
                 THEN [x EXCEPT !.ref = 0, !.off = None, !.hashed = FALSE,
                                !.changed = FALSE, !.data = d]
                 ELSE [x EXCEPT !.ref = n, !.hashed = FALSE, !.changed = FALSE,
                                !.free = TRUE, !.data = d]
  BY DEF freed
<1> HIDE DEF x, n, d
<1>4. freed(p).filled = x.filled
  BY <1>2, <1>3 DEF PageObjects
<1> QED
  BY <1>1, <1>4 DEF x

(* setSize() and invalidate() cut off pages whose contents the caller gives  *)
(* up, while no write-back is in the middle of them.                         *)
LEMMA CutCoheres ==
  ASSUME IndInv, CohInv, "overlap" \notin Allow, \A u \in Actors : th[u].pc # "park",
         NEW ps \in Seq(Pages), free(ps), Settled(ToSet(ps)),
         \A p \in ToSet(ps) : page[p].hashed,
         NEW t \in Actors, NEW c, th' = [th EXCEPT ![t] = c], th[t].pc \in {"idle", "extend"},
         c.pc \in {"idle", "get"}, ~c.whole,
         \A u \in Actors \ {t} : th[u].pc = "extend" => size' <= th[u].off,
         \A p \in Pages \ ToSet(ps) : page[p].hashed =>
                                         store'[page[p].off] = store[page[p].off],
         \A p \in ToSet(ps) : store'[page[p].off] = Current,
         \A o \in Offsets : store'[o] = store[o] \/ store'[o] = Current
  PROVE  CohInv'
<1> DEFINE cut == ToSet(ps)
<1>1. cut \subseteq Pages /\ page \in [Pages -> PageObjects]
  BY ListElements DEF IndInv, TypeOK
<1>2. /\ \A p \in cut : page'[p] = freed(p)
      /\ \A p \in Pages \ cut : page'[p] = page[p]
  BY <1>1 DEF free
<1>3. /\ \A p \in cut : page[p].hashed /\ store'[page[p].off] = Current
      /\ \A p \in Pages \ cut : page[p].hashed => store'[page[p].off] = store[page[p].off]
      /\ \A u \in Actors : th[u].pc \in {"snap", "store"} => th[u].page \notin cut
  BY DEF Settled
<1> HIDE DEF cut
<1>4. \A p \in cut : ~page'[p].hashed /\ ~page'[p].changed /\ page'[p].filled = page[p].filled
  <2> SUFFICES ASSUME NEW p \in cut
               PROVE  ~page'[p].hashed /\ ~page'[p].changed /\ page'[p].filled = page[p].filled
    OBVIOUS
  <2>1. p \in Pages /\ page[p].hashed /\ page'[p] = freed(p)
    BY <1>1, <1>2, <1>3
  <2> QED
    BY <2>1, FreedFilled
<1>5. th'[t] = c /\ (\A u \in Actors \ {t} : th'[u] = th[u])
  BY DEF IndInv, TypeOK
<1>6. ASSUME NEW q \in Pages PROVE PageCoherent(q)' /\ (page'[q].changed => page'[q].filled)
  <2>1. CASE q \in cut
    BY <2>1, <1>4 DEF PageCoherent
  <2>2. CASE q \notin cut
    <3>1. page'[q] = page[q] /\ PageCoherent(q) /\ (page[q].changed => page[q].filled)
          /\ (page[q].hashed => store'[page[q].off] = store[page[q].off])
      BY <2>2, <1>2, <1>3 DEF CohInv, PagesCoherent
    <3>2. ASSUME NEW s \in Sectors, Pending(q, s) PROVE Pending(q, s)'
      <4>1. ~PendingBy(t, q, s)
        BY DEF PendingBy
      <4>2. page[q].changed /\ s \in page[q].map => Pending(q, s)'
        BY <3>1 DEF Pending
      <4>3. page[q].map \subseteq page'[q].map
        BY <3>1
      <4> QED
        BY <1>5, <3>2, <4>1, <4>2, <4>3, PendingStays
    <3>3. ASSUME page'[q].hashed, page'[q].filled
          PROVE  /\ page'[q].data = Current'
                 /\ \A s \in Sectors : store'[page'[q].off][s] \/ Pending(q, s)'
      BY <3>1, <3>2, <3>3 DEF PageCoherent, Current
    <3> QED
      BY <3>1, <3>3 DEF PageCoherent
  <2> QED
    BY <2>1, <2>2
<1>7. PagesCoherent'
  BY <1>6 DEF PagesCoherent
<1>8. StoreCoherent'
  <2> SUFFICES ASSUME NEW o \in Offsets, \A q \in lookup(o)' : ~page'[q].filled
               PROVE  store'[o] = Current
    BY DEF StoreCoherent, Current
  <2>1. CASE \E q \in cut : page[q].off = o
    BY <2>1, <1>3
  <2>2. CASE \A q \in cut : page[q].off # o
    <3>1. \A q \in lookup(o) : ~page[q].filled
      BY <2>2, <1>2 DEF lookup
    <3> QED
      BY <3>1 DEF CohInv, StoreCoherent
  <2> QED
    BY <2>1, <2>2
<1>9. UsesOK' /\ OneFiller'
  <2>1. \A u \in Actors : th[u].pc \in PagePlaces => th[u].page \in Pages
    BY KnownPage
  <2>2. \A u \in Actors \ {t} : th[u].pc \in PagePlaces \ {"park"} =>
            LET x == th[u].page
            IN  /\ page[x].hashed => page'[x].hashed \/ th[u].pc \notin {"snap", "store"}
                /\ page[x].filled => page'[x].filled
                /\ ~page[x].filled => ~page'[x].filled \/ th[u].pc # "filling"
    <3> SUFFICES ASSUME NEW u \in Actors \ {t}, th[u].pc \in PagePlaces \ {"park"}
                 PROVE  LET x == th[u].page
                        IN  /\ page[x].hashed => page'[x].hashed \/ th[u].pc \notin {"snap", "store"}
                            /\ page[x].filled => page'[x].filled
                            /\ ~page[x].filled => ~page'[x].filled \/ th[u].pc # "filling"
      OBVIOUS
    <3>1. CASE th[u].page \in cut
      BY <3>1, <1>3, <1>4
    <3>2. CASE th[u].page \notin cut
      BY <3>2, <2>1, <1>2
    <3> QED
      BY <3>1, <3>2
  <2>3. UseOK(t, c, page', size') /\ c.pc # "filling"
    BY DEF UseOK
  <2> QED
    BY <2>2, <2>3, UsesStep
<1> QED
  BY <1>7, <1>8, <1>9 DEF CohInv

(* Stream::setSize() gives up what it cuts off. *)
LEMMA ResizeCoheres ==
  ASSUME IndInv, CohInv, "overlap" \notin Allow, OneSizer,
         \A u \in Actors : th[u].pc # "park", NEW t \in Actors, t \in Threads, resize(t)
  PROVE  CohInv'
<1>1. PICK n \in 0 .. MaxSize : setSize(t, n, TRUE)
  BY DEF resize
<1>2. /\ TypeOK /\ OnePagePerOffset /\ size \in Nat /\ n \in Nat /\ size \in 0 .. MaxSize
      /\ store \in [Offsets -> [Sectors -> BOOLEAN]]
      /\ th \in [Actors -> CallRecords]
  BY CacheAssumption DEF IndInv, TypeOK
<1>3. /\ Beyond(n) \in Seq(Pages)
      /\ ToSet(Beyond(n)) = {p \in Pages : page[p].hashed /\ page[p].off \in n .. size - 1}
  BY <1>2, BeyondLists
<1>4. /\ th[t].pc = "idle" /\ "setSize" \in Calls[t] /\ th' = th
      /\ free(Beyond(n)) /\ Settled(ToSet(Beyond(n))) /\ size' = n
      /\ store' = [o \in Offsets |->
                   IF o < n \/ o >= size THEN store[o] ELSE Current]
  BY <1>1 DEF resize, setSize
<1> DEFINE ps == Beyond(n)
<1>5. ps \in Seq(Pages) /\ free(ps) /\ Settled(ToSet(ps))
  BY <1>3, <1>4
<1>6. \A p \in ToSet(ps) : page[p].hashed /\ page[p].off \in Offsets /\ page[p].off \in n .. size - 1
  BY <1>3, HashedOff
<1>7. \A p \in Pages \ ToSet(ps) : page[p].hashed => page[p].off \in Offsets /\ page[p].off < n
  BY <1>2, <1>3, HashedOff
<1> HIDE DEF ps
<1>8. /\ \A p \in Pages \ ToSet(ps) : page[p].hashed =>
                                         store'[page[p].off] = store[page[p].off]
      /\ \A p \in ToSet(ps) : store'[page[p].off] = Current
      /\ \A o \in Offsets : store'[o] = store[o] \/ store'[o] = Current
      /\ \A p \in ToSet(ps) : page[p].hashed
  BY <1>2, <1>4, <1>6, <1>7
<1>9. \A u \in Actors \ {t} : th[u].pc # "extend"
  <2> SUFFICES ASSUME NEW u \in Actors \ {t}, th[u].pc = "extend" PROVE FALSE
    OBVIOUS
  <2>1. u \in Threads /\ "append" \in Calls[u]
    BY Known DEF CohInv, UsesOK, UseOK, CallOK, Actors
  <2> QED
    BY <2>1, <1>4 DEF OneSizer
<1>10. PICK c : c = th[t]
  OBVIOUS
<1>11. th' = [th EXCEPT ![t] = c] /\ c.pc = "idle" /\ ~c.whole
  BY <1>2, <1>4, <1>10 DEF CohInv, UsesOK, UseOK
<1>12. \A u \in Actors \ {t} : th[u].pc = "extend" => size' <= th[u].off
  BY <1>9
<1>13. th[t].pc \in {"idle", "extend"} /\ c.pc \in {"idle", "get"}
  BY <1>4, <1>11
<1> QED
  BY <1>5, <1>8, <1>11, <1>12, <1>13, CutCoheres

(* Cache::invalidate() *)
LEMMA InvalidateCoheres ==
  ASSUME IndInv, CohInv, "overlap" \notin Allow,
         \A u \in Actors : th[u].pc # "park", NEW t \in Actors, t \in Threads, invalidate(t)
  PROVE  CohInv'
<1>1. /\ th[t].pc = "idle" /\ th' = th /\ size' = size
      /\ free(changedList) /\ Settled(ToSet(changedList))
      /\ store' = [o \in Offsets |->
                   IF \E p \in ToSet(changedList) : page[p].off = o THEN Current ELSE store[o]]
  BY DEF invalidate
<1>2. /\ store \in [Offsets -> [Sectors -> BOOLEAN]] /\ th \in [Actors -> CallRecords]
  BY DEF IndInv, TypeOK
<1> DEFINE ps == changedList
<1>3. /\ ps \in Seq(Pages) /\ free(ps) /\ Settled(ToSet(ps))
      /\ \A p \in ToSet(ps) : p \in Pages /\ page[p].hashed
  BY <1>1, KnownLists DEF PageOK
<1>4. store' = [o \in Offsets |->
                   IF \E p \in ToSet(ps) : page[p].off = o THEN Current ELSE store[o]]
  BY <1>1
<1> HIDE DEF ps
<1>5. /\ \A p \in Pages \ ToSet(ps) : page[p].hashed =>
                                         store'[page[p].off] = store[page[p].off]
      /\ \A p \in ToSet(ps) : store'[page[p].off] = Current
      /\ \A o \in Offsets : store'[o] = store[o] \/ store'[o] = Current
      /\ \A p \in ToSet(ps) : page[p].hashed
  <2>1. \A p \in Pages \ ToSet(ps) : page[p].hashed =>
             page[p].off \in Offsets /\ \A q \in ToSet(ps) : page[q].off # page[p].off
    BY <1>3, HashedOff DEF IndInv, OnePagePerOffset
  <2>2. \A p \in ToSet(ps) : page[p].off \in Offsets
    BY <1>3, HashedOff
  <2> QED
    BY <2>1, <2>2, <1>3, <1>4
<1>6. PICK c : c = th[t]
  OBVIOUS
<1>7. th' = [th EXCEPT ![t] = c] /\ c.pc = "idle" /\ ~c.whole
  BY <1>1, <1>2, <1>6 DEF CohInv, UsesOK, UseOK
<1>8. \A u \in Actors \ {t} : th[u].pc = "extend" => size' <= th[u].off
  BY <1>1 DEF CohInv, UsesOK, UseOK
<1>9. th[t].pc \in {"idle", "extend"} /\ c.pc \in {"idle", "get"}
  BY <1>1, <1>7
<1> QED
  BY <1>3, <1>5, <1>7, <1>8, <1>9, CutCoheres

(* Cache::write() makes room, and cuts nothing off. *)
LEMMA ExtendCoheres ==
  ASSUME IndInv, CohInv, "overlap" \notin Allow, OneSizer,
         \A u \in Actors : th[u].pc # "park", NEW t \in Actors, extend(t)
  PROVE  CohInv'
<1> DEFINE c == [th[t] EXCEPT !.pc = "get"]
<1>1. /\ th[t].pc = "extend" /\ t \in Threads /\ setSize(t, th[t].off + 1, FALSE)
      /\ th[t] \in CallRecords /\ th[t].off \in Offsets
      /\ th' = [th EXCEPT ![t] = c] /\ "get" \in Places
      /\ th \in [Actors -> CallRecords]
      /\ size <= th[t].off /\ "append" \in Calls[t] /\ ~th[t].whole
  BY Known DEF extend, Goto, Places, IndInv, TypeOK, CallOK, OffPlaces, UsePlaces,
     CohInv, UsesOK, UseOK
<1>n. PICK n : n = th[t].off + 1
  OBVIOUS
<1>2. /\ TypeOK /\ OnePagePerOffset /\ size \in Nat /\ n \in Nat /\ size < n
      /\ store \in [Offsets -> [Sectors -> BOOLEAN]]
  <2>1. th[t].off \in Nat /\ size \in Nat
    BY <1>1, CacheAssumption DEF IndInv, TypeOK, Offsets
  <2> QED
    BY <2>1, <1>1, <1>n DEF IndInv, TypeOK
<1>3. /\ Beyond(n) \in Seq(Pages) /\ ToSet(Beyond(n)) = {}
  <2>1. n .. size - 1 = {}
    BY <1>2
  <2> QED
    BY <1>2, <2>1, BeyondLists
<1>4. /\ free(Beyond(n)) /\ Settled(ToSet(Beyond(n)))
      /\ store' = [o \in Offsets |->
                   IF o < n \/ o >= size THEN store[o] ELSE IF FALSE THEN Current ELSE Stale]
  BY <1>1, <1>n DEF setSize
<1> DEFINE ps == Beyond(n)
<1>5. ps \in Seq(Pages) /\ free(ps) /\ Settled(ToSet(ps)) /\ ToSet(ps) = {}
  BY <1>3, <1>4
<1> HIDE DEF ps
<1>6. \A o \in Offsets : store'[o] = store[o]
  <2>1. \A o \in Offsets : o < n \/ o >= size
    BY <1>2 DEF Offsets
  <2> QED
    BY <2>1, <1>4
<1>7. \A p \in Pages \ ToSet(ps) : page[p].hashed => store'[page[p].off] = store[page[p].off]
  BY <1>6, HashedOff
<1>8. \A u \in Actors \ {t} : th[u].pc = "extend" => size' <= th[u].off
  <2> SUFFICES ASSUME NEW u \in Actors \ {t}, th[u].pc = "extend" PROVE FALSE
    OBVIOUS
  <2>1. u \in Threads /\ "append" \in Calls[u]
    BY Known DEF CohInv, UsesOK, UseOK, CallOK, Actors
  <2> QED
    BY <2>1, <1>1 DEF OneSizer
<1>9. c.pc = "get" /\ c.whole = th[t].whole
  BY <1>1, Goes
<1> HIDE DEF c
<1>10. th[t].pc \in {"idle", "extend"} /\ c.pc \in {"idle", "get"} /\ ~c.whole
  BY <1>1, <1>9
<1>11. th' = [th EXCEPT ![t] = c]
  BY <1>1
<1> QED
  BY <1>5, <1>6, <1>7, <1>8, <1>10, <1>11, CutCoheres

-----------------------------------------------------------------------------
(* The cache starts empty, and the backing store is what there is to read.   *)
LEMMA InitCoheres == Init => CohInv
<1> SUFFICES ASSUME Init PROVE CohInv
  OBVIOUS
<1>1. /\ \A p \in Pages : ~page[p].hashed /\ ~page[p].changed
      /\ \A o \in Offsets : store[o] = Current
      /\ \A t \in Actors : th[t] = Idle
  BY DEF Init
<1>2. Idle.pc = "idle" /\ ~Idle.whole
  BY DEF Idle
<1>3. PagesCoherent /\ StoreCoherent
  BY <1>1 DEF PagesCoherent, PageCoherent, StoreCoherent
<1>4. UsesOK /\ OneFiller
  <2>1. \A t \in Actors : th[t].pc = "idle" /\ ~th[t].whole
    BY <1>1, <1>2
  <2> QED
    BY <2>1 DEF UsesOK, UseOK, OneFiller
<1> QED
  BY <1>3, <1>4 DEF CohInv

(* A call goes on. *)
LEMMA ContinueCoheres ==
  ASSUME Allow = {}, OneSizer, IndInv, CohInv, NEW t \in Actors, Switch(t), Continue(t)
  PROVE  CohInv'
<1>1. CASE park(t)
  BY <1>1, ParkCoheres
<1>2. CASE ~park(t)
  <2>1. th[t].pc # "park"
    BY <1>2 DEF Continue, getPage, wait, fill, filled, copy, mark, change, drop, park,
                flush, clean, snap, sync, extend
  <2>2. \A u \in Actors : th[u].pc # "park"
    BY <2>1, NobodyParks
  <2>3. CASE flush(t)
    <3>1. /\ th[t].pc = "flush" /\ UNCHANGED <<store, size>>
          /\ \/ changedList # <<>> /\ TakeChanged(t, "flush")
             \/ th' = [th EXCEPT ![t] = Idle] /\ page' = page
             \/ th' = [th EXCEPT ![t].pc = "wait", ![t].then = "idle"] /\ page' = page
      BY <2>3 DEF flush
    <3>2. th[t].pc \notin {"change", "snap", "store", "mark"} /\ "flush" \in {"flush", "update"}
      BY <3>1
    <3> QED
      BY <2>2, <3>1, <3>2, FlushCoheres
  <2>4. getPage(t) \/ wait(t) \/ fill(t) => CohInv'
    BY <2>2, GetPageCoheres, FillCoheres
  <2>5. filled(t) \/ copy(t) \/ mark(t) \/ change(t) => CohInv'
    BY FilledCoheres, CopyCoheres, MarkCoheres, ChangeCoheres
  <2>6. drop(t) \/ clean(t) \/ snap(t) \/ sync(t) => CohInv'
    BY <2>2, DropCoheres, CleanCoheres, SnapCoheres, SyncCoheres
  <2>7. extend(t) => CohInv'
    BY <2>2, ExtendCoheres
  <2> QED
    BY <1>1, <1>2, <2>3, <2>4, <2>5, <2>6, <2>7 DEF Continue
<1> QED
  BY <1>1, <1>2

(* Every step keeps the contents coherent. *)
LEMMA NextCoheres == Allow = {} /\ OneSizer /\ IndInv /\ CohInv /\ [Next]_vars => CohInv'
<1> SUFFICES ASSUME Allow = {}, OneSizer, IndInv, CohInv, [Next]_vars PROVE CohInv'
  OBVIOUS
<1>1. ASSUME NEW t \in Threads, Start(t) PROVE CohInv'
  <2>1. t \in Actors /\ th[t].pc # "park" /\ Switch(t)
    BY <1>1 DEF Start, Actors, read, write, Flush, resize, invalidate, get, put
  <2>2. \A u \in Actors : th[u].pc # "park"
    BY <2>1, NobodyParks
  <2> QED
    BY <1>1, <2>1, <2>2, StartCoheres, ResizeCoheres, InvalidateCoheres DEF Start
<1>2. CASE Update
  <2>1. Updater \in Actors /\ Switch(Updater)
    BY <1>2 DEF Actors, Update
  <2>2. CASE update \/ cleanNext
    <3>1. /\ th[Updater].pc \in {"idle", "update"} /\ UNCHANGED <<store, size>>
          /\ \/ changedList # <<>> /\ TakeChanged(Updater, "update")
             \/ th' = [th EXCEPT ![Updater] = Idle] /\ page' = page
      BY <2>2 DEF update, cleanNext
    <3>2. /\ th[Updater].pc # "park" /\ "update" \in {"flush", "update"}
          /\ th[Updater].pc \notin {"change", "snap", "store", "mark"}
      BY <3>1
    <3>3. \A u \in Actors : th[u].pc # "park"
      BY <2>1, <3>2, NobodyParks
    <3> QED
      BY <2>1, <3>1, <3>2, <3>3, FlushCoheres
  <2>3. CASE Continue(Updater)
    BY <2>1, <2>3, ContinueCoheres
  <2> QED
    BY <1>2, <2>2, <2>3 DEF Update
<1>3. ASSUME NEW t \in Threads, Continue(t) PROVE CohInv'
  BY <1>3, ContinueCoheres DEF Continue, Actors
<1>4. CASE UNCHANGED vars
  <2> USE <1>4 DEF vars
  <2>1. PagesCoherent'
    BY ZenonT(30) DEF CohInv, PagesCoherent, PageCoherent, Pending, PendingBy, Current
  <2>2. StoreCoherent'
    BY DEF CohInv, StoreCoherent, lookup, Current
  <2>3. UsesOK' /\ OneFiller'
    BY DEF CohInv, UsesOK, UseOK, OneFiller
  <2> QED
    BY <2>1, <2>2, <2>3 DEF CohInv
<1> QED
  BY <1>1, <1>2, <1>3, <1>4 DEF Next

(* No write is lost: Page::write(), Page::sync(), Page::steal() and          *)
(* Cache::setSize() leave what was written last in the filled page or in the *)
(* backing store, if one thread alone changes the size of the cache.         *)
THEOREM PageCacheCoherent ==
  ASSUME Allow = {}, OneSizer PROVE Spec => []Coherent
<1>1. "preempt" \notin Allow
  OBVIOUS
<1>2. Init => CohInv
  BY InitCoheres
<1>3. IndInv /\ CohInv /\ [Next]_vars => CohInv'
  BY NextCoheres
<1>4. IndInv /\ CohInv => Coherent
  <2> SUFFICES ASSUME IndInv, CohInv, NEW o \in Offsets
               PROVE  IF \E p \in lookup(o) : page[p].filled
                      THEN \A p \in lookup(o) : page[p].data = Current
                      ELSE store[o] = Current
    BY DEF Coherent
  <2>1. CASE \E p \in lookup(o) : page[p].filled
    <3>1. PICK p \in lookup(o) : page[p].filled
      BY <2>1
    <3>2. p \in Pages /\ page[p].hashed /\ page[p].off = o
      BY <3>1 DEF lookup
    <3>3. lookup(o) = {p}
      BY <3>2 DEF IndInv, OnePagePerOffset, lookup
    <3> QED
      BY <3>1, <3>2, <3>3, <2>1 DEF CohInv, PagesCoherent, PageCoherent
  <2>2. CASE ~\E p \in lookup(o) : page[p].filled
    BY <2>2 DEF CohInv, StoreCoherent
  <2> QED
    BY <2>1, <2>2
<1> QED
  BY <1>1, <1>2, <1>3, <1>4, PageCacheInductive, PTL DEF Spec

=============================================================================
