------------------------------ MODULE PageCache ------------------------------
(***************************************************************************)
(* The page cache of the kernel: Cache (cache.cpp), Page (page.cpp),       *)
(* PageSet (pageSet.cpp), PageTable (pageTable.cpp) and the update thread  *)
(* of Cache::Constructor (cacheFactory.cpp), for one cache over one        *)
(* backing store and one page set.                                         *)
(*                                                                         *)
(* A section that runs under a spin lock or under the cache's monitor is   *)
(* one step; the copies, the I/O and the gaps between the sections are     *)
(* steps of their own, so the threads interleave where the code lets them. *)
(*                                                                         *)
(* Contents are abstracted to one bit: a copy of a sector is TRUE when it  *)
(* holds what the last write (or truncation) left there, FALSE when it is  *)
(* out of date.  A write makes every other copy out of date.               *)
(***************************************************************************)
EXTENDS Naturals, FiniteSets, Sequences, SequencesExt, Lists

CONSTANTS
    Pages,        \* the page frames of the page set
    Sectors,      \* the sectors of a page: the bits of Page::map
    MaxSize,      \* bound: the largest size of the cache, in pages
    Threads,      \* the threads that use the cache
    Updater,      \* the thread of Cache::Constructor::update()
    Calls,        \* the calls each thread makes
    Allow,        \* the situations of Situations the instance admits
    None

(***************************************************************************)
(* What an instance may leave out, because the code does not cope with it: *)
(*   whole    a write of a whole page, which does not fill the page first  *)
(*   store    a store through a mapping made by get()                      *)
(*   overlap  setSize() or invalidate() during a write-back they cut off   *)
(*   fault    a backing store whose write() fails                          *)
(*   preempt  a switch inside release(), between the count and the list    *)
(***************************************************************************)
Situations == {"whole", "store", "overlap", "fault", "preempt"}

Operations == {"read", "write", "append", "flush", "setSize", "invalidate", "get"}

ASSUME CacheAssumption ==
    /\ IsFiniteSet(Pages) /\ IsFiniteSet(Sectors) /\ Sectors # {}
    /\ MaxSize \in Nat
    /\ Updater \notin Threads
    /\ Calls \in [Threads -> SUBSET Operations]
    /\ Allow \subseteq Situations
    /\ None \notin Pages \cup Threads \cup Nat

VARIABLES
    page,         \* the Page objects
    freeList,     \* PageSet::freeList
    standbyList,  \* PageSet::standbyList
    changedList,  \* Cache::changedList
    size,         \* Cache::size, in pages
    monitor,      \* who holds Cache::monitor across steps
    store,        \* the backing store
    mapped,       \* the pages a thread has mapped with get()
    th            \* the threads

vars == <<page, freeList, standbyList, changedList, size, monitor, store,
          mapped, th>>

lists == <<freeList, standbyList, changedList>>
Actors == Threads \cup {Updater}
Offsets == 0 .. MaxSize - 1

Idle == [pc |-> "idle", op |-> "idle", off |-> None, whole |-> FALSE,
         secs |-> {}, page |-> None, map |-> {}, then |-> "idle"]

Stale == [s \in Sectors |-> FALSE]
Current == [s \in Sectors |-> TRUE]

Init ==
    /\ page = [p \in Pages |->
                 [ref |-> 0, off |-> None, hashed |-> FALSE, changed |-> FALSE,
                  free |-> FALSE, map |-> {}, filled |-> FALSE, data |-> Stale]]
    /\ freeList = SetToSeq(Pages)
    /\ standbyList = <<>>
    /\ changedList = <<>>
    /\ size = MaxSize
    /\ monitor = None
    /\ store = [o \in Offsets |-> Current]
    /\ mapped = [t \in Threads |-> None]
    /\ th = [t \in Actors |-> Idle]

-----------------------------------------------------------------------------
(* The locks. *)

\* Cache::monitor is free, or held by the caller.
Enter(t) == monitor \in {None, t}

\* Page::monitor is held by the thread that fills the page; a write-back holds
\* it for the step in which it writes.
Busy(p) == \E t \in Threads : th[t].page = p /\ th[t].pc = "filling"

\* PageSet::isLow()
isLow == freeList = <<>> /\ standbyList = <<>>

Goto(t, pc) == th' = [th EXCEPT ![t].pc = pc]

-----------------------------------------------------------------------------
(* Finding a page. *)

\* Mistake: a page that is not filled yet is not found.
lookupFilled(o) == {p \in Pages : page[p].hashed /\ page[p].off = o /\ page[p].filled}

\* PageTable::lookup(): the page of the hash table for this offset.
lookup(o) == {p \in Pages : page[p].hashed /\ page[p].off = o}

\* Mistake: a page keeps the `filled' of its previous use.
setKeepsFilled(p, o) == [page[p] EXCEPT !.ref = @ + 1, !.off = o, !.hashed = TRUE,
                                        !.changed = FALSE, !.free = FALSE, !.data = Stale]

\* Page::set(): the map keeps what the previous use of the page left in it.
set(p, o) == [page[p] EXCEPT !.ref = @ + 1, !.off = o, !.hashed = TRUE,
                             !.changed = FALSE, !.free = FALSE,
                             !.filled = FALSE, !.data = Stale]

\* PageSet::steal() skips a page that is referenced.
Stealable == Only(standbyList, {p \in Pages : page[p].ref = 0})

\* Cache::getPage(): one round under the monitor.
getPage(t) ==
    LET o == th[t].off
        found == lookup(o)
        Have(p) == th' = [th EXCEPT
                     ![t].page = p,
                     ![t].pc = IF th[t].op = "write" /\ th[t].whole THEN "copy" ELSE "fill"]
    IN  /\ th[t].pc = "get"
        /\ Enter(t)
        /\ \/ /\ size <= o
              /\ th' = [th EXCEPT ![t] = Idle]
              /\ UNCHANGED <<page, lists>>
           \/ /\ o < size
              /\ \E p \in found :
                   /\ page' = [page EXCEPT ![p].ref = @ + 1]
                   /\ standbyList' = IF page[p].ref = 0
                                     THEN Only(standbyList, Pages \ {p})
                                     ELSE standbyList
                   /\ Have(p)
              /\ UNCHANGED <<freeList, changedList>>
           \/ /\ o < size /\ found = {} /\ freeList # <<>>
              /\ LET p == Head(freeList)
                 IN  page' = [page EXCEPT ![p] = set(p, o)] /\ Have(p)
              /\ freeList' = Tail(freeList)
              /\ UNCHANGED <<standbyList, changedList>>
           \/ /\ o < size /\ found = {} /\ freeList = <<>> /\ Stealable # <<>>
              /\ LET p == Head(Stealable)
                 IN  /\ page' = [page EXCEPT ![p] = set(p, o)]
                     /\ standbyList' = Only(standbyList, Pages \ {p})
                     /\ Have(p)
              /\ UNCHANGED <<freeList, changedList>>
           \/ /\ o < size /\ found = {} /\ freeList = <<>> /\ Stealable = <<>>
              /\ Goto(t, "flush")
              /\ UNCHANGED <<page, lists>>
        /\ UNCHANGED <<size, monitor, store, mapped>>

\* PageTable::wait(): polled every second until a page is free or standing by.
wait(t) ==
    /\ th[t].pc = "wait"
    /\ ~isLow
    /\ Goto(t, "get")
    /\ UNCHANGED <<page, lists, size, monitor, store, mapped>>

-----------------------------------------------------------------------------
(* Using a page. *)

\* Where read(), write() and get() go on once the page is filled; get() keeps
\* the reference for the page table entry and returns.
AfterFill(t) ==
    IF th[t].op = "get"
    THEN mapped' = [mapped EXCEPT ![t] = th[t].page] /\ th' = [th EXCEPT ![t] = Idle]
    ELSE mapped' = mapped /\ Goto(t, IF th[t].op = "read" THEN "drop" ELSE "copy")

\* Page::fill(): `filled' is looked at before and after the page's monitor.
fill(t) ==
    LET p == th[t].page
    IN  /\ th[t].pc = "fill"
        /\ \/ page[p].filled /\ AfterFill(t)
           \/ ~page[p].filled /\ ~Busy(p) /\ Goto(t, "filling") /\ mapped' = mapped
        /\ UNCHANGED <<page, lists, size, monitor, store>>

\* The end of the read from the backing store.
filled(t) ==
    LET p == th[t].page
    IN  /\ th[t].pc = "filling"
        /\ page' = [page EXCEPT ![p].data = store[page[p].off], ![p].filled = TRUE]
        /\ AfterFill(t)
        /\ UNCHANGED <<lists, size, monitor, store>>

\* A new content for these sectors of page p: every other copy is out of date.
\* A write that covers only a part of a sector is worth what the rest of the
\* sector was worth; one into a page that was cut off changes nothing visible.
Store(p, secs, covers) ==
    /\ page' = [q \in Pages |->
                  IF q = p
                  THEN [page[q] EXCEPT !.data = [s \in Sectors |->
                          IF s \in secs THEN ~page[q].free /\ (covers \/ @[s]) ELSE @[s]]]
                  ELSE IF page[q].off = page[p].off /\ ~page[p].free
                  THEN [page[q] EXCEPT !.data = [s \in Sectors |-> s \notin secs /\ @[s]]]
                  ELSE page[q]]
    /\ store' = IF page[p].free THEN store
                ELSE [store EXCEPT ![page[p].off] = [s \in Sectors |-> s \notin secs /\ @[s]]]

\* Page::write(), the memmove().
copy(t) ==
    /\ th[t].pc = "copy"
    /\ Store(th[t].page, th[t].secs, th[t].whole)
    /\ Goto(t, "mark")
    /\ UNCHANGED <<lists, size, monitor, mapped>>

\* Page::write(), the map; then Cache::write() sets `filled'.
mark(t) ==
    /\ th[t].pc = "mark"
    /\ page' = [page EXCEPT ![th[t].page].map = @ \cup th[t].secs,
                            ![th[t].page].filled = TRUE]
    /\ Goto(t, "change")
    /\ UNCHANGED <<lists, size, monitor, store, mapped>>

\* Cache::change(), from Page::change().
change(t) ==
    LET p == th[t].page
    IN  /\ th[t].pc = "change"
        /\ Enter(t)
        /\ IF page[p].changed \/ page[p].free
           THEN UNCHANGED <<page, lists>>
           ELSE /\ page' = [page EXCEPT ![p].ref = @ + 1, ![p].changed = TRUE]
                /\ changedList' = Append(changedList, p)
                /\ UNCHANGED <<freeList, standbyList>>
        /\ Goto(t, "drop")
        /\ UNCHANGED <<size, monitor, store, mapped>>

\* Page::release(): the last reference parks the page.
drop(t) ==
    LET p == th[t].page
    IN  /\ th[t].pc = "drop"
        /\ page' = [page EXCEPT ![p].ref = @ - 1]
        /\ th' = IF page[p].ref = 1 THEN [th EXCEPT ![t].pc = "park"]
                 ELSE IF th[t].then = "idle" THEN [th EXCEPT ![t] = Idle]
                 ELSE [th EXCEPT ![t].pc = th[t].then, ![t].page = None]
        /\ UNCHANGED <<lists, size, monitor, store, mapped>>

\* Mistake: a page that was cut off stands by like any other.
parkStandby(t) ==
    /\ th[t].pc = "park"
    /\ standbyList' = Append(standbyList, th[t].page)
    /\ th' = IF th[t].then = "idle" THEN [th EXCEPT ![t] = Idle]
             ELSE [th EXCEPT ![t].pc = th[t].then, ![t].page = None]
    /\ UNCHANGED <<page, freeList, changedList, size, monitor, store, mapped>>

\* PageSet::free() or PageSet::standby(), from Page::release().
park(t) ==
    LET p == th[t].page
    IN  /\ th[t].pc = "park"
        /\ IF page[p].free
           THEN /\ page' = [page EXCEPT ![p].off = None, ![p].free = FALSE]
                /\ freeList' = Append(freeList, p)
                /\ UNCHANGED <<standbyList, changedList>>
           ELSE /\ standbyList' = Append(standbyList, p)
                /\ UNCHANGED <<page, freeList, changedList>>
        /\ th' = IF th[t].then = "idle" THEN [th EXCEPT ![t] = Idle]
                 ELSE [th EXCEPT ![t].pc = th[t].then, ![t].page = None]
        /\ UNCHANGED <<size, monitor, store, mapped>>

-----------------------------------------------------------------------------
(* Writing back. *)

\* Takes a reference to the first changed page, for Page::sync().
TakeChanged(t, then) ==
    LET p == Head(changedList)
    IN  /\ page' = [page EXCEPT ![p].ref = @ + 1]
        /\ th' = [th EXCEPT ![t].page = p, ![t].pc = "clean", ![t].then = then]

\* Cache::flush(): getChangedPage() until there is none.
flush(t) ==
    /\ th[t].pc = "flush"
    /\ Enter(t)
    /\ IF changedList # <<>>
       THEN TakeChanged(t, "flush")
       ELSE /\ th' = IF th[t].op = "flush" THEN [th EXCEPT ![t] = Idle]
                     ELSE [th EXCEPT ![t].pc = "wait", ![t].then = "idle"]
            /\ page' = page
    /\ UNCHANGED <<lists, size, monitor, store, mapped>>

\* Mistake: the reference of the changed list is not released.
cleanKeepsRef(t) ==
    LET p == th[t].page
    IN  /\ th[t].pc = "clean"
        /\ Enter(t)
        /\ IF page[p].changed
           THEN /\ page' = [page EXCEPT ![p].changed = FALSE]
                /\ changedList' = Only(changedList, Pages \ {p})
                /\ Goto(t, "snap")
           ELSE /\ UNCHANGED <<page, changedList>>
                /\ Goto(t, "drop")
        /\ UNCHANGED <<freeList, standbyList, size, monitor, store, mapped>>

\* Cache::clean(page), from Page::sync().
clean(t) ==
    LET p == th[t].page
    IN  /\ th[t].pc = "clean"
        /\ Enter(t)
        /\ IF page[p].changed
           THEN /\ page' = [page EXCEPT ![p].changed = FALSE, ![p].ref = @ - 1]
                /\ changedList' = Only(changedList, Pages \ {p})
                /\ Goto(t, "snap")
           ELSE /\ UNCHANGED <<page, changedList>>
                /\ Goto(t, "drop")
        /\ UNCHANGED <<freeList, standbyList, size, monitor, store, mapped>>

\* Page::sync() turns off `map'.
snap(t) ==
    LET p == th[t].page
    IN  /\ th[t].pc = "snap"
        /\ th' = [th EXCEPT ![t].map = page[p].map, ![t].pc = "store"]
        /\ page' = [page EXCEPT ![p].map = {}]
        /\ UNCHANGED <<lists, size, monitor, store, mapped>>

\* Page::sync() writes the sectors of the map, under the page's monitor; a run
\* of them whose write() fails is left out and its bits are lost.
sync(t) ==
    LET p == th[t].page
    IN  /\ th[t].pc = "store" /\ ~Busy(p)
        /\ \E failed \in (IF "fault" \in Allow THEN SUBSET th[t].map ELSE {{}}) :
             store' = [store EXCEPT ![page[p].off] = [s \in Sectors |->
                         IF s \in th[t].map \ failed THEN page[p].data[s] ELSE @[s]]]
        /\ th' = [th EXCEPT ![t].map = {}, ![t].pc = "drop"]
        /\ UNCHANGED <<page, lists, size, monitor, mapped>>

\* Cache::Constructor::update() on this cache: tryLock() and Cache::clean().
\* A round in which no page is stale, or in which tryLock() fails, changes
\* nothing: update() reschedules and tries again, for as long as it takes.
update ==
    /\ th[Updater].pc = "idle"
    /\ monitor = None /\ changedList # <<>>
    /\ monitor' = Updater
    /\ TakeChanged(Updater, "update")
    /\ UNCHANGED <<lists, size, store, mapped>>

\* Cache::clean(): getStalePage() until no page is stale.  The changed pages
\* are listed in the order they changed, so the first is the stalest.
cleanNext ==
    /\ th[Updater].pc = "update"
    /\ \/ /\ changedList # <<>>
          /\ TakeChanged(Updater, "update")
          /\ monitor' = monitor
       \/ /\ changedList = <<>> \/ ~isLow
          /\ monitor' = None
          /\ th' = [th EXCEPT ![Updater] = Idle]
          /\ page' = page
    /\ UNCHANGED <<lists, size, store, mapped>>

-----------------------------------------------------------------------------
(* Page::free(), for setSize() and invalidate(). *)

\* The references left once the changed list's is gone.
Held(p) == page[p].ref - (IF page[p].changed THEN 1 ELSE 0)

\* Mistake: a page goes to the free list whoever holds it.
freedAnyway(p) == [page[p] EXCEPT !.ref = 0, !.off = None, !.hashed = FALSE,
                                  !.changed = FALSE, !.data = Stale]

\* Page::free(): removed from the hash table and the changed list; the last
\* holder, who may be somebody else, frees it.
freed(p) ==
    IF Held(p) = 0
    THEN [page[p] EXCEPT !.ref = 0, !.off = None, !.hashed = FALSE,
                         !.changed = FALSE, !.data = Stale]
    ELSE [page[p] EXCEPT !.ref = Held(p), !.hashed = FALSE, !.changed = FALSE,
                         !.free = TRUE, !.data = Stale]

\* The pages ps, one after the other.
free(ps) ==
    LET cut == ToSet(ps)
    IN  /\ page' = [p \in Pages |-> IF p \in cut THEN freed(p) ELSE page[p]]
        /\ freeList' = freeList \o Only(ps, {p \in Pages : Held(p) = 0})
        /\ standbyList' = Only(standbyList, Pages \ cut)
        /\ changedList' = Only(changedList, Pages \ cut)

\* No write-back is between its clean() and its write() on these pages.
Settled(cut) ==
    \/ "overlap" \in Allow
    \/ \A t \in Actors : th[t].pc \in {"snap", "store"} => th[t].page \notin cut

\* The cached pages at or past n: the offsets are looked up one by one.
Beyond(n) ==
    LET found(o) == IF lookup(o) = {} THEN None ELSE CHOOSE p \in lookup(o) : TRUE
    IN  Only([i \in 1 .. size |-> IF i > n THEN found(i - 1) ELSE None], Pages)

\* Cache::setSize().  What was past n is gone when the caller means to cut it
\* (and then the store's zeros are what there is to read); a write that only
\* means to extend the cache cuts off data that is still wanted.
setSize(t, n, cut) ==
    /\ Enter(t)
    /\ Settled(ToSet(Beyond(n)))
    /\ free(Beyond(n))
    /\ size' = n
    /\ store' = [o \in Offsets |->
                   IF o < n \/ o >= size THEN store[o] ELSE IF cut THEN Current ELSE Stale]
    /\ UNCHANGED <<monitor, mapped>>

\* Cache::invalidate(): what the backing store holds is what there is to read.
invalidate(t) ==
    /\ th[t].pc = "idle" /\ "invalidate" \in Calls[t]
    /\ Enter(t)
    /\ Settled(ToSet(changedList))
    /\ free(changedList)
    /\ store' = [o \in Offsets |->
                   IF \E p \in ToSet(changedList) : page[p].off = o THEN Current ELSE store[o]]
    /\ UNCHANGED <<size, monitor, mapped, th>>

-----------------------------------------------------------------------------
(* What the threads call. *)

Call(t, op, o, pc) ==
    th' = [th EXCEPT ![t] = [Idle EXCEPT !.op = op, !.off = o, !.pc = pc]]

read(t) ==
    /\ th[t].pc = "idle" /\ "read" \in Calls[t]
    /\ \E o \in Offsets : o < size /\ Call(t, "read", o, "get")
    /\ UNCHANGED <<page, lists, size, monitor, store, mapped>>

\* Cache::write(): the size is looked at before the monitor is taken.
write(t) ==
    /\ th[t].pc = "idle"
    /\ \E o \in Offsets, secs \in (SUBSET Sectors) \ {{}},
          whole \in (IF "whole" \in Allow THEN BOOLEAN ELSE {FALSE}) :
         /\ whole => secs = Sectors
         /\ (IF size <= o THEN "append" ELSE "write") \in Calls[t]
         /\ th' = [th EXCEPT ![t] = [Idle EXCEPT
                     !.op = "write", !.off = o, !.whole = whole, !.secs = secs,
                     !.pc = IF size <= o THEN "extend" ELSE "get"]]
    /\ UNCHANGED <<page, lists, size, monitor, store, mapped>>

\* Cache::write() makes room for what it writes.
extend(t) ==
    /\ th[t].pc = "extend"
    /\ setSize(t, th[t].off + 1, FALSE)
    /\ Goto(t, "get")

\* Stream::flush()
Flush(t) ==
    /\ th[t].pc = "idle" /\ "flush" \in Calls[t]
    /\ Call(t, "flush", None, "flush")
    /\ UNCHANGED <<page, lists, size, monitor, store, mapped>>

\* Stream::setSize()
resize(t) ==
    /\ th[t].pc = "idle" /\ "setSize" \in Calls[t]
    /\ \E n \in 0 .. MaxSize : setSize(t, n, TRUE)
    /\ UNCHANGED th

\* Cache::get(), for a page fault.
get(t) ==
    /\ th[t].pc = "idle" /\ "get" \in Calls[t] /\ mapped[t] = None
    /\ \E o \in Offsets : o < size /\ Call(t, "get", o, "get")
    /\ UNCHANGED <<page, lists, size, monitor, store, mapped>>

\* Cache::put(), after what the program stored through the mapping: a dirty
\* entry is synced, which does nothing to a page that is not changed.
put(t) ==
    /\ th[t].pc = "idle" /\ mapped[t] # None
    /\ \E dirty \in BOOLEAN, s \in Sectors :
         /\ th' = [th EXCEPT ![t] = [Idle EXCEPT
                     !.op = "put", !.page = mapped[t],
                     !.pc = IF dirty THEN "clean" ELSE "drop"]]
         /\ IF dirty /\ "store" \in Allow THEN Store(mapped[t], {s}, FALSE)
            ELSE UNCHANGED <<page, store>>
    /\ mapped' = [mapped EXCEPT ![t] = None]
    /\ UNCHANGED <<lists, size, monitor>>

-----------------------------------------------------------------------------
\* Nobody is inside release() when another thread runs, unless `preempt'.
Switch(t) == "preempt" \in Allow \/ \A u \in Actors \ {t} : th[u].pc # "park"

\* A thread goes on with the call it is in.
Continue(t) ==
    /\ Switch(t)
    /\ \/ getPage(t) \/ wait(t) \/ fill(t) \/ filled(t) \/ copy(t) \/ mark(t)
       \/ change(t) \/ drop(t) \/ park(t) \/ flush(t) \/ clean(t)
       \/ snap(t) \/ sync(t) \/ extend(t)

Start(t) ==
    /\ Switch(t)
    /\ \/ read(t) \/ write(t) \/ Flush(t) \/ resize(t) \/ invalidate(t)
       \/ get(t) \/ put(t)

Update == Switch(Updater) /\ (update \/ cleanNext \/ Continue(Updater))

Next == Update \/ \E t \in Threads : Start(t) \/ Continue(t)

Spec == Init /\ [][Next]_vars

-----------------------------------------------------------------------------
PageObjects ==
    [ref : Nat, off : Offsets \cup {None}, hashed : BOOLEAN, changed : BOOLEAN,
     free : BOOLEAN, map : SUBSET Sectors, filled : BOOLEAN, data : [Sectors -> BOOLEAN]]

Places == {"idle", "get", "wait", "fill", "filling", "copy", "mark", "change", "drop",
           "park", "flush", "clean", "snap", "store", "update", "extend"}

CallRecords ==
    [pc : Places, op : {"idle", "read", "write", "flush", "get", "put"},
     off : Offsets \cup {None}, whole : BOOLEAN, secs : SUBSET Sectors,
     page : Pages \cup {None}, map : SUBSET Sectors, then : {"idle", "flush", "update"}]

\* Every variable keeps its type, and the size its bound.
TypeOK ==
    /\ page \in [Pages -> PageObjects]
    /\ freeList \in Seq(Pages) /\ standbyList \in Seq(Pages) /\ changedList \in Seq(Pages)
    /\ size \in 0 .. MaxSize
    /\ monitor \in {None, Updater}
    /\ store \in [Offsets -> [Sectors -> BOOLEAN]]
    /\ mapped \in [Threads -> Pages \cup {None}]
    /\ th \in [Actors -> CallRecords]

\* Who holds a reference to page p: the calls in progress and the mappings.
Callers(p) == {t \in Actors : th[t].page = p /\ th[t].pc # "park"}
Mappers(p) == {t \in Threads : mapped[t] = p}

\* Page::ref is exactly the number of holders, the changed list being one: no
\* path forgets release() or calls it twice.
RefExact ==
    \A p \in Pages :
        page[p].ref = Cardinality(Callers(p)) + Cardinality(Mappers(p))
                          + (IF page[p].changed THEN 1 ELSE 0)

\* "we could assign more than one page to this cache" (cache.cpp): no offset
\* has two pages in the hash table.
OnePagePerOffset ==
    \A p, q \in Pages :
        page[p].hashed /\ page[q].hashed /\ page[p].off = page[q].off => p = q

\* "if a page is referenced, it must not be stolen" (pageSet.cpp): the page a
\* call was given for an offset stays the page of that offset.
HeldStays ==
    \A t \in Threads :
        th[t].pc \in {"fill", "filling", "copy", "mark", "change"}
            => page[th[t].page].off = th[t].off

\* Each page is linked where its state says, once: linkChain serves the three
\* lists.
ListsExact ==
    /\ \A p \in Pages :
         LET parking == \E t \in Actors : th[t].pc = "park" /\ th[t].page = p
         IN  /\ p \in ToSet(changedList) <=> page[p].changed
             /\ p \in ToSet(freeList) <=> page[p].off = None
             /\ p \in ToSet(standbyList)
                  <=> page[p].ref = 0 /\ page[p].hashed /\ ~parking
    /\ \A list \in {freeList, standbyList, changedList} :
         Cardinality(ToSet(list)) = Len(list)

\* A thread is between the memmove() of a write and `filled = true'.
Writing(o) == \E t \in Threads : th[t].pc = "mark" /\ page[th[t].page].off = o

\* No write is lost: what the next read() of a sector finds is what the last
\* write() left there, in the cached page if it is filled, in the backing
\* store if not.
Coherent ==
    \A o \in Offsets : o < size /\ ~Writing(o) =>
        IF \E p \in lookup(o) : page[p].filled
        THEN \A p \in lookup(o) : page[p].data = Current
        ELSE store[o] = Current

=============================================================================
