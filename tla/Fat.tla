-------------------------------- MODULE Fat --------------------------------
(***************************************************************************)
(* The FAT file system (src/os/fs/fat) on a FAT32 volume: the cluster      *)
(* chains, the entries of the root directory, the FatStreams open on them  *)
(* and the count of free clusters, under calls of several threads and      *)
(* crashes.                                                                *)
(*                                                                         *)
(* The code flushes each write of the FAT and of the directory before it   *)
(* goes on.  Here flush() keeps its word, so such a write is one step and  *)
(* what a crash leaves is `fat', `dir', `clean' and `fsi'.  The second     *)
(* copy of the FAT, the cluster of the root directory, the data of files,  *)
(* times, attributes, long names and subdirectories are left out; a path   *)
(* is one name in the root directory, and a thread has one file open.      *)
(***************************************************************************)
EXTENDS Integers, FiniteSets, FiniteSetsExt

CONSTANTS
    CountOfClusters,  \* the clusters of the volume, numbered from 2
    BytsPerClus,
    MaxSize,          \* bound: the size of a file
    Slots,            \* bound: the entries of the root directory
    Names,
    Streams,          \* bound: the FatStream objects that are reachable
    Threads,
    Allow,            \* the situations of Situations the instance admits
    None

(***************************************************************************)
(* What an instance may leave out, because the code does not cope with it: *)
(*   names    a lookup(), create(), unbind() or rename() that overlaps an  *)
(*            unbind() or rename() of another thread                       *)
(*   torn     a crash while rename() has the file under two names          *)
(*   race     ++freeCount lost to the --freeCount of another core          *)
(***************************************************************************)
Situations == {"names", "torn", "race"}

ASSUME FatAssumption ==
    /\ CountOfClusters \in Nat \ {0} /\ BytsPerClus \in Nat \ {0} /\ MaxSize \in Nat
    /\ IsFiniteSet(Streams) /\ IsFiniteSet(Threads) /\ Slots \subseteq Nat
    /\ Allow \subseteq Situations
    /\ None \notin Names \cup Streams \cup Threads

Clusters == 2 .. CountOfClusters + 1
Eof == CountOfClusters + 2
Links == {0} \cup Clusters \cup {Eof}

Entries == [name : Names, fstClus : {0} \cup Clusters, size : 0 .. MaxSize]
FatStreams == [offset : Slots, fcb : Entries, fstClus : {0} \cup Clusters, size : 0 .. MaxSize,
               removed : BOOLEAN, lastPosition : Nat, lastClus : Links]

Operations == {"idle", "setSize", "close", "create", "unbind", "rename"}
Places == {"idle", "alloc", "mark", "link", "chain", "cut", "free", "count", "sync",
           "entry", "written", "remove", "erase", "create", "swap", "flush"}
Calls == [op : Operations, pc : Places,
          s : Streams \cup {None}, old : Streams \cup {None}, lock : Streams \cup {None},
          size : 0 .. MaxSize, n : Nat, clus : Links, prev : {0} \cup Clusters,
          write : {"none", "new", "fcb", "erase"}]

(* None is told apart from what it stands beside. *)
ASSUME NoneAssumption == None \notin Entries \cup FatStreams

VARIABLES
    fat,        \* the disk: the FAT,
    dir,        \* the entries of the root directory,
    clean,      \* ClnShutBitMask in FAT[1],
    fsi,        \* FSI_Nxt_Free and FSI_Free_Count
    mounted,    \* "no", "yes", or "leaving" in the middle of dismount()
    nxtFree, freeCount,
    stream,     \* the FatStream objects
    held,       \* the stream each thread has open
    fatMonitor, \* who is inside allocCluster()
    rootMonitor,    \* who is inside create() or the end of remove()
    pageMonitor,    \* who writes back the page of the directory
    th          \* the calls in progress

disk == <<fat, dir, clean, fsi>>
locks == <<fatMonitor, rootMonitor, pageMonitor>>
vars == <<disk, mounted, nxtFree, freeCount, stream, held, locks, th>>

isEof(clus) == CountOfClusters + 1 < clus
FreeClusters == {c \in Clusters : fat[c] = 0}

(* The number of clusters for a size. *)
ClustersOf(size) == (size + BytsPerClus - 1) \div BytsPerClus

Idle == [op |-> "idle", pc |-> "idle", s |-> None, old |-> None, lock |-> None,
         size |-> 0, n |-> 0, clus |-> 0, prev |-> 0, write |-> "none"]

Entry(name, fstClus, size) == [name |-> name, fstClus |-> fstClus, size |-> size]

(* new FatStream(): lastPosition counts in clusters. *)
FatStream(offset, fcb) ==
    [offset |-> offset, fcb |-> fcb, fstClus |-> fcb.fstClus, size |-> fcb.size,
     removed |-> FALSE, lastPosition |-> 0, lastClus |-> fcb.fstClus]

(* A freshly formatted volume. *)
Init ==
    /\ fat = [c \in Clusters |-> 0]
    /\ dir = [o \in Slots |-> None]
    /\ clean = TRUE
    /\ fsi = [nxtFree |-> 2, freeCount |-> CountOfClusters]
    /\ mounted = "no" /\ nxtFree = Eof /\ freeCount = 0
    /\ stream = [s \in Streams |-> None]
    /\ held = [t \in Threads |-> None]
    /\ fatMonitor = None /\ rootMonitor = None /\ pageMonitor = None
    /\ th = [t \in Threads |-> Idle]

(* The cluster after one in a FAT; the end of a chain stays the end. *)
After(links, clus) == IF clus \in Clusters THEN links[clus] ELSE clus

(* The cluster i places down the chain that begins at clus. *)
Walk(links, clus, i) ==
    LET walk[k \in 0 .. i] == IF k = 0 THEN clus ELSE After(links, walk[k - 1])
    IN walk[i]
Nth(clus, i) == Walk(fat, clus, i)

(* getClusNum(): the walk begins at the last result where it can. *)
getClusNum(st, position) ==
    LET i == position \div BytsPerClus
    IN IF i < st.lastPosition \/ st.lastClus = 0 \/ isEof(st.lastClus)
       THEN Nth(st.fstClus, i) ELSE Nth(st.lastClus, i - st.lastPosition)

(* The stream after getClusNum(). *)
Sought(st, position) == [st EXCEPT !.lastPosition = position \div BytsPerClus,
                                   !.lastClus = getClusNum(st, position)]

----------------------------------------------------------------------------
(* Threads and monitors. *)

Unlocked(s, t) == \A u \in Threads \ {t} : th[u].lock # s

(* A lookup may run: nobody is between the two ends of unbind() or rename(). *)
Apart(t) == "names" \in Allow \/ \A u \in Threads \ {t} : th[u].op \notin {"unbind", "rename"}

Goto(t, pc) == th' = [th EXCEPT ![t].pc = pc]
Return(t) == th' = [th EXCEPT ![t] = Idle]

(* The references of a stream's cache to the stream: backingStore and file. *)
CacheRefs == 2

(* release() by thread t: a removed stream frees its clusters when the count gets
   to 1; one that no thread uses any more cannot be reached. *)
Release(t, s) ==
    LET last  == /\ \A u \in Threads : held'[u] # s
                 /\ \A u \in Threads \ {t} : s \notin {th[u].s, th[u].old}
        refs  == CacheRefs + (IF last THEN 0 ELSE 1)
        gone  == stream[s].removed
    IN /\ stream' = IF gone /\ last THEN [stream EXCEPT ![s] = None] ELSE stream
       /\ th' = [th EXCEPT ![t] = IF gone /\ refs = 1
                                  THEN [Idle EXCEPT !.op = "close", !.pc = "free",
                                                    !.clus = stream[s].fstClus]
                                  ELSE Idle]

----------------------------------------------------------------------------
(* Looking up. *)

Named(name) == {o \in Slots : dir[o] # None /\ dir[o].name = name}
Hashed(o) == {s \in Streams : stream[s] # None /\ stream[s].offset = o /\ ~stream[s].removed}

(* Any object that is not in use will do for new. *)
Unused == {s \in Streams : stream[s] = None}
New == CHOOSE s \in Unused : TRUE

(* lookup() of the entry at o: the stream of the hash table or a new one. *)
Looked(o) == IF Hashed(o) # {} THEN CHOOSE s \in Hashed(o) : TRUE ELSE New
Lookup(t, o) ==
    /\ mounted = "yes" /\ rootMonitor = None /\ Apart(t)
    /\ Hashed(o) \cup Unused # {}
    /\ stream' = IF Hashed(o) # {} THEN stream
                 ELSE [stream EXCEPT ![New] = FatStream(o, dir[o])]

open(t, name) ==
    /\ th[t] = Idle /\ held[t] = None
    /\ \E o \in Named(name) : Lookup(t, o) /\ held' = [held EXCEPT ![t] = Looked(o)]
    /\ UNCHANGED <<disk, mounted, nxtFree, freeCount, locks, th>>

close(t) ==
    /\ th[t] = Idle /\ held[t] # None
    /\ held' = [held EXCEPT ![t] = None]
    /\ Release(t, held[t])
    /\ UNCHANGED <<disk, mounted, nxtFree, freeCount, locks>>

(* read() and write() of the byte at a position: only where it is looked for. *)
seek(t, position) ==
    LET s == held[t]
    IN /\ th[t] = Idle /\ s # None /\ Unlocked(s, t) /\ fatMonitor = None
       /\ position < stream[s].size
       /\ stream' = [stream EXCEPT ![s] = Sought(@, position)]
       /\ UNCHANGED <<disk, mounted, nxtFree, freeCount, held, locks, th>>

----------------------------------------------------------------------------
(* Writing an entry of the directory.  The page's monitor is taken to write the
   page back, and the directory's own to write to the disk: setSize() comes with
   neither, create() and remove() with the directory's.  The page itself is in
   memory: to fill it would take its monitor, in a lookup too. *)

sync(t) ==
    /\ th[t].pc = "sync" /\ pageMonitor = None
    /\ pageMonitor' = t
    /\ Goto(t, "entry")
    /\ UNCHANGED <<disk, mounted, nxtFree, freeCount, stream, held, fatMonitor, rootMonitor>>

(* Where a call goes on when its entry is written: setSize() ends if it made the
   file larger. *)
Written(t) ==
    LET c == th[t]
        grown == stream[c.s].size < c.size
    IN CASE c.write = "new" /\ c.op = "create" ->
              held' = [held EXCEPT ![t] = c.s] /\ Return(t) /\ UNCHANGED stream
         [] c.write = "new" /\ c.op = "rename" -> Goto(t, "swap") /\ UNCHANGED <<held, stream>>
         [] c.write = "fcb" /\ c.op = "rename" ->
              /\ th' = [th EXCEPT ![t] = [c EXCEPT !.pc = "remove", !.lock = None,
                                                   !.s = c.old, !.old = c.s]]
              /\ UNCHANGED <<held, stream>>
         [] c.write = "fcb" /\ c.op = "setSize" /\ grown ->
              stream' = [stream EXCEPT ![c.s].size = c.size] /\ Return(t) /\ UNCHANGED held
         [] c.write = "fcb" /\ c.op = "setSize" /\ ~grown ->
              Goto(t, "cut") /\ UNCHANGED <<held, stream>>
         [] c.write = "erase" -> UNCHANGED held /\ Release(t, c.s)

(* The write of the page: flush() writes the fcb, remove() the mark of a free entry. *)
entry(t) ==
    LET st == stream[th[t].s]
    IN /\ th[t].pc = "entry" /\ rootMonitor \in {None, t}
       /\ dir' = [dir EXCEPT ![st.offset] = IF th[t].write = "erase" THEN None ELSE st.fcb]
       /\ pageMonitor' = None
       /\ rootMonitor' = None
       /\ Written(t)
       /\ UNCHANGED <<fat, clean, fsi, mounted, nxtFree, freeCount, fatMonitor>>

(* flush() of a stream that was removed writes nothing. *)
Flushing(s) == IF stream[s].removed THEN "written" ELSE "sync"

written(t) ==
    /\ th[t].pc = "written"
    /\ Written(t)
    /\ UNCHANGED <<disk, mounted, nxtFree, freeCount, locks>>

----------------------------------------------------------------------------
(* setSize(). *)

(* Mistake: the chain of a file that gets smaller is cut with the old size on the disk. *)
CutFirst(s, size) == IF size < stream[s].size THEN "cut" ELSE Flushing(s)

(* With the size in the fcb, setSize() flushes it before anything else. *)
FlushFirst(s, size) == Flushing(s)

(* The fcb gets the size, and no first cluster when the file becomes empty; the
   clusters to free are then those from the first on. *)
setSize(t, size) ==
    LET s  == held[t]
        st == stream[s]
        n  == ClustersOf(size) - ClustersOf(st.size)
        c  == [Idle EXCEPT !.op = "setSize", !.s = s, !.lock = s, !.size = size]
    IN /\ th[t] = Idle /\ s # None /\ Unlocked(s, t) /\ size # st.size
       /\ \/ /\ n > 0
             /\ th' = [th EXCEPT ![t] = [c EXCEPT !.pc = "alloc", !.n = n]]
             /\ UNCHANGED stream
          \/ /\ n <= 0
             /\ stream' = [stream EXCEPT ![s].fcb.size = size,
                                         ![s].fcb.fstClus = IF size = 0 THEN 0 ELSE @,
                                         ![s].fstClus = IF size = 0 THEN 0 ELSE @]
             /\ th' = [th EXCEPT ![t] = [c EXCEPT !.pc = FlushFirst(s, size), !.write = "fcb",
                                                  !.clus = IF size = 0 THEN st.fstClus ELSE 0]]
       /\ UNCHANGED <<disk, mounted, nxtFree, freeCount, held, locks>>

(* Mistake: ENOSPC leaves fatMonitor locked. *)
allocClusterLocked(t) ==
    /\ th[t].pc = "alloc" /\ fatMonitor = None
    /\ fatMonitor' = t
    /\ IF freeCount < th[t].n THEN Return(t) ELSE Goto(t, "mark")
    /\ UNCHANGED <<disk, mounted, nxtFree, freeCount, stream, held, rootMonitor, pageMonitor>>

(* allocCluster(), with ENOSPC when there are too few. *)
allocCluster(t) ==
    /\ th[t].pc = "alloc" /\ fatMonitor = None
    /\ \/ freeCount < th[t].n /\ Return(t) /\ UNCHANGED fatMonitor
       \/ freeCount >= th[t].n /\ Goto(t, "mark") /\ fatMonitor' = t
    /\ UNCHANGED <<disk, mounted, nxtFree, freeCount, stream, held, rootMonitor, pageMonitor>>

(* The first free cluster from nxtFree on, round the end. *)
NextFree ==
    LET start == IF isEof(nxtFree) THEN 2 ELSE nxtFree
        ahead == {c \in FreeClusters : start <= c}
    IN Min(IF ahead = {} THEN FreeClusters ELSE ahead)

(* A free cluster becomes the end of a chain. There is one unless freeCount is too
   high, and what allocCluster() does then is left out. *)
mark(t) ==
    LET c == NextFree
    IN /\ th[t].pc = "mark" /\ FreeClusters # {}
       /\ fat' = [fat EXCEPT ![c] = Eof]
       /\ freeCount' = freeCount - 1
       /\ nxtFree' = c
       /\ Goto(t, "link")
       /\ UNCHANGED <<dir, clean, fsi, mounted, stream, held, locks>>

(* It is linked to the one before, if any. *)
link(t) ==
    LET c == th[t]
        more == c.n > 1
    IN /\ c.pc = "link"
       /\ fat' = IF c.prev = 0 THEN fat ELSE [fat EXCEPT ![c.prev] = nxtFree]
       /\ th' = [th EXCEPT ![t].prev = nxtFree, ![t].n = @ - 1,
                           ![t].clus = IF c.prev = 0 THEN nxtFree ELSE @,
                           ![t].pc = IF more THEN "mark" ELSE "chain"]
       /\ nxtFree' = nxtFree + 1
       /\ fatMonitor' = IF more THEN t ELSE None
       /\ UNCHANGED <<dir, clean, fsi, mounted, freeCount, stream, held, rootMonitor, pageMonitor>>

(* setSize() hangs the new clusters on the last cluster of the file, or on its fcb. *)
chain(t) ==
    LET c    == th[t]
        st   == stream[c.s]
        last == Sought(st, st.size - 1)
    IN /\ c.pc = "chain" /\ fatMonitor = None
       /\ IF st.size > 0
          THEN /\ fat' = [fat EXCEPT ![last.lastClus] = c.clus]
               /\ stream' = [stream EXCEPT ![c.s] = [last EXCEPT !.fcb.size = c.size]]
          ELSE /\ stream' = [stream EXCEPT ![c.s].fstClus = c.clus,
                                           ![c.s].fcb = [@ EXCEPT !.fstClus = c.clus, !.size = c.size]]
               /\ UNCHANGED fat
       /\ th' = [th EXCEPT ![t].pc = Flushing(c.s), ![t].write = "fcb", ![t].clus = 0]
       /\ UNCHANGED <<dir, clean, fsi, mounted, nxtFree, freeCount, held, locks>>

(* setSize() to a smaller size cuts the chain; freeCluster() gets the rest of it. *)
cut(t) ==
    LET c    == th[t]
        last == getClusNum(stream[c.s], c.size - 1)
    IN /\ c.pc = "cut" /\ fatMonitor = None
       /\ IF c.size = 0
          THEN Goto(t, "free") /\ UNCHANGED fat
          ELSE /\ fat' = [fat EXCEPT ![last] = Eof]
               /\ th' = [th EXCEPT ![t].pc = "free", ![t].clus = After(fat, last)]
       /\ UNCHANGED <<dir, clean, fsi, mounted, nxtFree, freeCount, stream, held, locks>>

(* Mistake: the size only. *)
ShrunkKeepsHint(st, size) == [st EXCEPT !.size = size]

(* freeCluster(): one cluster after the other; then setSize() takes the size and
   resets what getClusNum() remembers. *)
Shrunk(st, size) == [st EXCEPT !.size = size, !.lastPosition = 0, !.lastClus = st.fstClus]

freeCluster(t) ==
    LET c == th[t]
    IN /\ c.pc = "free" /\ fatMonitor = None
       /\ IF c.clus < 2 \/ isEof(c.clus)
          THEN /\ Return(t)
               /\ stream' = IF c.op = "setSize" THEN [stream EXCEPT ![c.s] = Shrunk(@, c.size)]
                            ELSE stream
               /\ UNCHANGED fat
          ELSE /\ fat' = [fat EXCEPT ![c.clus] = 0]
               /\ th' = [th EXCEPT ![t].pc = "count", ![t].clus = fat[c.clus]]
               /\ UNCHANGED stream
       /\ UNCHANGED <<dir, clean, fsi, mounted, nxtFree, freeCount, held, locks>>

(* ++freeCount, without fatMonitor. *)
count(t) ==
    /\ th[t].pc = "count"
    /\ freeCount' \in {freeCount + 1} \cup
            (IF "race" \in Allow /\ fatMonitor # None THEN {freeCount} ELSE {})
    /\ Goto(t, "free")
    /\ UNCHANGED <<disk, mounted, nxtFree, stream, held, locks>>

----------------------------------------------------------------------------
(* create(), unbind() and rename(). *)

(* create() of a name in the first free entry, inside the directory's monitor. *)
Create(t, name, c) ==
    /\ mounted = "yes" /\ rootMonitor = None /\ Apart(t) /\ Named(name) = {}
    /\ Unused # {}
    /\ \E o \in Slots : /\ dir[o] = None /\ \A p \in Slots : p < o => dir[p] # None
                        /\ stream' = [stream EXCEPT ![New] = FatStream(o, Entry(name, 0, 0))]
    /\ rootMonitor' = t
    /\ th' = [th EXCEPT ![t] = [c EXCEPT !.s = New, !.pc = "sync", !.write = "new"]]
    /\ UNCHANGED <<disk, mounted, nxtFree, freeCount, held, fatMonitor, pageMonitor>>

create(t, name) ==
    th[t] = Idle /\ held[t] = None /\ Create(t, name, [Idle EXCEPT !.op = "create"])

(* unbind(): the stream of the name, then remove(). *)
unbind(t, name) ==
    /\ th[t] = Idle /\ held[t] = None
    /\ \E o \in Named(name) :
         /\ Lookup(t, o)
         /\ th' = [th EXCEPT ![t] = [Idle EXCEPT !.op = "unbind", !.pc = "remove", !.s = Looked(o)]]
    /\ UNCHANGED <<disk, mounted, nxtFree, freeCount, held, locks>>

(* remove(), up to the directory's monitor: the stream leaves the hash table. *)
remove(t) ==
    LET s == th[t].s
    IN /\ th[t].pc = "remove" /\ Unlocked(s, t)
       /\ UNCHANGED held
       /\ IF stream[s].removed
          THEN Release(t, s)
          ELSE /\ stream' = [stream EXCEPT ![s].removed = TRUE]
               /\ th' = [th EXCEPT ![t].pc = "erase", ![t].lock = s]
       /\ UNCHANGED <<disk, mounted, nxtFree, freeCount, locks>>

(* remove(), inside it: the entry is marked free. *)
erase(t) ==
    /\ th[t].pc = "erase" /\ rootMonitor = None
    /\ rootMonitor' = t
    /\ th' = [th EXCEPT ![t].pc = "sync", ![t].write = "erase"]
    /\ UNCHANGED <<disk, mounted, nxtFree, freeCount, stream, held, fatMonitor, pageMonitor>>

(* rename(): the stream of the old name, and create() of the new one. *)
rename(t, name) ==
    /\ th[t] = Idle /\ held[t] = None
    /\ \E o \in Named(name) :
         /\ Lookup(t, o)
         /\ th' = [th EXCEPT ![t] = [Idle EXCEPT !.op = "rename", !.pc = "create", !.old = Looked(o)]]
    /\ UNCHANGED <<disk, mounted, nxtFree, freeCount, held, locks>>

renameCreate(t) ==
    /\ th[t].pc = "create"
    /\ \E name \in Names : Create(t, name, th[t])

(* The new name is there already, as the old one always is: rename() fails. *)
renameFails(t) ==
    /\ th[t].pc = "create" /\ rootMonitor = None
    /\ \E name \in Names : Named(name) # {}
    /\ UNCHANGED held
    /\ Release(t, th[t].old)
    /\ UNCHANGED <<disk, mounted, nxtFree, freeCount, locks>>

(* The two streams change places and names; the old one is flushed to the new
   entry, the new one, now at the old entry, will be removed. *)
swap(t) ==
    LET new == th[t].s
        old == th[t].old
    IN /\ th[t].pc = "swap"
       /\ stream' = [stream EXCEPT ![old].offset = stream[new].offset,
                                   ![new].offset = stream[old].offset,
                                   ![old].fcb.name = stream[new].fcb.name,
                                   ![new].fcb.name = stream[old].fcb.name]
       /\ Goto(t, "flush")
       /\ UNCHANGED <<disk, mounted, nxtFree, freeCount, held, locks>>

(* Mistake: rename() removes the old entry without it. *)
renameUnflushed(t) ==
    /\ th[t].pc = "flush"
    /\ th' = [th EXCEPT ![t].pc = "remove", ![t].write = "fcb"]
    /\ UNCHANGED <<disk, mounted, nxtFree, freeCount, stream, held, locks>>

(* flush() of the old one; s and old are exchanged for the time of it. *)
renameFlush(t) ==
    LET old == th[t].old
    IN /\ th[t].pc = "flush" /\ Unlocked(old, t)
       /\ th' = [th EXCEPT ![t] = [@ EXCEPT !.pc = Flushing(old), !.write = "fcb", !.lock = old,
                                            !.s = old, !.old = th[t].s]]
       /\ UNCHANGED <<disk, mounted, nxtFree, freeCount, stream, held, locks>>

----------------------------------------------------------------------------
(* The file system as a whole. *)

(* Mistake: the FSInfo sector is trusted after a crash. *)
mountTrusting ==
    /\ mounted = "no"
    /\ mounted' = "yes"
    /\ clean' = FALSE
    /\ freeCount' = fsi.freeCount /\ nxtFree' = fsi.nxtFree
    /\ UNCHANGED <<fat, dir, fsi, stream, held, locks, th>>

(* mount(): a volume that was not dismounted has its free clusters counted. *)
mount ==
    LET next  == IF clean THEN fsi.nxtFree ELSE Eof
        free  == IF clean THEN fsi.freeCount ELSE Eof
    IN /\ mounted = "no"
       /\ mounted' = "yes"
       /\ clean' = FALSE
       /\ IF isEof(next) \/ isEof(free)
          THEN /\ freeCount' = Cardinality(FreeClusters)
               /\ nxtFree' = IF isEof(next) /\ FreeClusters # {} THEN Min(FreeClusters) ELSE next
          ELSE freeCount' = free /\ nxtFree' = next
       /\ UNCHANGED <<fat, dir, fsi, stream, held, locks, th>>

(* dismount(), when every stream has been closed: the FSInfo sector, then the mark. *)
dismount ==
    /\ mounted = "yes"
    /\ \A t \in Threads : th[t] = Idle /\ held[t] = None
    /\ mounted' = "leaving"
    /\ fsi' = [nxtFree |-> nxtFree, freeCount |-> freeCount]
    /\ UNCHANGED <<fat, dir, clean, nxtFree, freeCount, stream, held, locks, th>>

(* What is in memory is gone. *)
Forget ==
    /\ mounted' = "no" /\ nxtFree' = Eof /\ freeCount' = 0
    /\ stream' = [s \in Streams |-> None]
    /\ held' = [t \in Threads |-> None]
    /\ fatMonitor' = None /\ rootMonitor' = None /\ pageMonitor' = None
    /\ th' = [t \in Threads |-> Idle]

setClean ==
    /\ mounted = "leaving"
    /\ clean' = TRUE
    /\ Forget
    /\ UNCHANGED <<fat, dir, fsi>>

(* From the exchange of the streams in rename() to the end of its remove(), a flush()
   has the file under two names. *)
Moving(t) == th[t].op = "rename" /\ (th[t].pc = "flush" \/ th[t].write \in {"fcb", "erase"})

Crash ==
    /\ mounted # "no"
    /\ "torn" \in Allow \/ \A t \in Threads : ~Moving(t)
    /\ Forget
    /\ UNCHANGED disk

(* The next step of a call in progress. *)
Continue(t) ==
    \/ allocCluster(t) \/ mark(t) \/ link(t) \/ chain(t)
    \/ cut(t) \/ freeCluster(t) \/ count(t)
    \/ sync(t) \/ entry(t) \/ written(t)
    \/ remove(t) \/ erase(t)
    \/ renameCreate(t) \/ renameFails(t) \/ swap(t) \/ renameFlush(t)

Next ==
    \/ mount \/ dismount \/ setClean \/ Crash
    \/ \E t \in Threads :
         \/ \E name \in Names : open(t, name) \/ create(t, name) \/ unbind(t, name) \/ rename(t, name)
         \/ close(t)
         \/ \E position \in 0 .. MaxSize - 1 : seek(t, position)
         \/ \E size \in 0 .. MaxSize : setSize(t, size)
         \/ Continue(t)

Spec == Init /\ [][Next]_vars

----------------------------------------------------------------------------
(* The ranges of the variables. *)
TypeOK ==
    /\ fat \in [Clusters -> Links]
    /\ dir \in [Slots -> Entries \cup {None}]
    /\ clean \in BOOLEAN /\ mounted \in {"no", "yes", "leaving"}
    /\ fsi \in [nxtFree : 2 .. Eof, freeCount : Int]
    /\ nxtFree \in 2 .. Eof /\ freeCount \in Int
    /\ stream \in [Streams -> FatStreams \cup {None}]
    /\ held \in [Threads -> Streams \cup {None}]
    /\ {fatMonitor, rootMonitor, pageMonitor} \subseteq Threads \cup {None}
    /\ th \in [Threads -> Calls]

(* The clusters a file of some size needs. *)
Chain(clus, size) == {Nth(clus, i) : i \in 0 .. ClustersOf(size) - 1}

(* Who has clusters: the entries on the disk, and the removed files still open.  A
   stream whose monitor somebody holds may be changing. *)
Files == {<<"entry", o>> : o \in {p \in Slots : dir[p] # None}}
         \cup {<<"stream", s>> : s \in {r \in Streams : /\ stream[r] # None
                                                        /\ stream[r].removed
                                                        /\ \A t \in Threads : th[t].lock # r}}
ClustersOfFile(f) == LET e == IF f[1] = "entry" THEN dir[f[2]] ELSE stream[f[2]]
                     IN Chain(e.fstClus, e.size)

(* At every moment the machine may stop, each file has all the clusters its size
   needs, none of them free and none in another file: setSize() and freeCluster()
   write the FAT and the entry in an order that keeps it so, across crashes and the
   mounts after them. *)
ChainsSound ==
    (\A t \in Threads : ~Moving(t)) =>
        \A f \in Files : /\ ClustersOfFile(f) \subseteq Clusters \ FreeClusters
                         /\ \A g \in Files \ {f} : ClustersOfFile(f) \cap ClustersOfFile(g) = {}

(* freeCount, which allocCluster() trusts, is the number of free clusters, but for
   those freeCluster() is about to count; and so is the count on a disk marked
   clean, which mount() trusts. *)
FreeSpaceExact ==
    LET free == Cardinality(FreeClusters)
    IN /\ mounted = "yes" => freeCount + Cardinality({t \in Threads : th[t].pc = "count"}) = free
       /\ clean => fsi.freeCount = free

(* getClusNum() begins its walk at lastClus: it is the cluster at lastPosition of the
   chain as it is now, whatever setSize() has done to the chain since. *)
HintIsRight ==
    \A s \in Streams :
        (/\ stream[s] # None /\ stream[s].lastClus \in Clusters
         /\ \A t \in Threads : th[t].lock # s)
        => stream[s].lastClus = Nth(stream[s].fstClus, stream[s].lastPosition)

(* A file that a thread has open, and nobody has removed or is resizing, is under
   some name on the disk, its clusters and its size as the stream has them, also
   while another thread renames it. *)
BoundWhileOpen ==
    \A t \in Threads :
        LET s == held[t]
        IN (/\ s # None /\ ~stream[s].removed
            /\ \A u \in Threads : th[u].op = "setSize" => th[u].lock # s)
           => \E o \in Slots : /\ dir[o] # None /\ dir[o].fstClus = stream[s].fstClus
                               /\ dir[o].size = stream[s].size

(* create() and remove() hold the directory's monitor and want the page's, to flush
   the entry; setSize() and the flush() of rename() hold the page's and want the
   directory's, to write it. *)
Embraced ==
    \E t, u \in Threads : /\ pageMonitor = t /\ th[t].pc = "entry"
                          /\ rootMonitor = u /\ th[u].pc = "sync"

(* That embrace is the only way in which calls stop: whatever monitors of the streams,
   of the FAT, of the directory and of its page they hold, and whichever of them failed
   or was cut off by a crash, one call in progress can go on unless two have met so. *)
OnlyEmbraceStops ==
    (\E t \in Threads : th[t] # Idle) => Embraced \/ \E t \in Threads : ENABLED Continue(t)

============================================================================
