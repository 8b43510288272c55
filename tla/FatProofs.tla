---- MODULE FatProofs ----
(* Proofs about the FAT file system (Fat): its types, and that a file which is
   open, and not removed, has an entry with its clusters and its size.

   First what each action does, in a few named effects; then the invariants of
   calls and monitors, that hold whatever Allow has (Base); then those of files:
   the streams in the hash table have entries of their own (KeptOK, OffsetsOK,
   BoundOK), their fcb is what they are (FcbOK), a file that is being made is
   empty (NewOK), and an entry differs from the stream it is for only while a
   call is about to write it (EntriesOK).                                       *)
EXTENDS Fat, ListLemmas

(* The chains of a FAT.  The recursion of Walk() is well founded. *)
Walks(w, f, c, n) == w = [k \in 0 .. n |-> IF k = 0 THEN c ELSE After(f, w[k - 1])]

(* The recursion of Walk() is well founded: it defines a function on every 0 .. n. *)
LEMMA WalksExist ==
  ASSUME NEW f, NEW c, NEW n \in Nat
  PROVE  \E w : Walks(w, f, c, n)
<1> DEFINE B == {m \in Nat : \E w : Walks(w, f, c, m)}
<1>1. 0 \in B
  <2> DEFINE w == [k \in 0 .. 0 |-> c]
  <2>1. Walks(w, f, c, 0)
    BY DEF Walks
  <2> QED
    BY <2>1
<1>2. ASSUME NEW m \in Nat, m \in B PROVE m + 1 \in B
  <2>1. PICK w : Walks(w, f, c, m)
    BY <1>2
  <2> DEFINE next == After(f, w[m])
             g == [k \in 0 .. m + 1 |-> IF k = m + 1 THEN next ELSE w[k]]
             h == [k \in 0 .. m + 1 |-> IF k = 0 THEN c ELSE After(f, g[k - 1])]
  <2>0. w = [k \in 0 .. m |-> IF k = 0 THEN c ELSE After(f, w[k - 1])]
    BY <2>1 DEF Walks
  <2>2. ASSUME NEW k \in 0 .. m + 1 PROVE g[k] = h[k]
    <3>1. CASE k = 0
      <4>1. w[0] = c
        BY <2>0
      <4> QED
        BY <3>1, <4>1
    <3>2. CASE k # 0 /\ k # m + 1
      <4>1. k \in 0 .. m /\ k - 1 \in 0 .. m + 1 /\ k - 1 # m + 1
        BY <3>2
      <4>2. w[k] = After(f, w[k - 1])
        BY <2>0, <3>2, <4>1
      <4>3. g[k - 1] = w[k - 1] /\ g[k] = w[k]
        BY <3>2, <4>1
      <4> QED
        BY <3>2, <4>2, <4>3
    <3>3. CASE k = m + 1
      <4>1. k - 1 = m /\ m \in 0 .. m + 1 /\ m # m + 1
        BY <3>3
      <4>2. g[k - 1] = w[m]
        BY <4>1
      <4> QED
        BY <3>3, <4>2
    <3> QED
      BY <3>1, <3>2, <3>3
  <2>3. g = h
    BY <2>2
  <2> HIDE DEF g
  <2>4. Walks(g, f, c, m + 1)
    BY <2>3 DEF Walks
  <2> QED
    BY SMTT(30), <2>4
<1> HIDE DEF B
<1>3. n \in B
  BY <1>1, <1>2, SetInduction
<1> QED
  BY <1>3 DEF B

(* Walk() is that function. *)
LEMMA WalkIs ==
  ASSUME NEW f, NEW c, NEW n \in Nat
  PROVE  \E w : Walks(w, f, c, n) /\ Walk(f, c, n) = w[n]
<1>1. \E w : Walks(w, f, c, n)
  BY WalksExist
<1> QED
  BY <1>1 DEF Walk, Walks

(* What Walk() computes. *)
LEMMA WalkUnfolds ==
  ASSUME NEW f, NEW c
  PROVE  /\ Walk(f, c, 0) = c
         /\ \A i \in Nat : Walk(f, c, i + 1) = After(f, Walk(f, c, i))
<1>1. Walk(f, c, 0) = c
  <2>1. PICK w : Walks(w, f, c, 0) /\ Walk(f, c, 0) = w[0]
    BY WalkIs
  <2> QED
    BY <2>1 DEF Walks
<1>2. ASSUME NEW i \in Nat PROVE Walk(f, c, i + 1) = After(f, Walk(f, c, i))
  <2>1. PICK w : Walks(w, f, c, i) /\ Walk(f, c, i) = w[i]
    BY WalkIs
  <2>2. PICK v : Walks(v, f, c, i + 1) /\ Walk(f, c, i + 1) = v[i + 1]
    BY WalkIs
  <2>3. /\ w[0] = c /\ v[0] = c
        /\ \A k \in Nat : k + 1 <= i => w[k + 1] = After(f, w[k])
        /\ \A k \in Nat : k <= i => v[k + 1] = After(f, v[k])
    <3>1. w[0] = c /\ v[0] = c
      BY <2>1, <2>2 DEF Walks
    <3>2. ASSUME NEW k \in Nat, k + 1 <= i PROVE w[k + 1] = After(f, w[k])
      <4>1. k + 1 \in 0 .. i /\ k + 1 # 0 /\ (k + 1) - 1 = k
        BY <3>2
      <4> QED
        BY <2>1, <4>1 DEF Walks
    <3>3. ASSUME NEW k \in Nat, k <= i PROVE v[k + 1] = After(f, v[k])
      <4>1. k + 1 \in 0 .. i + 1 /\ k + 1 # 0 /\ (k + 1) - 1 = k
        BY <3>3
      <4> QED
        BY <2>2, <4>1 DEF Walks
    <3> QED
      BY <3>1, <3>2, <3>3
  <2> DEFINE B == {k \in Nat : k <= i => v[k] = w[k]}
  <2>4. 0 \in B
    BY <2>3
  <2>5. ASSUME NEW k \in Nat, k \in B PROVE k + 1 \in B
    BY <2>3, <2>5
  <2> HIDE DEF B
  <2>6. i \in B
    BY <2>4, <2>5, SetInduction
  <2>7. v[i] = w[i]
    BY <2>6 DEF B
  <2> QED
    BY <2>1, <2>2, <2>3, <2>7
<1> QED
  BY <1>1, <1>2

(* Walk() stays among the values the FAT may have. *)
LEMMA WalkLinks ==
  ASSUME NEW f \in [Clusters -> Links], NEW c \in Links, NEW i \in Nat
  PROVE  Walk(f, c, i) \in Links
<1> DEFINE B == {k \in Nat : Walk(f, c, k) \in Links}
<1>1. 0 \in B
  BY WalkUnfolds
<1>2. ASSUME NEW k \in Nat, k \in B PROVE k + 1 \in B
  <2>1. Walk(f, c, k) \in Links /\ Walk(f, c, k + 1) = After(f, Walk(f, c, k))
    BY <1>2, WalkUnfolds
  <2>2. After(f, Walk(f, c, k)) \in Links
    BY <2>1, Zenon DEF After
  <2> QED
    BY <2>1, <2>2
<1> HIDE DEF B
<1>3. i \in B
  BY <1>1, <1>2, SetInduction
<1> QED
  BY <1>3 DEF B

(* To walk on is to walk further. *)
LEMMA WalkOn ==
  ASSUME NEW f, NEW c, NEW i \in Nat, NEW j \in Nat
  PROVE  Walk(f, Walk(f, c, i), j) = Walk(f, c, i + j)
<1> DEFINE B == {k \in Nat : Walk(f, Walk(f, c, i), k) = Walk(f, c, i + k)}
<1>1. 0 \in B
  BY WalkUnfolds
<1>2. ASSUME NEW k \in Nat, k \in B PROVE k + 1 \in B
  <2>1. Walk(f, Walk(f, c, i), k + 1) = After(f, Walk(f, Walk(f, c, i), k))
    BY WalkUnfolds
  <2>5. i + k \in Nat /\ (i + k) + 1 = i + (k + 1)
    OBVIOUS
  <2>2. Walk(f, c, (i + k) + 1) = After(f, Walk(f, c, i + k))
    BY <2>5, WalkUnfolds
  <2>3. Walk(f, Walk(f, c, i), k) = Walk(f, c, i + k)
    BY <1>2
  <2>4. Walk(f, Walk(f, c, i), k + 1) = Walk(f, c, i + (k + 1))
    BY <2>1, <2>2, <2>3, <2>5
  <2> QED
    BY <2>4
<1> HIDE DEF B
<1>3. j \in B
  BY <1>1, <1>2, SetInduction
<1> QED
  BY <1>3 DEF B

(* A stream that lookup() finds: in the hash table, and not removed. *)
Kept(s) == s \in Streams /\ stream[s] # None /\ ~stream[s].removed

(* The places in the code of the calls. *)
Writes(t, what) == th[t].pc \in {"sync", "entry"} /\ th[t].write = what
(* The call frees an entry. *)
Erasing(t) == th[t].pc = "erase" \/ Writes(t, "erase")
(* flush() writes an entry. *)
Flushes(t) == th[t].pc \in {"sync", "entry", "written"} /\ th[t].write = "fcb"

(* What the locals of a call are in each operation and place. *)
CallOK(t) ==
    LET c == th[t] IN
    /\ c.pc = "idle" <=> c.op = "idle"
    /\ c.pc = "idle" => c = Idle
    /\ c.op = "setSize" =>
          /\ c.pc \in {"alloc", "mark", "link", "chain", "cut", "free", "count", "sync", "entry", "written"}
          /\ c.s \in Streams /\ c.lock = c.s /\ held[t] = c.s /\ c.old = None
    /\ c.op = "close" => c.pc \in {"free", "count"} /\ c.s = None /\ c.old = None /\ c.lock = None
    /\ c.op = "create" => Writes(t, "new") /\ c.s \in Streams /\ c.old = None /\ c.lock = None
    /\ c.op = "unbind" => (c.pc = "remove" \/ Erasing(t)) /\ c.s \in Streams /\ c.old = None
    /\ c.op = "rename" =>
          /\ c.pc \in {"create", "swap", "flush", "remove"} \/ Erasing(t) \/ Writes(t, "new") \/ Flushes(t)
          /\ c.old \in Streams
          /\ IF c.pc = "create" THEN c.s = None ELSE c.s \in Streams \ {c.old}
    /\ c.op \in {"create", "unbind", "rename"} => held[t] = None
    /\ c.op \in {"unbind", "rename"} => c.lock = IF Erasing(t) \/ Flushes(t) THEN c.s ELSE None
    /\ c.pc \in {"sync", "entry", "written"} =>
          /\ c.op = "setSize" => c.write = "fcb"
          /\ c.write = "new" => c.op \in {"create", "rename"}
          /\ c.write = "erase" => c.op \in {"unbind", "rename"}
    /\ c.pc \in {"alloc", "mark", "link"} => c.n > 0
    /\ c.pc \in {"alloc", "mark", "link", "chain"} => c.clus \in {0} \cup Clusters

(* What a call in a place has of the shared state: monitors, and the cluster of mark(). *)
SharedOK(t) ==
    /\ th[t].pc = "written" => stream[th[t].s].removed
    /\ th[t].pc \in {"mark", "link"} => fatMonitor = t
    /\ Writes(t, "new") \/ Writes(t, "erase") => rootMonitor = t
    /\ th[t].pc = "link" => nxtFree \in Clusters

(* Every call is in a place of its operation. *)
PlacesOK == \A t \in Threads : CallOK(t) /\ SharedOK(t)

(* Whatever a thread has open or works on is a stream in memory. *)
RefsOK == \A t \in Threads :
    /\ held[t] # None => stream[held[t]] # None
    /\ th[t].s # None => stream[th[t].s] # None
    /\ th[t].old # None => stream[th[t].old] # None

(* The call of one thread goes on; one stream changes. *)
CallStep(t) == th' \in [Threads -> Calls] /\ \A u \in Threads \ {t} : th'[u] = th[u]
(* What the call is for stays. *)
SameWork(t) == /\ th'[t].op = th[t].op /\ th'[t].s = th[t].s /\ th'[t].old = th[t].old
               /\ th'[t].lock = th[t].lock /\ th'[t].size = th[t].size
(* The locals about clusters stay. *)
SameChain(t) == /\ th'[t].n = th[t].n /\ th'[t].clus = th[t].clus /\ th'[t].prev = th[t].prev
(* The call goes on at pc, as Goto() has it. *)
Goes(t, pc) == /\ CallStep(t) /\ SameWork(t) /\ SameChain(t) /\ th'[t].write = th[t].write
               /\ th'[t].pc = pc
(* The call is over, as Return() has it. *)
Returns(t) == CallStep(t) /\ th'[t] = Idle

(* One stream changes. *)
StreamStep(s) == /\ stream' \in [Streams -> FatStreams \cup {None}]
                 /\ \A r \in Streams \ {s} : stream'[r] = stream[r]
(* What getClusNum() remembers stays. *)
SameHint(s) == stream'[s].lastPosition = stream[s].lastPosition /\ stream'[s].lastClus = stream[s].lastClus

(* The types of what the steps read; the rest of them is TypedRest. *)
Typed ==
    /\ fat \in [Clusters -> Links]
    /\ dir \in [Slots -> Entries \cup {None}]
    /\ nxtFree \in 2 .. Eof /\ freeCount \in Int
    /\ stream \in [Streams -> FatStreams \cup {None}]
    /\ held \in [Threads -> Streams \cup {None}]
    /\ th \in [Threads -> Calls]

(* TypeOK has it. *)
LEMMA Typing == TypeOK => Typed
BY DEF TypeOK, Typed

(* The numbers of clusters and of links. *)
LEMMA Numbers ==
  /\ 0 \in Links /\ Eof \in Links /\ Clusters \subseteq Links /\ Clusters \subseteq Nat
  /\ 0 \notin Clusters /\ Eof \notin Clusters /\ Eof \in Nat /\ Links \subseteq Nat
  /\ CountOfClusters \in Nat \ {0} /\ BytsPerClus \in Nat \ {0} /\ MaxSize \in Nat
  /\ IsFiniteSet(Clusters) /\ 2 \in 2 .. Eof /\ Clusters \subseteq 2 .. Eof
BY FatAssumption, FS_Interval DEF Links, Clusters, Eof

(* Goto() gives a call of the type of calls. *)
LEMMA GotoGoes ==
  ASSUME Typed, NEW t \in Threads, NEW pc \in Places, Goto(t, pc)
  PROVE  Goes(t, pc)
<1>1. th' = [th EXCEPT ![t] = [th[t] EXCEPT !.pc = pc]] /\ th \in [Threads -> Calls]
  BY DEF Typed, Goto
<1>2. th[t] \in Calls
  BY <1>1
<1> DEFINE c == [th[t] EXCEPT !.pc = pc]
<1>3. /\ c \in Calls /\ c.op = th[t].op /\ c.pc = pc /\ c.s = th[t].s /\ c.old = th[t].old
      /\ c.lock = th[t].lock /\ c.size = th[t].size /\ c.n = th[t].n /\ c.clus = th[t].clus
      /\ c.prev = th[t].prev /\ c.write = th[t].write
  BY <1>2 DEF Calls
<1> HIDE DEF c
<1>4. th' \in [Threads -> Calls] /\ th'[t] = c /\ \A u \in Threads \ {t} : th'[u] = th[u]
  BY <1>1, <1>3 DEF c
<1> QED
  BY <1>3, <1>4 DEF Goes, CallStep, SameWork, SameChain

(* The idle call. *)
LEMMA IdleIs ==
  /\ Idle \in Calls
  /\ Idle.op = "idle" /\ Idle.pc = "idle" /\ Idle.s = None /\ Idle.old = None
  /\ Idle.lock = None /\ Idle.size = 0 /\ Idle.n = 0 /\ Idle.clus = 0 /\ Idle.prev = 0
  /\ Idle.write = "none"
BY FatAssumption DEF Idle, Calls, Links, Operations, Places

(* Return() gives an idle call. *)
LEMMA ReturnReturns ==
  ASSUME Typed, NEW t \in Threads, Return(t)
  PROVE  Returns(t)
BY IdleIs DEF Typed, Return, Returns, CallStep

(* The types of the locals of a call. *)
LEMMA CallTyped ==
  ASSUME Typed, NEW t \in Threads
  PROVE /\ th[t] \in Calls /\ th[t].op \in Operations
        /\ th[t].pc \in Places /\ th[t].s \in Streams \cup {None} /\ th[t].old \in Streams \cup {None}
        /\ th[t].lock \in Streams \cup {None} /\ th[t].size \in 0 .. MaxSize /\ th[t].n \in Nat
        /\ th[t].clus \in Links /\ th[t].prev \in {0} \cup Clusters
        /\ th[t].write \in {"none", "new", "fcb", "erase"}
        /\ held[t] \in Streams \cup {None}
BY DEF Typed, Calls

(* The types of the members of a stream. *)
LEMMA StreamTyped ==
  ASSUME Typed, NEW s \in Streams, stream[s] # None
  PROVE /\ stream[s] \in FatStreams /\ stream[s].offset \in Slots /\ stream[s].fcb \in Entries
        /\ stream[s].fstClus \in {0} \cup Clusters /\ stream[s].size \in 0 .. MaxSize
        /\ stream[s].removed \in BOOLEAN /\ stream[s].lastPosition \in Nat /\ stream[s].lastClus \in Links
        /\ stream[s].fcb.name \in Names /\ stream[s].fcb.fstClus \in {0} \cup Clusters
        /\ stream[s].fcb.size \in 0 .. MaxSize
BY DEF Typed, FatStreams, Entries

(* The types of the members of an entry. *)
LEMMA EntryTyped ==
  ASSUME Typed, NEW o \in Slots, dir[o] # None
  PROVE /\ dir[o] \in Entries /\ dir[o].name \in Names /\ dir[o].fstClus \in {0} \cup Clusters
        /\ dir[o].size \in 0 .. MaxSize
BY DEF Typed, Entries

(* What the constructor of FatStream gives. *)
LEMMA NewStream ==
  ASSUME NEW o \in Slots, NEW e \in Entries
  PROVE /\ FatStream(o, e) \in FatStreams /\ FatStream(o, e) # None
        /\ FatStream(o, e).offset = o /\ FatStream(o, e).fcb = e /\ FatStream(o, e).fstClus = e.fstClus
        /\ FatStream(o, e).size = e.size /\ ~FatStream(o, e).removed
        /\ FatStream(o, e).lastPosition = 0 /\ FatStream(o, e).lastClus = e.fstClus
<1>1. e.fstClus \in {0} \cup Clusters /\ e.size \in 0 .. MaxSize /\ e.fstClus \in Links
  BY DEF Entries, Links
<1>2. FatStream(o, e) \in FatStreams
  BY <1>1 DEF FatStream, FatStreams
<1> QED
  BY <1>2, NoneAssumption DEF FatStream

(* new FatStream takes a stream that is not in memory. *)
LEMMA NewIsUnused ==
  ASSUME Unused # {}
  PROVE  New \in Streams /\ stream[New] = None
BY DEF New, Unused

(* lookup() of the entry at o: the stream is s. *)
Opens(s, o) ==
    /\ s \in Streams /\ o \in Slots /\ dir[o] # None
    /\ StreamStep(s)
    /\ stream'[s] # None /\ stream'[s].offset = o /\ ~stream'[s].removed
    /\ \/ stream[s] # None /\ stream'[s] = stream[s]
       \/ /\ stream[s] = None /\ stream'[s] = FatStream(o, dir[o])
          /\ \A r \in Streams : Kept(r) => stream[r].offset # o

(* What lookup() opens, a stream in memory or a new one. *)
LEMMA LookupOpens ==
  ASSUME Typed, NEW t \in Threads, NEW o \in Slots, dir[o] # None, Lookup(t, o)
  PROVE  Opens(Looked(o), o)
<1>1. CASE Hashed(o) # {}
  <2>1. Looked(o) \in Hashed(o)
    BY <1>1 DEF Looked
  <2>2. stream' = stream
    BY <1>1 DEF Lookup
  <2>3. Looked(o) \in Streams /\ stream[Looked(o)] # None /\ stream[Looked(o)].offset = o
        /\ ~stream[Looked(o)].removed
    BY <2>1 DEF Hashed
  <2> QED
    BY <2>2, <2>3 DEF Opens, StreamStep, Typed
<1>2. CASE Hashed(o) = {}
  <2>1. Unused # {} /\ Looked(o) = New /\ stream' = [stream EXCEPT ![New] = FatStream(o, dir[o])]
    BY <1>2 DEF Lookup, Looked
  <2>2. New \in Streams /\ stream[New] = None
    BY <2>1, NewIsUnused
  <2>3. FatStream(o, dir[o]) \in FatStreams /\ FatStream(o, dir[o]) # None
        /\ FatStream(o, dir[o]).offset = o /\ ~FatStream(o, dir[o]).removed
    BY NewStream, EntryTyped
  <2>4. \A r \in Streams : Kept(r) => stream[r].offset # o
    BY <1>2 DEF Kept, Hashed
  <2> QED
    BY <2>1, <2>2, <2>3, <2>4 DEF Opens, StreamStep, Typed
<1> QED
  BY <1>1, <1>2

(* create() makes the stream s for the free entry at o. *)
Makes(t, s, o, name) ==
    /\ s \in Streams /\ o \in Slots /\ dir[o] = None
    /\ stream[s] = None /\ StreamStep(s) /\ stream'[s] = FatStream(o, Entry(name, 0, 0))
    /\ rootMonitor = None /\ rootMonitor' = t
    /\ mounted = "yes" /\ Apart(t)
    /\ UNCHANGED <<fat, dir, clean, fsi, mounted, nxtFree, freeCount, held, fatMonitor, pageMonitor>>

(* What create() makes. *)
LEMMA CreateMakes ==
  ASSUME Typed, NEW t \in Threads, NEW name \in Names, NEW c, Create(t, name, c)
  PROVE  /\ \E o \in Slots : Makes(t, New, o, name)
         /\ th' = [th EXCEPT ![t] = [c EXCEPT !.s = New, !.pc = "sync", !.write = "new"]]
<1>1. /\ mounted = "yes" /\ Apart(t) /\ rootMonitor = None /\ rootMonitor' = t
      /\ Unused # {}
      /\ \E o \in Slots : dir[o] = None /\ stream' = [stream EXCEPT ![New] = FatStream(o, Entry(name, 0, 0))]
      /\ th' = [th EXCEPT ![t] = [c EXCEPT !.s = New, !.pc = "sync", !.write = "new"]]
      /\ UNCHANGED <<fat, dir, clean, fsi, mounted, nxtFree, freeCount, held, fatMonitor, pageMonitor>>
  BY Zenon DEF Create, disk
<1>2. PICK o \in Slots : dir[o] = None /\ stream' = [stream EXCEPT ![New] = FatStream(o, Entry(name, 0, 0))]
  BY <1>1
<1>3. New \in Streams /\ stream[New] = None
  BY <1>1, NewIsUnused
<1>4. Entry(name, 0, 0) \in Entries
  BY Numbers DEF Entry, Entries
<1>5. FatStream(o, Entry(name, 0, 0)) \in FatStreams
  BY <1>4, NewStream
<1>6. StreamStep(New) /\ stream'[New] = FatStream(o, Entry(name, 0, 0))
  BY <1>2, <1>3, <1>5 DEF StreamStep, Typed
<1> QED
  BY <1>1, <1>2, <1>3, <1>6, Zenon DEF Makes

(* release(): the call ends, and a removed stream that nobody uses is gone. *)
Drops(t, s) ==
    /\ Returns(t) /\ StreamStep(s)
    /\ \/ stream'[s] = stream[s]
       \/ /\ stream[s].removed /\ stream'[s] = None
          /\ \A u \in Threads : held'[u] # s /\ (u # t => th[u].s # s /\ th[u].old # s)

(* What release() of the stream of a call that ends does. *)
LEMMA ReleaseDrops ==
  ASSUME Typed, NEW t \in Threads, NEW s \in Streams, stream[s] # None, Release(t, s)
  PROVE  Drops(t, s)
<1> DEFINE last == /\ \A u \in Threads : held'[u] # s
                   /\ \A u \in Threads \ {t} : s \notin {th[u].s, th[u].old}
<1>1. /\ stream' = IF stream[s].removed /\ last THEN [stream EXCEPT ![s] = None] ELSE stream
      /\ th' = [th EXCEPT ![t] = Idle]
  <2>1. 2 + (IF last THEN 0 ELSE 1) # 1
    OBVIOUS
  <2> HIDE DEF last
  <2> QED
    BY <2>1 DEF Release, CacheRefs, last
<1>2. Returns(t)
  BY <1>1, IdleIs DEF Returns, CallStep, Typed
<1>3. CASE stream[s].removed /\ last
  <2>1. StreamStep(s) /\ stream'[s] = None
    BY <1>1, <1>3 DEF StreamStep, Typed
  <2>2. \A u \in Threads : held'[u] # s /\ (u # t => th[u].s # s /\ th[u].old # s)
    BY <1>3
  <2> QED
    BY <1>2, <1>3, <2>1, <2>2 DEF Drops
<1>4. CASE ~(stream[s].removed /\ last)
  <2>1. stream' = stream
    BY <1>1, <1>4
  <2> QED
    BY <1>2, <2>1 DEF Drops, StreamStep, Typed
<1> QED
  BY <1>3, <1>4

(* The quotient of two numbers of clusters is one. *)
LEMMA DivNat ==
  ASSUME NEW a \in Nat, NEW B \in Nat \ {0}
  PROVE  a \div B \in Nat
OBVIOUS

(* The clusters a size needs are a number. *)
LEMMA Clusters0 ==
  ASSUME NEW size \in Nat
  PROVE  ClustersOf(size) \in Nat
<1>1. BytsPerClus \in Nat \ {0} /\ size + BytsPerClus - 1 \in Nat
  BY Numbers
<1> QED
  BY <1>1, DivNat DEF ClustersOf

(* What getClusNum() finds has a number the FAT may have. *)
LEMMA SoughtTyped ==
  ASSUME Typed, NEW st \in FatStreams, NEW position \in Nat
  PROVE  /\ getClusNum(st, position) \in Links
         /\ Sought(st, position) \in FatStreams
         /\ LET new == Sought(st, position)
            IN /\ new.offset = st.offset /\ new.fcb = st.fcb /\ new.fstClus = st.fstClus
               /\ new.size = st.size /\ new.removed = st.removed
               /\ new.lastPosition = position \div BytsPerClus
               /\ new.lastClus = getClusNum(st, position)
<1> DEFINE i == position \div BytsPerClus
<1>1. i \in Nat
  BY Numbers, DivNat
<1>2. st.lastPosition \in Nat /\ st.lastClus \in Links /\ st.fstClus \in Links
  BY DEF FatStreams, Links
<1> HIDE DEF i
<1>5. getClusNum(st, position) \in Links
  <2>1. CASE i < st.lastPosition \/ st.lastClus = 0 \/ isEof(st.lastClus)
    <3>1. Walk(fat, st.fstClus, i) \in Links
      BY <1>1, <1>2, WalkLinks DEF Typed
    <3> QED
      BY <2>1, <3>1 DEF getClusNum, Nth, i
  <2>2. CASE ~(i < st.lastPosition \/ st.lastClus = 0 \/ isEof(st.lastClus))
    <3>1. i - st.lastPosition \in Nat
      BY <1>1, <1>2, <2>2
    <3>2. Walk(fat, st.lastClus, i - st.lastPosition) \in Links
      BY <1>2, <3>1, WalkLinks DEF Typed
    <3> QED
      BY <2>2, <3>2 DEF getClusNum, Nth, i
  <2> QED
    BY <2>1, <2>2
<1> QED
  BY <1>1, <1>5 DEF Sought, FatStreams, i

(* The link of a cluster is a link. *)
LEMMA AfterTyped ==
  ASSUME Typed, NEW c \in Links
  PROVE  After(fat, c) \in Links
BY Zenon DEF After, Typed

-----------------------------------------------------------------------------
(* The steps. *)

(* What open() does. *)
LEMMA OpenDoes ==
  ASSUME Typed, NEW t \in Threads, NEW name \in Names, open(t, name)
  PROVE  /\ th[t] = Idle /\ held[t] = None /\ mounted = "yes" /\ rootMonitor = None /\ Apart(t)
         /\ \E s \in Streams, o \in Slots : Opens(s, o) /\ held' = [held EXCEPT ![t] = s]
         /\ UNCHANGED <<fat, dir, clean, fsi, mounted, nxtFree, freeCount, fatMonitor, rootMonitor, pageMonitor, th>>
<1>1. PICK o \in Named(name) : Lookup(t, o) /\ held' = [held EXCEPT ![t] = Looked(o)]
  BY Zenon DEF open
<1>2. o \in Slots /\ dir[o] # None
  BY DEF Named
<1>3. Opens(Looked(o), o) /\ Looked(o) \in Streams
  BY <1>1, <1>2, LookupOpens DEF Opens
<1>4. mounted = "yes" /\ rootMonitor = None /\ Apart(t)
  BY <1>1 DEF Lookup
<1> QED
  BY <1>1, <1>2, <1>3, <1>4, Zenon DEF open, disk, locks

(* What close() does. *)
LEMMA CloseDoes ==
  ASSUME Typed, RefsOK, NEW t \in Threads, close(t)
  PROVE  /\ th[t] = Idle /\ held[t] \in Streams
         /\ held' = [held EXCEPT ![t] = None] /\ Drops(t, held[t])
         /\ UNCHANGED <<fat, dir, clean, fsi, mounted, nxtFree, freeCount, fatMonitor, rootMonitor, pageMonitor>>
<1>1. /\ th[t] = Idle /\ held[t] # None /\ held' = [held EXCEPT ![t] = None] /\ Release(t, held[t])
      /\ UNCHANGED <<fat, dir, clean, fsi, mounted, nxtFree, freeCount, fatMonitor, rootMonitor, pageMonitor>>
  BY Zenon DEF close, disk, locks
<1>2. held[t] \in Streams /\ stream[held[t]] # None
  BY <1>1, CallTyped DEF RefsOK
<1>3. Drops(t, held[t])
  BY <1>1, <1>2, ReleaseDrops
<1> QED
  BY <1>1, <1>2, <1>3

(* What a read or a write at a position does: it moves what getClusNum() remembers. *)
LEMMA SeekDoes ==
  ASSUME Typed, RefsOK, NEW t \in Threads, NEW position \in 0 .. MaxSize - 1, seek(t, position)
  PROVE  LET s == held[t] IN
         /\ th[t] = Idle /\ s \in Streams /\ stream[s] # None /\ Unlocked(s, t) /\ fatMonitor = None
         /\ position < stream[s].size
         /\ StreamStep(s) /\ stream'[s] = Sought(stream[s], position) /\ stream'[s] # None
         /\ UNCHANGED <<fat, dir, clean, fsi, mounted, nxtFree, freeCount, held, fatMonitor, rootMonitor, pageMonitor, th>>
<1> DEFINE s == held[t]
<1>1. /\ th[t] = Idle /\ s # None /\ Unlocked(s, t) /\ fatMonitor = None
      /\ position < stream[s].size
      /\ stream' = [stream EXCEPT ![s] = Sought(stream[s], position)]
      /\ UNCHANGED <<fat, dir, clean, fsi, mounted, nxtFree, freeCount, held, fatMonitor, rootMonitor, pageMonitor, th>>
  BY DEF seek, disk, locks
<1>2. s \in Streams /\ stream[s] # None
  BY <1>1, CallTyped DEF RefsOK
<1>3. stream[s] \in FatStreams /\ position \in Nat
  BY <1>2, StreamTyped
<1>4. Sought(stream[s], position) \in FatStreams
  BY <1>3, SoughtTyped
<1>5. StreamStep(s) /\ stream'[s] = Sought(stream[s], position)
  BY <1>1, <1>2, <1>4 DEF StreamStep, Typed
<1>6. stream'[s] # None
  BY <1>4, <1>5, NoneAssumption
<1> QED
  BY <1>1, <1>2, <1>5, <1>6, Zenon

(* setSize(): the call that is to make a file larger, and the one that has changed the fcb. *)
Grows(t, size) ==
    LET s == held[t] IN
    /\ CallStep(t) /\ stream' = stream
    /\ th'[t].op = "setSize" /\ th'[t].pc = "alloc" /\ th'[t].s = s /\ th'[t].old = None
    /\ th'[t].lock = s /\ th'[t].size = size /\ th'[t].clus = 0 /\ th'[t].prev = 0
    /\ th'[t].write = "none"
    /\ th'[t].n = ClustersOf(size) - ClustersOf(stream[s].size) /\ th'[t].n > 0

(* The call of setSize() that is to make the file smaller. *)
Shrinks(t, size) ==
    LET s == held[t]
        st == stream[s]
    IN
    /\ CallStep(t)
    /\ th'[t].op = "setSize" /\ th'[t].pc = Flushing(s) /\ th'[t].s = s /\ th'[t].old = None
    /\ th'[t].lock = s /\ th'[t].size = size /\ th'[t].n = 0 /\ th'[t].prev = 0
    /\ th'[t].clus = (IF size = 0 THEN st.fstClus ELSE 0) /\ th'[t].write = "fcb"
    /\ ClustersOf(size) <= ClustersOf(st.size)
    /\ StreamStep(s) /\ stream'[s] # None /\ SameHint(s)
    /\ stream'[s].offset = st.offset /\ stream'[s].removed = st.removed /\ stream'[s].size = st.size
    /\ stream'[s].fcb.name = st.fcb.name /\ stream'[s].fcb.size = size
    /\ stream'[s].fcb.fstClus = (IF size = 0 THEN 0 ELSE st.fcb.fstClus)
    /\ stream'[s].fstClus = (IF size = 0 THEN 0 ELSE st.fstClus)

(* What setSize() does up to its first call: return, grow or shrink. *)
LEMMA SetSizeDoes ==
  ASSUME Typed, RefsOK, NEW t \in Threads, NEW size \in 0 .. MaxSize, setSize(t, size)
  PROVE  LET s == held[t] IN
         /\ th[t] = Idle /\ s \in Streams /\ stream[s] # None /\ Unlocked(s, t)
         /\ size # stream[s].size
         /\ Grows(t, size) \/ Shrinks(t, size)
         /\ UNCHANGED <<fat, dir, clean, fsi, mounted, nxtFree, freeCount, held, fatMonitor, rootMonitor, pageMonitor>>
<1> DEFINE s == held[t]
           st == stream[s]
           n == ClustersOf(size) - ClustersOf(st.size)
           c == [Idle EXCEPT !.op = "setSize", !.s = s, !.lock = s, !.size = size]
<1>1. /\ th[t] = Idle /\ s # None /\ Unlocked(s, t) /\ size # st.size
      /\ UNCHANGED <<fat, dir, clean, fsi, mounted, nxtFree, freeCount, held, fatMonitor, rootMonitor, pageMonitor>>
      /\ \/ n > 0 /\ th' = [th EXCEPT ![t] = [c EXCEPT !.pc = "alloc", !.n = n]] /\ stream' = stream
         \/ /\ n <= 0
            /\ stream' = [stream EXCEPT ![s].fcb.size = size,
                                        ![s].fcb.fstClus = IF size = 0 THEN 0 ELSE @,
                                        ![s].fstClus = IF size = 0 THEN 0 ELSE @]
            /\ th' = [th EXCEPT ![t] = [c EXCEPT !.pc = Flushing(s), !.write = "fcb",
                                                 !.clus = IF size = 0 THEN st.fstClus ELSE 0]]
  BY DEF setSize, FlushFirst, disk, locks
<1>2. s \in Streams /\ st # None
  BY <1>1, CallTyped DEF RefsOK
<1>3. st \in FatStreams /\ st.size \in Nat /\ size \in Nat /\ st.fstClus \in Links
  BY <1>2, StreamTyped DEF Links
<1>4. ClustersOf(size) \in Nat /\ ClustersOf(st.size) \in Nat
  BY <1>3, Clusters0
<1>5. CASE n > 0 /\ th' = [th EXCEPT ![t] = [c EXCEPT !.pc = "alloc", !.n = n]] /\ stream' = stream
  <2> DEFINE k == [c EXCEPT !.pc = "alloc", !.n = n]
  <2>1. n \in Nat /\ n > 0
    BY <1>4, <1>5
  <2> HIDE DEF s, n
  <2>2. /\ k \in Calls /\ k.op = "setSize" /\ k.pc = "alloc" /\ k.s = s /\ k.old = None
        /\ k.lock = s /\ k.size = size /\ k.clus = 0 /\ k.prev = 0 /\ k.write = "none" /\ k.n = n
    BY <1>2, <2>1, Numbers DEF Calls, Idle, Operations, Places
  <2> HIDE DEF k
  <2>3. CallStep(t) /\ th'[t] = k
    BY <1>5, <2>2 DEF CallStep, Typed, k
  <2>4. Grows(t, size)
    BY <1>5, <2>1, <2>2, <2>3 DEF Grows, s, n
  <2> QED
    BY <1>1, <1>2, <2>4 DEF s
<1>6. CASE /\ n <= 0
           /\ stream' = [stream EXCEPT ![s].fcb.size = size,
                                        ![s].fcb.fstClus = IF size = 0 THEN 0 ELSE @,
                                        ![s].fstClus = IF size = 0 THEN 0 ELSE @]
           /\ th' = [th EXCEPT ![t] = [c EXCEPT !.pc = Flushing(s), !.write = "fcb",
                                                !.clus = IF size = 0 THEN st.fstClus ELSE 0]]
  <2> DEFINE place == Flushing(s)
             first == IF size = 0 THEN st.fstClus ELSE 0
             k == [c EXCEPT !.pc = place, !.write = "fcb", !.clus = first]
  <2>1. ClustersOf(size) <= ClustersOf(st.size) /\ first \in Links /\ place \in {"sync", "written"}
    BY <1>3, <1>4, <1>6, Numbers DEF Flushing
  <2> DEFINE e == [st.fcb EXCEPT !.size = size, !.fstClus = IF size = 0 THEN 0 ELSE st.fcb.fstClus]
             new == [st EXCEPT !.fcb = e, !.fstClus = IF size = 0 THEN 0 ELSE st.fstClus]
  <2>2. e \in Entries /\ e.name = st.fcb.name /\ e.size = size
        /\ e.fstClus = (IF size = 0 THEN 0 ELSE st.fcb.fstClus)
    BY <1>2, StreamTyped DEF Entries
  <2>3. /\ new \in FatStreams /\ new.offset = st.offset /\ new.removed = st.removed
        /\ new.size = st.size /\ new.fcb = e /\ new.lastPosition = st.lastPosition
        /\ new.lastClus = st.lastClus /\ new.fstClus = (IF size = 0 THEN 0 ELSE st.fstClus)
    <3> HIDE DEF e
    <3> QED
      BY <1>3, <2>2 DEF FatStreams
  <2>4. stream' = [stream EXCEPT ![s] = new]
    BY <1>2, <1>3, <1>6 DEF FatStreams, Entries, Typed
  <2> HIDE DEF s, place, first, new
  <2>5. /\ k \in Calls /\ k.op = "setSize" /\ k.pc = place /\ k.s = s /\ k.old = None
        /\ k.lock = s /\ k.size = size /\ k.clus = first /\ k.prev = 0 /\ k.write = "fcb" /\ k.n = 0
    BY <1>2, <2>1, Numbers DEF Calls, Idle, Operations, Places
  <2> HIDE DEF k
  <2>6. CallStep(t) /\ th'[t] = k
    BY <1>6, <2>5 DEF CallStep, Typed, k, place, first
  <2>7. StreamStep(s) /\ stream'[s] = new /\ new # None
    BY <1>2, <2>3, <2>4, NoneAssumption DEF StreamStep, Typed
  <2>8. Shrinks(t, size)
    <3> HIDE DEF e
    <3>1. stream'[s].fcb.name = st.fcb.name /\ stream'[s].fcb.size = size
          /\ stream'[s].fcb.fstClus = (IF size = 0 THEN 0 ELSE st.fcb.fstClus)
      BY <2>2, <2>3, <2>7
    <3> QED
      BY <2>1, <2>3, <2>5, <2>6, <2>7, <3>1 DEF Shrinks, SameHint, s, place, first
  <2> QED
    BY <1>1, <1>2, <2>8 DEF s
<1> QED
  BY <1>1, <1>5, <1>6

(* What allocCluster() does up to its loop. *)
LEMMA AllocClusterDoes ==
  ASSUME Typed, NEW t \in Threads, allocCluster(t)
  PROVE  /\ th[t].pc = "alloc" /\ fatMonitor = None
         /\ UNCHANGED <<fat, dir, clean, fsi, mounted, nxtFree, freeCount, stream, held, rootMonitor, pageMonitor>>
         /\ \/ Returns(t) /\ fatMonitor' = fatMonitor
            \/ Goes(t, "mark") /\ fatMonitor' = t /\ freeCount >= th[t].n
<1>1. /\ th[t].pc = "alloc" /\ fatMonitor = None
      /\ UNCHANGED <<fat, dir, clean, fsi, mounted, nxtFree, freeCount, stream, held, rootMonitor, pageMonitor>>
      /\ \/ Return(t) /\ fatMonitor' = fatMonitor
         \/ Goto(t, "mark") /\ fatMonitor' = t /\ freeCount >= th[t].n
  BY Zenon DEF allocCluster, disk
<1>2. "mark" \in Places
  BY DEF Places
<1> QED
  BY <1>1, <1>2, GotoGoes, ReturnReturns, Zenon

(* The cluster that allocCluster() finds is free. *)
LEMMA NextFreeIs ==
  ASSUME Typed, FreeClusters # {}
  PROVE  NextFree \in FreeClusters
<1> DEFINE start == IF isEof(nxtFree) THEN 2 ELSE nxtFree
           ahead == {c \in FreeClusters : start <= c}
           N == IF ahead = {} THEN FreeClusters ELSE ahead
<1>1. N \in SUBSET Nat /\ N # {} /\ N \subseteq FreeClusters
  BY Numbers DEF FreeClusters
<1> HIDE DEF N
<1>2. Min(N) \in N
  BY <1>1, MinOfNaturals
<1>3. NextFree = Min(N)
  BY DEF NextFree, N
<1> QED
  BY <1>1, <1>2, <1>3

(* What mark() does. *)
LEMMA MarkDoes ==
  ASSUME Typed, NEW t \in Threads, mark(t)
  PROVE  LET c == NextFree IN
         /\ th[t].pc = "mark" /\ c \in Clusters /\ fat[c] = 0
         /\ fat' = [fat EXCEPT ![c] = Eof] /\ freeCount' = freeCount - 1 /\ nxtFree' = c
         /\ Goes(t, "link")
         /\ UNCHANGED <<dir, clean, fsi, mounted, stream, held, fatMonitor, rootMonitor, pageMonitor>>
<1>1. /\ th[t].pc = "mark" /\ FreeClusters # {}
      /\ fat' = [fat EXCEPT ![NextFree] = Eof] /\ freeCount' = freeCount - 1 /\ nxtFree' = NextFree
      /\ Goto(t, "link")
      /\ UNCHANGED <<dir, clean, fsi, mounted, stream, held, fatMonitor, rootMonitor, pageMonitor>>
  BY Zenon DEF mark, locks
<1>2. NextFree \in Clusters /\ fat[NextFree] = 0
  BY <1>1, NextFreeIs DEF FreeClusters
<1>3. "link" \in Places
  BY DEF Places
<1>4. Goes(t, "link")
  BY <1>1, <1>3, GotoGoes
<1> QED
  BY <1>1, <1>2, <1>4, Zenon

(* What link() does. *)
LEMMA LinkDoes ==
  ASSUME Typed, PlacesOK, NEW t \in Threads, link(t)
  PROVE  LET c == th[t] IN
         /\ c.pc = "link" /\ nxtFree \in Clusters /\ c.n \in Nat \ {0}
         /\ fat' = (IF c.prev = 0 THEN fat ELSE [fat EXCEPT ![c.prev] = nxtFree])
         /\ CallStep(t) /\ SameWork(t) /\ th'[t].write = c.write
         /\ th'[t].prev = nxtFree /\ th'[t].n = c.n - 1
         /\ th'[t].clus = (IF c.prev = 0 THEN nxtFree ELSE c.clus)
         /\ th'[t].pc = (IF c.n > 1 THEN "mark" ELSE "chain")
         /\ nxtFree' = nxtFree + 1
         /\ fatMonitor' = (IF c.n > 1 THEN t ELSE None)
         /\ UNCHANGED <<dir, clean, fsi, mounted, freeCount, stream, held, rootMonitor, pageMonitor>>
<1> DEFINE c == th[t]
           pc == IF c.n > 1 THEN "mark" ELSE "chain"
           first == IF c.prev = 0 THEN nxtFree ELSE c.clus
           new == [c EXCEPT !.prev = nxtFree, !.n = c.n - 1, !.clus = first, !.pc = pc]
<1>1. /\ c.pc = "link"
      /\ fat' = (IF c.prev = 0 THEN fat ELSE [fat EXCEPT ![c.prev] = nxtFree])
      /\ th' = [th EXCEPT ![t].prev = nxtFree, ![t].n = @ - 1,
                          ![t].clus = IF c.prev = 0 THEN nxtFree ELSE @,
                          ![t].pc = IF c.n > 1 THEN "mark" ELSE "chain"]
      /\ nxtFree' = nxtFree + 1
      /\ fatMonitor' = (IF c.n > 1 THEN t ELSE None)
      /\ UNCHANGED <<dir, clean, fsi, mounted, freeCount, stream, held, rootMonitor, pageMonitor>>
  BY DEF link
<1>2. nxtFree \in Clusters /\ c.n \in Nat \ {0} /\ c \in Calls
  BY <1>1, CallTyped DEF PlacesOK, CallOK, SharedOK
<1>3. th' = [th EXCEPT ![t] = new]
  BY <1>1, <1>2 DEF Typed, Calls
<1>4. pc \in Places /\ first \in Links /\ c.n - 1 \in Nat
  BY <1>2, CallTyped DEF Places, Links
<1> HIDE DEF pc, first, c
<1>5. /\ new \in Calls /\ new.op = c.op /\ new.s = c.s /\ new.old = c.old /\ new.lock = c.lock
      /\ new.size = c.size /\ new.write = c.write /\ new.prev = nxtFree /\ new.n = c.n - 1
      /\ new.clus = first /\ new.pc = pc
  BY <1>2, <1>4 DEF Calls
<1> HIDE DEF new
<1>6. CallStep(t) /\ th'[t] = new
  BY <1>3, <1>5 DEF CallStep, Typed
<1> QED
  BY <1>1, <1>2, <1>5, <1>6 DEF SameWork, pc, first, c

(* The call goes on at pc, to write an entry, with a chain to free. *)
NextCall(t, pc, write, clus) ==
    th' = [th EXCEPT ![t] = [th[t] EXCEPT !.pc = pc, !.write = write, !.clus = clus]]

(* It is a call of the type of calls. *)
LEMMA GoesOn ==
  ASSUME Typed, NEW t \in Threads, NEW pc \in Places, NEW write \in {"none", "new", "fcb", "erase"},
         NEW clus \in Links, NextCall(t, pc, write, clus)
  PROVE  /\ CallStep(t) /\ SameWork(t) /\ th'[t].n = th[t].n /\ th'[t].prev = th[t].prev
         /\ th'[t].pc = pc /\ th'[t].write = write /\ th'[t].clus = clus
<1> DEFINE new == [th[t] EXCEPT !.pc = pc, !.write = write, !.clus = clus]
<1>1. th[t] \in Calls
  BY CallTyped
<1>2. /\ new \in Calls /\ new.op = th[t].op /\ new.s = th[t].s /\ new.old = th[t].old
      /\ new.lock = th[t].lock /\ new.size = th[t].size /\ new.n = th[t].n /\ new.prev = th[t].prev
      /\ new.pc = pc /\ new.write = write /\ new.clus = clus
  BY <1>1 DEF Calls
<1> HIDE DEF new
<1>3. CallStep(t) /\ th'[t] = new
  BY <1>2 DEF CallStep, Typed, new, NextCall
<1> QED
  BY <1>2, <1>3 DEF SameWork

(* chain(): the stream that has been sought, with the new size in its fcb; or with the first cluster. *)
ChainEffect(t) ==
    LET c    == th[t]
        s    == c.s
        st   == stream[s]
        last == Sought(st, st.size - 1)
    IN
    /\ StreamStep(s) /\ stream'[s] # None
    /\ stream'[s].offset = st.offset /\ stream'[s].removed = st.removed /\ stream'[s].size = st.size
    /\ stream'[s].fcb.name = st.fcb.name /\ stream'[s].fcb.size = c.size
    /\ IF st.size > 0
       THEN /\ fat' = [fat EXCEPT ![last.lastClus] = c.clus]
            /\ stream'[s].fcb.fstClus = st.fcb.fstClus /\ stream'[s].fstClus = st.fstClus
            /\ stream'[s].lastPosition = last.lastPosition /\ stream'[s].lastClus = last.lastClus
       ELSE /\ fat' = fat /\ SameHint(s)
            /\ stream'[s].fcb.fstClus = c.clus /\ stream'[s].fstClus = c.clus

(* What chain() does. *)
LEMMA ChainDoes ==
  ASSUME Typed, PlacesOK, RefsOK, NEW t \in Threads, chain(t)
  PROVE  /\ th[t].pc = "chain" /\ th[t].op = "setSize" /\ fatMonitor = None /\ th[t].s \in Streams
         /\ stream[th[t].s] # None
         /\ ChainEffect(t)
         /\ CallStep(t) /\ SameWork(t) /\ th'[t].n = th[t].n /\ th'[t].prev = th[t].prev
         /\ th'[t].pc = Flushing(th[t].s) /\ th'[t].write = "fcb" /\ th'[t].clus = 0
         /\ UNCHANGED <<dir, clean, fsi, mounted, nxtFree, freeCount, held, fatMonitor, rootMonitor, pageMonitor>>
<1> DEFINE c    == th[t]
           s    == c.s
           st   == stream[s]
           last == Sought(st, st.size - 1)
<1>1. /\ c.pc = "chain" /\ fatMonitor = None
      /\ IF st.size > 0
         THEN /\ fat' = [fat EXCEPT ![last.lastClus] = c.clus]
              /\ stream' = [stream EXCEPT ![s] = [last EXCEPT !.fcb.size = c.size]]
         ELSE /\ stream' = [stream EXCEPT ![s].fstClus = c.clus,
                                          ![s].fcb = [@ EXCEPT !.fstClus = c.clus, !.size = c.size]]
              /\ fat' = fat
      /\ th' = [th EXCEPT ![t].pc = Flushing(s), ![t].write = "fcb", ![t].clus = 0]
      /\ UNCHANGED <<dir, clean, fsi, mounted, nxtFree, freeCount, held, fatMonitor, rootMonitor, pageMonitor>>
  BY DEF chain, locks
<1>2. c \in Calls /\ c.op = "setSize" /\ s \in Streams /\ st # None /\ c.clus \in {0} \cup Clusters
      /\ c.size \in 0 .. MaxSize
  <2>1. c \in Calls /\ c.op \in Operations
        /\ c.size \in 0 .. MaxSize
    BY CallTyped
  <2>2. c.op = "setSize"
    BY <1>1, <2>1 DEF PlacesOK, CallOK, SharedOK, Writes, Erasing, Flushes, Operations
  <2>3. s \in Streams /\ c.clus \in {0} \cup Clusters
    BY <1>1, <2>2 DEF PlacesOK, CallOK, SharedOK
  <2> QED
    BY <2>1, <2>2, <2>3, NoneAssumption, FatAssumption DEF RefsOK
<1>3. st \in FatStreams /\ st.fcb \in Entries /\ st.size \in Nat
  BY <1>2, StreamTyped
<1>4. Flushing(s) \in {"sync", "written"}
  BY DEF Flushing
<1>5. /\ CallStep(t) /\ SameWork(t) /\ th'[t].n = th[t].n /\ th'[t].prev = th[t].prev
      /\ th'[t].pc = Flushing(th[t].s) /\ th'[t].write = "fcb" /\ th'[t].clus = 0
  <2>1. NextCall(t, Flushing(s), "fcb", 0)
    BY <1>1 DEF Typed, NextCall
  <2>2. Flushing(s) \in Places /\ 0 \in Links
    BY <1>4, Numbers DEF Places
  <2> QED
    BY <2>1, <2>2, GoesOn
<1>6. ChainEffect(t)
  <2>1. CASE st.size > 0
    <3>1. st.size - 1 \in Nat
      BY <1>3, <2>1
    <3>2. /\ last \in FatStreams /\ last.offset = st.offset /\ last.fcb = st.fcb
          /\ last.fstClus = st.fstClus /\ last.size = st.size /\ last.removed = st.removed
      BY <1>3, <3>1, SoughtTyped
    <3> DEFINE e == [st.fcb EXCEPT !.size = c.size]
               new == [last EXCEPT !.fcb = e]
    <3>3. e \in Entries /\ e.name = st.fcb.name /\ e.fstClus = st.fcb.fstClus /\ e.size = c.size
      BY <1>2, <1>3 DEF Entries
    <3>4. stream' = [stream EXCEPT ![s] = new] /\ fat' = [fat EXCEPT ![last.lastClus] = c.clus]
      <4> HIDE DEF last
      <4> QED
        BY <1>1, <2>1, <3>2 DEF FatStreams
    <3> HIDE DEF e, last
    <3>5. /\ new \in FatStreams /\ new.offset = st.offset /\ new.fcb = e /\ new.fstClus = st.fstClus
          /\ new.size = st.size /\ new.removed = st.removed
          /\ new.lastPosition = last.lastPosition /\ new.lastClus = last.lastClus
      BY <3>2, <3>3 DEF FatStreams
    <3> HIDE DEF new
    <3>6. StreamStep(s) /\ stream'[s] = new /\ new # None
      BY <1>2, <3>4, <3>5, NoneAssumption DEF StreamStep, Typed
    <3> QED
      BY <2>1, <3>3, <3>4, <3>5, <3>6 DEF ChainEffect, last
  <2>2. CASE ~(st.size > 0)
    <3> DEFINE e == [st.fcb EXCEPT !.fstClus = c.clus, !.size = c.size]
               new == [st EXCEPT !.fstClus = c.clus, !.fcb = e]
    <3>3. e \in Entries /\ e.name = st.fcb.name /\ e.fstClus = c.clus /\ e.size = c.size
      BY <1>2, <1>3 DEF Entries
    <3>4. stream' = [stream EXCEPT ![s] = new] /\ fat' = fat
      BY <1>1, <2>2, <1>3, <1>2 DEF FatStreams, Typed
    <3> HIDE DEF e
    <3>5. /\ new \in FatStreams /\ new.offset = st.offset /\ new.fcb = e /\ new.fstClus = c.clus
          /\ new.size = st.size /\ new.removed = st.removed
          /\ new.lastPosition = st.lastPosition /\ new.lastClus = st.lastClus
      BY <1>2, <1>3, <3>3 DEF FatStreams
    <3> HIDE DEF new
    <3>6. StreamStep(s) /\ stream'[s] = new /\ new # None
      BY <1>2, <3>4, <3>5, NoneAssumption DEF StreamStep, Typed
    <3> QED
      BY <2>2, <3>3, <3>4, <3>5, <3>6 DEF ChainEffect, SameHint
  <2> QED
    BY <2>1, <2>2
<1> QED
  BY <1>1, <1>2, <1>5, <1>6

(* The operation of a place that only setSize(), or setSize() and close(), have. *)
LEMMA OpOf ==
  ASSUME Typed, PlacesOK, NEW t \in Threads
  PROVE  /\ th[t].pc \in {"alloc", "mark", "link", "chain", "cut"} => th[t].op = "setSize"
         /\ th[t].pc \in {"free", "count"} => th[t].op \in {"setSize", "close"}
         /\ th[t].pc = "create" => th[t].op = "rename"
         /\ th[t].pc \in {"swap", "flush"} => th[t].op = "rename"
         /\ th[t].pc \in {"remove", "erase"} => th[t].op \in {"unbind", "rename"}
         /\ th[t].op = "setSize" => th[t].s \in Streams
<1>1. th[t].op \in Operations
  BY CallTyped
<1> QED
  BY <1>1 DEF PlacesOK, CallOK, SharedOK, Writes, Erasing, Flushes, Operations

(* What cut() does. *)
LEMMA CutDoes ==
  ASSUME Typed, PlacesOK, RefsOK, NEW t \in Threads, cut(t)
  PROVE  LET c    == th[t]
             last == getClusNum(stream[c.s], c.size - 1)
         IN
         /\ c.pc = "cut" /\ c.op = "setSize" /\ fatMonitor = None /\ c.s \in Streams /\ stream[c.s] # None
         /\ UNCHANGED <<dir, clean, fsi, mounted, nxtFree, freeCount, stream, held, fatMonitor, rootMonitor, pageMonitor>>
         /\ CallStep(t) /\ SameWork(t) /\ th'[t].n = c.n /\ th'[t].prev = c.prev /\ th'[t].write = c.write
         /\ th'[t].pc = "free"
         /\ IF c.size = 0
            THEN fat' = fat /\ th'[t].clus = c.clus
            ELSE /\ last \in Links
                 /\ fat' = [fat EXCEPT ![last] = Eof] /\ th'[t].clus = After(fat, last)
<1> DEFINE c    == th[t]
           last == getClusNum(stream[c.s], c.size - 1)
<1>1. /\ c.pc = "cut" /\ fatMonitor = None
      /\ UNCHANGED <<dir, clean, fsi, mounted, nxtFree, freeCount, stream, held, fatMonitor, rootMonitor, pageMonitor>>
      /\ IF c.size = 0
         THEN Goto(t, "free") /\ fat' = fat
         ELSE /\ fat' = [fat EXCEPT ![last] = Eof]
              /\ th' = [th EXCEPT ![t].pc = "free", ![t].clus = After(fat, last)]
  BY DEF cut, locks
<1>2. c \in Calls /\ c.op = "setSize" /\ c.s \in Streams /\ stream[c.s] # None /\ c.size \in Nat
  BY <1>1, CallTyped, OpOf, FatAssumption DEF RefsOK
<1>3. "free" \in Places
  BY DEF Places
<1>4. CASE c.size = 0
  <2>1. Goes(t, "free") /\ fat' = fat
    BY <1>1, <1>3, <1>4, GotoGoes
  <2> QED
    BY <1>1, <1>2, <1>4, <2>1 DEF Goes, SameChain
<1>5. CASE c.size # 0
  <2>1. c.size - 1 \in Nat /\ stream[c.s] \in FatStreams
    BY <1>2, <1>5, StreamTyped
  <2>2. last \in Links
    BY <2>1, SoughtTyped
  <2>3. After(fat, last) \in Links
    BY <2>2, AfterTyped
  <2> HIDE DEF last
  <2>4. NextCall(t, "free", th[t].write, After(fat, last))
    BY <1>1, <1>2, <1>5 DEF Typed, Calls, NextCall
  <2>5. th[t].write \in {"none", "new", "fcb", "erase"}
    BY CallTyped
  <2>6. /\ CallStep(t) /\ SameWork(t) /\ th'[t].n = th[t].n /\ th'[t].prev = th[t].prev
        /\ th'[t].pc = "free" /\ th'[t].write = th[t].write /\ th'[t].clus = After(fat, last)
    BY <1>3, <2>3, <2>4, <2>5, GoesOn
  <2> QED
    BY <1>1, <1>2, <1>5, <2>2, <2>6 DEF last
<1> QED
  BY <1>4, <1>5

(* freeCluster() at the end of the chain, and before. *)
Ends(t) ==
    LET c == th[t] IN
    /\ c.clus \in {0, Eof} /\ fat' = fat /\ Returns(t)
    /\ \/ c.op # "setSize" /\ stream' = stream
       \/ /\ c.op = "setSize" /\ c.s \in Streams /\ stream[c.s] # None
          /\ StreamStep(c.s) /\ stream'[c.s] # None
          /\ stream'[c.s].offset = stream[c.s].offset /\ stream'[c.s].removed = stream[c.s].removed
          /\ stream'[c.s].fcb = stream[c.s].fcb /\ stream'[c.s].fstClus = stream[c.s].fstClus
          /\ stream'[c.s].size = c.size
          /\ stream'[c.s].lastPosition = 0 /\ stream'[c.s].lastClus = stream[c.s].fstClus

(* freeCluster() before the end of the chain. *)
Frees(t) ==
    LET c == th[t] IN
    /\ c.clus \in Clusters /\ fat' = [fat EXCEPT ![c.clus] = 0] /\ stream' = stream
    /\ CallStep(t) /\ SameWork(t) /\ th'[t].n = c.n /\ th'[t].prev = c.prev /\ th'[t].write = c.write
    /\ th'[t].pc = "count" /\ th'[t].clus = fat[c.clus]

(* What freeCluster() does. *)
LEMMA FreeClusterDoes ==
  ASSUME Typed, PlacesOK, RefsOK, NEW t \in Threads, freeCluster(t)
  PROVE  /\ th[t].pc = "free" /\ fatMonitor = None /\ th[t].op \in {"setSize", "close"}
         /\ UNCHANGED <<dir, clean, fsi, mounted, nxtFree, freeCount, held, fatMonitor, rootMonitor, pageMonitor>>
         /\ Ends(t) \/ Frees(t)
<1> DEFINE c == th[t]
<1>1. /\ c.pc = "free" /\ fatMonitor = None
      /\ UNCHANGED <<dir, clean, fsi, mounted, nxtFree, freeCount, held, fatMonitor, rootMonitor, pageMonitor>>
      /\ IF c.clus < 2 \/ isEof(c.clus)
         THEN /\ Return(t)
              /\ stream' = IF c.op = "setSize" THEN [stream EXCEPT ![c.s] = Shrunk(@, c.size)]
                           ELSE stream
              /\ fat' = fat
         ELSE /\ fat' = [fat EXCEPT ![c.clus] = 0]
              /\ th' = [th EXCEPT ![t].pc = "count", ![t].clus = fat[c.clus]]
              /\ stream' = stream
  BY DEF freeCluster, locks
<1>2. c \in Calls /\ c.op \in {"setSize", "close"} /\ c.clus \in Links /\ c.size \in 0 .. MaxSize
  BY <1>1, CallTyped, OpOf
<1>3. CASE c.clus < 2 \/ isEof(c.clus)
  <2>1. Returns(t) /\ fat' = fat
        /\ stream' = IF c.op = "setSize" THEN [stream EXCEPT ![c.s] = Shrunk(@, c.size)] ELSE stream
    BY <1>1, <1>3, ReturnReturns
  <2>2. c.clus \in {0, Eof}
    BY <1>2, <1>3, Numbers DEF Links, Clusters, Eof, isEof
  <2>3. CASE c.op # "setSize"
    BY <1>1, <1>2, <2>1, <2>2, <2>3 DEF Ends
  <2>4. CASE c.op = "setSize"
    <3>1. c.s \in Streams /\ stream[c.s] # None
      BY <2>4, OpOf, FatAssumption DEF RefsOK
    <3> DEFINE s == c.s
               st == stream[s]
               new == Shrunk(st, c.size)
    <3>2. st \in FatStreams /\ st.fstClus \in Links
      BY <3>1, StreamTyped DEF Links
    <3>3. /\ new \in FatStreams /\ new.offset = st.offset /\ new.removed = st.removed
          /\ new.fcb = st.fcb /\ new.fstClus = st.fstClus /\ new.size = c.size
          /\ new.lastPosition = 0 /\ new.lastClus = st.fstClus
      <4> HIDE DEF s
      <4> QED
        BY <1>2, <3>2 DEF Shrunk, FatStreams
    <3>4. stream' = [stream EXCEPT ![s] = new]
      BY <2>1, <2>4, <3>1
    <3> HIDE DEF new
    <3>5. StreamStep(s) /\ stream'[s] = new /\ new # None
      BY <3>1, <3>3, <3>4, NoneAssumption DEF StreamStep, Typed
    <3> QED
      BY <1>1, <1>2, <2>1, <2>2, <2>4, <3>1, <3>3, <3>5 DEF Ends
  <2> QED
    BY <2>3, <2>4
<1>4. CASE ~(c.clus < 2 \/ isEof(c.clus))
  <2>1. c.clus \in Clusters
    BY <1>2, <1>4, Numbers DEF Links, Clusters, Eof, isEof
  <2>2. fat[c.clus] \in Links /\ "count" \in Places /\ c.write \in {"none", "new", "fcb", "erase"}
    BY <2>1, CallTyped DEF Typed, Places
  <2>3. NextCall(t, "count", th[t].write, fat[c.clus])
    BY <1>1, <1>2, <1>4 DEF Typed, Calls, NextCall
  <2>4. /\ CallStep(t) /\ SameWork(t) /\ th'[t].n = th[t].n /\ th'[t].prev = th[t].prev
        /\ th'[t].pc = "count" /\ th'[t].write = th[t].write /\ th'[t].clus = fat[c.clus]
    BY <2>2, <2>3, GoesOn
  <2>5. Frees(t)
    BY <1>1, <1>4, <2>1, <2>4 DEF Frees
  <2> QED
    BY <1>1, <1>2, <2>5
<1> QED
  BY <1>3, <1>4

(* What count() does. *)
LEMMA CountDoes ==
  ASSUME Typed, PlacesOK, NEW t \in Threads, count(t)
  PROVE  /\ th[t].pc = "count" /\ th[t].op \in {"setSize", "close"}
         /\ freeCount' \in {freeCount + 1, freeCount}
         /\ freeCount' # freeCount + 1 => "race" \in Allow
         /\ Goes(t, "free")
         /\ UNCHANGED <<fat, dir, clean, fsi, mounted, nxtFree, stream, held, fatMonitor, rootMonitor, pageMonitor>>
<1>1. /\ th[t].pc = "count" /\ Goto(t, "free")
      /\ UNCHANGED <<fat, dir, clean, fsi, mounted, nxtFree, stream, held, fatMonitor, rootMonitor, pageMonitor>>
  BY Zenon DEF count, disk, locks
<1>2. freeCount' \in {freeCount + 1, freeCount} /\ (freeCount' # freeCount + 1 => "race" \in Allow)
  BY DEF count
<1>3. "free" \in Places
  BY DEF Places
<1> QED
  BY <1>1, <1>2, <1>3, GotoGoes, OpOf

(* What sync() does. *)
LEMMA SyncDoes ==
  ASSUME Typed, NEW t \in Threads, sync(t)
  PROVE  /\ th[t].pc = "sync" /\ Goes(t, "entry") /\ pageMonitor = None /\ pageMonitor' = t
         /\ UNCHANGED <<fat, dir, clean, fsi, mounted, nxtFree, freeCount, stream, held, fatMonitor, rootMonitor>>
<1>1. "entry" \in Places
  BY DEF Places
<1>2. /\ th[t].pc = "sync" /\ Goto(t, "entry") /\ pageMonitor = None /\ pageMonitor' = t
      /\ UNCHANGED <<fat, dir, clean, fsi, mounted, nxtFree, freeCount, stream, held, fatMonitor, rootMonitor>>
  BY Zenon DEF sync, disk
<1> QED
  BY <1>1, <1>2, GotoGoes

(* What follows the write of an entry. *)
WroteNew(t) == /\ th[t].write = "new" /\ th[t].op = "create" /\ th[t].s \in Streams
               /\ held' = [held EXCEPT ![t] = th[t].s] /\ Returns(t) /\ stream' = stream
(* rename() has its new entry: it goes on to exchange the names. *)
WroteNewName(t) == /\ th[t].write = "new" /\ th[t].op = "rename"
                   /\ Goes(t, "swap") /\ held' = held /\ stream' = stream
(* rename() has written the entry of one stream: it goes on to remove the other. *)
WroteMoved(t) ==
    /\ th[t].write = "fcb" /\ th[t].op = "rename" /\ th[t].s \in Streams /\ th[t].old \in Streams
    /\ held' = held /\ stream' = stream
    /\ CallStep(t) /\ SameChain(t) /\ th'[t].op = "rename" /\ th'[t].size = th[t].size
    /\ th'[t].write = "fcb" /\ th'[t].pc = "remove" /\ th'[t].lock = None
    /\ th'[t].s = th[t].old /\ th'[t].old = th[t].s
(* setSize() has written the entry of a larger file: it has the size, and returns. *)
WroteLarger(t) ==
    LET s == th[t].s IN
    /\ th[t].write = "fcb" /\ th[t].op = "setSize" /\ s \in Streams /\ stream[s] # None
    /\ stream[s].size < th[t].size
    /\ held' = held /\ Returns(t)
    /\ StreamStep(s) /\ stream'[s] # None /\ SameHint(s)
    /\ stream'[s].offset = stream[s].offset /\ stream'[s].removed = stream[s].removed
    /\ stream'[s].fcb = stream[s].fcb /\ stream'[s].fstClus = stream[s].fstClus
    /\ stream'[s].size = th[t].size
(* setSize() has written the entry of a smaller file: it goes on to cut the chain. *)
WroteSmaller(t) == /\ th[t].write = "fcb" /\ th[t].op = "setSize"
                   /\ ~(stream[th[t].s].size < th[t].size)
                   /\ Goes(t, "cut") /\ held' = held /\ stream' = stream
(* unbind() or rename() has freed the entry: the stream may go. *)
WroteErased(t) == /\ th[t].write = "erase" /\ th[t].op \in {"unbind", "rename"} /\ th[t].s \in Streams
                  /\ held' = held /\ Drops(t, th[t].s)

(* One of these follows. *)
LEMMA WrittenIs ==
  ASSUME Typed, PlacesOK, RefsOK, NEW t \in Threads, th[t].pc \in {"entry", "written"}, Written(t)
  PROVE  \/ WroteNew(t) \/ WroteNewName(t) \/ WroteMoved(t)
         \/ WroteLarger(t) \/ WroteSmaller(t) \/ WroteErased(t)
<1> DEFINE c == th[t]
<1>1. c \in Calls /\ c.op \in Operations
  BY CallTyped
<1>2. \/ c.write = "new" /\ c.op = "create"
      \/ c.write = "new" /\ c.op = "rename"
      \/ c.write = "fcb" /\ c.op = "rename"
      \/ c.write = "fcb" /\ c.op = "setSize"
      \/ c.write = "erase" /\ c.op \in {"unbind", "rename"}
  <2>1. c.op \in {"setSize", "create", "unbind", "rename"}
    BY <1>1 DEF PlacesOK, CallOK, SharedOK, Operations
  <2>2. c.op = "setSize" => c.write = "fcb"
    BY DEF PlacesOK, CallOK, SharedOK
  <2>3. c.op = "create" => c.write = "new"
    BY DEF PlacesOK, CallOK, SharedOK, Writes
  <2>4. c.op = "unbind" => c.write = "erase"
    BY DEF PlacesOK, CallOK, SharedOK, Writes, Erasing
  <2>5. c.op = "rename" => c.write \in {"erase", "new", "fcb"}
    BY DEF PlacesOK, CallOK, SharedOK, Writes, Erasing, Flushes
  <2> QED
    BY <2>1, <2>2, <2>3, <2>4, <2>5
<1>3. c.op # "close" /\ c.pc # "create" /\ c.pc # "idle"
  BY <1>2
<1>4. c.s \in Streams
  BY <1>2, <1>3 DEF PlacesOK, CallOK, SharedOK
<1>5. stream[c.s] # None
  BY <1>4, FatAssumption DEF RefsOK
<1>6. "swap" \in Places /\ "cut" \in Places /\ "remove" \in Places
  BY DEF Places
<1>7. CASE c.write = "new" /\ c.op = "create"
  <2>1. held' = [held EXCEPT ![t] = c.s] /\ Return(t) /\ stream' = stream
    BY <1>7 DEF Written
  <2> QED
    BY <1>4, <1>7, <2>1, ReturnReturns DEF WroteNew
<1>8. CASE c.write = "new" /\ c.op = "rename"
  <2>1. Goto(t, "swap") /\ held' = held /\ stream' = stream
    BY <1>8 DEF Written
  <2> QED
    BY <1>6, <1>8, <2>1, GotoGoes DEF WroteNewName
<1>9. CASE c.write = "fcb" /\ c.op = "rename"
  <2> DEFINE new == [c EXCEPT !.pc = "remove", !.lock = None, !.s = c.old, !.old = c.s]
  <2>1. th' = [th EXCEPT ![t] = new] /\ held' = held /\ stream' = stream
    BY <1>9 DEF Written
  <2>2. c.old \in Streams
    BY <1>9 DEF PlacesOK, CallOK, SharedOK
  <2> HIDE DEF c
  <2>3. /\ new \in Calls /\ new.op = c.op /\ new.size = c.size /\ new.n = c.n /\ new.clus = c.clus
        /\ new.prev = c.prev /\ new.write = c.write /\ new.pc = "remove" /\ new.lock = None
        /\ new.s = c.old /\ new.old = c.s
    BY <1>1, <1>4, <1>6, <2>2 DEF Calls
  <2> HIDE DEF new
  <2>4. CallStep(t) /\ th'[t] = new
    BY <2>1, <2>3 DEF CallStep, Typed
  <2>5. WroteMoved(t)
    BY <1>4, <1>9, <2>1, <2>2, <2>3, <2>4 DEF WroteMoved, SameChain, c
  <2> QED
    BY <2>5
<1>10. CASE c.write = "fcb" /\ c.op = "setSize" /\ stream[c.s].size < c.size
  <2> DEFINE s == c.s
             st == stream[s]
             new == [st EXCEPT !.size = c.size]
  <2>1. stream' = [stream EXCEPT ![s] = new] /\ Return(t) /\ held' = held
    BY <1>10 DEF Written
  <2>2. st \in FatStreams /\ c.size \in 0 .. MaxSize
    BY <1>4, <1>5, StreamTyped, CallTyped
  <2>3. /\ new \in FatStreams /\ new.offset = st.offset /\ new.removed = st.removed /\ new.fcb = st.fcb
        /\ new.fstClus = st.fstClus /\ new.size = c.size
        /\ new.lastPosition = st.lastPosition /\ new.lastClus = st.lastClus
    <3> HIDE DEF s
    <3> QED
      BY <2>2 DEF FatStreams
  <2> HIDE DEF new
  <2>4. StreamStep(s) /\ stream'[s] = new /\ new # None
    BY <1>4, <2>1, <2>3, NoneAssumption DEF StreamStep, Typed
  <2>5. WroteLarger(t)
    BY <1>4, <1>5, <1>10, <2>1, <2>3, <2>4, ReturnReturns DEF WroteLarger, SameHint
  <2> QED
    BY <2>5
<1>11. CASE c.write = "fcb" /\ c.op = "setSize" /\ ~(stream[c.s].size < c.size)
  <2>1. Goto(t, "cut") /\ held' = held /\ stream' = stream
    BY <1>11 DEF Written
  <2> QED
    BY <1>6, <1>11, <2>1, GotoGoes DEF WroteSmaller
<1>12. CASE c.write = "erase" /\ c.op \in {"unbind", "rename"}
  <2>1. held' = held /\ Release(t, c.s)
    BY <1>12 DEF Written
  <2> QED
    BY <1>4, <1>5, <1>12, <2>1, ReleaseDrops DEF WroteErased
<1> QED
  BY <1>2, <1>7, <1>8, <1>9, <1>10, <1>11, <1>12

(* What follows the write of an entry. *)
Wrote(t) == \/ WroteNew(t) \/ WroteNewName(t) \/ WroteMoved(t)
            \/ WroteLarger(t) \/ WroteSmaller(t) \/ WroteErased(t)

(* What entry() does. *)
LEMMA EntryDoes ==
  ASSUME Typed, PlacesOK, RefsOK, NEW t \in Threads, entry(t)
  PROVE  LET s == th[t].s IN
         /\ th[t].pc = "entry" /\ rootMonitor \in {None, t} /\ pageMonitor' = None /\ rootMonitor' = None
         /\ s \in Streams /\ stream[s] # None
         /\ dir' = [dir EXCEPT ![stream[s].offset] = IF th[t].write = "erase" THEN None ELSE stream[s].fcb]
         /\ Wrote(t)
         /\ UNCHANGED <<fat, clean, fsi, mounted, nxtFree, freeCount, fatMonitor>>
<1>1. /\ th[t].pc = "entry" /\ rootMonitor \in {None, t} /\ pageMonitor' = None /\ rootMonitor' = None
      /\ dir' = [dir EXCEPT ![stream[th[t].s].offset] = IF th[t].write = "erase" THEN None ELSE stream[th[t].s].fcb]
      /\ Written(t)
      /\ UNCHANGED <<fat, clean, fsi, mounted, nxtFree, freeCount, fatMonitor>>
  BY DEF entry
<1>2. Wrote(t)
  BY <1>1, WrittenIs DEF Wrote
<1>3. th[t].s \in Streams /\ stream[th[t].s] # None
  <2>1. th[t].op \in Operations /\ th[t].op # "idle" /\ th[t].op # "close"
    BY <1>1, CallTyped DEF PlacesOK, CallOK, SharedOK
  <2>2. th[t].s \in Streams
    BY <1>1, <2>1 DEF PlacesOK, CallOK, SharedOK, Operations
  <2> QED
    BY <2>2, FatAssumption DEF RefsOK
<1> QED
  BY <1>1, <1>2, <1>3

(* What flush() of a removed stream does, which writes nothing. *)
LEMMA WrittenDoes ==
  ASSUME Typed, PlacesOK, RefsOK, NEW t \in Threads, written(t)
  PROVE  /\ th[t].pc = "written" /\ Wrote(t) /\ th[t].write = "fcb"
         /\ UNCHANGED <<fat, dir, clean, fsi, mounted, nxtFree, freeCount, fatMonitor, rootMonitor, pageMonitor>>
<1>1. /\ th[t].pc = "written" /\ Written(t)
      /\ UNCHANGED <<fat, dir, clean, fsi, mounted, nxtFree, freeCount, fatMonitor, rootMonitor, pageMonitor>>
  BY Zenon DEF written, disk, locks
<1>2. Wrote(t)
  BY <1>1, WrittenIs DEF Wrote
<1>3. th[t].write = "fcb"
  BY <1>1, <1>2 DEF PlacesOK, CallOK, SharedOK, Wrote, WroteNew, WroteNewName, WroteMoved, WroteLarger, WroteSmaller, WroteErased,
     Writes, Erasing, Flushes
<1> QED
  BY <1>1, <1>2, <1>3

(* remove(): the stream had been removed, or is now. *)
RemovesStream(t) ==
    LET s == th[t].s IN
    /\ ~stream[s].removed
    /\ StreamStep(s) /\ stream'[s] # None /\ SameHint(s) /\ stream'[s].removed
    /\ stream'[s].offset = stream[s].offset /\ stream'[s].fcb = stream[s].fcb
    /\ stream'[s].fstClus = stream[s].fstClus /\ stream'[s].size = stream[s].size
    /\ CallStep(t) /\ SameChain(t) /\ th'[t].op = th[t].op /\ th'[t].s = s /\ th'[t].old = th[t].old
    /\ th'[t].size = th[t].size /\ th'[t].write = th[t].write
    /\ th'[t].pc = "erase" /\ th'[t].lock = s

(* What remove() does. *)
LEMMA RemoveDoes ==
  ASSUME Typed, PlacesOK, RefsOK, NEW t \in Threads, remove(t)
  PROVE  LET s == th[t].s IN
         /\ th[t].pc = "remove" /\ th[t].op \in {"unbind", "rename"} /\ s \in Streams /\ stream[s] # None
         /\ Unlocked(s, t)
         /\ (stream[s].removed /\ Drops(t, s)) \/ RemovesStream(t)
         /\ UNCHANGED <<fat, dir, clean, fsi, mounted, nxtFree, freeCount, held, fatMonitor, rootMonitor, pageMonitor>>
<1> DEFINE c == th[t]
           s == c.s
           st == stream[s]
           new == [st EXCEPT !.removed = TRUE]
           next == [c EXCEPT !.pc = "erase", !.lock = s]
<1>1. /\ c.pc = "remove" /\ Unlocked(s, t)
      /\ UNCHANGED <<fat, dir, clean, fsi, mounted, nxtFree, freeCount, held, fatMonitor, rootMonitor, pageMonitor>>
      /\ IF st.removed
         THEN Release(t, s)
         ELSE /\ stream' = [stream EXCEPT ![s].removed = TRUE]
              /\ th' = [th EXCEPT ![t].pc = "erase", ![t].lock = s]
  BY DEF remove, disk, locks
<1>2. c \in Calls /\ c.op \in {"unbind", "rename"} /\ c.op \in Operations
  BY <1>1, CallTyped, OpOf
<1>3. s \in Streams
  BY <1>1, <1>2 DEF PlacesOK, CallOK, SharedOK
<1>4. st # None
  BY <1>3, FatAssumption DEF RefsOK
<1>5. st \in FatStreams
  BY <1>3, <1>4, StreamTyped
<1>6. CASE st.removed
  <2>1. Release(t, s)
    BY <1>1, <1>6
  <2> QED
    BY <1>1, <1>2, <1>3, <1>4, <1>6, <2>1, ReleaseDrops
<1>7. CASE ~st.removed
  <2>1. stream' = [stream EXCEPT ![s] = new] /\ th' = [th EXCEPT ![t] = next]
    BY <1>1, <1>2, <1>3, <1>5, <1>7 DEF Typed, Calls, FatStreams
  <2>2. /\ new \in FatStreams /\ new.offset = st.offset /\ new.removed /\ new.fcb = st.fcb
        /\ new.fstClus = st.fstClus /\ new.size = st.size
        /\ new.lastPosition = st.lastPosition /\ new.lastClus = st.lastClus
    <3> HIDE DEF s
    <3> QED
      BY <1>5 DEF FatStreams
  <2>3. /\ next \in Calls /\ next.op = c.op /\ next.size = c.size /\ next.n = c.n /\ next.clus = c.clus
        /\ next.prev = c.prev /\ next.write = c.write /\ next.pc = "erase" /\ next.lock = s
        /\ next.s = s /\ next.old = c.old
    <3>1. "erase" \in Places
      BY DEF Places
    <3> HIDE DEF c
    <3> QED
      BY <1>2, <1>3, <3>1 DEF Calls
  <2> HIDE DEF new, next
  <2>4. StreamStep(s) /\ stream'[s] = new /\ new # None
    BY <1>3, <2>1, <2>2, NoneAssumption DEF StreamStep, Typed
  <2>5. CallStep(t) /\ th'[t] = next
    BY <2>1, <2>3 DEF CallStep, Typed
  <2>6. RemovesStream(t)
    BY <1>7, <2>2, <2>3, <2>4, <2>5 DEF RemovesStream, SameHint, SameChain
  <2> QED
    BY <1>1, <1>2, <1>3, <1>4, <2>6
<1> QED
  BY <1>6, <1>7

(* What erase() does. *)
LEMMA EraseDoes ==
  ASSUME Typed, PlacesOK, NEW t \in Threads, erase(t)
  PROVE  /\ th[t].pc = "erase" /\ th[t].op \in {"unbind", "rename"} /\ rootMonitor = None /\ rootMonitor' = t
         /\ CallStep(t) /\ SameWork(t) /\ SameChain(t) /\ th'[t].pc = "sync" /\ th'[t].write = "erase"
         /\ UNCHANGED <<fat, dir, clean, fsi, mounted, nxtFree, freeCount, stream, held, fatMonitor, pageMonitor>>
<1>1. /\ th[t].pc = "erase" /\ rootMonitor = None /\ rootMonitor' = t
      /\ th' = [th EXCEPT ![t].pc = "sync", ![t].write = "erase"]
      /\ UNCHANGED <<fat, dir, clean, fsi, mounted, nxtFree, freeCount, stream, held, fatMonitor, pageMonitor>>
  BY Zenon DEF erase, disk
<1>2. th[t] \in Calls /\ th[t].clus \in Links
  BY CallTyped
<1>3. NextCall(t, "sync", "erase", th[t].clus)
  BY <1>1, <1>2 DEF Typed, Calls, NextCall
<1>4. "sync" \in Places
  BY DEF Places
<1>5. CallStep(t) /\ SameWork(t) /\ SameChain(t) /\ th'[t].pc = "sync" /\ th'[t].write = "erase"
  BY <1>2, <1>3, <1>4, GoesOn DEF SameChain
<1>6. th[t].op \in {"unbind", "rename"}
  BY <1>1, OpOf
<1> QED
  BY <1>1, <1>5, <1>6

(* The call of a thread that was idle. *)
Begins(t, op, pc, s, old, write) ==
    /\ CallStep(t)
    /\ th'[t].op = op /\ th'[t].pc = pc /\ th'[t].s = s /\ th'[t].old = old /\ th'[t].lock = None
    /\ th'[t].size = 0 /\ th'[t].n = 0 /\ th'[t].clus = 0 /\ th'[t].prev = 0 /\ th'[t].write = write

(* What create() does. *)
LEMMA CreateDoes ==
  ASSUME Typed, NEW t \in Threads, NEW name \in Names, create(t, name)
  PROVE  /\ th[t] = Idle /\ held[t] = None
         /\ \E s \in Streams, o \in Slots : Makes(t, s, o, name) /\ Begins(t, "create", "sync", s, None, "new")
<1> DEFINE c == [Idle EXCEPT !.op = "create"]
           next == [c EXCEPT !.s = New, !.pc = "sync", !.write = "new"]
<1>1. th[t] = Idle /\ held[t] = None /\ Create(t, name, c)
  BY DEF create
<1> HIDE DEF c
<1>2. PICK o \in Slots : Makes(t, New, o, name)
  BY <1>1, CreateMakes
<1>3. th' = [th EXCEPT ![t] = next]
  BY <1>1, CreateMakes
<1>4. New \in Streams
  BY <1>2 DEF Makes
<1>5. /\ next \in Calls /\ next.op = "create" /\ next.pc = "sync" /\ next.s = New /\ next.old = None
      /\ next.lock = None /\ next.size = 0 /\ next.n = 0 /\ next.clus = 0 /\ next.prev = 0
      /\ next.write = "new"
  BY <1>4, IdleIs DEF Calls, c, Operations, Places
<1> HIDE DEF next
<1>6. CallStep(t) /\ th'[t] = next
  BY <1>3, <1>5 DEF CallStep, Typed
<1>7. Begins(t, "create", "sync", New, None, "new")
  BY <1>5, <1>6 DEF Begins
<1> QED
  BY <1>1, <1>2, <1>4, <1>7

(* What unbind() does. *)
LEMMA UnbindDoes ==
  ASSUME Typed, NEW t \in Threads, NEW name \in Names, unbind(t, name)
  PROVE  /\ th[t] = Idle /\ held[t] = None /\ mounted = "yes" /\ rootMonitor = None /\ Apart(t)
         /\ \E s \in Streams, o \in Slots : Opens(s, o) /\ Begins(t, "unbind", "remove", s, None, "none")
         /\ UNCHANGED <<fat, dir, clean, fsi, mounted, nxtFree, freeCount, held, fatMonitor, rootMonitor, pageMonitor>>
<1>1. PICK o \in Named(name) :
         /\ Lookup(t, o)
         /\ th' = [th EXCEPT ![t] = [Idle EXCEPT !.op = "unbind", !.pc = "remove", !.s = Looked(o)]]
  BY Zenon DEF unbind
<1> DEFINE next == [Idle EXCEPT !.op = "unbind", !.pc = "remove", !.s = Looked(o)]
<1>2. o \in Slots /\ dir[o] # None
  BY DEF Named
<1>3. Opens(Looked(o), o) /\ Looked(o) \in Streams
  BY <1>1, <1>2, LookupOpens DEF Opens
<1>4. mounted = "yes" /\ rootMonitor = None /\ Apart(t)
  BY <1>1 DEF Lookup
<1>5. /\ next \in Calls /\ next.op = "unbind" /\ next.pc = "remove" /\ next.s = Looked(o) /\ next.old = None
      /\ next.lock = None /\ next.size = 0 /\ next.n = 0 /\ next.clus = 0 /\ next.prev = 0
      /\ next.write = "none"
  BY <1>3, IdleIs DEF Calls, Operations, Places
<1>6. th' = [th EXCEPT ![t] = next]
  BY <1>1
<1> HIDE DEF next
<1>7. CallStep(t) /\ th'[t] = next
  BY <1>5, <1>6 DEF CallStep, Typed
<1>8. Begins(t, "unbind", "remove", Looked(o), None, "none")
  BY <1>5, <1>7 DEF Begins
<1> QED
  BY <1>2, <1>3, <1>4, <1>8, Zenon DEF unbind, disk, locks

(* What rename() does up to its create(). *)
LEMMA RenameDoes ==
  ASSUME Typed, NEW t \in Threads, NEW name \in Names, rename(t, name)
  PROVE  /\ th[t] = Idle /\ held[t] = None /\ mounted = "yes" /\ rootMonitor = None /\ Apart(t)
         /\ \E s \in Streams, o \in Slots : Opens(s, o) /\ Begins(t, "rename", "create", None, s, "none")
         /\ UNCHANGED <<fat, dir, clean, fsi, mounted, nxtFree, freeCount, held, fatMonitor, rootMonitor, pageMonitor>>
<1>1. PICK o \in Named(name) :
         /\ Lookup(t, o)
         /\ th' = [th EXCEPT ![t] = [Idle EXCEPT !.op = "rename", !.pc = "create", !.old = Looked(o)]]
  BY Zenon DEF rename
<1> DEFINE next == [Idle EXCEPT !.op = "rename", !.pc = "create", !.old = Looked(o)]
<1>2. o \in Slots /\ dir[o] # None
  BY DEF Named
<1>3. Opens(Looked(o), o) /\ Looked(o) \in Streams
  BY <1>1, <1>2, LookupOpens DEF Opens
<1>4. mounted = "yes" /\ rootMonitor = None /\ Apart(t)
  BY <1>1 DEF Lookup
<1>5. /\ next \in Calls /\ next.op = "rename" /\ next.pc = "create" /\ next.s = None /\ next.old = Looked(o)
      /\ next.lock = None /\ next.size = 0 /\ next.n = 0 /\ next.clus = 0 /\ next.prev = 0
      /\ next.write = "none"
  BY <1>3, IdleIs DEF Calls, Operations, Places
<1>6. th' = [th EXCEPT ![t] = next]
  BY <1>1
<1> HIDE DEF next
<1>7. CallStep(t) /\ th'[t] = next
  BY <1>5, <1>6 DEF CallStep, Typed
<1>8. Begins(t, "rename", "create", None, Looked(o), "none")
  BY <1>5, <1>7 DEF Begins
<1> QED
  BY <1>2, <1>3, <1>4, <1>8, Zenon DEF rename, disk, locks

(* What the create() in rename() does. *)
LEMMA RenameCreateDoes ==
  ASSUME Typed, PlacesOK, NEW t \in Threads, renameCreate(t)
  PROVE  /\ th[t].pc = "create" /\ th[t].op = "rename"
         /\ \E s \in Streams, o \in Slots, name \in Names :
              /\ Makes(t, s, o, name)
              /\ CallStep(t) /\ SameChain(t) /\ th'[t].op = "rename" /\ th'[t].pc = "sync" /\ th'[t].s = s
              /\ th'[t].old = th[t].old /\ th'[t].lock = th[t].lock /\ th'[t].size = th[t].size
              /\ th'[t].write = "new"
<1> DEFINE c == th[t]
           next == [c EXCEPT !.s = New, !.pc = "sync", !.write = "new"]
<1>1. PICK name \in Names : c.pc = "create" /\ Create(t, name, c)
  BY DEF renameCreate
<1>0. c \in Calls /\ c.op = "rename"
  BY <1>1, CallTyped, OpOf
<1> HIDE DEF c
<1>2. PICK o \in Slots : Makes(t, New, o, name)
  BY <1>1, CreateMakes
<1>3. th' = [th EXCEPT ![t] = next]
  BY <1>1, CreateMakes
<1>4. New \in Streams
  BY <1>2 DEF Makes
<1>5. /\ next \in Calls /\ next.op = c.op /\ next.pc = "sync" /\ next.s = New /\ next.old = c.old
      /\ next.lock = c.lock /\ next.size = c.size /\ next.n = c.n /\ next.clus = c.clus
      /\ next.prev = c.prev /\ next.write = "new"
  <2>1. "sync" \in Places
    BY DEF Places
  <2> QED
    BY <1>0, <1>4, <2>1 DEF Calls
<1> HIDE DEF next
<1>6. CallStep(t) /\ th'[t] = next
  BY <1>3, <1>5 DEF CallStep, Typed
<1>7. /\ CallStep(t) /\ SameChain(t) /\ th'[t].op = "rename" /\ th'[t].pc = "sync" /\ th'[t].s = New
      /\ th'[t].old = th[t].old /\ th'[t].lock = th[t].lock /\ th'[t].size = th[t].size
      /\ th'[t].write = "new"
  BY <1>0, <1>5, <1>6 DEF c, SameChain
<1>8. th[t].pc = "create" /\ th[t].op = "rename"
  BY <1>0, <1>1 DEF c
<1> QED
  BY <1>2, <1>4, <1>7, <1>8

(* What rename() does when its create() finds the name, or no free entry. *)
LEMMA RenameFailsDoes ==
  ASSUME Typed, PlacesOK, RefsOK, NEW t \in Threads, renameFails(t)
  PROVE  /\ th[t].pc = "create" /\ th[t].op = "rename" /\ th[t].old \in Streams
         /\ Drops(t, th[t].old)
         /\ UNCHANGED <<fat, dir, clean, fsi, mounted, nxtFree, freeCount, held, fatMonitor, rootMonitor, pageMonitor>>
<1>1. /\ th[t].pc = "create" /\ Release(t, th[t].old)
      /\ UNCHANGED <<fat, dir, clean, fsi, mounted, nxtFree, freeCount, held, fatMonitor, rootMonitor, pageMonitor>>
  BY Zenon DEF renameFails, disk, locks
<1>2. th[t].op = "rename"
  BY <1>1, OpOf
<1>3. th[t].old \in Streams
  BY <1>2 DEF PlacesOK, CallOK, SharedOK
<1>4. stream[th[t].old] # None
  BY <1>3, FatAssumption DEF RefsOK
<1> QED
  BY <1>1, <1>2, <1>3, <1>4, ReleaseDrops

(* The streams of rename() change places and names. *)
Swaps(new, old) ==
    /\ stream' \in [Streams -> FatStreams \cup {None}]
    /\ \A r \in Streams \ {new, old} : stream'[r] = stream[r]
    /\ \A r \in {new, old} :
         /\ stream'[r] # None /\ SameHint(r)
         /\ stream'[r].fstClus = stream[r].fstClus /\ stream'[r].size = stream[r].size
         /\ stream'[r].removed = stream[r].removed
         /\ stream'[r].fcb.fstClus = stream[r].fcb.fstClus /\ stream'[r].fcb.size = stream[r].fcb.size
    /\ stream'[old].offset = stream[new].offset /\ stream'[new].offset = stream[old].offset

(* What swap() does. *)
LEMMA SwapDoes ==
  ASSUME Typed, PlacesOK, RefsOK, NEW t \in Threads, swap(t)
  PROVE  /\ th[t].pc = "swap" /\ th[t].op = "rename" /\ Goes(t, "flush")
         /\ th[t].s \in Streams /\ th[t].old \in Streams /\ th[t].s # th[t].old
         /\ stream[th[t].s] # None /\ stream[th[t].old] # None
         /\ Swaps(th[t].s, th[t].old)
         /\ UNCHANGED <<fat, dir, clean, fsi, mounted, nxtFree, freeCount, held, fatMonitor, rootMonitor, pageMonitor>>
<1> DEFINE new == th[t].s
           old == th[t].old
<1>1. /\ th[t].pc = "swap" /\ Goto(t, "flush")
      /\ stream' = [stream EXCEPT ![old].offset = stream[new].offset,
                                  ![new].offset = stream[old].offset,
                                  ![old].fcb.name = stream[new].fcb.name,
                                  ![new].fcb.name = stream[old].fcb.name]
      /\ UNCHANGED <<fat, dir, clean, fsi, mounted, nxtFree, freeCount, held, fatMonitor, rootMonitor, pageMonitor>>
  BY DEF swap, disk, locks
<1>2. th[t].op = "rename"
  BY <1>1, OpOf
<1>3. new \in Streams /\ old \in Streams /\ new # old
  BY <1>1, <1>2 DEF PlacesOK, CallOK, SharedOK
<1>4. stream[new] # None /\ stream[old] # None
  BY <1>3, FatAssumption DEF RefsOK
<1>5. "flush" \in Places
  BY DEF Places
<1>6. Goes(t, "flush")
  BY <1>1, <1>5, GotoGoes
<1> DEFINE N == stream[new]
           O == stream[old]
           e == [N.fcb EXCEPT !.name = O.fcb.name]
           f == [O.fcb EXCEPT !.name = N.fcb.name]
           N2 == [N EXCEPT !.offset = O.offset, !.fcb = e]
           O2 == [O EXCEPT !.offset = N.offset, !.fcb = f]
<1> HIDE DEF new, old
<1>7. /\ N \in FatStreams /\ O \in FatStreams /\ N.fcb \in Entries /\ O.fcb \in Entries
  BY <1>3, <1>4, StreamTyped
<1>8. stream' = [stream EXCEPT ![old] = O2, ![new] = N2]
  BY <1>1, <1>3, <1>7 DEF FatStreams, Entries, Typed
<1> HIDE DEF N, O
<1>9. /\ e \in Entries /\ e.fstClus = N.fcb.fstClus /\ e.size = N.fcb.size
      /\ f \in Entries /\ f.fstClus = O.fcb.fstClus /\ f.size = O.fcb.size
  BY <1>7 DEF Entries
<1> HIDE DEF e, f
<1>10. /\ N2 \in FatStreams /\ N2.offset = O.offset /\ N2.fcb = e /\ N2.fstClus = N.fstClus /\ N2.size = N.size
       /\ N2.removed = N.removed /\ N2.lastPosition = N.lastPosition /\ N2.lastClus = N.lastClus
  BY <1>7, <1>9 DEF FatStreams
<1>11. /\ O2 \in FatStreams /\ O2.offset = N.offset /\ O2.fcb = f /\ O2.fstClus = O.fstClus /\ O2.size = O.size
       /\ O2.removed = O.removed /\ O2.lastPosition = O.lastPosition /\ O2.lastClus = O.lastClus
  BY <1>7, <1>9 DEF FatStreams
<1> HIDE DEF N2, O2
<1>12. /\ stream' \in [Streams -> FatStreams \cup {None}]
       /\ \A r \in Streams \ {new, old} : stream'[r] = stream[r]
       /\ stream'[new] = N2 /\ stream'[old] = O2 /\ N2 # None /\ O2 # None
  BY <1>3, <1>8, <1>10, <1>11, NoneAssumption DEF Typed
<1>13. Swaps(new, old)
  BY <1>9, <1>10, <1>11, <1>12 DEF Swaps, SameHint, N, O
<1> QED
  BY <1>1, <1>2, <1>3, <1>4, <1>6, <1>13 DEF new, old

(* What flush() in rename() does up to its write. *)
LEMMA RenameFlushDoes ==
  ASSUME Typed, PlacesOK, RefsOK, NEW t \in Threads, renameFlush(t)
  PROVE  /\ th[t].pc = "flush" /\ th[t].op = "rename" /\ th[t].old \in Streams /\ th[t].s \in Streams
         /\ Unlocked(th[t].old, t) /\ stream[th[t].old] # None
         /\ CallStep(t) /\ SameChain(t) /\ th'[t].op = "rename" /\ th'[t].size = th[t].size
         /\ th'[t].pc = Flushing(th[t].old) /\ th'[t].write = "fcb" /\ th'[t].lock = th[t].old
         /\ th'[t].s = th[t].old /\ th'[t].old = th[t].s
         /\ UNCHANGED <<fat, dir, clean, fsi, mounted, nxtFree, freeCount, stream, held, fatMonitor, rootMonitor, pageMonitor>>
<1> DEFINE c == th[t]
           old == c.old
           place == Flushing(old)
           next == [c EXCEPT !.pc = place, !.write = "fcb", !.lock = old, !.s = old, !.old = c.s]
<1>1. /\ c.pc = "flush" /\ Unlocked(old, t)
      /\ th' = [th EXCEPT ![t] = [@ EXCEPT !.pc = Flushing(old), !.write = "fcb", !.lock = old,
                                            !.s = old, !.old = c.s]]
      /\ UNCHANGED <<fat, dir, clean, fsi, mounted, nxtFree, freeCount, stream, held, fatMonitor, rootMonitor, pageMonitor>>
  BY DEF renameFlush, disk, locks
<1>2. c \in Calls /\ c.op = "rename"
  BY <1>1, CallTyped, OpOf
<1>3. old \in Streams /\ c.s \in Streams
  BY <1>1, <1>2 DEF PlacesOK, CallOK, SharedOK
<1>4. stream[old] # None
  BY <1>3, FatAssumption DEF RefsOK
<1>5. place \in Places
  BY DEF Places, Flushing
<1>6. th' = [th EXCEPT ![t] = next]
  BY <1>1 DEF Typed
<1> HIDE DEF c, old, place
<1>7. /\ next \in Calls /\ next.op = c.op /\ next.size = c.size /\ next.n = c.n /\ next.clus = c.clus
      /\ next.prev = c.prev /\ next.write = "fcb" /\ next.pc = place /\ next.lock = old
      /\ next.s = old /\ next.old = c.s
  BY <1>2, <1>3, <1>5 DEF Calls
<1> HIDE DEF next
<1>8. CallStep(t) /\ th'[t] = next
  BY <1>6, <1>7 DEF CallStep, Typed
<1> QED
  BY <1>1, <1>2, <1>3, <1>4, <1>7, <1>8 DEF SameChain, c, old, place

(* What mount() does. *)
LEMMA MountDoes ==
  ASSUME TypeOK, mount
  PROVE  /\ mounted = "no" /\ mounted' = "yes" /\ clean' = FALSE
         /\ nxtFree' \in 2 .. Eof /\ freeCount' \in Int
         /\ freeCount' = Cardinality(FreeClusters) \/ (clean /\ freeCount' = fsi.freeCount)
         /\ UNCHANGED <<fat, dir, fsi, stream, held, fatMonitor, rootMonitor, pageMonitor, th>>
<1> DEFINE next  == IF clean THEN fsi.nxtFree ELSE Eof
           free  == IF clean THEN fsi.freeCount ELSE Eof
<1>1. /\ mounted = "no" /\ mounted' = "yes" /\ clean' = FALSE
      /\ UNCHANGED <<fat, dir, fsi, stream, held, fatMonitor, rootMonitor, pageMonitor, th>>
      /\ IF isEof(next) \/ isEof(free)
         THEN /\ freeCount' = Cardinality(FreeClusters)
              /\ nxtFree' = IF isEof(next) /\ FreeClusters # {} THEN Min(FreeClusters) ELSE next
         ELSE freeCount' = free /\ nxtFree' = next
  BY DEF mount, locks
<1>2. next \in 2 .. Eof /\ free \in Int /\ isEof(Eof)
  BY Numbers DEF TypeOK, isEof, Eof
<1>3. FreeClusters \in SUBSET Nat /\ FreeClusters \subseteq Clusters /\ IsFiniteSet(FreeClusters)
  BY Numbers, FS_Subset DEF FreeClusters
<1>4. Cardinality(FreeClusters) \in Nat
  BY <1>3, FS_CardinalityType
<1>5. FreeClusters # {} => Min(FreeClusters) \in 2 .. Eof
  <2>1. FreeClusters # {} => Min(FreeClusters) \in FreeClusters
    BY <1>3, MinOfNaturals
  <2> QED
    BY <1>3, <2>1, Numbers
<1>6. CASE clean
  BY <1>1, <1>2, <1>4, <1>5, <1>6
<1>7. CASE ~clean
  <2>1. freeCount' = Cardinality(FreeClusters) /\ nxtFree' \in {Min(FreeClusters), next}
        /\ (FreeClusters = {} => nxtFree' = next)
    BY <1>1, <1>2, <1>7
  <2>2. nxtFree' \in 2 .. Eof
    <3>1. CASE FreeClusters = {}
      BY <1>2, <2>1, <3>1
    <3>2. CASE FreeClusters # {}
      BY <1>2, <1>5, <2>1, <3>2
    <3> QED
      BY <3>1, <3>2
  <2>3. Cardinality(FreeClusters) \in Int
    BY <1>4
  <2> QED
    BY <1>1, <2>1, <2>2, <2>3, Zenon
<1> QED
  BY <1>6, <1>7

(* What is left when the memory of the volume goes. *)
LEMMA ForgetDoes ==
  ASSUME Forget
  PROVE  /\ mounted' = "no" /\ nxtFree' = Eof /\ freeCount' = 0
         /\ stream' \in [Streams -> FatStreams \cup {None}] /\ \A s \in Streams : stream'[s] = None
         /\ held' \in [Threads -> Streams \cup {None}] /\ \A t \in Threads : held'[t] = None
         /\ fatMonitor' = None /\ rootMonitor' = None /\ pageMonitor' = None
         /\ th' \in [Threads -> Calls] /\ \A t \in Threads : th'[t] = Idle
BY IdleIs DEF Forget

(* What dismount() does. *)
LEMMA DismountDoes ==
  ASSUME dismount
  PROVE  /\ mounted = "yes" /\ mounted' = "leaving"
         /\ \A t \in Threads : th[t] = Idle /\ held[t] = None
         /\ fsi' = [nxtFree |-> nxtFree, freeCount |-> freeCount]
         /\ UNCHANGED <<fat, dir, clean, nxtFree, freeCount, stream, held, fatMonitor, rootMonitor, pageMonitor, th>>
BY DEF dismount, locks
(* What setClean() does. *)
LEMMA SetCleanDoes ==
  ASSUME setClean
  PROVE  /\ mounted = "leaving" /\ clean' = TRUE /\ Forget /\ UNCHANGED <<fat, dir, fsi>>
BY DEF setClean
(* What a crash does. *)
LEMMA CrashDoes ==
  ASSUME Crash
  PROVE  /\ mounted # "no" /\ ("torn" \in Allow \/ \A t \in Threads : ~Moving(t))
         /\ Forget /\ UNCHANGED <<fat, dir, clean, fsi>>
BY DEF Crash, disk

(* The rest of the types. *)
TypedRest ==
    /\ clean \in BOOLEAN /\ mounted \in {"no", "yes", "leaving"}
    /\ fsi \in [nxtFree : 2 .. Eof, freeCount : Int]
    /\ {fatMonitor, rootMonitor, pageMonitor} \subseteq Threads \cup {None}
(* The two halves of TypeOK. *)
LEMMA TypesAre == TypeOK <=> Typed /\ TypedRest
BY DEF TypeOK, Typed, TypedRest

(* Every step keeps the types. *)
LEMMA TypesStep ==
  ASSUME TypeOK, PlacesOK, RefsOK, [Next]_vars
  PROVE  TypeOK'
<1>0. Typed /\ TypedRest
  BY TypesAre
<1>00. Typed' /\ TypedRest' => TypeOK'
  BY DEF TypeOK, Typed, TypedRest
<1>1. CASE UNCHANGED vars
  BY <1>1 DEF TypeOK, vars, disk, locks
<1>2. CASE mount
  <2>1. Typed'
    BY <1>2, <1>0, MountDoes, Numbers DEF Typed
  <2>2. TypedRest'
    BY <1>2, <1>0, MountDoes DEF Typed, TypedRest
  <2> QED
    BY <2>1, <2>2, <1>00
<1>3. CASE dismount
  <2>1. Typed'
    BY <1>3, <1>0, DismountDoes, Numbers DEF Typed
  <2>2. TypedRest'
    BY <1>3, <1>0, DismountDoes DEF Typed, TypedRest
  <2> QED
    BY <2>1, <2>2, <1>00
<1>4. CASE setClean
  <2>1. Typed'
    BY <1>4, <1>0, SetCleanDoes, ForgetDoes, Numbers DEF Typed
  <2>2. TypedRest'
    BY <1>4, <1>0, SetCleanDoes, ForgetDoes DEF Typed, TypedRest
  <2> QED
    BY <2>1, <2>2, <1>00
<1>5. CASE Crash
  <2>1. Typed'
    BY <1>5, <1>0, CrashDoes, ForgetDoes, Numbers DEF Typed
  <2>2. TypedRest'
    BY <1>5, <1>0, CrashDoes, ForgetDoes DEF Typed, TypedRest
  <2> QED
    BY <2>1, <2>2, <1>00
<1>6. ASSUME NEW t \in Threads, NEW name \in Names, open(t, name) PROVE TypeOK'
  <2>1. Typed'
    BY <1>6, <1>0, OpenDoes, Numbers DEF Opens, StreamStep, Typed
  <2>2. TypedRest'
    BY <1>6, <1>0, OpenDoes DEF Opens, StreamStep, Typed, TypedRest
  <2> QED
    BY <2>1, <2>2, <1>00
<1>7. ASSUME NEW t \in Threads, NEW name \in Names, create(t, name) PROVE TypeOK'
  <2>1. Typed'
    BY <1>7, <1>0, CreateDoes, Numbers DEF Makes, Begins, CallStep, StreamStep, Typed
  <2>2. TypedRest'
    BY <1>7, <1>0, CreateDoes DEF Makes, Begins, CallStep, StreamStep, Typed, TypedRest
  <2> QED
    BY <2>1, <2>2, <1>00
<1>8. ASSUME NEW t \in Threads, NEW name \in Names, unbind(t, name) PROVE TypeOK'
  <2>1. Typed'
    BY <1>8, <1>0, UnbindDoes, Numbers DEF Opens, Begins, StreamStep, CallStep, Typed
  <2>2. TypedRest'
    BY <1>8, <1>0, UnbindDoes DEF Opens, Begins, StreamStep, CallStep, Typed, TypedRest
  <2> QED
    BY <2>1, <2>2, <1>00
<1>9. ASSUME NEW t \in Threads, NEW name \in Names, rename(t, name) PROVE TypeOK'
  <2>1. Typed'
    BY <1>9, <1>0, RenameDoes, Numbers DEF Opens, Begins, StreamStep, CallStep, Typed
  <2>2. TypedRest'
    BY <1>9, <1>0, RenameDoes DEF Opens, Begins, StreamStep, CallStep, Typed, TypedRest
  <2> QED
    BY <2>1, <2>2, <1>00
<1>10. ASSUME NEW t \in Threads, close(t) PROVE TypeOK'
  <2>1. Typed'
    BY <1>10, <1>0, CloseDoes, Numbers DEF Drops, Returns, CallStep, StreamStep, Typed
  <2>2. TypedRest'
    BY <1>10, <1>0, CloseDoes DEF Drops, Returns, CallStep, StreamStep, Typed, TypedRest
  <2> QED
    BY <2>1, <2>2, <1>00
<1>11. ASSUME NEW t \in Threads, NEW position \in 0 .. MaxSize - 1, seek(t, position) PROVE TypeOK'
  <2>1. Typed'
    BY <1>11, <1>0, SeekDoes, Numbers DEF StreamStep, Typed
  <2>2. TypedRest'
    BY <1>11, <1>0, SeekDoes DEF StreamStep, Typed, TypedRest
  <2> QED
    BY <2>1, <2>2, <1>00
<1>12. ASSUME NEW t \in Threads, NEW size \in 0 .. MaxSize, setSize(t, size) PROVE TypeOK'
  <2>1. Typed'
    BY <1>12, <1>0, SetSizeDoes, Numbers DEF Grows, Shrinks, CallStep, StreamStep, Typed
  <2>2. TypedRest'
    BY <1>12, <1>0, SetSizeDoes DEF Grows, Shrinks, CallStep, StreamStep, Typed, TypedRest
  <2> QED
    BY <2>1, <2>2, <1>00
<1>13. ASSUME NEW t \in Threads, allocCluster(t) PROVE TypeOK'
  <2>1. Typed'
    BY <1>13, <1>0, AllocClusterDoes, Numbers DEF Returns, Goes, CallStep, Typed
  <2>2. TypedRest'
    BY <1>13, <1>0, AllocClusterDoes DEF Returns, Goes, CallStep, Typed, TypedRest
  <2> QED
    BY <2>1, <2>2, <1>00
<1>14. ASSUME NEW t \in Threads, mark(t) PROVE TypeOK'
  <2> DEFINE free == NextFree
  <2>0. /\ free \in Clusters /\ free \in 2 .. Eof /\ fat' = [fat EXCEPT ![free] = Eof] /\ nxtFree' = free
        /\ freeCount' = freeCount - 1 /\ Goes(t, "link")
        /\ UNCHANGED <<dir, clean, fsi, mounted, stream, held, fatMonitor, rootMonitor, pageMonitor>>
    BY <1>14, <1>0, MarkDoes, Numbers
  <2> HIDE DEF free
  <2>1. Typed'
    BY <2>0, <1>0, Numbers DEF Typed, Goes, CallStep
  <2>2. TypedRest'
    BY <2>0, <1>0 DEF TypedRest
  <2> QED
    BY <2>1, <2>2, <1>00
<1>15. ASSUME NEW t \in Threads, link(t) PROVE TypeOK'
  <2>1. Typed'
    BY <1>15, <1>0, LinkDoes, Numbers DEF CallStep, Typed
  <2>2. TypedRest'
    BY <1>15, <1>0, LinkDoes DEF CallStep, Typed, TypedRest
  <2> QED
    BY <2>1, <2>2, <1>00
<1>16. ASSUME NEW t \in Threads, chain(t) PROVE TypeOK'
  <2>0. /\ ChainEffect(t) /\ CallStep(t)
        /\ UNCHANGED <<dir, clean, fsi, mounted, nxtFree, freeCount, held, fatMonitor, rootMonitor, pageMonitor>>
    BY <1>16, <1>0, ChainDoes
  <2>3. fat' \in [Clusters -> Links]
    <3>1. th[t].clus \in Links /\ fat \in [Clusters -> Links]
      BY <1>0, CallTyped DEF Typed
    <3>2. \/ fat' = fat
          \/ \E c : fat' = [fat EXCEPT ![c] = th[t].clus]
      BY <2>0, Zenon DEF ChainEffect
    <3> QED
      BY <3>1, <3>2
  <2>4. stream' \in [Streams -> FatStreams \cup {None}]
    BY <2>0 DEF ChainEffect, StreamStep
  <2>1. Typed'
    BY <2>0, <2>3, <2>4, <1>0 DEF Typed, CallStep
  <2>2. TypedRest'
    BY <2>0, <1>0 DEF TypedRest
  <2> QED
    BY <2>1, <2>2, <1>00
<1>17. ASSUME NEW t \in Threads, cut(t) PROVE TypeOK'
  <2>1. Typed'
    BY <1>17, <1>0, CutDoes, Numbers DEF CallStep, Typed
  <2>2. TypedRest'
    BY <1>17, <1>0, CutDoes DEF CallStep, Typed, TypedRest
  <2> QED
    BY <2>1, <2>2, <1>00
<1>18. ASSUME NEW t \in Threads, freeCluster(t) PROVE TypeOK'
  <2>1. Typed'
    BY <1>18, <1>0, FreeClusterDoes, Numbers DEF Ends, Frees, CallStep, Returns, StreamStep, Typed
  <2>2. TypedRest'
    BY <1>18, <1>0, FreeClusterDoes DEF Ends, Frees, CallStep, Returns, StreamStep, Typed, TypedRest
  <2> QED
    BY <2>1, <2>2, <1>00
<1>19. ASSUME NEW t \in Threads, count(t) PROVE TypeOK'
  <2>1. Typed'
    BY <1>19, <1>0, CountDoes, Numbers DEF Goes, CallStep, Typed
  <2>2. TypedRest'
    BY <1>19, <1>0, CountDoes DEF Goes, CallStep, Typed, TypedRest
  <2> QED
    BY <2>1, <2>2, <1>00
<1>20. ASSUME NEW t \in Threads, sync(t) PROVE TypeOK'
  <2>1. Typed'
    BY <1>20, <1>0, SyncDoes, Numbers DEF Goes, CallStep, Typed
  <2>2. TypedRest'
    BY <1>20, <1>0, SyncDoes DEF Goes, CallStep, Typed, TypedRest
  <2> QED
    BY <2>1, <2>2, <1>00
<1>21. ASSUME NEW t \in Threads, entry(t) PROVE TypeOK'
  <2>0. /\ pageMonitor' = None /\ rootMonitor' = None
        /\ Wrote(t)
        /\ UNCHANGED <<fat, clean, fsi, mounted, nxtFree, freeCount, fatMonitor>>
    BY <1>21, <1>0, EntryDoes
  <2>3. dir' \in [Slots -> Entries \cup {None}]
    <3> DEFINE s == th[t].s
               e == IF th[t].write = "erase" THEN None ELSE stream[s].fcb
    <3>1. s \in Streams /\ stream[s] # None /\ dir' = [dir EXCEPT ![stream[s].offset] = e]
      BY <1>21, <1>0, EntryDoes
    <3>2. e \in Entries \cup {None}
      BY <1>0, <3>1, StreamTyped
    <3> HIDE DEF e
    <3> QED
      BY <1>0, <3>1, <3>2 DEF Typed
  <2>1. Typed'
    BY <2>0, <2>3, <1>0 DEF Typed, Wrote, WroteNew, WroteNewName, WroteMoved, WroteLarger, WroteSmaller, WroteErased, Drops, Goes, Returns, CallStep, StreamStep
  <2>2. TypedRest'
    BY <2>0, <1>0 DEF TypedRest
  <2> QED
    BY <2>1, <2>2, <1>00
<1>22. ASSUME NEW t \in Threads, written(t) PROVE TypeOK'
  <2>1. Typed'
    BY <1>22, <1>0, WrittenDoes, Numbers DEF Wrote, WroteNew, WroteNewName, WroteMoved, WroteLarger, WroteSmaller,
     WroteErased, Drops, Goes, Returns, CallStep, StreamStep, Typed
  <2>2. TypedRest'
    BY <1>22, <1>0, WrittenDoes DEF Wrote, WroteNew, WroteNewName, WroteMoved, WroteLarger, WroteSmaller,
     WroteErased, Drops, Goes, Returns, CallStep, StreamStep, Typed, TypedRest
  <2> QED
    BY <2>1, <2>2, <1>00
<1>23. ASSUME NEW t \in Threads, remove(t) PROVE TypeOK'
  <2>1. Typed'
    BY <1>23, <1>0, RemoveDoes, Numbers DEF Drops, RemovesStream, Returns, CallStep, StreamStep, Typed
  <2>2. TypedRest'
    BY <1>23, <1>0, RemoveDoes DEF Drops, RemovesStream, Returns, CallStep, StreamStep, Typed, TypedRest
  <2> QED
    BY <2>1, <2>2, <1>00
<1>24. ASSUME NEW t \in Threads, erase(t) PROVE TypeOK'
  <2>1. Typed'
    BY <1>24, <1>0, EraseDoes, Numbers DEF CallStep, Typed
  <2>2. TypedRest'
    BY <1>24, <1>0, EraseDoes DEF CallStep, Typed, TypedRest
  <2> QED
    BY <2>1, <2>2, <1>00
<1>25. ASSUME NEW t \in Threads, renameCreate(t) PROVE TypeOK'
  <2>1. Typed'
    BY <1>25, <1>0, RenameCreateDoes, Numbers DEF Makes, CallStep, StreamStep, Typed
  <2>2. TypedRest'
    BY <1>25, <1>0, RenameCreateDoes DEF Makes, CallStep, StreamStep, Typed, TypedRest
  <2> QED
    BY <2>1, <2>2, <1>00
<1>26. ASSUME NEW t \in Threads, renameFails(t) PROVE TypeOK'
  <2>1. Typed'
    BY <1>26, <1>0, RenameFailsDoes, Numbers DEF Drops, Returns, CallStep, StreamStep, Typed
  <2>2. TypedRest'
    BY <1>26, <1>0, RenameFailsDoes DEF Drops, Returns, CallStep, StreamStep, Typed, TypedRest
  <2> QED
    BY <2>1, <2>2, <1>00
<1>27. ASSUME NEW t \in Threads, swap(t) PROVE TypeOK'
  <2>1. Typed'
    BY <1>27, <1>0, SwapDoes, Numbers DEF Goes, CallStep, Swaps, Typed
  <2>2. TypedRest'
    BY <1>27, <1>0, SwapDoes DEF Goes, CallStep, Swaps, Typed, TypedRest
  <2> QED
    BY <2>1, <2>2, <1>00
<1>28. ASSUME NEW t \in Threads, renameFlush(t) PROVE TypeOK'
  <2>1. Typed'
    BY <1>28, <1>0, RenameFlushDoes, Numbers DEF CallStep, Typed
  <2>2. TypedRest'
    BY <1>28, <1>0, RenameFlushDoes DEF CallStep, Typed, TypedRest
  <2> QED
    BY <2>1, <2>2, <1>00
<1> QED
  BY Zenon, <1>1, <1>2, <1>3, <1>4, <1>5, <1>6, <1>7, <1>8, <1>9, <1>10, <1>11, <1>12, <1>13,
     <1>14, <1>15, <1>16, <1>17, <1>18, <1>19, <1>20, <1>21, <1>22, <1>23, <1>24, <1>25,
     <1>26, <1>27, <1>28 DEF Next, Continue

(* A volume that is not mounted has no calls, and no streams. *)
MountedOK ==
    /\ mounted # "yes" => \A t \in Threads : th[t] = Idle /\ held[t] = None
    /\ mounted = "no" => \A s \in Streams : stream[s] = None

(* Two calls have no stream's monitor both. *)
LocksOK == \A t, u \in Threads : th[t].lock = th[u].lock /\ th[t].lock # None => t = u

(* With no stream and no call left, all of these hold. *)
LEMMA ForgottenOK ==
  ASSUME Forget
  PROVE  /\ MountedOK' /\ RefsOK' /\ LocksOK' /\ PlacesOK'
<1>1. /\ mounted' = "no" /\ (\A s \in Streams : stream'[s] = None) /\ (\A t \in Threads : held'[t] = None)
      /\ \A t \in Threads : th'[t] = Idle
  BY ForgetDoes
<1>2. PlacesOK'
  BY <1>1, IdleIs DEF PlacesOK, CallOK, SharedOK, Writes, Erasing, Flushes
<1> QED
  BY <1>1, <1>2, IdleIs DEF MountedOK, RefsOK, LocksOK

(* A thread that takes a step is on a mounted volume. *)
LEMMA BusyMounted ==
  ASSUME MountedOK, NEW t \in Threads, th[t].pc # "idle" \/ held[t] # None
  PROVE  mounted = "yes"
BY IdleIs DEF MountedOK

(* Every step keeps MountedOK. *)
LEMMA MountedStep ==
  ASSUME TypeOK, PlacesOK, RefsOK, MountedOK, [Next]_vars
  PROVE  MountedOK'
<1>0. Typed
  BY TypesAre
<1>1. CASE UNCHANGED vars
  BY <1>1 DEF MountedOK, vars
<1>2. CASE mount
  BY <1>2, MountDoes DEF MountedOK
<1>3. CASE dismount
  BY <1>3, DismountDoes DEF MountedOK
<1>4. CASE setClean
  BY <1>4, SetCleanDoes, ForgottenOK
<1>5. CASE Crash
  BY <1>5, CrashDoes, ForgottenOK
<1>6. ASSUME NEW t \in Threads, NEW name \in Names, open(t, name) PROVE MountedOK'
  <2>1. mounted = "yes" /\ mounted' = mounted
    BY <1>6, <1>0, BusyMounted, FatAssumption, OpenDoes
  <2> QED
    BY <2>1 DEF MountedOK
<1>7. ASSUME NEW t \in Threads, NEW name \in Names, create(t, name) PROVE MountedOK'
  <2>1. mounted = "yes" /\ mounted' = mounted
    BY <1>7, <1>0, BusyMounted, FatAssumption, CreateDoes DEF Makes, Begins, CallStep, StreamStep, Wrote
  <2> QED
    BY <2>1 DEF MountedOK
<1>8. ASSUME NEW t \in Threads, NEW name \in Names, unbind(t, name) PROVE MountedOK'
  <2>1. mounted = "yes" /\ mounted' = mounted
    BY <1>8, <1>0, BusyMounted, FatAssumption, UnbindDoes
  <2> QED
    BY <2>1 DEF MountedOK
<1>9. ASSUME NEW t \in Threads, NEW name \in Names, rename(t, name) PROVE MountedOK'
  <2>1. mounted = "yes" /\ mounted' = mounted
    BY <1>9, <1>0, BusyMounted, FatAssumption, RenameDoes
  <2> QED
    BY <2>1 DEF MountedOK
<1>10. ASSUME NEW t \in Threads, close(t) PROVE MountedOK'
  <2>1. mounted = "yes" /\ mounted' = mounted
    BY <1>10, <1>0, BusyMounted, FatAssumption, CloseDoes
  <2> QED
    BY <2>1 DEF MountedOK
<1>11. ASSUME NEW t \in Threads, NEW position \in 0 .. MaxSize - 1, seek(t, position) PROVE MountedOK'
  <2>1. mounted = "yes" /\ mounted' = mounted
    BY <1>11, <1>0, BusyMounted, FatAssumption, SeekDoes
  <2> QED
    BY <2>1 DEF MountedOK
<1>12. ASSUME NEW t \in Threads, NEW size \in 0 .. MaxSize, setSize(t, size) PROVE MountedOK'
  <2>1. mounted = "yes" /\ mounted' = mounted
    BY <1>12, <1>0, BusyMounted, FatAssumption, SetSizeDoes
  <2> QED
    BY <2>1 DEF MountedOK
<1>13. ASSUME NEW t \in Threads, allocCluster(t) PROVE MountedOK'
  <2>1. mounted = "yes" /\ mounted' = mounted
    BY <1>13, <1>0, BusyMounted, FatAssumption, AllocClusterDoes
  <2> QED
    BY <2>1 DEF MountedOK
<1>14. ASSUME NEW t \in Threads, mark(t) PROVE MountedOK'
  <2>1. mounted = "yes" /\ mounted' = mounted
    BY <1>14, <1>0, BusyMounted, FatAssumption, MarkDoes
  <2> QED
    BY <2>1 DEF MountedOK
<1>15. ASSUME NEW t \in Threads, link(t) PROVE MountedOK'
  <2>1. mounted = "yes" /\ mounted' = mounted
    BY <1>15, <1>0, BusyMounted, FatAssumption, LinkDoes
  <2> QED
    BY <2>1 DEF MountedOK
<1>16. ASSUME NEW t \in Threads, chain(t) PROVE MountedOK'
  <2>1. mounted = "yes" /\ mounted' = mounted
    BY <1>16, <1>0, BusyMounted, FatAssumption, ChainDoes
  <2> QED
    BY <2>1 DEF MountedOK
<1>17. ASSUME NEW t \in Threads, cut(t) PROVE MountedOK'
  <2>1. mounted = "yes" /\ mounted' = mounted
    BY <1>17, <1>0, BusyMounted, FatAssumption, CutDoes
  <2> QED
    BY <2>1 DEF MountedOK
<1>18. ASSUME NEW t \in Threads, freeCluster(t) PROVE MountedOK'
  <2>1. mounted = "yes" /\ mounted' = mounted
    BY <1>18, <1>0, BusyMounted, FatAssumption, FreeClusterDoes
  <2> QED
    BY <2>1 DEF MountedOK
<1>19. ASSUME NEW t \in Threads, count(t) PROVE MountedOK'
  <2>1. mounted = "yes" /\ mounted' = mounted
    BY <1>19, <1>0, BusyMounted, FatAssumption, CountDoes
  <2> QED
    BY <2>1 DEF MountedOK
<1>20. ASSUME NEW t \in Threads, sync(t) PROVE MountedOK'
  <2>1. mounted = "yes" /\ mounted' = mounted
    BY <1>20, <1>0, BusyMounted, FatAssumption, SyncDoes
  <2> QED
    BY <2>1 DEF MountedOK
<1>21. ASSUME NEW t \in Threads, entry(t) PROVE MountedOK'
  <2>1. mounted = "yes" /\ mounted' = mounted
    BY <1>21, <1>0, BusyMounted, FatAssumption, EntryDoes
  <2> QED
    BY <2>1 DEF MountedOK
<1>22. ASSUME NEW t \in Threads, written(t) PROVE MountedOK'
  <2>1. mounted = "yes" /\ mounted' = mounted
    BY <1>22, <1>0, BusyMounted, FatAssumption, WrittenDoes
  <2> QED
    BY <2>1 DEF MountedOK
<1>23. ASSUME NEW t \in Threads, remove(t) PROVE MountedOK'
  <2>1. mounted = "yes" /\ mounted' = mounted
    BY <1>23, <1>0, BusyMounted, FatAssumption, RemoveDoes
  <2> QED
    BY <2>1 DEF MountedOK
<1>24. ASSUME NEW t \in Threads, erase(t) PROVE MountedOK'
  <2>1. mounted = "yes" /\ mounted' = mounted
    BY <1>24, <1>0, BusyMounted, FatAssumption, EraseDoes
  <2> QED
    BY <2>1 DEF MountedOK
<1>25. ASSUME NEW t \in Threads, renameCreate(t) PROVE MountedOK'
  <2>1. mounted = "yes" /\ mounted' = mounted
    BY <1>25, <1>0, BusyMounted, FatAssumption, RenameCreateDoes DEF Makes, CallStep, StreamStep, Wrote
  <2> QED
    BY <2>1 DEF MountedOK
<1>26. ASSUME NEW t \in Threads, renameFails(t) PROVE MountedOK'
  <2>1. mounted = "yes" /\ mounted' = mounted
    BY <1>26, <1>0, BusyMounted, FatAssumption, RenameFailsDoes
  <2> QED
    BY <2>1 DEF MountedOK
<1>27. ASSUME NEW t \in Threads, swap(t) PROVE MountedOK'
  <2>1. mounted = "yes" /\ mounted' = mounted
    BY <1>27, <1>0, BusyMounted, FatAssumption, SwapDoes
  <2> QED
    BY <2>1 DEF MountedOK
<1>28. ASSUME NEW t \in Threads, renameFlush(t) PROVE MountedOK'
  <2>1. mounted = "yes" /\ mounted' = mounted
    BY <1>28, <1>0, BusyMounted, FatAssumption, RenameFlushDoes
  <2> QED
    BY <2>1 DEF MountedOK
<1> QED
  BY Zenon, <1>1, <1>2, <1>3, <1>4, <1>5, <1>6, <1>7, <1>8, <1>9, <1>10, <1>11, <1>12, <1>13,
     <1>14, <1>15, <1>16, <1>17, <1>18, <1>19, <1>20, <1>21, <1>22, <1>23, <1>24, <1>25,
     <1>26, <1>27, <1>28 DEF Next, Continue

(* Every step keeps LocksOK: setSize() and flush() take the monitor of a stream that has none. *)
LEMMA LocksStep ==
  ASSUME TypeOK, PlacesOK, RefsOK, LocksOK, [Next]_vars
  PROVE  LocksOK'
<1>0. Typed
  BY TypesAre
<1>1. CASE UNCHANGED vars
  BY <1>1 DEF LocksOK, vars
<1>2. CASE mount
  BY <1>2, MountDoes DEF LocksOK
<1>3. CASE dismount
  BY <1>3, DismountDoes DEF LocksOK
<1>4. CASE setClean
  BY <1>4, SetCleanDoes, ForgottenOK
<1>5. CASE Crash
  BY <1>5, CrashDoes, ForgottenOK
<1>6. ASSUME NEW t \in Threads, NEW name \in Names, open(t, name) PROVE LocksOK'
  BY <1>6, <1>0, OpenDoes, NoneAssumption, IdleIs, CallTyped DEF Opens, StreamStep, LocksOK, Unlocked, SameWork
<1>7. ASSUME NEW t \in Threads, NEW name \in Names, create(t, name) PROVE LocksOK'
  BY <1>7, <1>0, CreateDoes, NoneAssumption, IdleIs, CallTyped DEF Makes, Begins, CallStep, StreamStep, LocksOK, Unlocked, SameWork
<1>8. ASSUME NEW t \in Threads, NEW name \in Names, unbind(t, name) PROVE LocksOK'
  BY <1>8, <1>0, UnbindDoes, NoneAssumption, IdleIs, CallTyped DEF Opens, Begins, StreamStep, CallStep, LocksOK, Unlocked, SameWork
<1>9. ASSUME NEW t \in Threads, NEW name \in Names, rename(t, name) PROVE LocksOK'
  BY <1>9, <1>0, RenameDoes, NoneAssumption, IdleIs, CallTyped DEF Opens, Begins, StreamStep, CallStep, LocksOK, Unlocked, SameWork
<1>10. ASSUME NEW t \in Threads, close(t) PROVE LocksOK'
  BY <1>10, <1>0, CloseDoes, NoneAssumption, IdleIs, CallTyped DEF Drops, Returns, CallStep, StreamStep, LocksOK, Unlocked, SameWork
<1>11. ASSUME NEW t \in Threads, NEW position \in 0 .. MaxSize - 1, seek(t, position) PROVE LocksOK'
  BY <1>11, <1>0, SeekDoes, NoneAssumption, IdleIs, CallTyped DEF StreamStep, LocksOK, Unlocked, SameWork
<1>12. ASSUME NEW t \in Threads, NEW size \in 0 .. MaxSize, setSize(t, size) PROVE LocksOK'
  BY <1>12, <1>0, SetSizeDoes, NoneAssumption, IdleIs, CallTyped DEF Grows, Shrinks, CallStep, StreamStep, LocksOK, Unlocked, SameWork
<1>13. ASSUME NEW t \in Threads, allocCluster(t) PROVE LocksOK'
  BY <1>13, <1>0, AllocClusterDoes, NoneAssumption, IdleIs, CallTyped DEF Returns, Goes, CallStep, LocksOK, Unlocked, SameWork
<1>14. ASSUME NEW t \in Threads, mark(t) PROVE LocksOK'
  BY <1>14, <1>0, MarkDoes, NoneAssumption, IdleIs, CallTyped DEF Goes, CallStep, LocksOK, Unlocked, SameWork
<1>15. ASSUME NEW t \in Threads, link(t) PROVE LocksOK'
  BY <1>15, <1>0, LinkDoes, NoneAssumption, IdleIs, CallTyped DEF CallStep, LocksOK, Unlocked, SameWork
<1>16. ASSUME NEW t \in Threads, chain(t) PROVE LocksOK'
  BY <1>16, <1>0, ChainDoes, NoneAssumption, IdleIs, CallTyped DEF CallStep, ChainEffect, StreamStep, LocksOK, Unlocked, SameWork
<1>17. ASSUME NEW t \in Threads, cut(t) PROVE LocksOK'
  BY <1>17, <1>0, CutDoes, NoneAssumption, IdleIs, CallTyped DEF CallStep, LocksOK, Unlocked, SameWork
<1>18. ASSUME NEW t \in Threads, freeCluster(t) PROVE LocksOK'
  BY <1>18, <1>0, FreeClusterDoes, NoneAssumption, IdleIs, CallTyped DEF Ends, Frees, CallStep, Returns, StreamStep, LocksOK, Unlocked, SameWork
<1>19. ASSUME NEW t \in Threads, count(t) PROVE LocksOK'
  BY <1>19, <1>0, CountDoes, NoneAssumption, IdleIs, CallTyped DEF Goes, CallStep, LocksOK, Unlocked, SameWork
<1>20. ASSUME NEW t \in Threads, sync(t) PROVE LocksOK'
  BY <1>20, <1>0, SyncDoes, NoneAssumption, IdleIs, CallTyped DEF Goes, CallStep, LocksOK, Unlocked, SameWork
<1>21. ASSUME NEW t \in Threads, entry(t) PROVE LocksOK'
  BY <1>21, <1>0, EntryDoes, NoneAssumption, IdleIs, CallTyped DEF Wrote, WroteNew, WroteNewName, WroteMoved, WroteLarger, WroteSmaller,
     WroteErased, Drops, Goes, Returns, CallStep, StreamStep, LocksOK, Unlocked,
     SameWork
<1>22. ASSUME NEW t \in Threads, written(t) PROVE LocksOK'
  BY <1>22, <1>0, WrittenDoes, NoneAssumption, IdleIs, CallTyped DEF Wrote, WroteNew, WroteNewName, WroteMoved, WroteLarger, WroteSmaller,
     WroteErased, Drops, Goes, Returns, CallStep, StreamStep, LocksOK, Unlocked,
     SameWork
<1>23. ASSUME NEW t \in Threads, remove(t) PROVE LocksOK'
  BY <1>23, <1>0, RemoveDoes, NoneAssumption, IdleIs, CallTyped DEF Drops, RemovesStream, Returns, CallStep, StreamStep, LocksOK, Unlocked,
     SameWork
<1>24. ASSUME NEW t \in Threads, erase(t) PROVE LocksOK'
  BY <1>24, <1>0, EraseDoes, NoneAssumption, IdleIs, CallTyped DEF CallStep, LocksOK, Unlocked, SameWork
<1>25. ASSUME NEW t \in Threads, renameCreate(t) PROVE LocksOK'
  BY <1>25, <1>0, RenameCreateDoes, NoneAssumption, IdleIs, CallTyped DEF Makes, CallStep, StreamStep, LocksOK, Unlocked, SameWork
<1>26. ASSUME NEW t \in Threads, renameFails(t) PROVE LocksOK'
  BY <1>26, <1>0, RenameFailsDoes, NoneAssumption, IdleIs, CallTyped DEF Drops, Returns, CallStep, StreamStep, LocksOK, Unlocked, SameWork
<1>27. ASSUME NEW t \in Threads, swap(t) PROVE LocksOK'
  BY <1>27, <1>0, SwapDoes, NoneAssumption, IdleIs, CallTyped DEF Goes, CallStep, Swaps, LocksOK, Unlocked, SameWork
<1>28. ASSUME NEW t \in Threads, renameFlush(t) PROVE LocksOK'
  BY <1>28, <1>0, RenameFlushDoes, NoneAssumption, IdleIs, CallTyped DEF CallStep, LocksOK, Unlocked, SameWork
<1> QED
  BY Zenon, <1>1, <1>2, <1>3, <1>4, <1>5, <1>6, <1>7, <1>8, <1>9, <1>10, <1>11, <1>12, <1>13,
     <1>14, <1>15, <1>16, <1>17, <1>18, <1>19, <1>20, <1>21, <1>22, <1>23, <1>24, <1>25,
     <1>26, <1>27, <1>28 DEF Next, Continue

(* release() leaves the streams of the others in memory. *)
LEMMA DropRefs ==
  ASSUME Typed, RefsOK, NEW t \in Threads, NEW s \in Streams, Drops(t, s),
         held' \in [Threads -> Streams \cup {None}], \A u \in Threads : held'[u] \in {held[u], None}
  PROVE  RefsOK'
<1>1. /\ Returns(t) /\ \A r \in Streams \ {s} : stream'[r] = stream[r]
  BY DEF Drops, StreamStep
<1>2. /\ th'[t].s = None /\ th'[t].old = None /\ \A u \in Threads \ {t} : th'[u] = th[u]
  BY <1>1, IdleIs DEF Returns, CallStep
<1>3. CASE stream'[s] = stream[s]
  <2>1. \A r \in Streams : stream'[r] = stream[r]
    BY <1>1, <1>3
  <2> QED
    BY <1>2, <2>1, CallTyped DEF RefsOK
<1>4. CASE \A u \in Threads : held'[u] # s /\ (u # t => th[u].s # s /\ th[u].old # s)
  BY <1>1, <1>2, <1>4, CallTyped DEF RefsOK
<1> QED
  BY <1>3, <1>4 DEF Drops

(* So does what follows the write of an entry. *)
LEMMA WroteRefs ==
  ASSUME Typed, RefsOK, NEW t \in Threads, Wrote(t)
  PROVE  RefsOK'
<1>1. CASE WroteNew(t)
  BY <1>1, CallTyped, IdleIs, FatAssumption DEF WroteNew, RefsOK, Returns, CallStep, Typed
<1>2. CASE WroteNewName(t)
  BY <1>2, CallTyped DEF WroteNewName, RefsOK, Goes, CallStep, SameWork
<1>3. CASE WroteMoved(t)
  BY <1>3, CallTyped DEF WroteMoved, RefsOK, CallStep
<1>4. CASE WroteLarger(t)
  BY <1>4, CallTyped, IdleIs DEF WroteLarger, RefsOK, Returns, CallStep, StreamStep
<1>5. CASE WroteSmaller(t)
  BY <1>5, CallTyped DEF WroteSmaller, RefsOK, Goes, CallStep, SameWork
<1>6. CASE WroteErased(t)
  <2>1. th[t].s \in Streams /\ held' = held /\ Drops(t, th[t].s) /\ held \in [Threads -> Streams \cup {None}]
    BY <1>6 DEF WroteErased, Typed
  <2>2. \A u \in Threads : held'[u] \in {held[u], None}
    BY <2>1
  <2>3. held' \in [Threads -> Streams \cup {None}]
    BY <2>1
  <2> QED
    BY <2>1, <2>2, <2>3, DropRefs
<1> QED
  BY <1>1, <1>2, <1>3, <1>4, <1>5, <1>6 DEF Wrote

(* Every step keeps RefsOK: release() drops no stream that a thread has. *)
LEMMA RefsStep ==
  ASSUME TypeOK, PlacesOK, RefsOK, LocksOK, [Next]_vars
  PROVE  RefsOK'
<1>0. Typed
  BY TypesAre
<1>1. CASE UNCHANGED vars
  BY <1>1 DEF RefsOK, vars
<1>2. CASE mount
  BY <1>2, MountDoes DEF RefsOK
<1>3. CASE dismount
  BY <1>3, DismountDoes DEF RefsOK
<1>4. CASE setClean
  BY <1>4, SetCleanDoes, ForgottenOK
<1>5. CASE Crash
  BY <1>5, CrashDoes, ForgottenOK
<1>6. ASSUME NEW t \in Threads, NEW name \in Names, open(t, name) PROVE RefsOK'
  <2>1. PICK s \in Streams, o \in Slots : Opens(s, o) /\ held' = [held EXCEPT ![t] = s]
    BY <1>6, <1>0, OpenDoes
  <2>2. th' = th /\ held \in [Threads -> Streams \cup {None}]
    BY <1>6, <1>0, OpenDoes DEF Typed
  <2>3. \A r \in Streams : stream[r] # None => stream'[r] # None
    BY <2>1 DEF Opens, StreamStep
  <2>4. stream'[s] # None
    BY <2>1 DEF Opens
  <2> QED
    BY <2>1, <2>2, <2>3, <2>4, <1>0, CallTyped DEF RefsOK
<1>7. ASSUME NEW t \in Threads, NEW name \in Names, create(t, name) PROVE RefsOK'
  <2>1. PICK s \in Streams, o \in Slots : Makes(t, s, o, name) /\ Begins(t, "create", "sync", s, None, "new")
    BY <1>7, <1>0, CreateDoes
  <2>2. /\ held' = held /\ th'[t].s = s /\ th'[t].old = None /\ \A u \in Threads \ {t} : th'[u] = th[u]
    BY <2>1 DEF Makes, Begins, CallStep
  <2>4. stream'[s] # None
    <3>1. Entry(name, 0, 0) \in Entries
      BY Numbers DEF Entry, Entries
    <3> QED
      BY <2>1, <3>1, NewStream DEF Makes
  <2>3. \A r \in Streams : stream[r] # None => stream'[r] # None
    BY <2>1 DEF Makes, StreamStep
  <2> QED
    BY <2>2, <2>3, <2>4, <1>0, CallTyped DEF RefsOK
<1>8. ASSUME NEW t \in Threads, NEW name \in Names, unbind(t, name) PROVE RefsOK'
  BY <1>8, <1>0, UnbindDoes, NoneAssumption, FatAssumption, IdleIs, CallTyped DEF Opens, Begins, StreamStep, CallStep, RefsOK, SameWork
<1>9. ASSUME NEW t \in Threads, NEW name \in Names, rename(t, name) PROVE RefsOK'
  BY <1>9, <1>0, RenameDoes, NoneAssumption, FatAssumption, IdleIs, CallTyped DEF Opens, Begins, StreamStep, CallStep, RefsOK, SameWork
<1>10. ASSUME NEW t \in Threads, close(t) PROVE RefsOK'
  <2>1. /\ held[t] \in Streams /\ held' = [held EXCEPT ![t] = None] /\ Drops(t, held[t])
    BY <1>10, <1>0, CloseDoes
  <2>2. held \in [Threads -> Streams \cup {None}]
    BY <1>0 DEF Typed
  <2>3. \A u \in Threads : held'[u] \in {held[u], None}
    BY <2>1, <2>2
  <2>4. held' \in [Threads -> Streams \cup {None}]
    BY <2>1, <2>2
  <2> QED
    BY <2>3, <2>4, <2>1, <1>0, DropRefs
<1>11. ASSUME NEW t \in Threads, NEW position \in 0 .. MaxSize - 1, seek(t, position) PROVE RefsOK'
  BY <1>11, <1>0, SeekDoes, NoneAssumption, FatAssumption, IdleIs, CallTyped DEF StreamStep, RefsOK, SameWork
<1>12. ASSUME NEW t \in Threads, NEW size \in 0 .. MaxSize, setSize(t, size) PROVE RefsOK'
  BY <1>12, <1>0, SetSizeDoes, NoneAssumption, FatAssumption, IdleIs, CallTyped DEF Grows, Shrinks, CallStep, StreamStep, RefsOK, SameWork
<1>13. ASSUME NEW t \in Threads, allocCluster(t) PROVE RefsOK'
  BY <1>13, <1>0, AllocClusterDoes, NoneAssumption, FatAssumption, IdleIs, CallTyped DEF Returns, Goes, CallStep, RefsOK, SameWork
<1>14. ASSUME NEW t \in Threads, mark(t) PROVE RefsOK'
  BY <1>14, <1>0, MarkDoes, NoneAssumption, FatAssumption, IdleIs, CallTyped DEF Goes, CallStep, RefsOK, SameWork
<1>15. ASSUME NEW t \in Threads, link(t) PROVE RefsOK'
  BY <1>15, <1>0, LinkDoes, NoneAssumption, FatAssumption, IdleIs, CallTyped DEF CallStep, RefsOK, SameWork
<1>16. ASSUME NEW t \in Threads, chain(t) PROVE RefsOK'
  BY <1>16, <1>0, ChainDoes, NoneAssumption, FatAssumption, IdleIs, CallTyped DEF CallStep, ChainEffect, StreamStep, RefsOK, SameWork
<1>17. ASSUME NEW t \in Threads, cut(t) PROVE RefsOK'
  BY <1>17, <1>0, CutDoes, NoneAssumption, FatAssumption, IdleIs, CallTyped DEF CallStep, RefsOK, SameWork
<1>18. ASSUME NEW t \in Threads, freeCluster(t) PROVE RefsOK'
  BY <1>18, <1>0, FreeClusterDoes, NoneAssumption, FatAssumption, IdleIs, CallTyped DEF Ends, Frees, CallStep, Returns, StreamStep, RefsOK, SameWork
<1>19. ASSUME NEW t \in Threads, count(t) PROVE RefsOK'
  BY <1>19, <1>0, CountDoes, NoneAssumption, FatAssumption, IdleIs, CallTyped DEF Goes, CallStep, RefsOK, SameWork
<1>20. ASSUME NEW t \in Threads, sync(t) PROVE RefsOK'
  BY <1>20, <1>0, SyncDoes, NoneAssumption, FatAssumption, IdleIs, CallTyped DEF Goes, CallStep, RefsOK, SameWork
<1>21. ASSUME NEW t \in Threads, entry(t) PROVE RefsOK'
  <2>1. Wrote(t)
    BY <1>21, <1>0, EntryDoes
  <2> QED
    BY <2>1, <1>0, WroteRefs
<1>22. ASSUME NEW t \in Threads, written(t) PROVE RefsOK'
  <2>1. Wrote(t)
    BY <1>22, <1>0, WrittenDoes
  <2> QED
    BY <2>1, <1>0, WroteRefs
<1>23. ASSUME NEW t \in Threads, remove(t) PROVE RefsOK'
  BY <1>23, <1>0, RemoveDoes, NoneAssumption, FatAssumption, IdleIs, CallTyped DEF Drops, RemovesStream, Returns, CallStep, StreamStep, RefsOK, SameWork
<1>24. ASSUME NEW t \in Threads, erase(t) PROVE RefsOK'
  BY <1>24, <1>0, EraseDoes, NoneAssumption, FatAssumption, IdleIs, CallTyped DEF CallStep, RefsOK, SameWork
<1>25. ASSUME NEW t \in Threads, renameCreate(t) PROVE RefsOK'
  <2>1. PICK s \in Streams, o \in Slots, name \in Names :
           /\ Makes(t, s, o, name) /\ CallStep(t) /\ th'[t].s = s /\ th'[t].old = th[t].old
    BY <1>25, <1>0, RenameCreateDoes
  <2>2. /\ held' = held /\ \A u \in Threads \ {t} : th'[u] = th[u]
    BY <2>1 DEF Makes, CallStep
  <2>4. stream'[s] # None
    <3>1. Entry(name, 0, 0) \in Entries
      BY Numbers DEF Entry, Entries
    <3> QED
      BY <2>1, <3>1, NewStream DEF Makes
  <2>3. \A r \in Streams : stream[r] # None => stream'[r] # None
    BY <2>1 DEF Makes, StreamStep
  <2> QED
    BY <2>1, <2>2, <2>3, <2>4, <1>0, CallTyped DEF RefsOK
<1>26. ASSUME NEW t \in Threads, renameFails(t) PROVE RefsOK'
  BY <1>26, <1>0, RenameFailsDoes, NoneAssumption, FatAssumption, IdleIs, CallTyped DEF Drops, Returns, CallStep, StreamStep, RefsOK, SameWork
<1>27. ASSUME NEW t \in Threads, swap(t) PROVE RefsOK'
  BY <1>27, <1>0, SwapDoes, NoneAssumption, FatAssumption, IdleIs, CallTyped DEF Goes, CallStep, Swaps, RefsOK, SameWork
<1>28. ASSUME NEW t \in Threads, renameFlush(t) PROVE RefsOK'
  BY <1>28, <1>0, RenameFlushDoes, NoneAssumption, FatAssumption, IdleIs, CallTyped DEF CallStep, RefsOK, SameWork
<1> QED
  BY Zenon, <1>1, <1>2, <1>3, <1>4, <1>5, <1>6, <1>7, <1>8, <1>9, <1>10, <1>11, <1>12, <1>13,
     <1>14, <1>15, <1>16, <1>17, <1>18, <1>19, <1>20, <1>21, <1>22, <1>23, <1>24, <1>25,
     <1>26, <1>27, <1>28 DEF Next, Continue

(* What the step of one thread leaves to the others. *)
Frame(t) == \A u \in Threads \ {t} :
    /\ th'[u] = th[u] /\ held'[u] = held[u]
    /\ fatMonitor = u => fatMonitor' = u
    /\ rootMonitor = u => rootMonitor' = u
    /\ th[u].pc = "link" => nxtFree' \in Clusters
(* No stream that another call works on comes back into the hash table. *)
RemovedStay(t) == \A u \in Threads \ {t} : LET s == th[u].s IN
    s \in Streams /\ stream[s] # None /\ stream[s].removed => stream'[s].removed

(* A step that leaves all this to the others leaves them in their places. *)
LEMMA FramePlaces ==
  ASSUME Typed, PlacesOK, RefsOK, NEW t \in Threads, Frame(t), RemovedStay(t), CallOK(t)', SharedOK(t)'
  PROVE  PlacesOK'
<1>1. ASSUME NEW u \in Threads \ {t} PROVE CallOK(u)' /\ SharedOK(u)'
  <2>1. th'[u] = th[u] /\ held'[u] = held[u] /\ CallOK(u)
    BY DEF Frame, PlacesOK
  <2>2. CallOK(u)'
    BY <2>1 DEF CallOK, Writes, Erasing, Flushes
  <2>3. th[u].pc = "written" => stream'[th[u].s].removed
    <3>1. SUFFICES ASSUME th[u].pc = "written" PROVE stream'[th[u].s].removed
      OBVIOUS
    <3>2. th[u].op \in Operations
      BY CallTyped
    <3>3. th[u].s \in Streams /\ stream[th[u].s].removed
      BY <3>1, <3>2 DEF PlacesOK, CallOK, SharedOK, Writes, Erasing, Flushes, Operations
    <3>4. stream[th[u].s] # None
      BY <3>3, FatAssumption DEF RefsOK
    <3> QED
      BY <3>3, <3>4 DEF RemovedStay
  <2>4. SharedOK(u)
    BY DEF PlacesOK
  <2>5. SharedOK(u)'
    BY <2>3, <2>4 DEF Frame, SharedOK, Writes
  <2> QED
    BY <2>2, <2>5
<1> QED
  BY <1>1 DEF PlacesOK

(* Every step leaves each call in a place of its operation. *)
LEMMA PlacesStep ==
  ASSUME TypeOK, PlacesOK, RefsOK, LocksOK, MountedOK, [Next]_vars
  PROVE  PlacesOK'
<1>0. Typed
  BY TypesAre
<1>00. \A u \in Threads : CallOK(u) /\ SharedOK(u)
  BY DEF PlacesOK
<1>1000. \A u \in Threads : th[u].pc = "link" => nxtFree \in Clusters
  BY DEF PlacesOK, SharedOK
<1>1. CASE UNCHANGED vars
  BY <1>1, <1>00 DEF PlacesOK, CallOK, SharedOK, Writes, Erasing, Flushes, vars, locks, disk
<1>2. CASE mount
  <2>1. \A t \in Threads : th'[t] = Idle /\ held'[t] = None
    BY <1>2, MountDoes DEF MountedOK
  <2> QED
    BY <2>1, IdleIs DEF PlacesOK, CallOK, SharedOK, Writes, Erasing, Flushes
<1>3. CASE dismount
  <2>1. \A t \in Threads : th'[t] = Idle /\ held'[t] = None
    BY <1>3, DismountDoes DEF MountedOK
  <2> QED
    BY <2>1, IdleIs DEF PlacesOK, CallOK, SharedOK, Writes, Erasing, Flushes
<1>4. CASE setClean
  BY <1>4, SetCleanDoes, ForgottenOK
<1>5. CASE Crash
  BY <1>5, CrashDoes, ForgottenOK
<1>6. ASSUME NEW t \in Threads, NEW name \in Names, open(t, name) PROVE PlacesOK'
  <2>1. Frame(t)
    BY <1>6, <1>0, <1>1000, OpenDoes, FatAssumption DEF Opens, StreamStep, Frame, Typed
  <2>4. RemovedStay(t)
    BY <1>6, <1>0, OpenDoes, FatAssumption DEF Opens, StreamStep, RemovedStay
  <2>2. CallOK(t)'
    BY <1>6, <1>0, <1>00, OpenDoes, NoneAssumption, FatAssumption, IdleIs, CallTyped DEF Opens, StreamStep, SameWork, SameChain, Typed, CallOK, Writes, Erasing,
     Flushes, Flushing
  <2>3. SharedOK(t)'
    BY <1>6, <1>0, <1>00, OpenDoes, NoneAssumption, FatAssumption, IdleIs, CallTyped DEF Opens, StreamStep, SameWork, SameChain, SharedOK, Writes, Typed, Flushing
  <2> QED
    BY <1>0, <2>1, <2>2, <2>3, <2>4, FramePlaces
<1>7. ASSUME NEW t \in Threads, NEW name \in Names, create(t, name) PROVE PlacesOK'
  <2>1. Frame(t)
    BY <1>7, <1>0, <1>1000, CreateDoes, FatAssumption DEF Makes, Begins, CallStep, StreamStep, Frame, Typed
  <2>4. RemovedStay(t)
    BY <1>7, <1>0, CreateDoes, FatAssumption DEF Makes, Begins, CallStep, StreamStep, RemovedStay
  <2>2. CallOK(t)'
    BY <1>7, <1>0, <1>00, CreateDoes, NoneAssumption, FatAssumption, IdleIs, CallTyped DEF Makes, Begins, CallStep, StreamStep, SameWork, SameChain, Typed, CallOK,
     Writes, Erasing, Flushes, Flushing
  <2>3. SharedOK(t)'
    BY <1>7, <1>0, <1>00, CreateDoes, NoneAssumption, FatAssumption, IdleIs, CallTyped DEF Makes, Begins, CallStep, StreamStep, SameWork, SameChain, SharedOK, Writes,
     Typed, Flushing
  <2> QED
    BY <1>0, <2>1, <2>2, <2>3, <2>4, FramePlaces
<1>8. ASSUME NEW t \in Threads, NEW name \in Names, unbind(t, name) PROVE PlacesOK'
  <2>1. Frame(t)
    BY <1>8, <1>0, <1>1000, UnbindDoes, FatAssumption DEF Opens, Begins, StreamStep, CallStep, Frame, Typed
  <2>4. RemovedStay(t)
    BY <1>8, <1>0, UnbindDoes, FatAssumption DEF Opens, Begins, StreamStep, CallStep, RemovedStay
  <2>2. CallOK(t)'
    BY <1>8, <1>0, <1>00, UnbindDoes, NoneAssumption, FatAssumption, IdleIs, CallTyped DEF Opens, Begins, StreamStep, CallStep, SameWork, SameChain, Typed, CallOK,
     Writes, Erasing, Flushes, Flushing
  <2>3. SharedOK(t)'
    BY <1>8, <1>0, <1>00, UnbindDoes, NoneAssumption, FatAssumption, IdleIs, CallTyped DEF Opens, Begins, StreamStep, CallStep, SameWork, SameChain, SharedOK, Writes,
     Typed, Flushing
  <2> QED
    BY <1>0, <2>1, <2>2, <2>3, <2>4, FramePlaces
<1>9. ASSUME NEW t \in Threads, NEW name \in Names, rename(t, name) PROVE PlacesOK'
  <2>1. Frame(t)
    BY <1>9, <1>0, <1>1000, RenameDoes, FatAssumption DEF Opens, Begins, StreamStep, CallStep, Frame, Typed
  <2>4. RemovedStay(t)
    BY <1>9, <1>0, RenameDoes, FatAssumption DEF Opens, Begins, StreamStep, CallStep, RemovedStay
  <2>2. CallOK(t)'
    BY <1>9, <1>0, <1>00, RenameDoes, NoneAssumption, FatAssumption, IdleIs, CallTyped DEF Opens, Begins, StreamStep, CallStep, SameWork, SameChain, Typed, CallOK,
     Writes, Erasing, Flushes, Flushing
  <2>3. SharedOK(t)'
    BY <1>9, <1>0, <1>00, RenameDoes, NoneAssumption, FatAssumption, IdleIs, CallTyped DEF Opens, Begins, StreamStep, CallStep, SameWork, SameChain, SharedOK, Writes,
     Typed, Flushing
  <2> QED
    BY <1>0, <2>1, <2>2, <2>3, <2>4, FramePlaces
<1>10. ASSUME NEW t \in Threads, close(t) PROVE PlacesOK'
  <2>1. Frame(t)
    BY <1>10, <1>0, <1>1000, CloseDoes, FatAssumption DEF Drops, Returns, CallStep, StreamStep, Frame, Typed
  <2>4. RemovedStay(t)
    BY <1>10, <1>0, CloseDoes, FatAssumption DEF Drops, Returns, CallStep, StreamStep, RemovedStay
  <2>2. CallOK(t)'
    BY <1>10, <1>0, <1>00, CloseDoes, NoneAssumption, FatAssumption, IdleIs, CallTyped DEF Drops, Returns, CallStep, StreamStep, SameWork, SameChain, Typed, CallOK,
     Writes, Erasing, Flushes, Flushing
  <2>3. SharedOK(t)'
    BY <1>10, <1>0, <1>00, CloseDoes, NoneAssumption, FatAssumption, IdleIs, CallTyped DEF Drops, Returns, CallStep, StreamStep, SameWork, SameChain, SharedOK, Writes,
     Typed, Flushing
  <2> QED
    BY <1>0, <2>1, <2>2, <2>3, <2>4, FramePlaces
<1>11. ASSUME NEW t \in Threads, NEW position \in 0 .. MaxSize - 1, seek(t, position) PROVE PlacesOK'
  <2>5. Sought(stream[held[t]], position).removed = stream[held[t]].removed
    <3>1. held[t] \in Streams /\ stream[held[t]] # None /\ position \in Nat
      BY <1>11, <1>0, SeekDoes
    <3> QED
      BY <1>0, <3>1, StreamTyped, SoughtTyped
  <2>1. Frame(t)
    BY <1>11, <1>0, <1>1000, SeekDoes, FatAssumption, <2>5 DEF StreamStep, Frame, Typed
  <2>4. RemovedStay(t)
    BY <1>11, <1>0, SeekDoes, FatAssumption, <2>5 DEF StreamStep, RemovedStay
  <2>2. CallOK(t)'
    BY <1>11, <1>0, <1>00, SeekDoes, NoneAssumption, FatAssumption, IdleIs, CallTyped DEF StreamStep, SameWork, SameChain, Typed, CallOK, Writes, Erasing, Flushes,
     Flushing
  <2>3. SharedOK(t)'
    BY <1>11, <1>0, <1>00, SeekDoes, NoneAssumption, FatAssumption, IdleIs, CallTyped DEF StreamStep, SameWork, SameChain, SharedOK, Writes, Typed, Flushing
  <2> QED
    BY <1>0, <2>1, <2>2, <2>3, <2>4, FramePlaces
<1>12. ASSUME NEW t \in Threads, NEW size \in 0 .. MaxSize, setSize(t, size) PROVE PlacesOK'
  <2>1. Frame(t)
    BY <1>12, <1>0, <1>1000, SetSizeDoes, FatAssumption DEF Grows, Shrinks, CallStep, StreamStep, Frame, Typed
  <2>4. RemovedStay(t)
    BY <1>12, <1>0, SetSizeDoes, FatAssumption DEF Grows, Shrinks, CallStep, StreamStep, RemovedStay
  <2>2. CallOK(t)'
    BY <1>12, <1>0, <1>00, SetSizeDoes, NoneAssumption, FatAssumption, IdleIs, CallTyped DEF Grows, Shrinks, CallStep, StreamStep, SameWork, SameChain, Typed, CallOK,
     Writes, Erasing, Flushes, Flushing
  <2>3. SharedOK(t)'
    BY <1>12, <1>0, <1>00, SetSizeDoes, NoneAssumption, FatAssumption, IdleIs, CallTyped DEF Grows, Shrinks, CallStep, StreamStep, SameWork, SameChain, SharedOK, Writes,
     Typed, Flushing
  <2> QED
    BY <1>0, <2>1, <2>2, <2>3, <2>4, FramePlaces
<1>13. ASSUME NEW t \in Threads, allocCluster(t) PROVE PlacesOK'
  <2>1. Frame(t)
    BY <1>13, <1>0, <1>1000, AllocClusterDoes, FatAssumption DEF Returns, Goes, CallStep, Frame, Typed
  <2>4. RemovedStay(t)
    BY <1>13, <1>0, AllocClusterDoes, FatAssumption DEF Returns, Goes, CallStep, RemovedStay
  <2>2. CallOK(t)'
    BY <1>13, <1>0, <1>00, AllocClusterDoes, NoneAssumption, FatAssumption, IdleIs, CallTyped DEF Returns, Goes, CallStep, SameWork, SameChain, Typed, CallOK, Writes, Erasing,
     Flushes, Flushing
  <2>3. SharedOK(t)'
    BY <1>13, <1>0, <1>00, AllocClusterDoes, NoneAssumption, FatAssumption, IdleIs, CallTyped DEF Returns, Goes, CallStep, SameWork, SameChain, SharedOK, Writes, Typed,
     Flushing
  <2> QED
    BY <1>0, <2>1, <2>2, <2>3, <2>4, FramePlaces
<1>14. ASSUME NEW t \in Threads, mark(t) PROVE PlacesOK'
  <2>1. Frame(t)
    BY <1>14, <1>0, <1>1000, MarkDoes, FatAssumption DEF Goes, CallStep, Frame, Typed
  <2>4. RemovedStay(t)
    BY <1>14, <1>0, MarkDoes, FatAssumption DEF Goes, CallStep, RemovedStay
  <2>2. CallOK(t)'
    BY <1>14, <1>0, <1>00, MarkDoes, NoneAssumption, FatAssumption, IdleIs, CallTyped DEF Goes, CallStep, SameWork, SameChain, Typed, CallOK, Writes, Erasing, Flushes,
     Flushing
  <2>3. SharedOK(t)'
    BY <1>14, <1>0, <1>00, MarkDoes, NoneAssumption, FatAssumption, IdleIs, CallTyped DEF Goes, CallStep, SameWork, SameChain, SharedOK, Writes, Typed, Flushing
  <2> QED
    BY <1>0, <2>1, <2>2, <2>3, <2>4, FramePlaces
<1>15. ASSUME NEW t \in Threads, link(t) PROVE PlacesOK'
  <2>0. fatMonitor = t
    BY <1>15, <1>0, <1>00, LinkDoes DEF SharedOK
  <2>5. \A u \in Threads \ {t} : th[u].pc # "link"
    BY <2>0 DEF PlacesOK, SharedOK
  <2>6. \A u \in Threads \ {t} : th'[u] = th[u]
    BY <1>15, <1>0, LinkDoes DEF CallStep
  <2>1. Frame(t)
    BY <2>0, <2>5, <2>6, <1>15, <1>0, LinkDoes, FatAssumption DEF Frame
  <2>4. RemovedStay(t)
    BY <1>15, <1>0, LinkDoes, FatAssumption DEF CallStep, RemovedStay
  <2>2. CallOK(t)'
    BY <1>15, <1>0, <1>00, LinkDoes, NoneAssumption, FatAssumption, IdleIs, CallTyped DEF CallStep, SameWork, SameChain, Typed, CallOK, Writes, Erasing, Flushes,
     Flushing
  <2>3. SharedOK(t)'
    BY <1>15, <1>0, <1>00, LinkDoes, NoneAssumption, FatAssumption, IdleIs, CallTyped DEF CallStep, SameWork, SameChain, SharedOK, Writes, Typed, Flushing
  <2> QED
    BY <1>0, <2>1, <2>2, <2>3, <2>4, FramePlaces
<1>16. ASSUME NEW t \in Threads, chain(t) PROVE PlacesOK'
  <2>1. Frame(t)
    BY <1>16, <1>0, <1>1000, ChainDoes, FatAssumption DEF CallStep, ChainEffect, StreamStep, Frame, Typed
  <2>4. RemovedStay(t)
    BY <1>16, <1>0, ChainDoes, FatAssumption DEF CallStep, ChainEffect, StreamStep, RemovedStay
  <2>2. CallOK(t)'
    <3>1. /\ SameWork(t) /\ th'[t].pc \in {"sync", "written"} /\ th'[t].write = "fcb" /\ held' = held
          /\ th[t].op = "setSize"
      BY <1>16, <1>0, ChainDoes DEF Flushing
    <3>2. /\ th[t].s \in Streams /\ th[t].lock = th[t].s /\ held[t] = th[t].s /\ th[t].old = None
      BY <1>00, <3>1 DEF CallOK
    <3> QED
      BY <3>1, <3>2 DEF SameWork, CallOK, Writes, Erasing, Flushes
  <2>3. SharedOK(t)'
    BY <1>16, <1>0, <1>00, ChainDoes, NoneAssumption, FatAssumption, IdleIs, CallTyped DEF CallStep, ChainEffect, StreamStep, SameWork, SameChain, SharedOK, Writes,
     Typed, Flushing
  <2> QED
    BY <1>0, <2>1, <2>2, <2>3, <2>4, FramePlaces
<1>17. ASSUME NEW t \in Threads, cut(t) PROVE PlacesOK'
  <2>1. Frame(t)
    BY <1>17, <1>0, <1>1000, CutDoes, FatAssumption DEF CallStep, Frame, Typed
  <2>4. RemovedStay(t)
    BY <1>17, <1>0, CutDoes, FatAssumption DEF CallStep, RemovedStay
  <2>2. CallOK(t)'
    BY <1>17, <1>0, <1>00, CutDoes, NoneAssumption, FatAssumption, IdleIs, CallTyped DEF CallStep, SameWork, SameChain, Typed, CallOK, Writes, Erasing, Flushes,
     Flushing
  <2>3. SharedOK(t)'
    BY <1>17, <1>0, <1>00, CutDoes, NoneAssumption, FatAssumption, IdleIs, CallTyped DEF CallStep, SameWork, SameChain, SharedOK, Writes, Typed, Flushing
  <2> QED
    BY <1>0, <2>1, <2>2, <2>3, <2>4, FramePlaces
<1>18. ASSUME NEW t \in Threads, freeCluster(t) PROVE PlacesOK'
  <2>1. Frame(t)
    BY <1>18, <1>0, <1>1000, FreeClusterDoes, FatAssumption DEF Ends, Frees, CallStep, Returns, StreamStep, Frame, Typed
  <2>4. RemovedStay(t)
    BY <1>18, <1>0, FreeClusterDoes, FatAssumption DEF Ends, Frees, CallStep, Returns, StreamStep, RemovedStay
  <2>2. CallOK(t)'
    BY <1>18, <1>0, <1>00, FreeClusterDoes, NoneAssumption, FatAssumption, IdleIs, CallTyped DEF Ends, Frees, CallStep, Returns, StreamStep, SameWork, SameChain, Typed,
     CallOK, Writes, Erasing, Flushes, Flushing
  <2>3. SharedOK(t)'
    BY <1>18, <1>0, <1>00, FreeClusterDoes, NoneAssumption, FatAssumption, IdleIs, CallTyped DEF Ends, Frees, CallStep, Returns, StreamStep, SameWork, SameChain, SharedOK,
     Writes, Typed, Flushing
  <2> QED
    BY <1>0, <2>1, <2>2, <2>3, <2>4, FramePlaces
<1>19. ASSUME NEW t \in Threads, count(t) PROVE PlacesOK'
  <2>1. Frame(t)
    BY <1>19, <1>0, <1>1000, CountDoes, FatAssumption DEF Goes, CallStep, Frame, Typed
  <2>4. RemovedStay(t)
    BY <1>19, <1>0, CountDoes, FatAssumption DEF Goes, CallStep, RemovedStay
  <2>2. CallOK(t)'
    BY <1>19, <1>0, <1>00, CountDoes, NoneAssumption, FatAssumption, IdleIs, CallTyped DEF Goes, CallStep, SameWork, SameChain, Typed, CallOK, Writes, Erasing, Flushes,
     Flushing
  <2>3. SharedOK(t)'
    BY <1>19, <1>0, <1>00, CountDoes, NoneAssumption, FatAssumption, IdleIs, CallTyped DEF Goes, CallStep, SameWork, SameChain, SharedOK, Writes, Typed, Flushing
  <2> QED
    BY <1>0, <2>1, <2>2, <2>3, <2>4, FramePlaces
<1>20. ASSUME NEW t \in Threads, sync(t) PROVE PlacesOK'
  <2>1. Frame(t)
    BY <1>20, <1>0, <1>1000, SyncDoes, FatAssumption DEF Goes, CallStep, Frame, Typed
  <2>4. RemovedStay(t)
    BY <1>20, <1>0, SyncDoes, FatAssumption DEF Goes, CallStep, RemovedStay
  <2>2. CallOK(t)'
    BY <1>20, <1>0, <1>00, SyncDoes, NoneAssumption, FatAssumption, IdleIs, CallTyped DEF Goes, CallStep, SameWork, SameChain, Typed, CallOK, Writes, Erasing, Flushes,
     Flushing
  <2>3. SharedOK(t)'
    BY <1>20, <1>0, <1>00, SyncDoes, NoneAssumption, FatAssumption, IdleIs, CallTyped DEF Goes, CallStep, SameWork, SameChain, SharedOK, Writes, Typed, Flushing
  <2> QED
    BY <1>0, <2>1, <2>2, <2>3, <2>4, FramePlaces
<1>21. ASSUME NEW t \in Threads, entry(t) PROVE PlacesOK'
  <2>1. Frame(t)
    BY <1>21, <1>0, <1>1000, EntryDoes, FatAssumption DEF Wrote, WroteNew, WroteNewName, WroteMoved, WroteLarger, WroteSmaller,
     WroteErased, Drops, Goes, Returns, CallStep, StreamStep, Frame, Typed
  <2>4. RemovedStay(t)
    BY <1>21, <1>0, EntryDoes, FatAssumption DEF Wrote, WroteNew, WroteNewName, WroteMoved, WroteLarger, WroteSmaller,
     WroteErased, Drops, Goes, Returns, CallStep, StreamStep, RemovedStay
  <2>2. CallOK(t)'
    BY <1>21, <1>0, <1>00, EntryDoes, NoneAssumption, FatAssumption, IdleIs, CallTyped DEF Wrote, WroteNew, WroteNewName, WroteMoved, WroteLarger, WroteSmaller,
     WroteErased, Drops, Goes, Returns, CallStep, StreamStep, SameWork, SameChain,
     Typed, CallOK, Writes, Erasing, Flushes, Flushing
  <2>3. SharedOK(t)'
    BY <1>21, <1>0, <1>00, EntryDoes, NoneAssumption, FatAssumption, IdleIs, CallTyped DEF Wrote, WroteNew, WroteNewName, WroteMoved, WroteLarger, WroteSmaller,
     WroteErased, Drops, Goes, Returns, CallStep, StreamStep, SameWork, SameChain,
     SharedOK, Writes, Typed, Flushing
  <2> QED
    BY <1>0, <2>1, <2>2, <2>3, <2>4, FramePlaces
<1>22. ASSUME NEW t \in Threads, written(t) PROVE PlacesOK'
  <2>1. Frame(t)
    BY <1>22, <1>0, <1>1000, WrittenDoes, FatAssumption DEF Wrote, WroteNew, WroteNewName, WroteMoved, WroteLarger, WroteSmaller,
     WroteErased, Drops, Goes, Returns, CallStep, StreamStep, Frame, Typed
  <2>4. RemovedStay(t)
    BY <1>22, <1>0, WrittenDoes, FatAssumption DEF Wrote, WroteNew, WroteNewName, WroteMoved, WroteLarger, WroteSmaller,
     WroteErased, Drops, Goes, Returns, CallStep, StreamStep, RemovedStay
  <2>2. CallOK(t)'
    BY <1>22, <1>0, <1>00, WrittenDoes, NoneAssumption, FatAssumption, IdleIs, CallTyped DEF Wrote, WroteNew, WroteNewName, WroteMoved, WroteLarger, WroteSmaller,
     WroteErased, Drops, Goes, Returns, CallStep, StreamStep, SameWork, SameChain,
     Typed, CallOK, Writes, Erasing, Flushes, Flushing
  <2>3. SharedOK(t)'
    BY <1>22, <1>0, <1>00, WrittenDoes, NoneAssumption, FatAssumption, IdleIs, CallTyped DEF Wrote, WroteNew, WroteNewName, WroteMoved, WroteLarger, WroteSmaller,
     WroteErased, Drops, Goes, Returns, CallStep, StreamStep, SameWork, SameChain,
     SharedOK, Writes, Typed, Flushing
  <2> QED
    BY <1>0, <2>1, <2>2, <2>3, <2>4, FramePlaces
<1>23. ASSUME NEW t \in Threads, remove(t) PROVE PlacesOK'
  <2>1. Frame(t)
    BY <1>23, <1>0, <1>1000, RemoveDoes, FatAssumption DEF Drops, RemovesStream, Returns, CallStep, StreamStep, Frame, Typed
  <2>4. RemovedStay(t)
    BY <1>23, <1>0, RemoveDoes, FatAssumption DEF Drops, RemovesStream, Returns, CallStep, StreamStep, RemovedStay
  <2>2. CallOK(t)'
    BY <1>23, <1>0, <1>00, RemoveDoes, NoneAssumption, FatAssumption, IdleIs, CallTyped DEF Drops, RemovesStream, Returns, CallStep, StreamStep, SameWork, SameChain,
     Typed, CallOK, Writes, Erasing, Flushes, Flushing
  <2>3. SharedOK(t)'
    BY <1>23, <1>0, <1>00, RemoveDoes, NoneAssumption, FatAssumption, IdleIs, CallTyped DEF Drops, RemovesStream, Returns, CallStep, StreamStep, SameWork, SameChain,
     SharedOK, Writes, Typed, Flushing
  <2> QED
    BY <1>0, <2>1, <2>2, <2>3, <2>4, FramePlaces
<1>24. ASSUME NEW t \in Threads, erase(t) PROVE PlacesOK'
  <2>1. Frame(t)
    BY <1>24, <1>0, <1>1000, EraseDoes, FatAssumption DEF CallStep, Frame, Typed
  <2>4. RemovedStay(t)
    BY <1>24, <1>0, EraseDoes, FatAssumption DEF CallStep, RemovedStay
  <2>2. CallOK(t)'
    BY <1>24, <1>0, <1>00, EraseDoes, NoneAssumption, FatAssumption, IdleIs, CallTyped DEF CallStep, SameWork, SameChain, Typed, CallOK, Writes, Erasing, Flushes,
     Flushing
  <2>3. SharedOK(t)'
    BY <1>24, <1>0, <1>00, EraseDoes, NoneAssumption, FatAssumption, IdleIs, CallTyped DEF CallStep, SameWork, SameChain, SharedOK, Writes, Typed, Flushing
  <2> QED
    BY <1>0, <2>1, <2>2, <2>3, <2>4, FramePlaces
<1>25. ASSUME NEW t \in Threads, renameCreate(t) PROVE PlacesOK'
  <2>1. Frame(t)
    BY <1>25, <1>0, <1>1000, RenameCreateDoes, FatAssumption DEF Makes, CallStep, StreamStep, Frame, Typed
  <2>4. RemovedStay(t)
    BY <1>25, <1>0, RenameCreateDoes, FatAssumption DEF Makes, CallStep, StreamStep, RemovedStay
  <2>2. CallOK(t)'
    <3>1. PICK s \in Streams, o \in Slots, name \in Names :
              /\ Makes(t, s, o, name)
              /\ CallStep(t) /\ SameChain(t) /\ th'[t].op = "rename" /\ th'[t].pc = "sync" /\ th'[t].s = s
              /\ th'[t].old = th[t].old /\ th'[t].lock = th[t].lock /\ th'[t].size = th[t].size
              /\ th'[t].write = "new"
      BY <1>25, <1>0, RenameCreateDoes
    <3>2. th[t].op = "rename" /\ th[t].pc = "create"
      BY <1>25, <1>0, RenameCreateDoes
    <3>3. held[t] = None /\ th[t].old \in Streams /\ th[t].lock = None
      BY <1>00, <3>2 DEF CallOK, Erasing, Flushes, Writes
    <3>4. stream[th[t].old] # None
      BY <3>3, FatAssumption DEF RefsOK
    <3>5. stream[s] = None /\ held' = held
      BY <3>1 DEF Makes
    <3> QED
      BY <3>1, <3>3, <3>4, <3>5 DEF CallOK, Writes, Erasing, Flushes
  <2>3. SharedOK(t)'
    BY <1>25, <1>0, <1>00, RenameCreateDoes, NoneAssumption, FatAssumption, IdleIs, CallTyped DEF Makes, CallStep, StreamStep, SameWork, SameChain, SharedOK, Writes, Typed,
     Flushing
  <2> QED
    BY <1>0, <2>1, <2>2, <2>3, <2>4, FramePlaces
<1>26. ASSUME NEW t \in Threads, renameFails(t) PROVE PlacesOK'
  <2>1. Frame(t)
    BY <1>26, <1>0, <1>1000, RenameFailsDoes, FatAssumption DEF Drops, Returns, CallStep, StreamStep, Frame, Typed
  <2>4. RemovedStay(t)
    BY <1>26, <1>0, RenameFailsDoes, FatAssumption DEF Drops, Returns, CallStep, StreamStep, RemovedStay
  <2>2. CallOK(t)'
    BY <1>26, <1>0, <1>00, RenameFailsDoes, NoneAssumption, FatAssumption, IdleIs, CallTyped DEF Drops, Returns, CallStep, StreamStep, SameWork, SameChain, Typed, CallOK,
     Writes, Erasing, Flushes, Flushing
  <2>3. SharedOK(t)'
    BY <1>26, <1>0, <1>00, RenameFailsDoes, NoneAssumption, FatAssumption, IdleIs, CallTyped DEF Drops, Returns, CallStep, StreamStep, SameWork, SameChain, SharedOK, Writes,
     Typed, Flushing
  <2> QED
    BY <1>0, <2>1, <2>2, <2>3, <2>4, FramePlaces
<1>27. ASSUME NEW t \in Threads, swap(t) PROVE PlacesOK'
  <2>1. Frame(t)
    BY <1>27, <1>0, <1>1000, SwapDoes, FatAssumption DEF Goes, CallStep, Swaps, Frame, Typed
  <2>4. RemovedStay(t)
    BY <1>27, <1>0, SwapDoes, FatAssumption DEF Goes, CallStep, Swaps, RemovedStay
  <2>2. CallOK(t)'
    BY <1>27, <1>0, <1>00, SwapDoes, NoneAssumption, FatAssumption, IdleIs, CallTyped DEF Goes, CallStep, Swaps, SameWork, SameChain, Typed, CallOK, Writes, Erasing,
     Flushes, Flushing
  <2>3. SharedOK(t)'
    BY <1>27, <1>0, <1>00, SwapDoes, NoneAssumption, FatAssumption, IdleIs, CallTyped DEF Goes, CallStep, Swaps, SameWork, SameChain, SharedOK, Writes, Typed, Flushing
  <2> QED
    BY <1>0, <2>1, <2>2, <2>3, <2>4, FramePlaces
<1>28. ASSUME NEW t \in Threads, renameFlush(t) PROVE PlacesOK'
  <2>1. Frame(t)
    BY <1>28, <1>0, <1>1000, RenameFlushDoes, FatAssumption DEF CallStep, Frame, Typed
  <2>4. RemovedStay(t)
    BY <1>28, <1>0, RenameFlushDoes, FatAssumption DEF CallStep, RemovedStay
  <2>2. CallOK(t)'
    BY <1>28, <1>0, <1>00, RenameFlushDoes, NoneAssumption, FatAssumption, IdleIs, CallTyped DEF CallStep, SameWork, SameChain, Typed, CallOK, Writes, Erasing, Flushes,
     Flushing
  <2>3. SharedOK(t)'
    BY <1>28, <1>0, <1>00, RenameFlushDoes, NoneAssumption, FatAssumption, IdleIs, CallTyped DEF CallStep, SameWork, SameChain, SharedOK, Writes, Typed, Flushing
  <2> QED
    BY <1>0, <2>1, <2>2, <2>3, <2>4, FramePlaces
<1> QED
  BY Zenon, <1>1, <1>2, <1>3, <1>4, <1>5, <1>6, <1>7, <1>8, <1>9, <1>10, <1>11, <1>12, <1>13,
     <1>14, <1>15, <1>16, <1>17, <1>18, <1>19, <1>20, <1>21, <1>22, <1>23, <1>24, <1>25,
     <1>26, <1>27, <1>28 DEF Next, Continue

(* The part of the inductive invariant that holds whatever Allow has. *)
Base == TypeOK /\ PlacesOK /\ RefsOK /\ LocksOK /\ MountedOK

(* Every step keeps it. *)
LEMMA BaseStep ==
  ASSUME Base, [Next]_vars
  PROVE  Base'
BY TypesStep, PlacesStep, RefsStep, LocksStep, MountedStep DEF Base

(* It holds at first. *)
LEMMA BaseInit == Init => Base
<1> SUFFICES ASSUME Init PROVE Base
  OBVIOUS
<1>1. /\ fat = [c \in Clusters |-> 0] /\ dir = [o \in Slots |-> None] /\ clean = TRUE
      /\ fsi = [nxtFree |-> 2, freeCount |-> CountOfClusters]
      /\ mounted = "no" /\ nxtFree = Eof /\ freeCount = 0
      /\ stream = [s \in Streams |-> None] /\ held = [t \in Threads |-> None]
      /\ fatMonitor = None /\ rootMonitor = None /\ pageMonitor = None
      /\ th = [t \in Threads |-> Idle]
  BY DEF Init
<1>2. Typed
  BY <1>1, Numbers, IdleIs DEF Typed, Eof
<1>3. TypedRest
  BY <1>1, Numbers DEF TypedRest
<1>4. TypeOK
  BY <1>2, <1>3, TypesAre
<1>5. \A t \in Threads : th[t] = Idle /\ held[t] = None
  BY <1>1
<1>6. PlacesOK
  BY <1>5, IdleIs DEF PlacesOK, CallOK, SharedOK, Writes, Erasing, Flushes
<1>7. RefsOK /\ LocksOK /\ MountedOK
  BY <1>1, IdleIs DEF RefsOK, LocksOK, MountedOK
<1> QED
  BY <1>4, <1>6, <1>7 DEF Base

(* fat.h: links, entries, streams and the calls in progress keep their types, whatever mistakes
   Allow has: no link or remembered cluster is ever out of the FAT (fatCluster.cpp, fatStream.cpp). *)
THEOREM FatTypes == Spec => []TypeOK
<1>1. Init => Base
  BY BaseInit
<1>2. Base /\ [Next]_vars => Base'
  BY BaseStep
<1>3. Base => TypeOK
  BY DEF Base
<1> QED
  BY <1>1, <1>2, <1>3, PTL DEF Spec

(* No lookup(), create(), unbind() or rename() overlaps an unbind() or rename(). *)
ApartOK == \A t, u \in Threads :
    t # u /\ th[t].op \in {"unbind", "rename"} => th[u].op \notin {"create", "unbind", "rename"}

(* A create() in progress is in the directory's monitor. *)
LEMMA BusyRoot ==
  ASSUME PlacesOK, NEW u \in Threads, th[u].op = "create"
  PROVE  rootMonitor = u
BY DEF PlacesOK, CallOK, SharedOK

(* Every step keeps ApartOK: unbind() and rename() wait for the other calls. *)
LEMMA ApartStep ==
  ASSUME "names" \notin Allow, Base, ApartOK, [Next]_vars
  PROVE  ApartOK'
<1>0. Typed /\ PlacesOK /\ RefsOK
  BY TypesAre DEF Base
<1>1. CASE UNCHANGED vars
  BY <1>1 DEF ApartOK, vars
<1>2. CASE mount
  BY <1>2, MountDoes DEF ApartOK, Base
<1>3. CASE dismount
  BY <1>3, DismountDoes DEF ApartOK
<1>4. CASE setClean
  BY <1>4, SetCleanDoes, ForgetDoes, IdleIs DEF ApartOK
<1>5. CASE Crash
  BY <1>5, CrashDoes, ForgetDoes, IdleIs DEF ApartOK
<1>6. ASSUME NEW t \in Threads, NEW name \in Names, open(t, name) PROVE ApartOK'
  BY <1>6, <1>0, OpenDoes, IdleIs, BusyRoot DEF Opens, StreamStep, ApartOK, SameWork, Apart
<1>7. ASSUME NEW t \in Threads, NEW name \in Names, create(t, name) PROVE ApartOK'
  BY <1>7, <1>0, CreateDoes, IdleIs, BusyRoot DEF Makes, Begins, CallStep, StreamStep, ApartOK, SameWork, Apart
<1>8. ASSUME NEW t \in Threads, NEW name \in Names, unbind(t, name) PROVE ApartOK'
  <2>1. /\ th[t] = Idle /\ rootMonitor = None /\ Apart(t)
        /\ \A u \in Threads \ {t} : th'[u] = th[u]
    BY <1>8, <1>0, UnbindDoes DEF Begins, CallStep
  <2>2. \A u \in Threads \ {t} : th[u].op \notin {"create", "unbind", "rename"}
    BY <2>1, <1>0, BusyRoot, FatAssumption DEF Apart
  <2> QED
    BY <2>1, <2>2, <1>0 DEF ApartOK
<1>9. ASSUME NEW t \in Threads, NEW name \in Names, rename(t, name) PROVE ApartOK'
  <2>1. /\ th[t] = Idle /\ rootMonitor = None /\ Apart(t)
        /\ \A u \in Threads \ {t} : th'[u] = th[u]
    BY <1>9, <1>0, RenameDoes DEF Begins, CallStep
  <2>2. \A u \in Threads \ {t} : th[u].op \notin {"create", "unbind", "rename"}
    BY <2>1, <1>0, BusyRoot, FatAssumption DEF Apart
  <2> QED
    BY <2>1, <2>2, <1>0 DEF ApartOK
<1>10. ASSUME NEW t \in Threads, close(t) PROVE ApartOK'
  BY <1>10, <1>0, CloseDoes, IdleIs, BusyRoot DEF Drops, Returns, CallStep, StreamStep, ApartOK, SameWork, Apart
<1>11. ASSUME NEW t \in Threads, NEW position \in 0 .. MaxSize - 1, seek(t, position) PROVE ApartOK'
  BY <1>11, <1>0, SeekDoes, IdleIs, BusyRoot DEF StreamStep, ApartOK, SameWork, Apart
<1>12. ASSUME NEW t \in Threads, NEW size \in 0 .. MaxSize, setSize(t, size) PROVE ApartOK'
  BY <1>12, <1>0, SetSizeDoes, IdleIs, BusyRoot DEF Grows, Shrinks, CallStep, StreamStep, ApartOK, SameWork, Apart
<1>13. ASSUME NEW t \in Threads, allocCluster(t) PROVE ApartOK'
  BY <1>13, <1>0, AllocClusterDoes, IdleIs, BusyRoot DEF Returns, Goes, CallStep, ApartOK, SameWork, Apart
<1>14. ASSUME NEW t \in Threads, mark(t) PROVE ApartOK'
  BY <1>14, <1>0, MarkDoes, IdleIs, BusyRoot DEF Goes, CallStep, ApartOK, SameWork, Apart
<1>15. ASSUME NEW t \in Threads, link(t) PROVE ApartOK'
  BY <1>15, <1>0, LinkDoes, IdleIs, BusyRoot DEF CallStep, ApartOK, SameWork, Apart
<1>16. ASSUME NEW t \in Threads, chain(t) PROVE ApartOK'
  BY <1>16, <1>0, ChainDoes, IdleIs, BusyRoot DEF CallStep, ChainEffect, StreamStep, ApartOK, SameWork, Apart
<1>17. ASSUME NEW t \in Threads, cut(t) PROVE ApartOK'
  BY <1>17, <1>0, CutDoes, IdleIs, BusyRoot DEF CallStep, ApartOK, SameWork, Apart
<1>18. ASSUME NEW t \in Threads, freeCluster(t) PROVE ApartOK'
  BY <1>18, <1>0, FreeClusterDoes, IdleIs, BusyRoot DEF Ends, Frees, CallStep, Returns, StreamStep, ApartOK, SameWork, Apart
<1>19. ASSUME NEW t \in Threads, count(t) PROVE ApartOK'
  BY <1>19, <1>0, CountDoes, IdleIs, BusyRoot DEF Goes, CallStep, ApartOK, SameWork, Apart
<1>20. ASSUME NEW t \in Threads, sync(t) PROVE ApartOK'
  BY <1>20, <1>0, SyncDoes, IdleIs, BusyRoot DEF Goes, CallStep, ApartOK, SameWork, Apart
<1>21. ASSUME NEW t \in Threads, entry(t) PROVE ApartOK'
  BY <1>21, <1>0, EntryDoes, IdleIs, BusyRoot DEF Wrote, WroteNew, WroteNewName, WroteMoved, WroteLarger, WroteSmaller,
     WroteErased, Drops, Goes, Returns, CallStep, StreamStep, ApartOK, SameWork,
     Apart
<1>22. ASSUME NEW t \in Threads, written(t) PROVE ApartOK'
  BY <1>22, <1>0, WrittenDoes, IdleIs, BusyRoot DEF Wrote, WroteNew, WroteNewName, WroteMoved, WroteLarger, WroteSmaller,
     WroteErased, Drops, Goes, Returns, CallStep, StreamStep, ApartOK, SameWork,
     Apart
<1>23. ASSUME NEW t \in Threads, remove(t) PROVE ApartOK'
  BY <1>23, <1>0, RemoveDoes, IdleIs, BusyRoot DEF Drops, RemovesStream, Returns, CallStep, StreamStep, ApartOK, SameWork, Apart
<1>24. ASSUME NEW t \in Threads, erase(t) PROVE ApartOK'
  BY <1>24, <1>0, EraseDoes, IdleIs, BusyRoot DEF CallStep, ApartOK, SameWork, Apart
<1>25. ASSUME NEW t \in Threads, renameCreate(t) PROVE ApartOK'
  BY <1>25, <1>0, RenameCreateDoes, IdleIs, BusyRoot DEF Makes, CallStep, StreamStep, ApartOK, SameWork, Apart
<1>26. ASSUME NEW t \in Threads, renameFails(t) PROVE ApartOK'
  BY <1>26, <1>0, RenameFailsDoes, IdleIs, BusyRoot DEF Drops, Returns, CallStep, StreamStep, ApartOK, SameWork, Apart
<1>27. ASSUME NEW t \in Threads, swap(t) PROVE ApartOK'
  BY <1>27, <1>0, SwapDoes, IdleIs, BusyRoot DEF Goes, CallStep, Swaps, ApartOK, SameWork, Apart
<1>28. ASSUME NEW t \in Threads, renameFlush(t) PROVE ApartOK'
  BY <1>28, <1>0, RenameFlushDoes, IdleIs, BusyRoot DEF CallStep, ApartOK, SameWork, Apart
<1> QED
  BY Zenon, <1>1, <1>2, <1>3, <1>4, <1>5, <1>6, <1>7, <1>8, <1>9, <1>10, <1>11, <1>12, <1>13,
     <1>14, <1>15, <1>16, <1>17, <1>18, <1>19, <1>20, <1>21, <1>22, <1>23, <1>24, <1>25,
     <1>26, <1>27, <1>28 DEF Next, Continue

(* The calls that look a name up and keep its entry: create(), unbind(), rename(). *)
DirectoryCalls == {"create", "unbind", "rename"}
(* Of those calls one is in progress at most, by ApartOK and the directory's monitor. *)
SoloOK == \A t, u \in Threads : t # u /\ th[t].op \in DirectoryCalls => th[u].op \notin DirectoryCalls

(* From its create() to the end of its remove(), rename() has the new stream and the *)
(* one it renames: flush() of the latter exchanges s and old.                         *)
Renaming(t) == th[t].op = "rename" /\ th[t].pc # "create"
(* rename() has exchanged the streams: the new one has the old name. *)
Moved(t) == Renaming(t) /\ (th[t].pc \in {"flush", "remove"} \/ Erasing(t) \/ Flushes(t))
(* Its file has the new name in memory, and not yet in its entry. *)
Unsaved(t) == Renaming(t) /\ (th[t].pc = "flush" \/ Flushes(t))
(* The stream that create() or rename() made. *)
Mine(t) == IF Renaming(t) /\ Flushes(t) THEN th[t].old ELSE th[t].s
(* The stream of the file that rename() was called for. *)
Theirs(t) == IF Flushes(t) THEN th[t].s ELSE th[t].old

(* setSize() has the new size in the fcb of s; its entry is not written yet. *)
Resized(t, s) == /\ th[t].op = "setSize" /\ th[t].s = s
                 /\ th[t].pc \in {"sync", "entry", "written", "cut", "free", "count"}
(* The entry that setSize() is about to write has the size from before. *)
Unwritten(t, s) == th[t].op = "setSize" /\ th[t].s = s /\ th[t].pc \in {"sync", "entry"}

(* The streams a call counts on are in the hash table; the one it removes is not, and *)
(* no other has its entry.                                                             *)
KeptOf(t) ==
    LET c == th[t] IN
    /\ Writes(t, "new") \/ Writes(t, "fcb") \/ c.pc \in {"swap", "flush", "remove"} => Kept(c.s)
    /\ c.op = "rename" => Kept(c.old) /\ (Flushes(t) => Kept(c.s))
    /\ Erasing(t) => /\ stream[c.s].removed
                     /\ \A r \in Streams : Kept(r) => stream[r].offset # stream[c.s].offset
KeptOK == \A t \in Threads : KeptOf(t)

(* No two streams in the hash table have the same entry. *)
OffsetsOK == \A r, s \in Streams : Kept(r) /\ Kept(s) /\ stream[r].offset = stream[s].offset => r = s

(* The new stream of create() or rename() is empty, and nobody has it open. *)
NewOf(t) == th[t].op = "create" \/ Renaming(t) =>
    /\ \A u \in Threads : held[u] # Mine(t)
    /\ stream[Mine(t)].fstClus = 0 /\ stream[Mine(t)].size = 0 /\ stream[Mine(t)].lastClus = 0
NewOK == \A t \in Threads : NewOf(t)

(* The fcb has the first cluster, and the size or the one setSize() is to give. *)
FcbOf(s) == stream[s] # None =>
    /\ stream[s].fcb.fstClus = stream[s].fstClus
    /\ \A u \in Threads : Resized(u, s) => stream[s].fcb.size = th[u].size
    /\ (\A u \in Threads : ~Resized(u, s)) => stream[s].fcb.size = stream[s].size
FcbOK == \A s \in Streams : FcbOf(s)

(* A stream in the hash table has an entry, but while create() makes one; *)
BoundOK == \A s \in Streams : Kept(s) =>
    \/ dir[stream[s].offset] # None /\ \A t \in Threads : ~(Writes(t, "new") /\ th[t].s = s)
    \/ dir[stream[s].offset] = None /\ \E t \in Threads : Writes(t, "new") /\ th[t].s = s

(* the entry has the clusters and the size of its fcb, but while a call is at work. *)
On(o, s) == dir[o] # None /\ dir[o].fstClus = stream[s].fstClus /\ dir[o].size = stream[s].fcb.size
(* The calls that are at work on the entry of s: create() and rename() on that of the new stream,
   setSize() on the one it is to write, and rename() on that of a file whose clusters another entry has. *)
Excused(t, s) ==
    \/ (Writes(t, "new") \/ Moved(t)) /\ Mine(t) = s
    \/ Unwritten(t, s)
    \/ Unsaved(t) /\ Theirs(t) = s /\ On(stream[Mine(t)].offset, s)
(* But for them, an entry in use is that of the stream in memory. *)
EntriesOK == \A s \in Streams : Kept(s) => On(stream[s].offset, s) \/ \E t \in Threads : Excused(t, s)

(* All that is not about files. *)
Placed == Base /\ SoloOK

(* ApartOK and the directory's monitor give SoloOK. *)
LEMMA SoloIs ==
  ASSUME PlacesOK, ApartOK
  PROVE  SoloOK
BY DEF PlacesOK, CallOK, SharedOK, ApartOK, SoloOK, DirectoryCalls

(* What the files in the hash table keep, and what thread t leaves of the removed ones. *)
KeepsKept == \A s \in Streams : Kept(s) => Kept(s)' /\ stream'[s].offset = stream[s].offset
(* No stream comes into the hash table. *)
NoNewKept == \A s \in Streams : Kept(s)' => Kept(s)
(* The removed streams that other calls work on stay as they are. *)
KeepsGone(t) == \A u \in Threads \ {t} : LET s == th[u].s IN
    s \in Streams /\ stream[s] # None /\ stream[s].removed =>
        stream'[s] # None /\ stream'[s].removed /\ stream'[s].offset = stream[s].offset
(* A step of t that does neither. *)
Steady(t) == /\ KeepsKept /\ NoNewKept /\ KeepsGone(t)
             /\ \A u \in Threads \ {t} : th'[u] = th[u]

(* The steps that put no stream into the hash table and take none out. *)
Quiet(t) ==
    \/ close(t)
    \/ \E position \in 0 .. MaxSize - 1 : seek(t, position)
    \/ \E size \in 0 .. MaxSize : setSize(t, size)
    \/ allocCluster(t)
    \/ mark(t)
    \/ link(t)
    \/ chain(t)
    \/ cut(t)
    \/ freeCluster(t)
    \/ count(t)
    \/ sync(t)
    \/ entry(t)
    \/ written(t)
    \/ erase(t)
    \/ renameFails(t)
    \/ renameFlush(t)

(* These steps leave the hash table as it is. *)
LEMMA QuietSteady ==
  ASSUME TypeOK, PlacesOK, RefsOK, NEW t \in Threads, Quiet(t)
  PROVE  Steady(t)
<1>0. Typed
  BY TypesAre
<1>1. ASSUME close(t) PROVE Steady(t)
  BY <1>1, <1>0, CloseDoes, FatAssumption DEF Drops, Returns, CallStep, StreamStep, Steady, KeepsKept, NoNewKept,
     KeepsGone, Kept
<1>2. ASSUME NEW position \in 0 .. MaxSize - 1, seek(t, position) PROVE Steady(t)
  <2>1. LET new == Sought(stream[held[t]], position) IN
        new.removed = stream[held[t]].removed /\ new.offset = stream[held[t]].offset
    <3>1. held[t] \in Streams /\ stream[held[t]] # None /\ position \in Nat
      BY <1>2, <1>0, SeekDoes
    <3> QED
      BY <1>0, <3>1, StreamTyped, SoughtTyped
  <2> QED
    BY <2>1, <1>2, <1>0, SeekDoes, FatAssumption DEF StreamStep, Steady, KeepsKept, NoNewKept, KeepsGone, Kept
<1>3. ASSUME NEW size \in 0 .. MaxSize, setSize(t, size) PROVE Steady(t)
  BY <1>3, <1>0, SetSizeDoes, FatAssumption DEF Grows, Shrinks, CallStep, StreamStep, Steady, KeepsKept, NoNewKept,
     KeepsGone, Kept
<1>4. ASSUME allocCluster(t) PROVE Steady(t)
  BY <1>4, <1>0, AllocClusterDoes, FatAssumption DEF Returns, Goes, CallStep, Steady, KeepsKept, NoNewKept, KeepsGone, Kept
<1>5. ASSUME mark(t) PROVE Steady(t)
  BY <1>5, <1>0, MarkDoes, FatAssumption DEF Goes, CallStep, Steady, KeepsKept, NoNewKept, KeepsGone, Kept
<1>6. ASSUME link(t) PROVE Steady(t)
  BY <1>6, <1>0, LinkDoes, FatAssumption DEF CallStep, Steady, KeepsKept, NoNewKept, KeepsGone, Kept
<1>7. ASSUME chain(t) PROVE Steady(t)
  BY <1>7, <1>0, ChainDoes, FatAssumption DEF CallStep, ChainEffect, StreamStep, Steady, KeepsKept, NoNewKept, KeepsGone,
     Kept
<1>8. ASSUME cut(t) PROVE Steady(t)
  BY <1>8, <1>0, CutDoes, FatAssumption DEF CallStep, Steady, KeepsKept, NoNewKept, KeepsGone, Kept
<1>9. ASSUME freeCluster(t) PROVE Steady(t)
  BY <1>9, <1>0, FreeClusterDoes, FatAssumption DEF Ends, Frees, CallStep, Returns, StreamStep, Steady, KeepsKept, NoNewKept,
     KeepsGone, Kept
<1>10. ASSUME count(t) PROVE Steady(t)
  BY <1>10, <1>0, CountDoes, FatAssumption DEF Goes, CallStep, Steady, KeepsKept, NoNewKept, KeepsGone, Kept
<1>11. ASSUME sync(t) PROVE Steady(t)
  BY <1>11, <1>0, SyncDoes, FatAssumption DEF Goes, CallStep, Steady, KeepsKept, NoNewKept, KeepsGone, Kept
<1>12. ASSUME entry(t) PROVE Steady(t)
  BY <1>12, <1>0, EntryDoes, FatAssumption DEF Wrote, WroteNew, WroteNewName, WroteMoved, WroteLarger, WroteSmaller,
     WroteErased, Drops, Goes, Returns, CallStep, StreamStep, Steady, KeepsKept,
     NoNewKept, KeepsGone, Kept
<1>13. ASSUME written(t) PROVE Steady(t)
  BY <1>13, <1>0, WrittenDoes, FatAssumption DEF Wrote, WroteNew, WroteNewName, WroteMoved, WroteLarger, WroteSmaller,
     WroteErased, Drops, Goes, Returns, CallStep, StreamStep, Steady, KeepsKept,
     NoNewKept, KeepsGone, Kept
<1>14. ASSUME erase(t) PROVE Steady(t)
  BY <1>14, <1>0, EraseDoes, FatAssumption DEF CallStep, Steady, KeepsKept, NoNewKept, KeepsGone, Kept
<1>15. ASSUME renameFails(t) PROVE Steady(t)
  BY <1>15, <1>0, RenameFailsDoes, FatAssumption DEF Drops, Returns, CallStep, StreamStep, Steady, KeepsKept, NoNewKept,
     KeepsGone, Kept
<1>16. ASSUME renameFlush(t) PROVE Steady(t)
  BY <1>16, <1>0, RenameFlushDoes, FatAssumption DEF CallStep, Steady, KeepsKept, NoNewKept, KeepsGone, Kept
<1> QED
  BY Zenon, <1>1, <1>2, <1>3, <1>4, <1>5, <1>6, <1>7, <1>8, <1>9, <1>10, <1>11, <1>12, <1>13,
     <1>14, <1>15, <1>16 DEF Quiet

(* A step that leaves the hash table as it is keeps what calls count on, if t's own call does. *)
LEMMA KeptSteady ==
  ASSUME Typed, PlacesOK, RefsOK, KeptOK, NEW t \in Threads, Steady(t)
  PROVE  \A u \in Threads \ {t} : KeptOf(u)'
<1> SUFFICES ASSUME NEW u \in Threads \ {t} PROVE KeptOf(u)'
  OBVIOUS
<1>1. th'[u] = th[u] /\ KeptOf(u) /\ th[u] \in Calls /\ CallOK(u)
  BY DEF Steady, KeptOK, PlacesOK, Typed
<1>2. (Writes(u, "new") \/ Writes(u, "fcb") \/ th[u].pc \in {"swap", "flush", "remove"} => Kept(th[u].s)')
      /\ (th[u].op = "rename" => Kept(th[u].old)' /\ (Flushes(u) => Kept(th[u].s)'))
  BY <1>1 DEF KeptOf, Steady, KeepsKept, Kept
<1>3. ASSUME Erasing(u)
      PROVE  /\ stream'[th[u].s].removed
             /\ \A r \in Streams : Kept(r)' => stream'[r].offset # stream'[th[u].s].offset
  <2>1. th[u].op \in {"unbind", "rename"} /\ th[u].s \in Streams
    BY <1>1, <1>3, OpOf DEF Erasing, Writes, CallOK, PlacesOK, Calls, Operations
  <2>2. stream[th[u].s] # None /\ stream[th[u].s].removed
    <3>1. stream[th[u].s].removed
      BY <1>1, <1>3 DEF KeptOf
    <3>2. th[u].s # None
      BY <2>1, FatAssumption
    <3> QED
      BY <3>1, <3>2 DEF RefsOK
  <2> QED
    BY <1>1, <1>3, <2>1, <2>2 DEF KeptOf, Steady, KeepsGone, NoNewKept, KeepsKept, Kept
<1> QED
  BY <1>1, <1>2, <1>3 DEF KeptOf, Writes, Erasing, Flushes

(* A thread that is not in create(), unbind() or rename() counts on a stream it has locked. *)
LEMMA KeptOther ==
  ASSUME Typed, PlacesOK, KeptOK, NEW u \in Threads, th'[u] = th[u], th[u].op \notin DirectoryCalls,
         \A s \in Streams : Kept(s) /\ th[u].lock = s => Kept(s)'
  PROVE  KeptOf(u)'
<1>1. KeptOf(u) /\ th[u] \in Calls /\ CallOK(u)
  BY DEF KeptOK, PlacesOK, Typed
<1>2. ~Writes(u, "new") /\ ~Erasing(u) /\ th[u].pc \notin {"swap", "flush", "remove"} /\ th[u].op # "rename"
  BY <1>1, OpOf DEF CallOK, Writes, Erasing, DirectoryCalls
<1>3. Writes(u, "fcb") => Kept(th[u].s)'
  <2>1. SUFFICES ASSUME Writes(u, "fcb") PROVE Kept(th[u].s)'
    OBVIOUS
  <2>2. th[u].op = "setSize"
    BY <1>1, <2>1 DEF CallOK, Writes, DirectoryCalls, Calls, Operations
  <2> QED
    BY <1>1, <2>1, <2>2 DEF KeptOf, CallOK
<1> QED
  BY <1>1, <1>2, <1>3 DEF KeptOf, Writes, Erasing, Flushes

(* While t is in one of the three calls, no other thread is. *)
LEMMA NobodyNames ==
  ASSUME Typed, PlacesOK, NEW t \in Threads, Apart(t), rootMonitor = None, "names" \notin Allow
  PROVE  \A u \in Threads \ {t} : th[u].op \notin DirectoryCalls
BY BusyRoot, FatAssumption DEF Apart, DirectoryCalls

(* The stream of a new file is in the hash table. *)
LEMMA NewFile ==
  ASSUME Typed, NEW o \in Slots, NEW name \in Names
  PROVE  FatStream(o, Entry(name, 0, 0)) # None /\ ~FatStream(o, Entry(name, 0, 0)).removed
<1>1. Entry(name, 0, 0) \in Entries
  BY Numbers DEF Entries, Entry
<1>2. FatStream(o, Entry(name, 0, 0)) \in FatStreams
  BY <1>1, Numbers DEF Entries, FatStreams, FatStream, Links
<1> QED
  BY <1>2, NoneAssumption DEF FatStream

(* The call goes on, or is over. *)
LEMMA AfterWrote ==
  ASSUME Typed, PlacesOK, RefsOK, KeptOK, NEW t \in Threads, th[t].pc \in {"entry", "written"}, Wrote(t), Steady(t)
  PROVE  KeptOf(t)'
<1>1. th[t] \in Calls /\ CallOK(t) /\ SharedOK(t) /\ KeptOf(t)
  BY DEF PlacesOK, KeptOK, Typed
<1>2. CASE th'[t] = Idle
  BY <1>2, IdleIs DEF KeptOf, Writes, Erasing, Flushes
<1>3. CASE WroteNewName(t)
  <2>1. Writes(t, "new")
    BY <1>1, <1>3 DEF WroteNewName, Writes, Erasing, Flushes, CallOK
  <2>2. Kept(th[t].s) /\ Kept(th[t].old)
    BY <1>1, <1>3, <2>1 DEF WroteNewName, KeptOf
  <2> QED
    BY <1>3, <2>2 DEF WroteNewName, Goes, SameWork, KeptOf, Writes, Erasing, Flushes, Kept
<1>4. CASE WroteMoved(t)
  <2>1. Kept(th[t].s) /\ Kept(th[t].old)
    BY <1>1, <1>4 DEF WroteMoved, KeptOf, Writes, Flushes, CallOK, SharedOK, Kept
  <2> QED
    BY <1>4, <2>1 DEF WroteMoved, KeptOf, Writes, Erasing, Flushes, Kept
<1>5. CASE WroteSmaller(t)
  BY <1>5 DEF WroteSmaller, Goes, SameWork, KeptOf, Writes, Erasing, Flushes
<1> QED
  BY Zenon, <1>2, <1>3, <1>4, <1>5 DEF Wrote, WroteNew, WroteLarger, WroteErased, Returns, Drops

(* Nothing changes in the calls and the streams. *)
LEMMA KeptSame ==
  ASSUME KeptOK, th' = th, stream' = stream
  PROVE  KeptOK'
<1> SUFFICES ASSUME NEW t \in Threads PROVE KeptOf(t)'
  BY DEF KeptOK
<1>1. KeptOf(t) /\ th'[t] = th[t]
  BY DEF KeptOK
<1>2. \A s \in Streams : Kept(s)' <=> Kept(s)
  BY DEF Kept
<1>3. (Writes(t, "new")' <=> Writes(t, "new")) /\ (Writes(t, "fcb")' <=> Writes(t, "fcb"))
      /\ (Erasing(t)' <=> Erasing(t)) /\ (Flushes(t)' <=> Flushes(t))
  BY <1>1 DEF Writes, Erasing, Flushes
<1> QED
  BY <1>1, <1>2, <1>3 DEF KeptOf, Kept

(* Every step keeps KeptOK. *)
LEMMA KeptStep ==
  ASSUME "names" \notin Allow, Placed, KeptOK, OffsetsOK, [Next]_vars
  PROVE  KeptOK'
<1>0. Typed /\ PlacesOK /\ RefsOK /\ TypeOK /\ LocksOK /\ SoloOK /\ OffsetsOK
  BY TypesAre DEF Placed, Base
<1>00. \A t \in Threads : th[t] \in Calls /\ CallOK(t) /\ SharedOK(t) /\ KeptOf(t)
  BY <1>0 DEF PlacesOK, KeptOK, Typed
<1>1. CASE UNCHANGED vars
  BY <1>1, KeptSame DEF vars
<1>2. CASE mount
  BY <1>2, <1>0, MountDoes, KeptSame
<1>3. CASE dismount
  BY <1>3, <1>0, DismountDoes, KeptSame
<1>4. CASE setClean
  BY <1>4, SetCleanDoes, ForgetDoes, IdleIs DEF KeptOK, KeptOf, Kept, Writes, Erasing
<1>5. CASE Crash
  BY <1>5, CrashDoes, ForgetDoes, IdleIs DEF KeptOK, KeptOf, Kept, Writes, Erasing
<1>6. ASSUME NEW t \in Threads, NEW name \in Names, open(t, name) PROVE KeptOK'
  <2>1. KeepsKept
    BY <1>6, <1>0, OpenDoes, FatAssumption DEF Opens, StreamStep, KeepsKept, Kept
  <2>3. \A u \in Threads \ {t} : th[u].op \notin DirectoryCalls /\ th'[u] = th[u]
    BY <1>6, <1>0, OpenDoes, IdleIs, NobodyNames DEF Opens, StreamStep, Typed
  <2>2. KeptOf(t)'
    BY <1>6, <1>0, <1>00, <2>1, OpenDoes, FatAssumption, IdleIs DEF Opens, StreamStep, KeptOf, Writes, Erasing, Flushes, Kept, Typed, PlacesOK,
     CallOK, SharedOK, SameWork, SameChain, Flushing, Steady, KeepsKept, NoNewKept, KeptOK
  <2> QED
    BY <1>0, <2>1, <2>2, <2>3, KeptOther DEF KeptOK, KeepsKept
<1>7. ASSUME NEW t \in Threads, NEW name \in Names, create(t, name) PROVE KeptOK'
  <2>1. PICK s \in Streams, o \in Slots : Makes(t, s, o, name) /\ Begins(t, "create", "sync", s, None, "new")
    BY <1>7, <1>0, CreateDoes
  <2>2. stream'[s] # None /\ ~stream'[s].removed
    BY <1>0, <2>1, NewFile DEF Makes, StreamStep
  <2>3. KeepsKept
    BY <2>1, <1>0 DEF Makes, StreamStep, KeepsKept, Kept
  <2>4. \A u \in Threads \ {t} : th[u].op \notin DirectoryCalls /\ th'[u] = th[u]
    BY <2>1, <1>0, NobodyNames DEF Makes, Begins, CallStep
  <2>5. KeptOf(t)'
    BY <2>1, <2>2 DEF Begins, KeptOf, Kept, Writes, Erasing
  <2> QED
    BY <1>0, <2>3, <2>4, <2>5, KeptOther DEF KeptOK, KeepsKept
<1>8. ASSUME NEW t \in Threads, NEW name \in Names, unbind(t, name) PROVE KeptOK'
  <2>1. KeepsKept
    BY <1>8, <1>0, UnbindDoes, FatAssumption DEF Opens, Begins, StreamStep, CallStep, KeepsKept, Kept
  <2>3. \A u \in Threads \ {t} : th[u].op \notin DirectoryCalls /\ th'[u] = th[u]
    BY <1>8, <1>0, UnbindDoes, IdleIs, NobodyNames DEF Opens, Begins, StreamStep, CallStep, Typed
  <2>2. KeptOf(t)'
    <3>1. Writes(t, "new")' \/ Writes(t, "fcb")' \/ th'[t].pc \in {"swap", "flush", "remove"} => Kept(th[t].s)'
      BY <1>8, <1>0, <1>00, <2>1, UnbindDoes, FatAssumption, IdleIs DEF Opens, Begins, StreamStep, CallStep, KeptOf, Writes, Erasing, Flushes, Kept,
       Typed, PlacesOK, CallOK, SharedOK, SameWork, SameChain, Flushing, Steady, KeepsKept, NoNewKept, KeptOK
    <3>2. th'[t].op = "rename" => Kept(th[t].old)' /\ (Flushes(t)' => Kept(th[t].s)')
      BY <1>8, <1>0, <1>00, <2>1, UnbindDoes, FatAssumption, IdleIs DEF Opens, Begins, StreamStep, CallStep, KeptOf, Writes, Erasing, Flushes, Kept,
       Typed, PlacesOK, CallOK, SharedOK, SameWork, SameChain, Flushing, Steady, KeepsKept, NoNewKept, KeptOK
    <3>3. Erasing(t)' => stream'[th'[t].s].removed /\ \A r \in Streams : Kept(r)' => stream'[r].offset # stream'[th'[t].s].offset
      BY <1>8, <1>0, <1>00, <2>1, UnbindDoes, FatAssumption, IdleIs DEF Opens, Begins, StreamStep, CallStep, KeptOf, Writes, Erasing, Flushes, Kept,
       Typed, PlacesOK, CallOK, SharedOK, SameWork, SameChain, Flushing, Steady, KeepsKept, NoNewKept, KeptOK
    <3> QED
      BY <3>1, <3>2, <3>3 DEF KeptOf
  <2> QED
    BY <1>0, <2>1, <2>2, <2>3, KeptOther DEF KeptOK, KeepsKept
<1>9. ASSUME NEW t \in Threads, NEW name \in Names, rename(t, name) PROVE KeptOK'
  <2>1. KeepsKept
    BY <1>9, <1>0, RenameDoes, FatAssumption DEF Opens, Begins, StreamStep, CallStep, KeepsKept, Kept
  <2>3. \A u \in Threads \ {t} : th[u].op \notin DirectoryCalls /\ th'[u] = th[u]
    BY <1>9, <1>0, RenameDoes, IdleIs, NobodyNames DEF Opens, Begins, StreamStep, CallStep, Typed
  <2>2. KeptOf(t)'
    BY <1>9, <1>0, <1>00, <2>1, RenameDoes, FatAssumption, IdleIs DEF Opens, Begins, StreamStep, CallStep, KeptOf, Writes, Erasing, Flushes, Kept,
     Typed, PlacesOK, CallOK, SharedOK, SameWork, SameChain, Flushing, Steady, KeepsKept, NoNewKept, KeptOK
  <2> QED
    BY <1>0, <2>1, <2>2, <2>3, KeptOther DEF KeptOK, KeepsKept
<1>10. ASSUME NEW t \in Threads, close(t) PROVE KeptOK'
  <2>1. Steady(t)
    BY Zenon, <1>10, <1>0, QuietSteady DEF Quiet
  <2>2. KeptOf(t)'
    BY <1>10, <1>0, <1>00, <2>1, CloseDoes, FatAssumption, IdleIs DEF Drops, Returns, CallStep, StreamStep, KeptOf, Writes, Erasing, Flushes, Kept,
     Typed, PlacesOK, CallOK, SharedOK, SameWork, SameChain, Flushing, Steady, KeepsKept, NoNewKept, KeptOK
  <2> QED
    BY <1>0, <2>1, <2>2, KeptSteady DEF KeptOK
<1>11. ASSUME NEW t \in Threads, NEW position \in 0 .. MaxSize - 1, seek(t, position) PROVE KeptOK'
  <2>1. Steady(t)
    BY Zenon, <1>11, <1>0, QuietSteady DEF Quiet
  <2>2. KeptOf(t)'
    BY <1>11, <1>0, <1>00, <2>1, SeekDoes, FatAssumption, IdleIs DEF StreamStep, KeptOf, Writes, Erasing, Flushes, Kept, Typed, PlacesOK, CallOK,
     SharedOK, SameWork, SameChain, Flushing, Steady, KeepsKept, NoNewKept, KeptOK
  <2> QED
    BY <1>0, <2>1, <2>2, KeptSteady DEF KeptOK
<1>12. ASSUME NEW t \in Threads, NEW size \in 0 .. MaxSize, setSize(t, size) PROVE KeptOK'
  <2>1. Steady(t)
    BY Zenon, <1>12, <1>0, QuietSteady DEF Quiet
  <2> DEFINE s == held[t]
  <2>3. s \in Streams /\ stream[s] # None
    BY <1>12, <1>0, SetSizeDoes
  <2>4. \/ th'[t].op = "setSize" /\ th'[t].pc = "alloc"
        \/ /\ th'[t].op = "setSize" /\ th'[t].pc = Flushing(s) /\ th'[t].write = "fcb" /\ th'[t].s = s
           /\ stream'[s] # None /\ stream'[s].removed = stream[s].removed
    BY <1>12, <1>0, SetSizeDoes DEF Grows, Shrinks
  <2> HIDE DEF s
  <2>2. KeptOf(t)'
    BY <2>3, <2>4 DEF KeptOf, Kept, Writes, Erasing, Flushes, Flushing
  <2> QED
    BY <1>0, <2>1, <2>2, KeptSteady DEF KeptOK
<1>13. ASSUME NEW t \in Threads, allocCluster(t) PROVE KeptOK'
  <2>1. Steady(t)
    BY Zenon, <1>13, <1>0, QuietSteady DEF Quiet
  <2>2. KeptOf(t)'
    BY <1>13, <1>0, <1>00, <2>1, AllocClusterDoes, FatAssumption, IdleIs DEF Returns, Goes, CallStep, KeptOf, Writes, Erasing, Flushes, Kept, Typed,
     PlacesOK, CallOK, SharedOK, SameWork, SameChain, Flushing, Steady, KeepsKept, NoNewKept, KeptOK
  <2> QED
    BY <1>0, <2>1, <2>2, KeptSteady DEF KeptOK
<1>14. ASSUME NEW t \in Threads, mark(t) PROVE KeptOK'
  <2>1. Steady(t)
    BY Zenon, <1>14, <1>0, QuietSteady DEF Quiet
  <2>2. KeptOf(t)'
    BY <1>14, <1>0, <1>00, <2>1, MarkDoes, FatAssumption, IdleIs DEF Goes, CallStep, KeptOf, Writes, Erasing, Flushes, Kept, Typed, PlacesOK,
     CallOK, SharedOK, SameWork, SameChain, Flushing, Steady, KeepsKept, NoNewKept, KeptOK
  <2> QED
    BY <1>0, <2>1, <2>2, KeptSteady DEF KeptOK
<1>15. ASSUME NEW t \in Threads, link(t) PROVE KeptOK'
  <2>1. Steady(t)
    BY Zenon, <1>15, <1>0, QuietSteady DEF Quiet
  <2>3. th[t].op = "setSize" /\ th'[t].op = "setSize" /\ th'[t].pc \in {"mark", "chain"}
    BY <1>15, <1>0, LinkDoes, OpOf DEF SameWork
  <2>2. KeptOf(t)'
    BY <2>3 DEF KeptOf, Writes, Erasing, Flushes
  <2> QED
    BY <1>0, <2>1, <2>2, KeptSteady DEF KeptOK
<1>16. ASSUME NEW t \in Threads, chain(t) PROVE KeptOK'
  <2>1. Steady(t)
    BY Zenon, <1>16, <1>0, QuietSteady DEF Quiet
  <2>3. /\ th[t].op = "setSize" /\ th[t].s \in Streams /\ stream'[th[t].s] # None
        /\ stream'[th[t].s].removed = stream[th[t].s].removed
        /\ th'[t].op = th[t].op /\ th'[t].s = th[t].s /\ th'[t].pc = Flushing(th[t].s) /\ th'[t].write = "fcb"
    BY <1>16, <1>0, ChainDoes DEF ChainEffect, SameWork
  <2>2. KeptOf(t)'
    BY <2>3 DEF KeptOf, Kept, Writes, Erasing, Flushing
  <2> QED
    BY <1>0, <2>1, <2>2, KeptSteady DEF KeptOK
<1>17. ASSUME NEW t \in Threads, cut(t) PROVE KeptOK'
  <2>1. Steady(t)
    BY Zenon, <1>17, <1>0, QuietSteady DEF Quiet
  <2>2. KeptOf(t)'
    BY <1>17, <1>0, <1>00, <2>1, CutDoes, FatAssumption, IdleIs DEF CallStep, KeptOf, Writes, Erasing, Flushes, Kept, Typed, PlacesOK, CallOK,
     SharedOK, SameWork, SameChain, Flushing, Steady, KeepsKept, NoNewKept, KeptOK
  <2> QED
    BY <1>0, <2>1, <2>2, KeptSteady DEF KeptOK
<1>18. ASSUME NEW t \in Threads, freeCluster(t) PROVE KeptOK'
  <2>1. Steady(t)
    BY Zenon, <1>18, <1>0, QuietSteady DEF Quiet
  <2>2. KeptOf(t)'
    BY <1>18, <1>0, <1>00, <2>1, FreeClusterDoes, FatAssumption, IdleIs DEF Ends, Frees, CallStep, Returns, StreamStep, KeptOf, Writes, Erasing, Flushes,
     Kept, Typed, PlacesOK, CallOK, SharedOK, SameWork, SameChain, Flushing, Steady, KeepsKept, NoNewKept, KeptOK
  <2> QED
    BY <1>0, <2>1, <2>2, KeptSteady DEF KeptOK
<1>19. ASSUME NEW t \in Threads, count(t) PROVE KeptOK'
  <2>1. Steady(t)
    BY Zenon, <1>19, <1>0, QuietSteady DEF Quiet
  <2>2. KeptOf(t)'
    BY <1>19, <1>0, <1>00, <2>1, CountDoes, FatAssumption, IdleIs DEF Goes, CallStep, KeptOf, Writes, Erasing, Flushes, Kept, Typed, PlacesOK,
     CallOK, SharedOK, SameWork, SameChain, Flushing, Steady, KeepsKept, NoNewKept, KeptOK
  <2> QED
    BY <1>0, <2>1, <2>2, KeptSteady DEF KeptOK
<1>20. ASSUME NEW t \in Threads, sync(t) PROVE KeptOK'
  <2>1. Steady(t)
    BY Zenon, <1>20, <1>0, QuietSteady DEF Quiet
  <2>2. KeptOf(t)'
    BY <1>20, <1>0, <1>00, <2>1, SyncDoes, FatAssumption, IdleIs DEF Goes, CallStep, KeptOf, Writes, Erasing, Flushes, Kept, Typed, PlacesOK,
     CallOK, SharedOK, SameWork, SameChain, Flushing, Steady, KeepsKept, NoNewKept, KeptOK
  <2> QED
    BY <1>0, <2>1, <2>2, KeptSteady DEF KeptOK
<1>21. ASSUME NEW t \in Threads, entry(t) PROVE KeptOK'
  <2>1. Steady(t)
    BY Zenon, <1>21, <1>0, QuietSteady DEF Quiet
  <2>3. th[t].pc = "entry" /\ Wrote(t)
    BY <1>21, <1>0, EntryDoes
  <2>2. KeptOf(t)'
    BY <1>0, <1>00, <2>1, <2>3, AfterWrote DEF KeptOK
  <2> QED
    BY <1>0, <2>1, <2>2, KeptSteady DEF KeptOK
<1>22. ASSUME NEW t \in Threads, written(t) PROVE KeptOK'
  <2>1. Steady(t)
    BY Zenon, <1>22, <1>0, QuietSteady DEF Quiet
  <2>3. th[t].pc = "written" /\ Wrote(t)
    BY <1>22, <1>0, WrittenDoes
  <2>2. KeptOf(t)'
    BY <1>0, <1>00, <2>1, <2>3, AfterWrote DEF KeptOK
  <2> QED
    BY <1>0, <2>1, <2>2, KeptSteady DEF KeptOK
<1>23. ASSUME NEW t \in Threads, remove(t) PROVE KeptOK'
  <2> DEFINE s == th[t].s
  <2>1. /\ th[t].pc = "remove" /\ th[t].op \in {"unbind", "rename"} /\ Unlocked(s, t)
        /\ (stream[s].removed /\ Drops(t, s)) \/ RemovesStream(t)
    BY <1>23, <1>0, RemoveDoes
  <2>2. Kept(s) /\ (th[t].op = "rename" => Kept(th[t].old) /\ th[t].old # s)
    BY <2>1, <1>00 DEF KeptOf, CallOK
  <2>3. /\ stream'[s].removed /\ stream'[s].offset = stream[s].offset
        /\ \A r \in Streams \ {s} : stream'[r] = stream[r]
        /\ \A u \in Threads \ {t} : th'[u] = th[u]
        /\ th'[t].op = th[t].op /\ th'[t].s = s /\ th'[t].old = th[t].old /\ th'[t].pc = "erase"
    BY <2>1, <2>2 DEF RemovesStream, StreamStep, CallStep, Kept
  <2>4. \A u \in Threads \ {t} : th[u].op \notin DirectoryCalls
    BY <1>0, <2>1 DEF SoloOK, DirectoryCalls
  <2>5. \A r \in Streams : Kept(r)' => Kept(r) /\ r # s
    BY <2>3 DEF Kept
  <2>6. KeptOf(t)'
    <3>1. Kept(th[t].old)' \/ th[t].op # "rename"
      BY <2>2, <2>3 DEF Kept
    <3>2. \A r \in Streams : Kept(r)' => stream'[r].offset # stream'[s].offset
      BY <2>2, <2>3, <2>5 DEF OffsetsOK, Kept
    <3> QED
      BY <2>3, <3>1, <3>2 DEF KeptOf, Writes, Erasing, Flushes
  <2>7. \A r \in Streams \ {s} : Kept(r) => Kept(r)'
    BY <2>3 DEF Kept
  <2> HIDE DEF s
  <2>8. \A u \in Threads \ {t} : th[u].lock # s
    BY <2>1 DEF Unlocked
  <2> QED
    BY <1>0, <2>3, <2>4, <2>6, <2>7, <2>8, KeptOther DEF KeptOK
<1>24. ASSUME NEW t \in Threads, erase(t) PROVE KeptOK'
  <2>1. Steady(t)
    BY Zenon, <1>24, <1>0, QuietSteady DEF Quiet
  <2>2. KeptOf(t)'
    <3>1. Writes(t, "new")' \/ Writes(t, "fcb")' \/ th'[t].pc \in {"swap", "flush", "remove"} => Kept(th[t].s)'
      BY <1>24, <1>0, <1>00, <2>1, EraseDoes, FatAssumption, IdleIs DEF CallStep, KeptOf, Writes, Erasing, Flushes, Kept, Typed, PlacesOK, CallOK,
       SharedOK, SameWork, SameChain, Flushing, Steady, KeepsKept, NoNewKept, KeptOK
    <3>2. th'[t].op = "rename" => Kept(th[t].old)' /\ (Flushes(t)' => Kept(th[t].s)')
      BY <1>24, <1>0, <1>00, <2>1, EraseDoes, FatAssumption, IdleIs DEF CallStep, KeptOf, Writes, Erasing, Flushes, Kept, Typed, PlacesOK, CallOK,
       SharedOK, SameWork, SameChain, Flushing, Steady, KeepsKept, NoNewKept, KeptOK
    <3>3. Erasing(t)' => stream'[th'[t].s].removed /\ \A r \in Streams : Kept(r)' => stream'[r].offset # stream'[th'[t].s].offset
      BY <1>24, <1>0, <1>00, <2>1, EraseDoes, FatAssumption, IdleIs DEF CallStep, KeptOf, Writes, Erasing, Flushes, Kept, Typed, PlacesOK, CallOK,
       SharedOK, SameWork, SameChain, Flushing, Steady, KeepsKept, NoNewKept, KeptOK
    <3> QED
      BY <3>1, <3>2, <3>3 DEF KeptOf
  <2> QED
    BY <1>0, <2>1, <2>2, KeptSteady DEF KeptOK
<1>25. ASSUME NEW t \in Threads, renameCreate(t) PROVE KeptOK'
  <2>1. PICK s \in Streams, o \in Slots, name \in Names :
              /\ Makes(t, s, o, name)
              /\ CallStep(t) /\ SameChain(t) /\ th'[t].op = "rename" /\ th'[t].pc = "sync" /\ th'[t].s = s
              /\ th'[t].old = th[t].old /\ th'[t].lock = th[t].lock /\ th'[t].size = th[t].size
              /\ th'[t].write = "new"
    BY <1>25, <1>0, RenameCreateDoes
  <2>2. stream'[s] # None /\ ~stream'[s].removed
    BY <1>0, <2>1, NewFile DEF Makes, StreamStep
  <2>3. KeepsKept
    BY <2>1, <1>0 DEF Makes, StreamStep, KeepsKept, Kept
  <2>4. \A u \in Threads \ {t} : th[u].op \notin DirectoryCalls /\ th'[u] = th[u]
    BY <2>1, <1>0, NobodyNames DEF Makes, CallStep
  <2>6. Kept(th[t].old)
    BY <1>25, <1>0, <1>00, RenameCreateDoes DEF KeptOf
  <2>5. KeptOf(t)'
    BY <2>1, <2>2, <2>3, <2>6 DEF KeptOf, KeepsKept, Kept, Writes, Erasing
  <2> QED
    BY <1>0, <2>3, <2>4, <2>5, KeptOther DEF KeptOK, KeepsKept
<1>26. ASSUME NEW t \in Threads, renameFails(t) PROVE KeptOK'
  <2>1. Steady(t)
    BY Zenon, <1>26, <1>0, QuietSteady DEF Quiet
  <2>2. KeptOf(t)'
    BY <1>26, <1>0, <1>00, <2>1, RenameFailsDoes, FatAssumption, IdleIs DEF Drops, Returns, CallStep, StreamStep, KeptOf, Writes, Erasing, Flushes, Kept,
     Typed, PlacesOK, CallOK, SharedOK, SameWork, SameChain, Flushing, Steady, KeepsKept, NoNewKept, KeptOK
  <2> QED
    BY <1>0, <2>1, <2>2, KeptSteady DEF KeptOK
<1>27. ASSUME NEW t \in Threads, swap(t) PROVE KeptOK'
  <2>1. /\ th[t].pc = "swap" /\ th[t].op = "rename" /\ Goes(t, "flush") /\ Swaps(th[t].s, th[t].old)
        /\ th[t].s \in Streams /\ th[t].old \in Streams
    BY <1>27, <1>0, SwapDoes
  <2>2. Kept(th[t].s) /\ Kept(th[t].old)
    BY <2>1, <1>00 DEF KeptOf
  <2>3. \A s \in Streams : Kept(s) => Kept(s)'
    BY <2>1 DEF Swaps, Kept
  <2>4. \A u \in Threads \ {t} : th[u].op \notin DirectoryCalls /\ th'[u] = th[u]
    BY <1>0, <2>1 DEF SoloOK, DirectoryCalls, Goes, CallStep
  <2>5. KeptOf(t)'
    BY <2>1, <2>2, <2>3 DEF Goes, SameWork, KeptOf, Writes, Erasing, Flushes, Kept
  <2> QED
    BY <1>0, <2>3, <2>4, <2>5, KeptOther DEF KeptOK
<1>28. ASSUME NEW t \in Threads, renameFlush(t) PROVE KeptOK'
  <2>1. Steady(t)
    BY Zenon, <1>28, <1>0, QuietSteady DEF Quiet
  <2>3. th[t].pc = "flush" /\ th[t].op = "rename" /\ th'[t].op = "rename" /\ th'[t].pc = Flushing(th[t].old)
        /\ th'[t].write = "fcb" /\ th'[t].s = th[t].old /\ th'[t].old = th[t].s /\ stream' = stream
    BY <1>28, <1>0, RenameFlushDoes
  <2>4. Kept(th[t].s) /\ Kept(th[t].old)
    BY <2>3, <1>00 DEF KeptOf
  <2>2. KeptOf(t)'
    BY <2>3, <2>4 DEF KeptOf, Kept, Writes, Erasing, Flushes, Flushing
  <2> QED
    BY <1>0, <2>1, <2>2, KeptSteady DEF KeptOK
<1> QED
  BY Zenon, <1>1, <1>2, <1>3, <1>4, <1>5, <1>6, <1>7, <1>8, <1>9, <1>10, <1>11, <1>12, <1>13,
     <1>14, <1>15, <1>16, <1>17, <1>18, <1>19, <1>20, <1>21, <1>22, <1>23, <1>24, <1>25,
     <1>26, <1>27, <1>28 DEF Next, Continue

(* With the directory's monitor free, no new entry is being written. *)
LEMMA NobodyNew ==
  ASSUME Typed, PlacesOK, rootMonitor = None
  PROVE  \A u \in Threads : ~Writes(u, "new")
BY FatAssumption DEF PlacesOK, SharedOK

(* Then every stream in the hash table has an entry. *)
LEMMA EntryThere ==
  ASSUME Typed, PlacesOK, rootMonitor = None, BoundOK
  PROVE  \A s \in Streams : Kept(s) => dir[stream[s].offset] # None
BY NobodyNew DEF BoundOK

(* A step that leaves the hash table as it is keeps the entries apart. *)
LEMMA OffsetsSteady ==
  ASSUME OffsetsOK, KeepsKept, NoNewKept
  PROVE  OffsetsOK'
BY DEF OffsetsOK, KeepsKept, NoNewKept

(* lookup() takes the stream of the entry if there is one. *)
LEMMA OffsetsOpens ==
  ASSUME Typed, OffsetsOK, NEW s, NEW o, Opens(s, o)
  PROVE  OffsetsOK'
<1>1. CASE stream'[s] = stream[s] /\ stream[s] # None
  BY <1>1 DEF Opens, StreamStep, OffsetsOK, Kept
<1>2. CASE stream[s] = None /\ \A r \in Streams : Kept(r) => stream[r].offset # o
  BY <1>2 DEF Opens, StreamStep, OffsetsOK, Kept
<1> QED
  BY <1>1, <1>2 DEF Opens

(* The stream that create() makes has the entry it found free. *)
LEMMA MakesOffset ==
  ASSUME Typed, NEW t, NEW s, NEW o, NEW name \in Names, Makes(t, s, o, name)
  PROVE  stream'[s] # None /\ stream'[s].offset = o
<1>1. Entry(name, 0, 0) \in Entries
  BY Numbers DEF Entries, Entry
<1> QED
  BY <1>1, NewStream DEF Makes

(* No other stream has that entry, for every one has an entry that is in use. *)
LEMMA OffsetsMakes ==
  ASSUME Typed, PlacesOK, OffsetsOK, BoundOK, NEW t, NEW s, NEW o, NEW name \in Names, Makes(t, s, o, name)
  PROVE  OffsetsOK'
<1>1. \A r \in Streams : Kept(r) => stream[r].offset # o
  BY EntryThere DEF Makes
<1>2. stream'[s].offset = o /\ \A r \in Streams \ {s} : stream'[r] = stream[r]
  BY MakesOffset DEF Makes, StreamStep
<1> QED
  BY <1>1, <1>2 DEF OffsetsOK, Kept

(* Every step keeps OffsetsOK. *)
LEMMA OffsetsStep ==
  ASSUME Placed, KeptOK, OffsetsOK, BoundOK, [Next]_vars
  PROVE  OffsetsOK'
<1>0. Typed /\ PlacesOK /\ RefsOK /\ TypeOK /\ LocksOK /\ SoloOK
  BY TypesAre DEF Placed, Base
<1>1. CASE UNCHANGED vars
  BY <1>1 DEF OffsetsOK, Kept, vars
<1>2. CASE mount
  BY <1>2, <1>0, MountDoes DEF OffsetsOK, Kept
<1>3. CASE dismount
  BY <1>3, <1>0, DismountDoes DEF OffsetsOK, Kept
<1>4. CASE setClean
  BY <1>4, SetCleanDoes, ForgetDoes DEF OffsetsOK, Kept
<1>5. CASE Crash
  BY <1>5, CrashDoes, ForgetDoes DEF OffsetsOK, Kept
<1>6. ASSUME NEW t \in Threads, NEW name \in Names, open(t, name) PROVE OffsetsOK'
  BY <1>6, <1>0, OpenDoes, OffsetsOpens
<1>7. ASSUME NEW t \in Threads, NEW name \in Names, create(t, name) PROVE OffsetsOK'
  BY <1>7, <1>0, CreateDoes, OffsetsMakes
<1>8. ASSUME NEW t \in Threads, NEW name \in Names, unbind(t, name) PROVE OffsetsOK'
  BY <1>8, <1>0, UnbindDoes, OffsetsOpens
<1>9. ASSUME NEW t \in Threads, NEW name \in Names, rename(t, name) PROVE OffsetsOK'
  BY <1>9, <1>0, RenameDoes, OffsetsOpens
<1>10. ASSUME NEW t \in Threads, close(t) PROVE OffsetsOK'
  BY <1>10, <1>0, QuietSteady, OffsetsSteady DEF Quiet, Steady
<1>11. ASSUME NEW t \in Threads, NEW position \in 0 .. MaxSize - 1, seek(t, position) PROVE OffsetsOK'
  BY <1>11, <1>0, QuietSteady, OffsetsSteady DEF Quiet, Steady
<1>12. ASSUME NEW t \in Threads, NEW size \in 0 .. MaxSize, setSize(t, size) PROVE OffsetsOK'
  BY <1>12, <1>0, QuietSteady, OffsetsSteady DEF Quiet, Steady
<1>13. ASSUME NEW t \in Threads, allocCluster(t) PROVE OffsetsOK'
  BY <1>13, <1>0, QuietSteady, OffsetsSteady DEF Quiet, Steady
<1>14. ASSUME NEW t \in Threads, mark(t) PROVE OffsetsOK'
  BY <1>14, <1>0, QuietSteady, OffsetsSteady DEF Quiet, Steady
<1>15. ASSUME NEW t \in Threads, link(t) PROVE OffsetsOK'
  BY <1>15, <1>0, QuietSteady, OffsetsSteady DEF Quiet, Steady
<1>16. ASSUME NEW t \in Threads, chain(t) PROVE OffsetsOK'
  BY <1>16, <1>0, QuietSteady, OffsetsSteady DEF Quiet, Steady
<1>17. ASSUME NEW t \in Threads, cut(t) PROVE OffsetsOK'
  BY <1>17, <1>0, QuietSteady, OffsetsSteady DEF Quiet, Steady
<1>18. ASSUME NEW t \in Threads, freeCluster(t) PROVE OffsetsOK'
  BY <1>18, <1>0, QuietSteady, OffsetsSteady DEF Quiet, Steady
<1>19. ASSUME NEW t \in Threads, count(t) PROVE OffsetsOK'
  BY <1>19, <1>0, QuietSteady, OffsetsSteady DEF Quiet, Steady
<1>20. ASSUME NEW t \in Threads, sync(t) PROVE OffsetsOK'
  BY <1>20, <1>0, QuietSteady, OffsetsSteady DEF Quiet, Steady
<1>21. ASSUME NEW t \in Threads, entry(t) PROVE OffsetsOK'
  BY <1>21, <1>0, QuietSteady, OffsetsSteady DEF Quiet, Steady
<1>22. ASSUME NEW t \in Threads, written(t) PROVE OffsetsOK'
  BY <1>22, <1>0, QuietSteady, OffsetsSteady DEF Quiet, Steady
<1>23. ASSUME NEW t \in Threads, remove(t) PROVE OffsetsOK'
  <2>1. NoNewKept /\ \A s \in Streams : Kept(s)' => stream'[s].offset = stream[s].offset
    BY <1>23, <1>0, RemoveDoes, FatAssumption DEF Drops, RemovesStream, StreamStep, NoNewKept, Kept
  <2> QED
    BY <2>1 DEF OffsetsOK, NoNewKept
<1>24. ASSUME NEW t \in Threads, erase(t) PROVE OffsetsOK'
  BY <1>24, <1>0, QuietSteady, OffsetsSteady DEF Quiet, Steady
<1>25. ASSUME NEW t \in Threads, renameCreate(t) PROVE OffsetsOK'
  BY <1>25, <1>0, RenameCreateDoes, OffsetsMakes
<1>26. ASSUME NEW t \in Threads, renameFails(t) PROVE OffsetsOK'
  BY <1>26, <1>0, QuietSteady, OffsetsSteady DEF Quiet, Steady
<1>27. ASSUME NEW t \in Threads, swap(t) PROVE OffsetsOK'
  <2>1. /\ Swaps(th[t].s, th[t].old) /\ th[t].pc = "swap" /\ th[t].op = "rename"
        /\ th[t].s \in Streams /\ th[t].old \in Streams
    BY <1>27, <1>0, SwapDoes
  <2>2. Kept(th[t].s) /\ Kept(th[t].old)
    BY <2>1 DEF KeptOK, KeptOf
  <2>3. \A s \in Streams : Kept(s)' => Kept(s)
    BY <2>1, <2>2 DEF Swaps, Kept
  <2> QED
    BY <2>1, <2>2, <2>3 DEF OffsetsOK, Swaps
<1>28. ASSUME NEW t \in Threads, renameFlush(t) PROVE OffsetsOK'
  BY <1>28, <1>0, QuietSteady, OffsetsSteady DEF Quiet, Steady
<1> QED
  BY Zenon, <1>1, <1>2, <1>3, <1>4, <1>5, <1>6, <1>7, <1>8, <1>9, <1>10, <1>11, <1>12, <1>13,
     <1>14, <1>15, <1>16, <1>17, <1>18, <1>19, <1>20, <1>21, <1>22, <1>23, <1>24, <1>25,
     <1>26, <1>27, <1>28 DEF Next, Continue

(* The write of an entry, and the call that makes the stream of a new one. *)
NewBy(t, s) == Writes(t, "new") /\ th[t].s = s

(* A step that leaves the hash table and the directory as they are. *)
LEMMA BoundSteady ==
  ASSUME BoundOK, NEW t \in Threads, Steady(t), dir' = dir,
         \A s \in Streams : Kept(s) => (NewBy(t, s)' <=> NewBy(t, s))
  PROVE  BoundOK'
<1> SUFFICES ASSUME NEW s \in Streams, Kept(s)'
             PROVE  \/ dir'[stream'[s].offset] # None /\ \A u \in Threads : ~NewBy(u, s)'
                    \/ dir'[stream'[s].offset] = None /\ \E u \in Threads : NewBy(u, s)'
  BY DEF BoundOK, NewBy
<1>1. Kept(s) /\ dir'[stream'[s].offset] = dir[stream[s].offset]
  BY DEF Steady, KeepsKept, NoNewKept
<1>2. \A u \in Threads : NewBy(u, s)' <=> NewBy(u, s)
  BY <1>1 DEF Steady, NewBy, Writes
<1> QED
  BY <1>1, <1>2 DEF BoundOK, NewBy

(* lookup() opens the stream of an entry in use. *)
LEMMA BoundOpens ==
  ASSUME Typed, PlacesOK, RefsOK, BoundOK, rootMonitor = None, dir' = dir, NEW s, NEW o, Opens(s, o),
         \A u \in Threads : ~Writes(u, "new")'
  PROVE  BoundOK'
<1>1. \A r \in Streams : Kept(r) => dir[stream[r].offset] # None
  BY EntryThere
<1>2. \A r \in Streams : Kept(r)' => dir[stream'[r].offset] # None
  BY <1>1 DEF Opens, StreamStep, Kept
<1> QED
  BY <1>2 DEF BoundOK

(* create() makes a stream whose entry it is to write. *)
LEMMA BoundMakes ==
  ASSUME Typed, PlacesOK, RefsOK, BoundOK, NEW t \in Threads, NEW s, NEW o, NEW name \in Names, Makes(t, s, o, name),
         NewBy(t, s)', \A u \in Threads \ {t} : th'[u] = th[u]
  PROVE  BoundOK'
<1>1. \A r \in Streams : Kept(r) => dir[stream[r].offset] # None
  BY EntryThere DEF Makes
<1>2. \A u \in Threads \ {t} : ~Writes(u, "new")'
  BY NobodyNew DEF Makes, Writes
<1>3. \A r \in Streams \ {s} : Kept(r)' => dir'[stream'[r].offset] # None /\ ~NewBy(t, r)'
  BY <1>1 DEF Makes, StreamStep, Kept, NewBy
<1>4. dir'[stream'[s].offset] = None
  BY MakesOffset DEF Makes
<1> QED
  BY <1>2, <1>3, <1>4 DEF BoundOK, NewBy

(* What entry() is called for. *)
LEMMA EntryWrites ==
  ASSUME Typed, PlacesOK, NEW t \in Threads, th[t].pc = "entry"
  PROVE  th[t].write \in {"new", "fcb", "erase"}
BY DEF Typed, PlacesOK, CallOK, Writes, Erasing, Flushes, Calls, Operations

(* Nobody but the call that makes it writes the entry of a new stream. *)
LEMMA NotOnNew ==
  ASSUME Typed, PlacesOK, SoloOK, NewOK, NEW t \in Threads, NEW u \in Threads \ {t}, Writes(u, "new"),
         th[t].pc = "entry", th[t].write = "fcb"
  PROVE  th[u].s # th[t].s
<1>1. th[u].op \in {"create", "rename"} /\ th[u].s \in Streams /\ Mine(u) = th[u].s
  BY DEF Typed, PlacesOK, CallOK, Writes, Erasing, Flushes, Calls, Operations, Mine
<1>2. th[t].op = "setSize"
  BY <1>1 DEF Typed, PlacesOK, CallOK, Writes, SoloOK, DirectoryCalls, Calls, Operations
<1>3. held[t] = th[t].s
  BY <1>2 DEF PlacesOK, CallOK
<1> QED
  BY <1>1, <1>3 DEF NewOK, NewOf, Renaming, Writes

(* One call at most writes the entry of a new stream. *)
LEMMA OnlyNew ==
  ASSUME Typed, PlacesOK, SoloOK, NEW t \in Threads, NEW u \in Threads \ {t}, Writes(u, "new")
  PROVE  ~Writes(t, "new")
BY DEF PlacesOK, SharedOK

(* Every step keeps BoundOK. *)
LEMMA BoundStep ==
  ASSUME Placed, KeptOK, OffsetsOK, NewOK, BoundOK, [Next]_vars
  PROVE  BoundOK'
<1>0. Typed /\ PlacesOK /\ RefsOK /\ TypeOK /\ LocksOK /\ SoloOK
  BY TypesAre DEF Placed, Base
<1>00. \A t \in Threads : th[t] \in Calls /\ CallOK(t) /\ SharedOK(t) /\ KeptOf(t)
  BY <1>0 DEF PlacesOK, KeptOK, Typed
<1>1. CASE UNCHANGED vars
  BY <1>1 DEF BoundOK, Kept, Writes, vars, disk
<1>2. CASE mount
  BY <1>2, <1>0, MountDoes DEF BoundOK, Kept, Writes
<1>3. CASE dismount
  BY <1>3, <1>0, DismountDoes DEF BoundOK, Kept, Writes
<1>4. CASE setClean
  BY <1>4, SetCleanDoes, ForgetDoes DEF BoundOK, Kept, Writes
<1>5. CASE Crash
  BY <1>5, CrashDoes, ForgetDoes DEF BoundOK, Kept, Writes
<1>6. ASSUME NEW t \in Threads, NEW name \in Names, open(t, name) PROVE BoundOK'
  <2>1. \A u \in Threads : ~Writes(u, "new")'
    BY <1>6, <1>0, OpenDoes, NobodyNew, IdleIs DEF Begins, CallStep, Writes
  <2> QED
    BY <1>6, <1>0, <2>1, OpenDoes, BoundOpens
<1>7. ASSUME NEW t \in Threads, NEW name \in Names, create(t, name) PROVE BoundOK'
  BY <1>7, <1>0, CreateDoes, BoundMakes DEF Begins, CallStep, NewBy, Writes
<1>8. ASSUME NEW t \in Threads, NEW name \in Names, unbind(t, name) PROVE BoundOK'
  <2>1. \A u \in Threads : ~Writes(u, "new")'
    BY <1>8, <1>0, UnbindDoes, NobodyNew, IdleIs DEF Begins, CallStep, Writes
  <2> QED
    BY <1>8, <1>0, <2>1, UnbindDoes, BoundOpens
<1>9. ASSUME NEW t \in Threads, NEW name \in Names, rename(t, name) PROVE BoundOK'
  <2>1. \A u \in Threads : ~Writes(u, "new")'
    BY <1>9, <1>0, RenameDoes, NobodyNew, IdleIs DEF Begins, CallStep, Writes
  <2> QED
    BY <1>9, <1>0, <2>1, RenameDoes, BoundOpens
<1>10. ASSUME NEW t \in Threads, close(t) PROVE BoundOK'
  <2>1. Steady(t)
    BY Zenon, <1>10, <1>0, QuietSteady DEF Quiet
  <2>2. dir' = dir
    BY <1>10, <1>0, CloseDoes
  <2>3. \A s \in Streams : Kept(s) => (NewBy(t, s)' <=> NewBy(t, s))
    BY <1>10, <1>0, <1>00, CloseDoes, IdleIs, FatAssumption DEF Drops, Returns, CallStep, StreamStep, NewBy, Writes, CallOK, SameWork, Idle
  <2> QED
    BY <2>1, <2>2, <2>3, BoundSteady
<1>11. ASSUME NEW t \in Threads, NEW position \in 0 .. MaxSize - 1, seek(t, position) PROVE BoundOK'
  <2>1. Steady(t)
    BY Zenon, <1>11, <1>0, QuietSteady DEF Quiet
  <2>2. dir' = dir
    BY <1>11, <1>0, SeekDoes
  <2>3. \A s \in Streams : Kept(s) => (NewBy(t, s)' <=> NewBy(t, s))
    BY <1>11, <1>0, <1>00, SeekDoes, IdleIs, FatAssumption DEF StreamStep, NewBy, Writes, CallOK, SameWork, Idle
  <2> QED
    BY <2>1, <2>2, <2>3, BoundSteady
<1>12. ASSUME NEW t \in Threads, NEW size \in 0 .. MaxSize, setSize(t, size) PROVE BoundOK'
  <2>1. Steady(t)
    BY Zenon, <1>12, <1>0, QuietSteady DEF Quiet
  <2>2. dir' = dir
    BY <1>12, <1>0, SetSizeDoes
  <2>3. \A s \in Streams : Kept(s) => (NewBy(t, s)' <=> NewBy(t, s))
    BY <1>12, <1>0, <1>00, SetSizeDoes, IdleIs, FatAssumption DEF Grows, Shrinks, CallStep, StreamStep, NewBy, Writes, CallOK, SameWork, Idle
  <2> QED
    BY <2>1, <2>2, <2>3, BoundSteady
<1>13. ASSUME NEW t \in Threads, allocCluster(t) PROVE BoundOK'
  <2>1. Steady(t)
    BY Zenon, <1>13, <1>0, QuietSteady DEF Quiet
  <2>2. dir' = dir
    BY <1>13, <1>0, AllocClusterDoes
  <2>3. \A s \in Streams : Kept(s) => (NewBy(t, s)' <=> NewBy(t, s))
    BY <1>13, <1>0, <1>00, AllocClusterDoes, IdleIs, FatAssumption DEF Returns, Goes, CallStep, NewBy, Writes, CallOK, SameWork, Idle
  <2> QED
    BY <2>1, <2>2, <2>3, BoundSteady
<1>14. ASSUME NEW t \in Threads, mark(t) PROVE BoundOK'
  <2>1. Steady(t)
    BY Zenon, <1>14, <1>0, QuietSteady DEF Quiet
  <2>2. dir' = dir
    BY <1>14, <1>0, MarkDoes
  <2>3. \A s \in Streams : Kept(s) => (NewBy(t, s)' <=> NewBy(t, s))
    BY <1>14, <1>0, <1>00, MarkDoes, IdleIs, FatAssumption DEF Goes, CallStep, NewBy, Writes, CallOK, SameWork, Idle
  <2> QED
    BY <2>1, <2>2, <2>3, BoundSteady
<1>15. ASSUME NEW t \in Threads, link(t) PROVE BoundOK'
  <2>1. Steady(t)
    BY Zenon, <1>15, <1>0, QuietSteady DEF Quiet
  <2>2. dir' = dir
    BY <1>15, <1>0, LinkDoes
  <2>3. \A s \in Streams : Kept(s) => (NewBy(t, s)' <=> NewBy(t, s))
    BY <1>15, <1>0, <1>00, LinkDoes, IdleIs, FatAssumption DEF CallStep, NewBy, Writes, CallOK, SameWork, Idle
  <2> QED
    BY <2>1, <2>2, <2>3, BoundSteady
<1>16. ASSUME NEW t \in Threads, chain(t) PROVE BoundOK'
  <2>1. Steady(t)
    BY Zenon, <1>16, <1>0, QuietSteady DEF Quiet
  <2>2. dir' = dir
    BY <1>16, <1>0, ChainDoes
  <2>3. \A s \in Streams : Kept(s) => (NewBy(t, s)' <=> NewBy(t, s))
    BY <1>16, <1>0, <1>00, ChainDoes, IdleIs, FatAssumption DEF CallStep, ChainEffect, StreamStep, NewBy, Writes, CallOK, SameWork, Idle
  <2> QED
    BY <2>1, <2>2, <2>3, BoundSteady
<1>17. ASSUME NEW t \in Threads, cut(t) PROVE BoundOK'
  <2>1. Steady(t)
    BY Zenon, <1>17, <1>0, QuietSteady DEF Quiet
  <2>2. dir' = dir
    BY <1>17, <1>0, CutDoes
  <2>3. \A s \in Streams : Kept(s) => (NewBy(t, s)' <=> NewBy(t, s))
    BY <1>17, <1>0, <1>00, CutDoes, IdleIs, FatAssumption DEF CallStep, NewBy, Writes, CallOK, SameWork, Idle
  <2> QED
    BY <2>1, <2>2, <2>3, BoundSteady
<1>18. ASSUME NEW t \in Threads, freeCluster(t) PROVE BoundOK'
  <2>1. Steady(t)
    BY Zenon, <1>18, <1>0, QuietSteady DEF Quiet
  <2>2. dir' = dir
    BY <1>18, <1>0, FreeClusterDoes
  <2>3. \A s \in Streams : Kept(s) => (NewBy(t, s)' <=> NewBy(t, s))
    BY <1>18, <1>0, <1>00, FreeClusterDoes, IdleIs, FatAssumption DEF Ends, Frees, CallStep, Returns, StreamStep, NewBy, Writes, CallOK, SameWork,
     Idle
  <2> QED
    BY <2>1, <2>2, <2>3, BoundSteady
<1>19. ASSUME NEW t \in Threads, count(t) PROVE BoundOK'
  <2>1. Steady(t)
    BY Zenon, <1>19, <1>0, QuietSteady DEF Quiet
  <2>2. dir' = dir
    BY <1>19, <1>0, CountDoes
  <2>3. \A s \in Streams : Kept(s) => (NewBy(t, s)' <=> NewBy(t, s))
    BY <1>19, <1>0, <1>00, CountDoes, IdleIs, FatAssumption DEF Goes, CallStep, NewBy, Writes, CallOK, SameWork, Idle
  <2> QED
    BY <2>1, <2>2, <2>3, BoundSteady
<1>20. ASSUME NEW t \in Threads, sync(t) PROVE BoundOK'
  <2>1. Steady(t)
    BY Zenon, <1>20, <1>0, QuietSteady DEF Quiet
  <2>2. dir' = dir
    BY <1>20, <1>0, SyncDoes
  <2>3. \A s \in Streams : Kept(s) => (NewBy(t, s)' <=> NewBy(t, s))
    BY <1>20, <1>0, <1>00, SyncDoes, IdleIs, FatAssumption DEF Goes, CallStep, NewBy, Writes, CallOK, SameWork, Idle
  <2> QED
    BY <2>1, <2>2, <2>3, BoundSteady
<1>21. ASSUME NEW t \in Threads, entry(t) PROVE BoundOK'
  <2> DEFINE s == th[t].s
             o == stream[s].offset
             e == IF th[t].write = "erase" THEN None ELSE stream[s].fcb
  <2>1. Steady(t)
    BY Zenon, <1>21, <1>0, QuietSteady DEF Quiet
  <2>2. /\ th[t].pc = "entry" /\ s \in Streams /\ stream[s] # None /\ Wrote(t)
        /\ dir' = [dir EXCEPT ![o] = e]
    BY <1>21, <1>0, EntryDoes
  <2>3. stream[s].fcb # None /\ o \in Slots
    BY <1>0, <2>2, StreamTyped, NoneAssumption
  <2>4. ~Writes(t, "new")'
    BY <2>2, <1>0, IdleIs DEF Wrote, WroteNew, WroteNewName, WroteMoved, WroteLarger, WroteSmaller, WroteErased,
       Drops, Returns, Goes, SameWork, Writes
  <2>5. \A r \in Streams : Kept(r)' => Kept(r) /\ stream'[r].offset = stream[r].offset
    BY <2>1 DEF Steady, KeepsKept, NoNewKept
  <2>6. th[t].write = "erase" => \A r \in Streams : Kept(r) => stream[r].offset # o
    BY <2>2, <1>00 DEF KeptOf, Erasing, Writes
  <2>7. \A r \in Streams : Kept(r) /\ stream[r].offset = o /\ th[t].write # "erase" => r = s
    <3>1. th[t].write # "erase" => Kept(s)
      <4>1. th[t].write # "erase" => Writes(t, "new") \/ Writes(t, "fcb")
        BY <2>2, <1>0, EntryWrites DEF Writes
      <4> QED
        BY <4>1, <1>00 DEF KeptOf
    <3> QED
      BY <3>1, <2>2 DEF OffsetsOK
  <2>8. \A u \in Threads \ {t} : NewBy(u, s) => th[t].write # "fcb"
    BY <2>2, <1>0, NotOnNew DEF NewBy, Writes
  <2> HIDE DEF s, o, e
  <2> SUFFICES ASSUME NEW r \in Streams, Kept(r)'
               PROVE  \/ dir'[stream'[r].offset] # None /\ \A u \in Threads : ~NewBy(u, r)'
                      \/ dir'[stream'[r].offset] = None /\ \E u \in Threads : NewBy(u, r)'
    BY DEF BoundOK, NewBy
  <2>9. \A u \in Threads \ {t} : NewBy(u, r)' <=> NewBy(u, r)
    BY <2>1 DEF Steady, NewBy, Writes
  <2>10. ~NewBy(t, r)'
    BY <2>4 DEF NewBy
  <2>11. CASE stream[r].offset = o
    <3>1. r = s /\ th[t].write # "erase"
      BY <2>5, <2>6, <2>7, <2>11
    <3>2. dir'[o] # None
      BY <2>2, <2>3, <3>1, <1>0 DEF Typed, e, s
    <3>3. \A u \in Threads \ {t} : ~NewBy(u, s)
      <4>1. CASE th[t].write = "fcb"
        BY <4>1, <2>8
      <4>2. CASE th[t].write # "fcb"
        <5>1. Writes(t, "new")
          BY <4>2, <3>1, <2>2, <1>0, EntryWrites DEF Writes
        <5> QED
          BY <5>1, <1>0, OnlyNew DEF NewBy
      <4> QED
        BY <4>1, <4>2
    <3> QED
      BY <2>5, <2>9, <2>10, <2>11, <3>1, <3>2, <3>3
  <2>12. CASE stream[r].offset # o
    <3>1. dir'[stream'[r].offset] = dir[stream[r].offset]
      BY <2>2, <2>5, <2>12, <1>0, StreamTyped DEF Typed, Kept
    <3>2. ~NewBy(t, r)
      BY <2>12 DEF NewBy, s, o
    <3> QED
      BY <2>5, <2>9, <2>10, <3>1, <3>2 DEF BoundOK, NewBy
  <2> QED
    BY <2>11, <2>12
<1>22. ASSUME NEW t \in Threads, written(t) PROVE BoundOK'
  <2>1. Steady(t)
    BY Zenon, <1>22, <1>0, QuietSteady DEF Quiet
  <2>2. dir' = dir
    BY <1>22, <1>0, WrittenDoes
  <2>3. \A s \in Streams : Kept(s) => (NewBy(t, s)' <=> NewBy(t, s))
    BY <1>22, <1>0, <1>00, WrittenDoes, IdleIs, FatAssumption DEF Wrote, WroteNew, WroteNewName, WroteMoved, WroteLarger, WroteSmaller,
     WroteErased, Drops, Goes, Returns, CallStep, StreamStep, NewBy, Writes,
     CallOK, SameWork, Idle
  <2> QED
    BY <2>1, <2>2, <2>3, BoundSteady
<1>23. ASSUME NEW t \in Threads, remove(t) PROVE BoundOK'
  <2>1. NoNewKept /\ (\A s \in Streams : Kept(s)' => stream'[s].offset = stream[s].offset) /\ dir' = dir
    BY <1>23, <1>0, RemoveDoes, FatAssumption DEF Drops, RemovesStream, StreamStep, NoNewKept, Kept
  <2>2. \A u \in Threads : Writes(u, "new")' = Writes(u, "new") /\ (Writes(u, "new") => th'[u].s = th[u].s)
    BY <1>23, <1>0, RemoveDoes, IdleIs DEF Drops, Returns, RemovesStream, CallStep, Writes
  <2> QED
    BY <2>1, <2>2 DEF BoundOK, NoNewKept
<1>24. ASSUME NEW t \in Threads, erase(t) PROVE BoundOK'
  <2>1. Steady(t)
    BY Zenon, <1>24, <1>0, QuietSteady DEF Quiet
  <2>2. dir' = dir
    BY <1>24, <1>0, EraseDoes
  <2>3. \A s \in Streams : Kept(s) => (NewBy(t, s)' <=> NewBy(t, s))
    BY <1>24, <1>0, <1>00, EraseDoes, IdleIs, FatAssumption DEF CallStep, NewBy, Writes, CallOK, SameWork, Idle
  <2> QED
    BY <2>1, <2>2, <2>3, BoundSteady
<1>25. ASSUME NEW t \in Threads, renameCreate(t) PROVE BoundOK'
  BY <1>25, <1>0, RenameCreateDoes, BoundMakes DEF CallStep, NewBy, Writes
<1>26. ASSUME NEW t \in Threads, renameFails(t) PROVE BoundOK'
  <2>1. Steady(t)
    BY Zenon, <1>26, <1>0, QuietSteady DEF Quiet
  <2>2. dir' = dir
    BY <1>26, <1>0, RenameFailsDoes
  <2>3. \A s \in Streams : Kept(s) => (NewBy(t, s)' <=> NewBy(t, s))
    BY <1>26, <1>0, <1>00, RenameFailsDoes, IdleIs, FatAssumption DEF Drops, Returns, CallStep, StreamStep, NewBy, Writes, CallOK, SameWork, Idle
  <2> QED
    BY <2>1, <2>2, <2>3, BoundSteady
<1>27. ASSUME NEW t \in Threads, swap(t) PROVE BoundOK'
  <2>1. /\ Swaps(th[t].s, th[t].old) /\ th[t].pc = "swap" /\ th[t].op = "rename" /\ Goes(t, "flush")
        /\ th[t].s \in Streams /\ th[t].old \in Streams /\ dir' = dir
    BY <1>27, <1>0, SwapDoes
  <2>2. Kept(th[t].s) /\ Kept(th[t].old)
    BY <2>1, <1>00 DEF KeptOf
  <2>3. \A s \in Streams : Kept(s)' => Kept(s)
    BY <2>1, <2>2 DEF Swaps, Kept
  <2>4. \A u \in Threads : ~Writes(u, "new")
    <3>1. \A u \in Threads \ {t} : th[u].op \notin DirectoryCalls
      BY <1>0, <2>1 DEF SoloOK, DirectoryCalls
    <3> QED
      BY <1>00, <2>1, <3>1 DEF Writes, CallOK, DirectoryCalls, Calls, Operations
  <2>5. \A u \in Threads : ~Writes(u, "new")'
    BY <2>1, <2>4 DEF Goes, CallStep, Writes
  <2>6. \A s \in Streams : Kept(s)' => dir[stream'[s].offset] # None
    BY <2>1, <2>2, <2>3, <2>4 DEF BoundOK, Swaps
  <2> QED
    BY <2>1, <2>5, <2>6 DEF BoundOK
<1>28. ASSUME NEW t \in Threads, renameFlush(t) PROVE BoundOK'
  <2>1. Steady(t)
    BY Zenon, <1>28, <1>0, QuietSteady DEF Quiet
  <2>2. dir' = dir
    BY <1>28, <1>0, RenameFlushDoes
  <2>3. \A s \in Streams : Kept(s) => (NewBy(t, s)' <=> NewBy(t, s))
    BY <1>28, <1>0, <1>00, RenameFlushDoes, IdleIs, FatAssumption DEF CallStep, NewBy, Writes, CallOK, SameWork, Idle
  <2> QED
    BY <2>1, <2>2, <2>3, BoundSteady
<1> QED
  BY Zenon, <1>1, <1>2, <1>3, <1>4, <1>5, <1>6, <1>7, <1>8, <1>9, <1>10, <1>11, <1>12, <1>13,
     <1>14, <1>15, <1>16, <1>17, <1>18, <1>19, <1>20, <1>21, <1>22, <1>23, <1>24, <1>25,
     <1>26, <1>27, <1>28 DEF Next, Continue

(* A step of thread t that leaves the new stream of another call alone. *)
LEMMA NewOther ==
  ASSUME Typed, PlacesOK, NewOK, NEW t \in Threads, NEW u \in Threads \ {t}, th'[u] = th[u],
         \A v \in Threads : held'[v] \in {held[v], None},
         \A s \in Streams : s # held[t] => stream'[s] = stream[s]
  PROVE  NewOf(u)'
<1> SUFFICES ASSUME (th[u].op = "create" \/ Renaming(u)) PROVE NewOf(u)'
  BY DEF NewOf, Renaming
<1>1. Mine(u)' = Mine(u)
  BY DEF Mine, Renaming, Flushes
<1>2. Mine(u) \in Streams
  BY DEF PlacesOK, CallOK, Mine, Renaming
<1>3. stream'[Mine(u)] = stream[Mine(u)] /\ \A v \in Threads : held'[v] # Mine(u)
  BY <1>2, FatAssumption DEF NewOK, NewOf
<1>4. /\ stream[Mine(u)].fstClus = 0 /\ stream[Mine(u)].size = 0 /\ stream[Mine(u)].lastClus = 0
  BY DEF NewOK, NewOf
<1> HIDE DEF Mine
<1> QED
  BY <1>1, <1>3, <1>4 DEF NewOf

(* The new stream stays the same one, and empty. *)
LEMMA NewStays ==
  ASSUME Typed, PlacesOK, NewOK, NEW t \in Threads, th[t].op = "create" \/ Renaming(t), Mine(t)' = Mine(t), held' = held,
         LET s == Mine(t) IN
         /\ stream'[s].fstClus = stream[s].fstClus /\ stream'[s].size = stream[s].size
         /\ stream'[s].lastClus = stream[s].lastClus
  PROVE  NewOf(t)'
<1>1. /\ \A u \in Threads : held[u] # Mine(t)
      /\ stream[Mine(t)].fstClus = 0 /\ stream[Mine(t)].size = 0 /\ stream[Mine(t)].lastClus = 0
  BY DEF NewOK, NewOf
<1> HIDE DEF Mine
<1> QED
  BY <1>1 DEF NewOf

(* create() makes an empty stream that nobody has open. *)
LEMMA NewMade ==
  ASSUME Typed, RefsOK, NEW t, NEW s, NEW o, NEW name \in Names, Makes(t, s, o, name), Mine(t)' = s
  PROVE  NewOf(t)'
<1>1. Entry(name, 0, 0) \in Entries /\ Entry(name, 0, 0).fstClus = 0 /\ Entry(name, 0, 0).size = 0
  BY Numbers DEF Entries, Entry
<1>2. stream'[s].fstClus = 0 /\ stream'[s].size = 0 /\ stream'[s].lastClus = 0
  BY <1>1, NewStream DEF Makes
<1>3. \A u \in Threads : held'[u] # s
  BY FatAssumption DEF Makes, RefsOK
<1> HIDE DEF Mine
<1> QED
  BY <1>2, <1>3 DEF NewOf

(* A call that makes no stream has none to keep empty. *)
LEMMA NewVacuous ==
  ASSUME NEW u, th'[u].op \notin {"create", "rename"}
  PROVE  NewOf(u)'
BY DEF NewOf, Renaming

(* Nothing changes in the calls and the streams. *)
LEMMA NewSame ==
  ASSUME NewOK, th' = th, stream' = stream, held' = held
  PROVE  NewOK'
<1> SUFFICES ASSUME NEW t \in Threads PROVE NewOf(t)'
  BY DEF NewOK
<1>1. NewOf(t) /\ Mine(t)' = Mine(t) /\ (Renaming(t)' <=> Renaming(t))
  BY DEF NewOK, Mine, Renaming, Flushes
<1> HIDE DEF Mine, Renaming
<1> QED
  BY <1>1 DEF NewOf

(* What follows the write of an entry keeps the new stream empty. *)
LEMMA NewWrote ==
  ASSUME Typed, PlacesOK, SoloOK, NewOK, NEW t \in Threads, th[t].pc \in {"entry", "written"}, Wrote(t)
  PROVE  NewOK'
<1>0. th[t] \in Calls /\ CallOK(t)
  BY DEF Typed, PlacesOK
<1>1. \A u \in Threads \ {t} : th'[u] = th[u]
  BY DEF Wrote, WroteNew, WroteNewName, WroteMoved, WroteLarger, WroteSmaller, WroteErased, Drops, Returns, Goes, CallStep
<1>2. CASE th[t].op \in DirectoryCalls
  <2>1. \A u \in Threads \ {t} : NewOf(u)'
    BY <1>1, <1>2, NewVacuous DEF SoloOK, DirectoryCalls
  <2>2. CASE WroteNew(t) \/ WroteErased(t)
    BY <2>1, <2>2, IdleIs, NewVacuous DEF WroteNew, WroteErased, Drops, Returns, NewOK
  <2>3. CASE WroteNewName(t)
    <3>1. Mine(t)' = Mine(t) /\ Renaming(t)
      BY <2>3 DEF WroteNewName, Goes, SameWork, Mine, Renaming, Flushes
    <3> QED
      BY <2>1, <2>3, <3>1, NewStays DEF WroteNewName, NewOK
  <2>4. CASE WroteMoved(t)
    <3>1. Mine(t)' = Mine(t) /\ Renaming(t)
      BY <2>4 DEF WroteMoved, Mine, Renaming, Flushes
    <3> QED
      BY <2>1, <2>4, <3>1, NewStays DEF WroteMoved, NewOK
  <2> QED
    BY <1>2, <2>2, <2>3, <2>4 DEF Wrote, WroteLarger, WroteSmaller, DirectoryCalls
<1>3. CASE th[t].op \notin DirectoryCalls
  <2>1. WroteLarger(t) \/ WroteSmaller(t)
    BY <1>3 DEF Wrote, WroteNew, WroteNewName, WroteMoved, WroteErased, DirectoryCalls
  <2>2. th[t].op = "setSize" /\ held[t] = th[t].s
    BY <1>0, <2>1 DEF WroteLarger, WroteSmaller, CallOK
  <2>3. /\ held' = held /\ th'[t].op \notin {"create", "rename"}
        /\ \A s \in Streams : s # held[t] => stream'[s] = stream[s]
    BY <2>1, <2>2, IdleIs DEF WroteLarger, WroteSmaller, Returns, Goes, SameWork, StreamStep
  <2> QED
    BY <1>1, <2>3, NewOther, NewVacuous DEF NewOK
<1> QED
  BY <1>2, <1>3

(* Every step keeps NewOK. *)
LEMMA NewStep ==
  ASSUME "names" \notin Allow, Placed, NewOK, [Next]_vars
  PROVE  NewOK'
<1>0. Typed /\ PlacesOK /\ RefsOK /\ TypeOK /\ LocksOK /\ SoloOK
  BY TypesAre DEF Placed, Base
<1>00. \A t \in Threads : th[t] \in Calls /\ CallOK(t) /\ SharedOK(t)
  BY <1>0 DEF PlacesOK, Typed
<1>000. ASSUME NEW t \in Threads, th[t].op \in DirectoryCalls,
               \A u \in Threads \ {t} : th'[u] = th[u]
        PROVE  \A u \in Threads \ {t} : NewOf(u)'
  BY <1>0, <1>000, NewVacuous DEF SoloOK, DirectoryCalls
<1>1. CASE UNCHANGED vars
  BY <1>1, NewSame DEF vars
<1>2. CASE mount
  BY <1>2, <1>0, MountDoes, NewSame
<1>3. CASE dismount
  BY <1>3, <1>0, DismountDoes, NewSame
<1>4. CASE setClean
  BY <1>4, SetCleanDoes, ForgetDoes, IdleIs DEF NewOK, NewOf, Renaming
<1>5. CASE Crash
  BY <1>5, CrashDoes, ForgetDoes, IdleIs DEF NewOK, NewOf, Renaming
<1>6. ASSUME NEW t \in Threads, NEW name \in Names, open(t, name) PROVE NewOK'
  <2>1. \A u \in Threads : th'[u].op \in {"create", "rename"} => u = t /\ ~Renaming(t)' /\ th'[t].op = "rename"
    BY <1>6, <1>0, OpenDoes, IdleIs, NobodyNames DEF Begins, CallStep, DirectoryCalls, Renaming
  <2> QED
    BY <2>1 DEF NewOK, NewOf, Renaming
<1>7. ASSUME NEW t \in Threads, NEW name \in Names, create(t, name) PROVE NewOK'
  <2>1. PICK s \in Streams, o \in Slots : Makes(t, s, o, name) /\ Begins(t, "create", "sync", s, None, "new")
    BY <1>7, <1>0, CreateDoes
  <2>2. \A u \in Threads \ {t} : NewOf(u)'
    BY <2>1, <1>0, NobodyNames, NewVacuous DEF Makes, Begins, CallStep, DirectoryCalls
  <2>3. Mine(t)' = s
    BY <2>1 DEF Begins, Mine, Renaming
  <2> QED
    BY <1>0, <2>1, <2>2, <2>3, NewMade DEF NewOK
<1>8. ASSUME NEW t \in Threads, NEW name \in Names, unbind(t, name) PROVE NewOK'
  <2>1. \A u \in Threads : th'[u].op \in {"create", "rename"} => u = t /\ ~Renaming(t)' /\ th'[t].op = "rename"
    BY <1>8, <1>0, UnbindDoes, IdleIs, NobodyNames DEF Begins, CallStep, DirectoryCalls, Renaming
  <2> QED
    BY <2>1 DEF NewOK, NewOf, Renaming
<1>9. ASSUME NEW t \in Threads, NEW name \in Names, rename(t, name) PROVE NewOK'
  <2>1. \A u \in Threads : th'[u].op \in {"create", "rename"} => u = t /\ ~Renaming(t)' /\ th'[t].op = "rename"
    BY <1>9, <1>0, RenameDoes, IdleIs, NobodyNames DEF Begins, CallStep, DirectoryCalls, Renaming
  <2> QED
    BY <2>1 DEF NewOK, NewOf, Renaming
<1>10. ASSUME NEW t \in Threads, close(t) PROVE NewOK'
  <2>1. /\ \A u \in Threads \ {t} : th'[u] = th[u]
        /\ \A v \in Threads : held'[v] \in {held[v], None}
        /\ \A s \in Streams : s # held[t] => stream'[s] = stream[s]
    BY <1>10, <1>0, <1>00, CloseDoes, OpOf, IdleIs DEF Drops, Returns, CallStep, StreamStep, Typed, CallOK
  <2>2. th'[t].op \notin {"create", "rename"}
    BY <1>10, <1>0, <1>00, CloseDoes, OpOf, IdleIs DEF Drops, Returns, CallStep, StreamStep, SameWork
  <2> QED
    BY <1>0, <2>1, <2>2, NewOther, NewVacuous DEF NewOK
<1>11. ASSUME NEW t \in Threads, NEW position \in 0 .. MaxSize - 1, seek(t, position) PROVE NewOK'
  <2>1. /\ \A u \in Threads \ {t} : th'[u] = th[u]
        /\ \A v \in Threads : held'[v] \in {held[v], None}
        /\ \A s \in Streams : s # held[t] => stream'[s] = stream[s]
    BY <1>11, <1>0, <1>00, SeekDoes, OpOf, IdleIs DEF StreamStep, Typed, CallOK
  <2>2. th'[t].op \notin {"create", "rename"}
    BY <1>11, <1>0, <1>00, SeekDoes, OpOf, IdleIs DEF StreamStep, SameWork
  <2> QED
    BY <1>0, <2>1, <2>2, NewOther, NewVacuous DEF NewOK
<1>12. ASSUME NEW t \in Threads, NEW size \in 0 .. MaxSize, setSize(t, size) PROVE NewOK'
  <2>1. /\ \A u \in Threads \ {t} : th'[u] = th[u]
        /\ \A v \in Threads : held'[v] \in {held[v], None}
        /\ \A s \in Streams : s # held[t] => stream'[s] = stream[s]
    BY <1>12, <1>0, <1>00, SetSizeDoes, OpOf, IdleIs DEF Grows, Shrinks, CallStep, StreamStep, Typed, CallOK
  <2>2. th'[t].op \notin {"create", "rename"}
    BY <1>12, <1>0, <1>00, SetSizeDoes, OpOf, IdleIs DEF Grows, Shrinks, CallStep, StreamStep, SameWork
  <2> QED
    BY <1>0, <2>1, <2>2, NewOther, NewVacuous DEF NewOK
<1>13. ASSUME NEW t \in Threads, allocCluster(t) PROVE NewOK'
  <2>1. /\ \A u \in Threads \ {t} : th'[u] = th[u]
        /\ \A v \in Threads : held'[v] \in {held[v], None}
        /\ \A s \in Streams : s # held[t] => stream'[s] = stream[s]
    BY <1>13, <1>0, <1>00, AllocClusterDoes, OpOf, IdleIs DEF Returns, Goes, CallStep, Typed, CallOK
  <2>2. th'[t].op \notin {"create", "rename"}
    BY <1>13, <1>0, <1>00, AllocClusterDoes, OpOf, IdleIs DEF Returns, Goes, CallStep, SameWork
  <2> QED
    BY <1>0, <2>1, <2>2, NewOther, NewVacuous DEF NewOK
<1>14. ASSUME NEW t \in Threads, mark(t) PROVE NewOK'
  <2>1. /\ \A u \in Threads \ {t} : th'[u] = th[u]
        /\ \A v \in Threads : held'[v] \in {held[v], None}
        /\ \A s \in Streams : s # held[t] => stream'[s] = stream[s]
    BY <1>14, <1>0, <1>00, MarkDoes, OpOf, IdleIs DEF Goes, CallStep, Typed, CallOK
  <2>2. th'[t].op \notin {"create", "rename"}
    BY <1>14, <1>0, <1>00, MarkDoes, OpOf, IdleIs DEF Goes, CallStep, SameWork
  <2> QED
    BY <1>0, <2>1, <2>2, NewOther, NewVacuous DEF NewOK
<1>15. ASSUME NEW t \in Threads, link(t) PROVE NewOK'
  <2>1. /\ \A u \in Threads \ {t} : th'[u] = th[u]
        /\ \A v \in Threads : held'[v] \in {held[v], None}
        /\ \A s \in Streams : s # held[t] => stream'[s] = stream[s]
    BY <1>15, <1>0, <1>00, LinkDoes, OpOf, IdleIs DEF CallStep, Typed, CallOK
  <2>2. th'[t].op \notin {"create", "rename"}
    BY <1>15, <1>0, <1>00, LinkDoes, OpOf, IdleIs DEF CallStep, SameWork
  <2> QED
    BY <1>0, <2>1, <2>2, NewOther, NewVacuous DEF NewOK
<1>16. ASSUME NEW t \in Threads, chain(t) PROVE NewOK'
  <2>1. /\ \A u \in Threads \ {t} : th'[u] = th[u]
        /\ \A v \in Threads : held'[v] \in {held[v], None}
        /\ \A s \in Streams : s # held[t] => stream'[s] = stream[s]
    BY <1>16, <1>0, <1>00, ChainDoes, OpOf, IdleIs DEF CallStep, ChainEffect, StreamStep, Typed, CallOK
  <2>2. th'[t].op \notin {"create", "rename"}
    BY <1>16, <1>0, <1>00, ChainDoes, OpOf, IdleIs DEF CallStep, ChainEffect, StreamStep, SameWork
  <2> QED
    BY <1>0, <2>1, <2>2, NewOther, NewVacuous DEF NewOK
<1>17. ASSUME NEW t \in Threads, cut(t) PROVE NewOK'
  <2>1. /\ \A u \in Threads \ {t} : th'[u] = th[u]
        /\ \A v \in Threads : held'[v] \in {held[v], None}
        /\ \A s \in Streams : s # held[t] => stream'[s] = stream[s]
    BY <1>17, <1>0, <1>00, CutDoes, OpOf, IdleIs DEF CallStep, Typed, CallOK
  <2>2. th'[t].op \notin {"create", "rename"}
    BY <1>17, <1>0, <1>00, CutDoes, OpOf, IdleIs DEF CallStep, SameWork
  <2> QED
    BY <1>0, <2>1, <2>2, NewOther, NewVacuous DEF NewOK
<1>18. ASSUME NEW t \in Threads, freeCluster(t) PROVE NewOK'
  <2>1. /\ \A u \in Threads \ {t} : th'[u] = th[u]
        /\ \A v \in Threads : held'[v] \in {held[v], None}
        /\ \A s \in Streams : s # held[t] => stream'[s] = stream[s]
    BY <1>18, <1>0, <1>00, FreeClusterDoes, OpOf, IdleIs DEF Ends, Frees, CallStep, Returns, StreamStep, Typed, CallOK
  <2>2. th'[t].op \notin {"create", "rename"}
    BY <1>18, <1>0, <1>00, FreeClusterDoes, OpOf, IdleIs DEF Ends, Frees, CallStep, Returns, StreamStep, SameWork
  <2> QED
    BY <1>0, <2>1, <2>2, NewOther, NewVacuous DEF NewOK
<1>19. ASSUME NEW t \in Threads, count(t) PROVE NewOK'
  <2>1. /\ \A u \in Threads \ {t} : th'[u] = th[u]
        /\ \A v \in Threads : held'[v] \in {held[v], None}
        /\ \A s \in Streams : s # held[t] => stream'[s] = stream[s]
    BY <1>19, <1>0, <1>00, CountDoes, OpOf, IdleIs DEF Goes, CallStep, Typed, CallOK
  <2>2. th'[t].op \notin {"create", "rename"}
    BY <1>19, <1>0, <1>00, CountDoes, OpOf, IdleIs DEF Goes, CallStep, SameWork
  <2> QED
    BY <1>0, <2>1, <2>2, NewOther, NewVacuous DEF NewOK
<1>20. ASSUME NEW t \in Threads, sync(t) PROVE NewOK'
  <2>1. Goes(t, "entry") /\ th[t].pc = "sync" /\ held' = held /\ stream' = stream
    BY <1>20, <1>0, SyncDoes
  <2>2. \A u \in Threads \ {t} : NewOf(u)'
    BY <1>0, <2>1, NewOther DEF Goes, CallStep
  <2>3. NewOf(t)'
    <3>1. CASE th[t].op = "create" \/ Renaming(t)
      <4>1. Mine(t)' = Mine(t)
        BY <2>1 DEF Mine, Renaming, Flushes, Goes, SameWork
      <4> QED
        BY <1>0, <2>1, <3>1, <4>1, NewStays
    <3>2. CASE ~(th[t].op = "create" \/ Renaming(t))
      BY <2>1, <3>2 DEF NewOf, Renaming, Goes, SameWork
    <3> QED
      BY <3>1, <3>2
  <2> QED
    BY <2>2, <2>3 DEF NewOK
<1>21. ASSUME NEW t \in Threads, entry(t) PROVE NewOK'
  <2>1. Wrote(t) /\ th[t].pc \in {"entry", "written"}
    BY <1>21, <1>0, EntryDoes
  <2> QED
    BY <1>0, <2>1, NewWrote
<1>22. ASSUME NEW t \in Threads, written(t) PROVE NewOK'
  <2>1. Wrote(t) /\ th[t].pc \in {"entry", "written"}
    BY <1>22, <1>0, WrittenDoes
  <2> QED
    BY <1>0, <2>1, NewWrote
<1>23. ASSUME NEW t \in Threads, remove(t) PROVE NewOK'
  <2>1. /\ th[t].pc = "remove" /\ th[t].op \in {"unbind", "rename"} /\ held' = held
        /\ (stream[th[t].s].removed /\ Drops(t, th[t].s)) \/ RemovesStream(t)
    BY <1>23, <1>0, RemoveDoes
  <2>2. \A u \in Threads \ {t} : NewOf(u)'
    BY <1>000, <2>1 DEF DirectoryCalls, Drops, Returns, RemovesStream, CallStep
  <2>3. CASE Drops(t, th[t].s)
    BY <2>2, <2>3, IdleIs, NewVacuous DEF Drops, Returns, NewOK
  <2>4. CASE RemovesStream(t)
    <3>1. CASE th[t].op = "rename"
      <4>1. Mine(t)' = Mine(t) /\ Renaming(t) /\ Mine(t) = th[t].s
        BY <2>1, <2>4, <3>1 DEF Mine, Renaming, Flushes, RemovesStream
      <4>2. NewOf(t)'
        BY <1>0, <2>1, <2>4, <4>1, NewStays DEF RemovesStream, SameHint
      <4> QED
        BY <2>2, <4>2 DEF NewOK
    <3>2. CASE th[t].op = "unbind"
      BY <2>2, <2>4, <3>2, NewVacuous DEF RemovesStream, NewOK
    <3> QED
      BY <2>1, <3>1, <3>2
  <2> QED
    BY <2>1, <2>3, <2>4
<1>24. ASSUME NEW t \in Threads, erase(t) PROVE NewOK'
  <2>1. /\ th[t].pc = "erase" /\ th[t].op \in {"unbind", "rename"} /\ th'[t].op = th[t].op /\ th'[t].pc = "sync"
        /\ th'[t].write = "erase" /\ th'[t].s = th[t].s /\ stream' = stream /\ held' = held
        /\ \A u \in Threads \ {t} : th'[u] = th[u]
    BY <1>24, <1>0, EraseDoes DEF CallStep, SameWork
  <2>2. \A u \in Threads \ {t} : NewOf(u)'
    BY <1>000, <2>1 DEF DirectoryCalls
  <2>3. NewOf(t)'
    <3>1. CASE th[t].op = "rename"
      <4>1. Mine(t)' = Mine(t) /\ Renaming(t)
        BY <2>1, <3>1 DEF Mine, Renaming, Flushes
      <4> QED
        BY <1>0, <2>1, <4>1, NewStays
    <3>2. CASE th[t].op = "unbind"
      BY <2>1, <3>2, NewVacuous
    <3> QED
      BY <2>1, <3>1, <3>2
  <2> QED
    BY <2>2, <2>3 DEF NewOK
<1>25. ASSUME NEW t \in Threads, renameCreate(t) PROVE NewOK'
  <2>1. PICK s \in Streams, o \in Slots, name \in Names :
              /\ Makes(t, s, o, name)
              /\ CallStep(t) /\ SameChain(t) /\ th'[t].op = "rename" /\ th'[t].pc = "sync" /\ th'[t].s = s
              /\ th'[t].old = th[t].old /\ th'[t].lock = th[t].lock /\ th'[t].size = th[t].size
              /\ th'[t].write = "new"
    BY <1>25, <1>0, RenameCreateDoes
  <2>2. \A u \in Threads \ {t} : NewOf(u)'
    BY <1>25, <2>1, <1>0, <1>000, RenameCreateDoes DEF CallStep, DirectoryCalls
  <2>3. Mine(t)' = s
    BY <2>1 DEF Mine, Renaming, Flushes
  <2> QED
    BY <1>0, <2>1, <2>2, <2>3, NewMade DEF NewOK
<1>26. ASSUME NEW t \in Threads, renameFails(t) PROVE NewOK'
  <2>1. \A u \in Threads \ {t} : NewOf(u)'
    BY <1>26, <1>0, <1>000, RenameFailsDoes DEF Drops, Returns, CallStep, DirectoryCalls
  <2>2. NewOf(t)'
    BY <1>26, <1>0, RenameFailsDoes, IdleIs, NewVacuous DEF Drops, Returns
  <2> QED
    BY <2>1, <2>2 DEF NewOK
<1>27. ASSUME NEW t \in Threads, swap(t) PROVE NewOK'
  <2>1. /\ Swaps(th[t].s, th[t].old) /\ th[t].pc = "swap" /\ th[t].op = "rename" /\ Goes(t, "flush")
        /\ th[t].s \in Streams /\ th[t].old \in Streams /\ held' = held
    BY <1>27, <1>0, SwapDoes
  <2>2. \A u \in Threads \ {t} : NewOf(u)'
    BY <1>000, <2>1 DEF Goes, CallStep, DirectoryCalls
  <2>3. Mine(t)' = Mine(t) /\ Renaming(t) /\ Mine(t) = th[t].s
    BY <2>1 DEF Mine, Renaming, Flushes, Goes, SameWork
  <2>4. NewOf(t)'
    BY <1>0, <2>1, <2>3, NewStays DEF Swaps, SameHint
  <2> QED
    BY <2>2, <2>4 DEF NewOK
<1>28. ASSUME NEW t \in Threads, renameFlush(t) PROVE NewOK'
  <2>1. /\ th[t].pc = "flush" /\ th[t].op = "rename" /\ th'[t].op = "rename" /\ th'[t].pc \in {"sync", "written"}
        /\ th'[t].write = "fcb" /\ th'[t].old = th[t].s /\ stream' = stream /\ held' = held
        /\ \A u \in Threads \ {t} : th'[u] = th[u]
    BY <1>28, <1>0, RenameFlushDoes DEF CallStep, Flushing
  <2>2. \A u \in Threads \ {t} : NewOf(u)'
    BY <1>000, <2>1 DEF DirectoryCalls
  <2>3. Mine(t)' = Mine(t) /\ Renaming(t)
    BY <2>1 DEF Mine, Renaming, Flushes
  <2>4. NewOf(t)'
    BY <1>0, <2>1, <2>3, NewStays
  <2> QED
    BY <2>2, <2>4 DEF NewOK
<1> QED
  BY Zenon, <1>1, <1>2, <1>3, <1>4, <1>5, <1>6, <1>7, <1>8, <1>9, <1>10, <1>11, <1>12, <1>13,
     <1>14, <1>15, <1>16, <1>17, <1>18, <1>19, <1>20, <1>21, <1>22, <1>23, <1>24, <1>25,
     <1>26, <1>27, <1>28 DEF Next, Continue

(* A stream that the step leaves alone, and no setSize() of thread t is about. *)
LEMMA FcbOther ==
  ASSUME FcbOK, NEW t \in Threads, NEW s \in Streams, \A u \in Threads \ {t} : th'[u] = th[u],
         Resized(t, s)' <=> Resized(t, s), Resized(t, s) => th'[t].size = th[t].size,
         stream[s] # None => /\ stream'[s].fcb.fstClus = stream[s].fcb.fstClus
                             /\ stream'[s].fstClus = stream[s].fstClus
                             /\ stream'[s].fcb.size = stream[s].fcb.size /\ stream'[s].size = stream[s].size,
         stream'[s] # None => stream[s] # None
  PROVE  FcbOf(s)'
<1>1. \A u \in Threads : (Resized(u, s)' <=> Resized(u, s)) /\ (Resized(u, s) => th'[u].size = th[u].size)
  BY DEF Resized
<1> QED
  BY <1>1 DEF FcbOK, FcbOf

(* lookup() opens a stream with the fcb of its entry. *)
LEMMA FcbOpens ==
  ASSUME Typed, RefsOK, FcbOK, NEW t \in Threads, th[t] = Idle, NEW s, NEW o, Opens(s, o),
         \A u \in Threads \ {t} : th'[u] = th[u], th'[t].op # "setSize"
  PROVE  FcbOK'
<1> SUFFICES ASSUME NEW r \in Streams PROVE FcbOf(r)'
  BY DEF FcbOK
<1>1. ~Resized(t, r) /\ ~Resized(t, r)'
  BY IdleIs DEF Resized
<1>2. CASE stream'[r] = stream[r]
  BY <1>1, <1>2, FcbOther
<1>3. CASE stream'[r] # stream[r]
  <2>1. r = s /\ stream[s] = None /\ stream'[s] = FatStream(o, dir[o]) /\ o \in Slots /\ dir[o] \in Entries
    BY <1>3, EntryTyped DEF Opens, StreamStep
  <2>2. stream'[s].fcb.fstClus = stream'[s].fstClus /\ stream'[s].fcb.size = stream'[s].size
    BY <2>1, NewStream
  <2>3. \A u \in Threads : ~Resized(u, r)'
    BY <1>1, <2>1, FatAssumption DEF RefsOK, Resized
  <2> QED
    BY <2>1, <2>2, <2>3 DEF FcbOf
<1> QED
  BY <1>2, <1>3

(* create() makes a stream with an empty fcb. *)
LEMMA FcbMakes ==
  ASSUME Typed, RefsOK, FcbOK, NEW t \in Threads, NEW s, NEW o, NEW name \in Names, Makes(t, s, o, name),
         \A u \in Threads \ {t} : th'[u] = th[u], th[t].op # "setSize", th'[t].op # "setSize"
  PROVE  FcbOK'
<1> SUFFICES ASSUME NEW r \in Streams PROVE FcbOf(r)'
  BY DEF FcbOK
<1>1. ~Resized(t, r) /\ ~Resized(t, r)'
  BY DEF Resized
<1>2. CASE r # s
  BY <1>1, <1>2, FcbOther DEF Makes, StreamStep
<1>3. CASE r = s
  <2>0. Entry(name, 0, 0) \in Entries
    BY Numbers DEF Entries, Entry
  <2>1. stream'[s].fcb.fstClus = stream'[s].fstClus /\ stream'[s].fcb.size = stream'[s].size /\ stream[s] = None
    BY <2>0, NewStream DEF Makes
  <2>3. \A u \in Threads : ~Resized(u, r)'
    BY <1>1, <1>3, <2>1, FatAssumption DEF RefsOK, Resized, Makes
  <2> QED
    BY <1>3, <2>1, <2>3 DEF FcbOf
<1> QED
  BY <1>2, <1>3

(* The step of a thread that is not in setSize(). *)
LEMMA FcbNames ==
  ASSUME Typed, FcbOK, NEW t \in Threads, th[t].op # "setSize", th'[t].op # "setSize",
         \A u \in Threads \ {t} : th'[u] = th[u],
         \A s \in Streams : \/ stream'[s] = None
                           \/ /\ stream[s] # None
                              /\ stream'[s].fcb.fstClus = stream[s].fcb.fstClus
                              /\ stream'[s].fstClus = stream[s].fstClus
                              /\ stream'[s].fcb.size = stream[s].fcb.size /\ stream'[s].size = stream[s].size
  PROVE  FcbOK'
<1> SUFFICES ASSUME NEW r \in Streams, stream'[r] # None PROVE FcbOf(r)'
  BY DEF FcbOK, FcbOf
<1>1. ~Resized(t, r) /\ ~Resized(t, r)'
  BY DEF Resized
<1> QED
  BY <1>1, FcbOther

(* The only setSize() of a stream. *)
LEMMA OneResizes ==
  ASSUME Typed, PlacesOK, LocksOK, NEW t \in Threads, NEW s \in Streams, Unlocked(s, t) \/ th[t].lock = s
  PROVE  \A u \in Threads \ {t} : ~Resized(u, s)
BY FatAssumption DEF PlacesOK, CallOK, LocksOK, Unlocked, Resized

(* setSize() gives the size and returns. *)
LEMMA FcbEnds ==
  ASSUME Typed, PlacesOK, LocksOK, FcbOK, NEW t \in Threads, th[t].op = "setSize", th'[t] = Idle,
         \A u \in Threads \ {t} : th'[u] = th[u], NEW s \in Streams, s = th[t].s, Resized(t, s), stream[s] # None,
         /\ \A r \in Streams \ {s} : stream'[r] = stream[r]
         /\ stream'[s].fcb = stream[s].fcb /\ stream'[s].fstClus = stream[s].fstClus /\ stream'[s].size = th[t].size
  PROVE  FcbOK'
<1>1. \A u \in Threads \ {t} : ~Resized(u, s)
  BY OneResizes DEF PlacesOK, CallOK
<1>2. \A r \in Streams : ~Resized(t, r)'
  BY IdleIs DEF Resized
<1>3. \A r \in Streams \ {s} : FcbOf(r)'
  <2>1. \A r \in Streams \ {s} : ~Resized(t, r)
    BY DEF Resized
  <2> QED
    BY <1>2, <2>1, FcbOther
<1>4. FcbOf(s)'
  <2>1. stream[s].fcb.size = th[t].size /\ stream[s].fcb.fstClus = stream[s].fstClus
    BY DEF FcbOK, FcbOf
  <2>2. \A u \in Threads : ~Resized(u, s)'
    BY <1>1, <1>2 DEF Resized
  <2>3. stream'[s].fcb = stream[s].fcb /\ stream'[s].fstClus = stream[s].fstClus /\ stream'[s].size = th[t].size
    OBVIOUS
  <2> QED
    BY <2>1, <2>2, <2>3 DEF FcbOf, Resized
<1> QED
  BY <1>3, <1>4 DEF FcbOK

(* What follows the write of an entry gives setSize() its size, and nothing else one. *)
LEMMA FcbWrote ==
  ASSUME Typed, PlacesOK, LocksOK, RefsOK, FcbOK, NEW t \in Threads, th[t].pc \in {"entry", "written"}, Wrote(t)
  PROVE  FcbOK'
<1>1. CASE WroteNew(t) \/ WroteNewName(t) \/ WroteMoved(t) \/ WroteErased(t)
  BY <1>1, FcbNames, IdleIs, FatAssumption DEF WroteNew, WroteNewName, WroteMoved, WroteErased, Drops, Returns, Goes, CallStep,
     SameWork, StreamStep, RefsOK
<1>2. CASE WroteLarger(t)
  BY <1>2, FcbEnds DEF WroteLarger, Returns, CallStep, StreamStep, Resized
<1>3. CASE WroteSmaller(t)
  <2>1. \A s \in Streams : (Resized(t, s)' <=> Resized(t, s)) /\ th'[t].size = th[t].size
    BY <1>3 DEF WroteSmaller, Goes, SameWork, Resized
  <2> QED
    BY <1>3, <2>1, FcbOther DEF WroteSmaller, Goes, CallStep, FcbOK
<1> QED
  BY <1>1, <1>2, <1>3 DEF Wrote

(* Nothing changes in the calls and the streams. *)
LEMMA FcbSame ==
  ASSUME FcbOK, th' = th, stream' = stream
  PROVE  FcbOK'
<1> SUFFICES ASSUME NEW s \in Streams PROVE FcbOf(s)'
  BY DEF FcbOK
<1>1. \A u \in Threads : Resized(u, s)' <=> Resized(u, s)
  BY DEF Resized
<1> QED
  BY <1>1 DEF FcbOK, FcbOf

(* Every step keeps FcbOK. *)
LEMMA FcbStep ==
  ASSUME Placed, FcbOK, [Next]_vars
  PROVE  FcbOK'
<1>0. Typed /\ PlacesOK /\ RefsOK /\ TypeOK /\ LocksOK /\ SoloOK
  BY TypesAre DEF Placed, Base
<1>00. \A t \in Threads : th[t] \in Calls /\ CallOK(t) /\ SharedOK(t)
  BY <1>0 DEF PlacesOK, Typed
<1>1. CASE UNCHANGED vars
  BY <1>1, FcbSame DEF vars
<1>2. CASE mount
  BY <1>2, <1>0, MountDoes, FcbSame
<1>3. CASE dismount
  BY <1>3, <1>0, DismountDoes, FcbSame
<1>4. CASE setClean
  BY <1>4, SetCleanDoes, ForgetDoes DEF FcbOK, FcbOf
<1>5. CASE Crash
  BY <1>5, CrashDoes, ForgetDoes DEF FcbOK, FcbOf
<1>6. ASSUME NEW t \in Threads, NEW name \in Names, open(t, name) PROVE FcbOK'
  BY <1>6, <1>0, OpenDoes, IdleIs, FcbOpens DEF Begins, CallStep
<1>7. ASSUME NEW t \in Threads, NEW name \in Names, create(t, name) PROVE FcbOK'
  BY <1>7, <1>0, CreateDoes, IdleIs, FcbMakes DEF Begins, CallStep
<1>8. ASSUME NEW t \in Threads, NEW name \in Names, unbind(t, name) PROVE FcbOK'
  BY <1>8, <1>0, UnbindDoes, IdleIs, FcbOpens DEF Begins, CallStep
<1>9. ASSUME NEW t \in Threads, NEW name \in Names, rename(t, name) PROVE FcbOK'
  BY <1>9, <1>0, RenameDoes, IdleIs, FcbOpens DEF Begins, CallStep
<1>10. ASSUME NEW t \in Threads, close(t) PROVE FcbOK'
  BY <1>10, <1>0, CloseDoes, IdleIs, FcbNames DEF Drops, Returns, CallStep, StreamStep, SameWork
<1>11. ASSUME NEW t \in Threads, NEW position \in 0 .. MaxSize - 1, seek(t, position) PROVE FcbOK'
  <2>0. held[t] \in Streams /\ stream[held[t]] # None /\ position \in Nat
    BY <1>11, <1>0, SeekDoes
  <2>1. LET new == Sought(stream[held[t]], position) IN
        new.fcb = stream[held[t]].fcb /\ new.fstClus = stream[held[t]].fstClus /\ new.size = stream[held[t]].size
    BY <1>0, <2>0, StreamTyped, SoughtTyped
  <2> QED
    BY <1>11, <1>0, <2>1, SeekDoes, IdleIs, FcbNames DEF StreamStep
<1>12. ASSUME NEW t \in Threads, NEW size \in 0 .. MaxSize, setSize(t, size) PROVE FcbOK'
  <2>0. PICK s \in Streams : s = held[t]
    BY <1>12, <1>0, SetSizeDoes
  <2>1. /\ th[t] = Idle /\ stream[s] # None /\ Unlocked(s, t)
        /\ Grows(t, size) \/ Shrinks(t, size)
    BY <1>12, <1>0, <2>0, SetSizeDoes
  <2>2. \A r \in Streams : ~Resized(t, r)
    BY <2>1, IdleIs DEF Resized
  <2>3. CASE Grows(t, size)
    BY <2>2, <2>3, FcbOther DEF Grows, CallStep, Resized, FcbOK
  <2>4. CASE Shrinks(t, size)
    <3>1. \A u \in Threads \ {t} : ~Resized(u, s) /\ th'[u] = th[u]
      BY <1>0, <2>1, <2>4, OneResizes DEF Shrinks, CallStep
    <3>2. \A r \in Streams \ {s} : FcbOf(r)'
      <4>1. \A r \in Streams \ {s} : stream'[r] = stream[r] /\ ~Resized(t, r)'
        BY <2>0, <2>4 DEF Shrinks, StreamStep, Resized
      <4> QED
        BY <2>2, <3>1, <4>1, FcbOther
    <3>3. Resized(t, s)' /\ th'[t].size = size
      BY <2>0, <2>4 DEF Shrinks, Resized, Flushing
    <3>4. stream'[s].fcb.size = size /\ stream'[s].fcb.fstClus = stream'[s].fstClus
      BY <2>0, <2>1, <2>4 DEF Shrinks, FcbOK, FcbOf
    <3>5. FcbOf(s)'
      BY <3>1, <3>3, <3>4 DEF FcbOf, Resized
    <3> QED
      BY <3>2, <3>5 DEF FcbOK
  <2> QED
    BY <2>1, <2>3, <2>4
<1>13. ASSUME NEW t \in Threads, allocCluster(t) PROVE FcbOK'
  <2>1. th[t].pc \in {"alloc", "mark", "link"} /\ stream' = stream /\ \A u \in Threads \ {t} : th'[u] = th[u]
    BY <1>13, <1>0, AllocClusterDoes DEF Returns, Goes, CallStep
  <2>2. \A s \in Streams : ~Resized(t, s) /\ ~Resized(t, s)'
    BY <1>13, <1>0, AllocClusterDoes, IdleIs DEF Returns, Goes, CallStep, Resized
  <2> QED
    BY <2>1, <2>2, FcbOther DEF FcbOK
<1>14. ASSUME NEW t \in Threads, mark(t) PROVE FcbOK'
  <2>1. th[t].pc \in {"alloc", "mark", "link"} /\ stream' = stream /\ \A u \in Threads \ {t} : th'[u] = th[u]
    BY <1>14, <1>0, MarkDoes DEF Goes, CallStep
  <2>2. \A s \in Streams : ~Resized(t, s) /\ ~Resized(t, s)'
    BY <1>14, <1>0, MarkDoes, IdleIs DEF Goes, CallStep, Resized
  <2> QED
    BY <2>1, <2>2, FcbOther DEF FcbOK
<1>15. ASSUME NEW t \in Threads, link(t) PROVE FcbOK'
  <2>1. th[t].pc \in {"alloc", "mark", "link"} /\ stream' = stream /\ \A u \in Threads \ {t} : th'[u] = th[u]
    BY <1>15, <1>0, LinkDoes DEF CallStep
  <2>2. \A s \in Streams : ~Resized(t, s) /\ ~Resized(t, s)'
    BY <1>15, <1>0, LinkDoes, IdleIs DEF CallStep, Resized
  <2> QED
    BY <2>1, <2>2, FcbOther DEF FcbOK
<1>16. ASSUME NEW t \in Threads, chain(t) PROVE FcbOK'
  <2>0. PICK s \in Streams : s = th[t].s
    BY <1>16, <1>0, ChainDoes
  <2>1. /\ th[t].pc = "chain" /\ th[t].op = "setSize" /\ stream[s] # None
        /\ th'[t].op = "setSize" /\ th'[t].s = s /\ th'[t].size = th[t].size /\ th'[t].pc = Flushing(s)
        /\ \A u \in Threads \ {t} : th'[u] = th[u]
        /\ ChainEffect(t)
    BY <1>16, <1>0, <2>0, ChainDoes DEF CallStep, SameWork
  <2>2. /\ \A r \in Streams \ {s} : stream'[r] = stream[r]
        /\ stream'[s].fcb.size = th[t].size
        /\ \/ /\ stream'[s].fcb.fstClus = stream[s].fcb.fstClus /\ stream'[s].fstClus = stream[s].fstClus
           \/ stream'[s].fcb.fstClus = stream'[s].fstClus
    BY <2>0, <2>1 DEF ChainEffect, StreamStep
  <2>3. \A u \in Threads \ {t} : ~Resized(u, s)
    BY <1>0, <1>00, <2>0, <2>1, OneResizes DEF CallOK
  <2>4. \A r \in Streams \ {s} : FcbOf(r)'
    BY <2>0, <2>1, <2>2, FcbOther DEF Resized
  <2>5. FcbOf(s)'
    <3>1. Resized(t, s)'
      BY <2>1 DEF Resized, Flushing
    <3>2. stream'[s].fcb.fstClus = stream'[s].fstClus
      BY <2>1, <2>2 DEF FcbOK, FcbOf
    <3>3. \A u \in Threads \ {t} : ~Resized(u, s)'
      BY <2>1, <2>3 DEF Resized
    <3> QED
      BY <2>1, <2>2, <3>1, <3>2, <3>3 DEF FcbOf
  <2> QED
    BY <2>4, <2>5 DEF FcbOK
<1>17. ASSUME NEW t \in Threads, cut(t) PROVE FcbOK'
  <2>1. stream' = stream /\ \A u \in Threads \ {t} : th'[u] = th[u]
    BY <1>17, <1>0, CutDoes DEF CallStep
  <2>2. \A s \in Streams : (Resized(t, s)' <=> Resized(t, s)) /\ (Resized(t, s) => th'[t].size = th[t].size)
    BY <1>17, <1>0, <1>00, CutDoes DEF CallStep, SameWork, Resized
  <2> QED
    BY <2>1, <2>2, FcbOther DEF FcbOK
<1>18. ASSUME NEW t \in Threads, freeCluster(t) PROVE FcbOK'
  <2>1. th[t].pc = "free" /\ th[t].op \in {"setSize", "close"} /\ (Ends(t) \/ Frees(t))
    BY <1>18, <1>0, FreeClusterDoes
  <2>2. CASE Frees(t)
    BY <2>1, <2>2, FcbOther DEF Frees, CallStep, SameWork, Resized, FcbOK
  <2>3. CASE Ends(t) /\ th[t].op # "setSize"
    BY <2>3, FcbNames, <1>0, IdleIs DEF Ends, Returns, CallStep
  <2>4. CASE Ends(t) /\ th[t].op = "setSize"
    <3>1. /\ th'[t] = Idle /\ th[t].s \in Streams /\ stream[th[t].s] # None /\ StreamStep(th[t].s)
          /\ stream'[th[t].s].fcb = stream[th[t].s].fcb /\ stream'[th[t].s].fstClus = stream[th[t].s].fstClus
          /\ stream'[th[t].s].size = th[t].size /\ \A u \in Threads \ {t} : th'[u] = th[u]
      BY <2>4 DEF Ends, Returns, CallStep
    <3>2. Resized(t, th[t].s)
      BY <2>1, <2>4 DEF Resized
    <3> QED
      BY <1>0, <1>00, <2>4, <3>1, <3>2, FcbEnds DEF StreamStep
  <2> QED
    BY <2>1, <2>2, <2>3, <2>4
<1>19. ASSUME NEW t \in Threads, count(t) PROVE FcbOK'
  <2>1. stream' = stream /\ \A u \in Threads \ {t} : th'[u] = th[u]
    BY <1>19, <1>0, CountDoes DEF Goes, CallStep
  <2>2. \A s \in Streams : (Resized(t, s)' <=> Resized(t, s)) /\ (Resized(t, s) => th'[t].size = th[t].size)
    BY <1>19, <1>0, <1>00, CountDoes DEF Goes, CallStep, SameWork, Resized
  <2> QED
    BY <2>1, <2>2, FcbOther DEF FcbOK
<1>20. ASSUME NEW t \in Threads, sync(t) PROVE FcbOK'
  <2>1. stream' = stream /\ \A u \in Threads \ {t} : th'[u] = th[u]
    BY <1>20, <1>0, SyncDoes DEF Goes, CallStep
  <2>2. \A s \in Streams : (Resized(t, s)' <=> Resized(t, s)) /\ (Resized(t, s) => th'[t].size = th[t].size)
    BY <1>20, <1>0, <1>00, SyncDoes DEF Goes, CallStep, SameWork, Resized
  <2> QED
    BY <2>1, <2>2, FcbOther DEF FcbOK
<1>21. ASSUME NEW t \in Threads, entry(t) PROVE FcbOK'
  <2>1. Wrote(t) /\ th[t].pc \in {"entry", "written"}
    BY <1>21, <1>0, EntryDoes
  <2> QED
    BY <1>0, <2>1, FcbWrote
<1>22. ASSUME NEW t \in Threads, written(t) PROVE FcbOK'
  <2>1. Wrote(t) /\ th[t].pc \in {"entry", "written"}
    BY <1>22, <1>0, WrittenDoes
  <2> QED
    BY <1>0, <2>1, FcbWrote
<1>23. ASSUME NEW t \in Threads, remove(t) PROVE FcbOK'
  BY <1>23, <1>0, RemoveDoes, IdleIs, FcbNames DEF Drops, RemovesStream, Returns, CallStep, StreamStep, SameWork
<1>24. ASSUME NEW t \in Threads, erase(t) PROVE FcbOK'
  BY <1>24, <1>0, EraseDoes, IdleIs, FcbNames DEF CallStep, SameWork
<1>25. ASSUME NEW t \in Threads, renameCreate(t) PROVE FcbOK'
  BY <1>25, <1>0, RenameCreateDoes, FcbMakes DEF CallStep
<1>26. ASSUME NEW t \in Threads, renameFails(t) PROVE FcbOK'
  BY <1>26, <1>0, RenameFailsDoes, IdleIs, FcbNames DEF Drops, Returns, CallStep, StreamStep, SameWork
<1>27. ASSUME NEW t \in Threads, swap(t) PROVE FcbOK'
  BY <1>27, <1>0, SwapDoes, IdleIs, FcbNames DEF Goes, CallStep, Swaps, SameWork
<1>28. ASSUME NEW t \in Threads, renameFlush(t) PROVE FcbOK'
  BY <1>28, <1>0, RenameFlushDoes, IdleIs, FcbNames DEF CallStep, SameWork
<1> QED
  BY Zenon, <1>1, <1>2, <1>3, <1>4, <1>5, <1>6, <1>7, <1>8, <1>9, <1>10, <1>11, <1>12, <1>13,
     <1>14, <1>15, <1>16, <1>17, <1>18, <1>19, <1>20, <1>21, <1>22, <1>23, <1>24, <1>25,
     <1>26, <1>27, <1>28 DEF Next, Continue

(* The parts of an entry's excuse. *)
Same(s) == /\ stream'[s].offset = stream[s].offset /\ stream'[s].fstClus = stream[s].fstClus
           /\ stream'[s].fcb.size = stream[s].fcb.size

(* An entry and a stream that stay go on to agree. *)
LEMMA OnSame ==
  ASSUME NEW o, NEW s, On(o, s), dir'[o] = dir[o], stream'[s].fstClus = stream[s].fstClus,
         stream'[s].fcb.size = stream[s].fcb.size
  PROVE  On(o, s)'
BY DEF On

(* A call that is none of the three excuses only what it is about to write. *)
LEMMA ExcuseOfSetSize ==
  ASSUME Typed, PlacesOK, NEW u \in Threads, th[u].op \notin DirectoryCalls, NEW s
  PROVE  Excused(u, s) <=> Unwritten(u, s)
<1>1. CallOK(u) /\ th[u] \in Calls
  BY DEF PlacesOK, Typed
<1>2. ~Writes(u, "new") /\ ~Renaming(u)
  BY <1>1 DEF CallOK, Writes, Renaming, DirectoryCalls
<1> QED
  BY <1>2 DEF Excused, Moved, Unsaved

(* A setSize() that stays where it is goes on to excuse its stream. *)
LEMMA UnwrittenStays ==
  ASSUME NEW u, NEW s, th'[u] = th[u], Unwritten(u, s)
  PROVE  Excused(u, s)'
BY DEF Unwritten, Excused

(* The excuse of another thread, when the entry of its new stream is not written. *)
LEMMA ExcuseStays ==
  ASSUME Typed, PlacesOK, KeptOK, NEW u \in Threads, NEW s \in Streams, Excused(u, s), th'[u] = th[u], Same(s), KeepsKept,
         Unsaved(u) => dir'[stream[Mine(u)].offset] = dir[stream[Mine(u)].offset]
  PROVE  Excused(u, s)'
<1>1. /\ Mine(u)' = Mine(u) /\ Theirs(u)' = Theirs(u) /\ (Unsaved(u)' <=> Unsaved(u)) /\ (Moved(u)' <=> Moved(u))
      /\ (Writes(u, "new")' <=> Writes(u, "new")) /\ (Unwritten(u, s)' <=> Unwritten(u, s))
  BY DEF Mine, Theirs, Unsaved, Moved, Writes, Unwritten, Renaming, Flushes, Erasing
<1>2. CASE (Writes(u, "new") \/ Moved(u)) /\ Mine(u) = s
  BY <1>1, <1>2 DEF Excused
<1>3. CASE Unwritten(u, s)
  BY <1>1, <1>3 DEF Excused
<1>4. CASE Unsaved(u) /\ Theirs(u) = s /\ On(stream[Mine(u)].offset, s)
  <2>1. Kept(Mine(u))
    BY <1>4 DEF KeptOK, KeptOf, Unsaved, Mine, Renaming, Flushes
  <2>2. stream'[Mine(u)].offset = stream[Mine(u)].offset
    BY <2>1 DEF KeepsKept, Kept
  <2>3. On(stream[Mine(u)].offset, s)'
    <3> DEFINE o == stream[Mine(u)].offset
    <3>1. On(o, s) /\ dir'[o] = dir[o]
      BY <1>4
    <3>2. stream'[Mine(u)'].offset = o
      BY <1>1, <2>2
    <3> HIDE DEF o, Mine
    <3> QED
      BY <3>1, <3>2 DEF On, Same
  <2> HIDE DEF Mine
  <2> QED
    BY <1>1, <1>4, <2>3 DEF Excused
<1> HIDE DEF Mine
<1> QED
  BY <1>2, <1>3, <1>4 DEF Excused

(* A step that writes no entry, and at most excuses a stream. *)
LEMMA EntriesSteady ==
  ASSUME Typed, PlacesOK, KeptOK, EntriesOK, NEW t \in Threads, Steady(t), dir' = dir,
         \A s \in Streams : Kept(s) => Excused(t, s)' \/ (Same(s) /\ ~Excused(t, s))
  PROVE  EntriesOK'
<1> SUFFICES ASSUME NEW s \in Streams, Kept(s)'
             PROVE  On(stream[s].offset, s)' \/ \E u \in Threads : Excused(u, s)'
  BY DEF EntriesOK
<1>1. Kept(s) /\ KeepsKept /\ \A u \in Threads \ {t} : th'[u] = th[u]
  BY DEF Steady, NoNewKept
<1>2. CASE Excused(t, s)'
  BY <1>2
<1>3. CASE Same(s) /\ ~Excused(t, s)
  <2>1. CASE On(stream[s].offset, s)
    BY <1>3, <2>1 DEF Same, On
  <2>2. ASSUME NEW u \in Threads, Excused(u, s) PROVE Excused(u, s)'
    BY <1>1, <1>3, <2>2, ExcuseStays
  <2> QED
    BY <1>1, <2>1, <2>2 DEF EntriesOK
<1> QED
  BY <1>1, <1>2, <1>3

(* The step of one of the three calls: setSize() alone excuses for other threads. *)
LEMMA EntriesAlone ==
  ASSUME Typed, PlacesOK, EntriesOK, NEW t \in Threads, dir' = dir,
         \A u \in Threads \ {t} : th[u].op \notin DirectoryCalls /\ th'[u] = th[u],
         \A s \in Streams : Kept(s)' =>
             Excused(t, s)' \/ On(stream[s].offset, s)' \/ (Kept(s) /\ Same(s) /\ ~Excused(t, s))
  PROVE  EntriesOK'
<1> SUFFICES ASSUME NEW s \in Streams, Kept(s)', Kept(s) /\ Same(s) /\ ~Excused(t, s)
             PROVE  On(stream[s].offset, s)' \/ \E u \in Threads : Excused(u, s)'
  BY DEF EntriesOK
<1>1. CASE On(stream[s].offset, s)
  BY <1>1 DEF Same, On
<1>2. ASSUME NEW u \in Threads, Excused(u, s) PROVE Excused(u, s)'
  <2>1. u \in Threads \ {t}
    BY <1>2
  <2> QED
    BY <1>2, <2>1, ExcuseOfSetSize, UnwrittenStays
<1> QED
  BY <1>1, <1>2 DEF EntriesOK

(* The places in which a call excuses nothing. *)
LEMMA NoExcuse ==
  ASSUME Typed, PlacesOK, NEW t \in Threads, NEW s,
         th[t].pc \in {"idle", "alloc", "mark", "link", "chain", "cut", "free", "count", "create", "swap"}
  PROVE  ~Excused(t, s)
<1>1. CallOK(t) /\ th[t] \in Calls
  BY DEF PlacesOK, Typed
<1> QED
  BY <1>1, OpOf DEF Excused, CallOK, Writes, Moved, Unsaved, Unwritten, Renaming, Flushes, Erasing

(* After lookup() a stream is that of its entry, or one that stays. *)
LEMMA OpensOn ==
  ASSUME Typed, NEW s, NEW o, Opens(s, o), dir' = dir, NEW r \in Streams, Kept(r)'
  PROVE  On(stream[r].offset, r)' \/ (Kept(r) /\ Same(r))
<1>1. CASE stream'[r] = stream[r]
  BY <1>1 DEF Kept, Same
<1>2. CASE stream'[r] # stream[r]
  <2>1. r = s /\ stream'[s] = FatStream(o, dir[o]) /\ o \in Slots /\ dir[o] # None
    BY <1>2 DEF Opens, StreamStep
  <2>2. dir[o] \in Entries
    BY <2>1, EntryTyped
  <2>3. stream'[s].offset = o /\ stream'[s].fstClus = dir[o].fstClus /\ stream'[s].fcb = dir[o]
    BY <2>1, <2>2, NewStream
  <2> QED
    BY <2>1, <2>3 DEF On
<1> QED
  BY <1>1, <1>2

(* What follows the write of an entry leaves the streams and their entries together. *)
LEMMA WroteSame ==
  ASSUME NEW t, Wrote(t), NEW r \in Streams, Kept(r)'
  PROVE  Same(r)
BY DEF Wrote, WroteNew, WroteNewName, WroteMoved, WroteLarger, WroteSmaller, WroteErased, Drops, StreamStep, Kept, Same

(* The new stream of rename() stays excused when the old one has got its entry. *)
LEMMA EntryKeepsExcuse ==
  ASSUME Typed, PlacesOK, NEW t \in Threads, th[t].pc = "entry", Wrote(t), NEW r \in Streams, r # th[t].s, Excused(t, r)
  PROVE  Excused(t, r)'
<1>1. CallOK(t) /\ th[t] \in Calls
  BY DEF PlacesOK, Typed
<1>2. Renaming(t) /\ Flushes(t) /\ th[t].old = r
  BY <1>1 DEF Excused, Writes, Moved, Mine, Theirs, Unsaved, Unwritten, Renaming, Flushes, Erasing, CallOK
<1>3. WroteMoved(t)
  BY <1>2 DEF Wrote, WroteNew, WroteNewName, WroteLarger, WroteSmaller, WroteErased, Renaming, Flushes
<1> QED
  BY <1>2, <1>3 DEF WroteMoved, Excused, Moved, Mine, Renaming, Flushes

(* setSize() of another thread does not write the entry of the new stream. *)
LEMMA SavedElsewhere ==
  ASSUME Typed, PlacesOK, SoloOK, KeptOK, OffsetsOK, NewOK, NEW t \in Threads, NEW u \in Threads \ {t},
         th[u].op \in DirectoryCalls, Unsaved(u), th[t].pc = "entry", NEW s \in Streams, s = th[t].s, NEW e,
         dir' = [dir EXCEPT ![stream[s].offset] = e]
  PROVE  dir'[stream[Mine(u)].offset] = dir[stream[Mine(u)].offset]
<1>1. CallOK(t) /\ th[t] \in Calls /\ th[t].op \notin DirectoryCalls
  BY DEF PlacesOK, Typed, SoloOK
<1>2. th[t].op = "setSize" /\ Writes(t, "fcb") /\ held[t] = s
  BY <1>1 DEF CallOK, DirectoryCalls, Calls, Operations, Writes
<1>3. Kept(s)
  BY <1>2 DEF KeptOK, KeptOf
<1>4. Renaming(u) /\ Mine(u) # s
  BY <1>2 DEF NewOK, NewOf, Unsaved
<1>5. Kept(Mine(u))
  BY DEF KeptOK, KeptOf, Unsaved, Mine, Renaming, Flushes
<1>6. stream[Mine(u)].offset # stream[s].offset /\ stream[Mine(u)].offset \in Slots
  BY <1>3, <1>4, <1>5, StreamTyped DEF OffsetsOK, Kept
<1> HIDE DEF Mine
<1> QED
  BY <1>6 DEF Typed

(* Nothing changes in the calls, the streams and the directory. *)
LEMMA EntriesSame ==
  ASSUME EntriesOK, th' = th, stream' = stream, dir' = dir
  PROVE  EntriesOK'
<1> SUFFICES ASSUME NEW s \in Streams, Kept(s) PROVE On(stream[s].offset, s)' \/ \E t \in Threads : Excused(t, s)'
  BY DEF EntriesOK, Kept
<1>1. \A t \in Threads : Excused(t, s) => Excused(t, s)'
  <2> SUFFICES ASSUME NEW t \in Threads, Excused(t, s) PROVE Excused(t, s)'
    OBVIOUS
  <2>1. /\ Mine(t)' = Mine(t) /\ Theirs(t)' = Theirs(t) /\ (Unsaved(t)' <=> Unsaved(t)) /\ (Moved(t)' <=> Moved(t))
        /\ (Writes(t, "new")' <=> Writes(t, "new")) /\ (Unwritten(t, s)' <=> Unwritten(t, s))
    BY DEF Mine, Theirs, Unsaved, Moved, Writes, Unwritten, Renaming, Flushes, Erasing
  <2> HIDE DEF Mine
  <2> QED
    BY <2>1 DEF Excused, On
<1> QED
  BY <1>1 DEF EntriesOK, On

(* Every step keeps EntriesOK. *)
LEMMA EntriesStep ==
  ASSUME "names" \notin Allow, Placed, KeptOK, OffsetsOK, NewOK, FcbOK, EntriesOK, [Next]_vars
  PROVE  EntriesOK'
<1>0. Typed /\ PlacesOK /\ RefsOK /\ TypeOK /\ LocksOK /\ SoloOK
  BY TypesAre DEF Placed, Base
<1>00. \A t \in Threads : th[t] \in Calls /\ CallOK(t) /\ SharedOK(t) /\ KeptOf(t)
  BY <1>0 DEF PlacesOK, Typed, KeptOK
<1>1. CASE UNCHANGED vars
  BY <1>1, EntriesSame DEF vars, disk
<1>2. CASE mount
  BY <1>2, <1>0, MountDoes, EntriesSame
<1>3. CASE dismount
  BY <1>3, <1>0, DismountDoes, EntriesSame
<1>4. CASE setClean
  BY <1>4, SetCleanDoes, ForgetDoes DEF EntriesOK, Kept
<1>5. CASE Crash
  BY <1>5, CrashDoes, ForgetDoes DEF EntriesOK, Kept
<1>6. ASSUME NEW t \in Threads, NEW name \in Names, open(t, name) PROVE EntriesOK'
  <2>1. PICK s \in Streams, o \in Slots : Opens(s, o)
    BY <1>6, <1>0, OpenDoes
  <2>2. th[t] = Idle /\ dir' = dir
    BY <1>6, <1>0, OpenDoes
  <2>3. \A u \in Threads \ {t} : th[u].op \notin DirectoryCalls /\ th'[u] = th[u]
    BY <1>6, <1>0, OpenDoes, NobodyNames DEF Begins, CallStep
  <2>4. \A r \in Streams : ~Excused(t, r)
    BY <1>0, <2>2, IdleIs, NoExcuse
  <2>5. \A r \in Streams : Kept(r)' => On(stream[r].offset, r)' \/ (Kept(r) /\ Same(r))
    BY <1>0, <2>1, <2>2, OpensOn
  <2> QED
    BY <1>0, <2>2, <2>3, <2>4, <2>5, EntriesAlone
<1>7. ASSUME NEW t \in Threads, NEW name \in Names, create(t, name) PROVE EntriesOK'
  <2>1. PICK s \in Streams, o \in Slots : Makes(t, s, o, name) /\ Begins(t, "create", "sync", s, None, "new")
    BY <1>7, <1>0, CreateDoes
  <2>3. \A r \in Streams : Kept(r)' => Excused(t, r)' \/ (Kept(r) /\ Same(r))
    <3>1. \A r \in Streams \ {s} : stream'[r] = stream[r]
      BY <2>1 DEF Makes, StreamStep
    <3>2. Excused(t, s)'
      BY <2>1 DEF Begins, Excused, Writes, Mine, Renaming, Flushes
    <3> QED
      BY <3>1, <3>2 DEF Kept, Same
  <2>4. \A r \in Streams : ~Excused(t, r)
    BY <1>7, <1>0, CreateDoes, IdleIs, NoExcuse
  <2>2. dir' = dir /\ \A u \in Threads \ {t} : th[u].op \notin DirectoryCalls /\ th'[u] = th[u]
    BY <2>1, <1>0, NobodyNames DEF Makes, Begins, CallStep
  <2> QED
    BY <1>0, <2>2, <2>3, <2>4, EntriesAlone
<1>8. ASSUME NEW t \in Threads, NEW name \in Names, unbind(t, name) PROVE EntriesOK'
  <2>1. PICK s \in Streams, o \in Slots : Opens(s, o)
    BY <1>8, <1>0, UnbindDoes
  <2>2. th[t] = Idle /\ dir' = dir
    BY <1>8, <1>0, UnbindDoes
  <2>3. \A u \in Threads \ {t} : th[u].op \notin DirectoryCalls /\ th'[u] = th[u]
    BY <1>8, <1>0, UnbindDoes, NobodyNames DEF Begins, CallStep
  <2>4. \A r \in Streams : ~Excused(t, r)
    BY <1>0, <2>2, IdleIs, NoExcuse
  <2>5. \A r \in Streams : Kept(r)' => On(stream[r].offset, r)' \/ (Kept(r) /\ Same(r))
    BY <1>0, <2>1, <2>2, OpensOn
  <2> QED
    BY <1>0, <2>2, <2>3, <2>4, <2>5, EntriesAlone
<1>9. ASSUME NEW t \in Threads, NEW name \in Names, rename(t, name) PROVE EntriesOK'
  <2>1. PICK s \in Streams, o \in Slots : Opens(s, o)
    BY <1>9, <1>0, RenameDoes
  <2>2. th[t] = Idle /\ dir' = dir
    BY <1>9, <1>0, RenameDoes
  <2>3. \A u \in Threads \ {t} : th[u].op \notin DirectoryCalls /\ th'[u] = th[u]
    BY <1>9, <1>0, RenameDoes, NobodyNames DEF Begins, CallStep
  <2>4. \A r \in Streams : ~Excused(t, r)
    BY <1>0, <2>2, IdleIs, NoExcuse
  <2>5. \A r \in Streams : Kept(r)' => On(stream[r].offset, r)' \/ (Kept(r) /\ Same(r))
    BY <1>0, <2>1, <2>2, OpensOn
  <2> QED
    BY <1>0, <2>2, <2>3, <2>4, <2>5, EntriesAlone
<1>10. ASSUME NEW t \in Threads, close(t) PROVE EntriesOK'
  <2>1. Steady(t)
    BY Zenon, <1>10, <1>0, QuietSteady DEF Quiet
  <2>2. dir' = dir
    BY <1>10, <1>0, CloseDoes
  <2>4. \A s \in Streams : ~Excused(t, s)
    BY <1>10, <1>0, CloseDoes, IdleIs, NoExcuse
  <2>3. \A s \in Streams : Kept(s) => Same(s) /\ ~Excused(t, s)
    BY <1>10, <1>0, <2>4, CloseDoes DEF Drops, StreamStep, Same, Kept
  <2> QED
    BY <1>0, <2>1, <2>2, <2>3, EntriesSteady
<1>11. ASSUME NEW t \in Threads, NEW position \in 0 .. MaxSize - 1, seek(t, position) PROVE EntriesOK'
  <2>1. Steady(t)
    BY Zenon, <1>11, <1>0, QuietSteady DEF Quiet
  <2>0. held[t] \in Streams /\ stream[held[t]] # None /\ position \in Nat
    BY <1>11, <1>0, SeekDoes
  <2>4. LET new == Sought(stream[held[t]], position) IN
        new.offset = stream[held[t]].offset /\ new.fcb = stream[held[t]].fcb /\ new.fstClus = stream[held[t]].fstClus
    BY <1>0, <2>0, StreamTyped, SoughtTyped
  <2>2. dir' = dir
    BY <1>11, <1>0, SeekDoes
  <2>3. \A s \in Streams : Same(s) /\ ~Excused(t, s)
    BY <1>11, <1>0, <2>4, SeekDoes, IdleIs, NoExcuse DEF StreamStep, Same
  <2> QED
    BY <1>0, <2>1, <2>2, <2>3, EntriesSteady
<1>12. ASSUME NEW t \in Threads, NEW size \in 0 .. MaxSize, setSize(t, size) PROVE EntriesOK'
  <2>1. Steady(t)
    BY Zenon, <1>12, <1>0, QuietSteady DEF Quiet
  <2>2. dir' = dir
    BY <1>12, <1>0, SetSizeDoes
  <2>4. \A s \in Streams : ~Excused(t, s)
    BY <1>12, <1>0, SetSizeDoes, IdleIs, NoExcuse
  <2>5. PICK s \in Streams : s = held[t]
    BY <1>12, <1>0, SetSizeDoes
  <2>6. Grows(t, size) \/ Shrinks(t, size)
    BY <1>12, <1>0, SetSizeDoes
  <2>7. \A r \in Streams \ {s} : Same(r)
    BY <2>5, <2>6 DEF Grows, Shrinks, StreamStep, Same
  <2>8. Kept(s) => Excused(t, s)' \/ Same(s)
    BY <2>5, <2>6 DEF Grows, Shrinks, Same, Kept, Flushing, Excused, Unwritten
  <2>3. \A r \in Streams : Kept(r) => Excused(t, r)' \/ (Same(r) /\ ~Excused(t, r))
    BY <2>4, <2>7, <2>8
  <2> QED
    BY <1>0, <2>1, <2>2, <2>3, EntriesSteady
<1>13. ASSUME NEW t \in Threads, allocCluster(t) PROVE EntriesOK'
  <2>1. Steady(t)
    BY Zenon, <1>13, <1>0, QuietSteady DEF Quiet
  <2>2. dir' = dir /\ stream' = stream
    BY <1>13, <1>0, AllocClusterDoes
  <2>3. \A s \in Streams : Same(s) /\ ~Excused(t, s)
    BY <1>13, <1>0, <2>2, AllocClusterDoes, NoExcuse DEF Same
  <2> QED
    BY <1>0, <2>1, <2>2, <2>3, EntriesSteady
<1>14. ASSUME NEW t \in Threads, mark(t) PROVE EntriesOK'
  <2>1. Steady(t)
    BY Zenon, <1>14, <1>0, QuietSteady DEF Quiet
  <2>2. dir' = dir /\ stream' = stream
    BY <1>14, <1>0, MarkDoes
  <2>3. \A s \in Streams : Same(s) /\ ~Excused(t, s)
    BY <1>14, <1>0, <2>2, MarkDoes, NoExcuse DEF Same
  <2> QED
    BY <1>0, <2>1, <2>2, <2>3, EntriesSteady
<1>15. ASSUME NEW t \in Threads, link(t) PROVE EntriesOK'
  <2>1. Steady(t)
    BY Zenon, <1>15, <1>0, QuietSteady DEF Quiet
  <2>2. dir' = dir /\ stream' = stream
    BY <1>15, <1>0, LinkDoes
  <2>3. \A s \in Streams : Same(s) /\ ~Excused(t, s)
    BY <1>15, <1>0, <2>2, LinkDoes, NoExcuse DEF Same
  <2> QED
    BY <1>0, <2>1, <2>2, <2>3, EntriesSteady
<1>16. ASSUME NEW t \in Threads, chain(t) PROVE EntriesOK'
  <2>1. Steady(t)
    BY Zenon, <1>16, <1>0, QuietSteady DEF Quiet
  <2>2. dir' = dir
    BY <1>16, <1>0, ChainDoes
  <2>4. \A s \in Streams : ~Excused(t, s)
    BY <1>16, <1>0, ChainDoes, NoExcuse
  <2>5. PICK s \in Streams : s = th[t].s
    BY <1>16, <1>0, ChainDoes
  <2>6. th'[t].op = "setSize" /\ th'[t].s = s /\ th'[t].pc = Flushing(s) /\ \A r \in Streams \ {s} : stream'[r] = stream[r]
    BY <1>16, <1>0, <2>5, ChainDoes DEF SameWork, ChainEffect, StreamStep
  <2>7. Kept(s) => Excused(t, s)'
    BY <2>6 DEF Kept, Flushing, Excused, Unwritten
  <2>3. \A r \in Streams : Kept(r) => Excused(t, r)' \/ (Same(r) /\ ~Excused(t, r))
    BY <2>4, <2>6, <2>7 DEF Same
  <2> QED
    BY <1>0, <2>1, <2>2, <2>3, EntriesSteady
<1>17. ASSUME NEW t \in Threads, cut(t) PROVE EntriesOK'
  <2>1. Steady(t)
    BY Zenon, <1>17, <1>0, QuietSteady DEF Quiet
  <2>2. dir' = dir /\ stream' = stream
    BY <1>17, <1>0, CutDoes
  <2>3. \A s \in Streams : Same(s) /\ ~Excused(t, s)
    BY <1>17, <1>0, <2>2, CutDoes, NoExcuse DEF Same
  <2> QED
    BY <1>0, <2>1, <2>2, <2>3, EntriesSteady
<1>18. ASSUME NEW t \in Threads, freeCluster(t) PROVE EntriesOK'
  <2>1. Steady(t)
    BY Zenon, <1>18, <1>0, QuietSteady DEF Quiet
  <2>2. dir' = dir
    BY <1>18, <1>0, FreeClusterDoes
  <2>3. \A s \in Streams : Same(s) /\ ~Excused(t, s)
    BY <1>18, <1>0, <2>2, FreeClusterDoes, NoExcuse DEF Same, Ends, Frees, StreamStep
  <2> QED
    BY <1>0, <2>1, <2>2, <2>3, EntriesSteady
<1>19. ASSUME NEW t \in Threads, count(t) PROVE EntriesOK'
  <2>1. Steady(t)
    BY Zenon, <1>19, <1>0, QuietSteady DEF Quiet
  <2>2. dir' = dir /\ stream' = stream
    BY <1>19, <1>0, CountDoes
  <2>3. \A s \in Streams : Same(s) /\ ~Excused(t, s)
    BY <1>19, <1>0, <2>2, CountDoes, NoExcuse DEF Same
  <2> QED
    BY <1>0, <2>1, <2>2, <2>3, EntriesSteady
<1>20. ASSUME NEW t \in Threads, sync(t) PROVE EntriesOK'
  <2>1. Steady(t)
    BY Zenon, <1>20, <1>0, QuietSteady DEF Quiet
  <2>2. dir' = dir /\ stream' = stream
    BY <1>20, <1>0, SyncDoes
  <2>4. th[t].pc = "sync" /\ th'[t].pc = "entry" /\ th'[t].write = th[t].write /\ SameWork(t)
    BY <1>20, <1>0, SyncDoes DEF Goes, Flushing
  <2>5. \A s \in Streams : Excused(t, s) => Excused(t, s)'
    <3>1. /\ (Writes(t, "new") \/ Moved(t) => Mine(t)' = Mine(t)) /\ (Writes(t, "new") => Writes(t, "new")') /\ (Moved(t) => Moved(t)')
          /\ \A s \in Streams : Unwritten(t, s) => Unwritten(t, s)'
      BY <2>4 DEF SameWork, Mine, Moved, Writes, Unwritten, Renaming, Flushes, Erasing
    <3>2. Unsaved(t) => Unsaved(t)' /\ Theirs(t)' = Theirs(t) /\ Moved(t)
      BY <2>4 DEF SameWork, Theirs, Unsaved, Moved, Renaming, Flushes
    <3> HIDE DEF Mine
    <3> QED
      BY <2>2, <3>1, <3>2 DEF Excused, On
  <2>3. \A s \in Streams : Kept(s) => Excused(t, s)' \/ (Same(s) /\ ~Excused(t, s))
    BY <2>2, <2>5 DEF Same
  <2> QED
    BY <1>0, <2>1, <2>2, <2>3, EntriesSteady
<1>21. ASSUME NEW t \in Threads, entry(t) PROVE EntriesOK'
  <2>0. PICK s \in Streams : s = th[t].s
    BY <1>21, <1>0, EntryDoes
  <2>1. Steady(t)
    BY Zenon, <1>21, <1>0, QuietSteady DEF Quiet
  <2>2. /\ th[t].pc = "entry" /\ stream[s] # None /\ Wrote(t)
        /\ dir' = [dir EXCEPT ![stream[s].offset] = IF th[t].write = "erase" THEN None ELSE stream[s].fcb]
    BY <1>21, <1>0, <2>0, EntryDoes
  <2>3. /\ \A r \in Streams : Kept(r)' => Same(r)
        /\ \A u \in Threads \ {t} : th'[u] = th[u]
    BY <2>1, <2>2, WroteSame DEF Steady
  <2>4. \A r \in Streams \ {s} : Kept(r) => stream[r].offset # stream[s].offset
    <3>1. CASE th[t].write = "erase"
      BY <2>0, <2>2, <3>1, <1>00 DEF KeptOf, Erasing, Writes
    <3>2. CASE th[t].write # "erase"
      <4>1. Kept(s)
        BY <2>0, <2>2, <3>2, <1>0, <1>00, EntryWrites DEF KeptOf, Writes
      <4> QED
        BY <4>1 DEF OffsetsOK
    <3> QED
      BY <3>1, <3>2
  <2> SUFFICES ASSUME NEW r \in Streams, Kept(r)'
               PROVE  On(stream[r].offset, r)' \/ \E u \in Threads : Excused(u, r)'
    BY DEF EntriesOK
  <2>5. Kept(r) /\ Same(r) /\ stream[r] # None
    BY <2>1, <2>3 DEF Steady, NoNewKept, Kept
  <2>6. CASE r = s
    <3>1. th[t].write # "erase"
      BY <1>00, <2>0, <2>2, <2>5, <2>6 DEF KeptOf, Erasing, Writes, Kept
    <3>2. dir'[stream[s].offset] = stream[s].fcb /\ stream[s].fcb # None /\ stream[s].fcb.fstClus = stream[s].fstClus
      BY <1>0, <2>2, <3>1, StreamTyped, NoneAssumption DEF Typed, FcbOK, FcbOf
    <3> QED
      BY <2>5, <2>6, <3>2 DEF On, Same
  <2>7. CASE r # s
    <3>1. stream[r].offset # stream[s].offset
      BY <2>4, <2>5, <2>7
    <3>2. CASE On(stream[r].offset, r)
      <4>1. dir'[stream[r].offset] = dir[stream[r].offset]
        BY <1>0, <2>2, <2>5, <3>1, StreamTyped DEF Typed
      <4> QED
        BY <2>5, <3>2, <4>1 DEF On, Same
    <3>3. CASE Excused(t, r)
      BY <1>0, <2>0, <2>2, <2>7, <3>3, EntryKeepsExcuse
    <3>4. ASSUME NEW u \in Threads \ {t}, Excused(u, r) PROVE Excused(u, r)'
      <4>1. CASE th[u].op \notin DirectoryCalls
        BY <1>0, <2>3, <3>4, <4>1, ExcuseOfSetSize, UnwrittenStays
      <4>2. CASE th[u].op \in DirectoryCalls
        <5>1. Unsaved(u) => dir'[stream[Mine(u)].offset] = dir[stream[Mine(u)].offset]
          BY <1>0, <2>0, <2>2, <4>2, SavedElsewhere
        <5>2. KeepsKept
          BY <2>1 DEF Steady
        <5> QED
          BY <1>0, <2>3, <2>5, <3>4, <5>1, <5>2, ExcuseStays
      <4> QED
        BY <4>1, <4>2
    <3> QED
      BY <2>5, <3>2, <3>3, <3>4 DEF EntriesOK
  <2> QED
    BY <2>6, <2>7
<1>22. ASSUME NEW t \in Threads, written(t) PROVE EntriesOK'
  <2>1. Steady(t)
    BY Zenon, <1>22, <1>0, QuietSteady DEF Quiet
  <2>2. dir' = dir
    BY <1>22, <1>0, WrittenDoes
  <2>4. th[t].pc = "written" /\ Wrote(t) /\ th[t].write = "fcb"
    BY <1>22, <1>0, WrittenDoes
  <2>5. th[t].op # "rename"
    BY <1>00, <2>4 DEF KeptOf, SharedOK, Kept, Flushes
  <2>6. WroteLarger(t) \/ WroteSmaller(t)
    BY <2>4, <2>5 DEF Wrote, WroteNew, WroteNewName, WroteMoved, WroteErased
  <2>3. \A s \in Streams : Same(s) /\ ~Excused(t, s)
    <3>1. \A s \in Streams : Same(s)
      BY <2>6 DEF WroteLarger, WroteSmaller, StreamStep, Same
    <3> QED
      BY <2>4, <2>5, <3>1 DEF Excused, Writes, Moved, Unsaved, Unwritten, Renaming
  <2> QED
    BY <1>0, <2>1, <2>2, <2>3, EntriesSteady
<1>23. ASSUME NEW t \in Threads, remove(t) PROVE EntriesOK'
  <2>1. /\ th[t].pc = "remove" /\ th[t].op \in {"unbind", "rename"} /\ th[t].s \in Streams
        /\ (stream[th[t].s].removed /\ Drops(t, th[t].s)) \/ RemovesStream(t)
        /\ dir' = dir
    BY <1>23, <1>0, RemoveDoes
  <2>2. RemovesStream(t)
    BY <1>00, <2>1 DEF KeptOf, Kept
  <2>3. \A u \in Threads \ {t} : th[u].op \notin DirectoryCalls /\ th'[u] = th[u]
    BY <1>0, <2>1, <2>2 DEF SoloOK, DirectoryCalls, RemovesStream, CallStep
  <2>4. \A r \in Streams : Kept(r)' => r # th[t].s /\ stream'[r] = stream[r]
    BY <2>2 DEF RemovesStream, StreamStep, Kept
  <2>5. \A r \in Streams : r # th[t].s => ~Excused(t, r)
    BY <2>1 DEF Excused, Writes, Mine, Moved, Unsaved, Unwritten, Renaming, Flushes
  <2>6. \A r \in Streams : Kept(r)' => Kept(r) /\ Same(r) /\ ~Excused(t, r)
    BY <2>4, <2>5 DEF Kept, Same
  <2> QED
    BY <1>0, <2>1, <2>3, <2>6, EntriesAlone
<1>24. ASSUME NEW t \in Threads, erase(t) PROVE EntriesOK'
  <2>1. Steady(t)
    BY Zenon, <1>24, <1>0, QuietSteady DEF Quiet
  <2>2. dir' = dir /\ stream' = stream
    BY <1>24, <1>0, EraseDoes
  <2>4. th[t].pc = "erase" /\ th'[t].pc = "sync" /\ th'[t].write = "erase" /\ SameWork(t) /\ th[t].op # "setSize"
    BY <1>24, <1>0, EraseDoes DEF Goes, Flushing
  <2>5. \A s \in Streams : Excused(t, s) => Excused(t, s)'
    <3>1. /\ (Writes(t, "new") \/ Moved(t) => Mine(t)' = Mine(t)) /\ (Writes(t, "new") => Writes(t, "new")') /\ (Moved(t) => Moved(t)')
          /\ \A s \in Streams : Unwritten(t, s) => Unwritten(t, s)'
      BY <2>4 DEF SameWork, Mine, Moved, Writes, Unwritten, Renaming, Flushes, Erasing
    <3>2. Unsaved(t) => Unsaved(t)' /\ Theirs(t)' = Theirs(t) /\ Moved(t)
      BY <2>4 DEF SameWork, Theirs, Unsaved, Moved, Renaming, Flushes
    <3> HIDE DEF Mine
    <3> QED
      BY <2>2, <3>1, <3>2 DEF Excused, On
  <2>3. \A s \in Streams : Kept(s) => Excused(t, s)' \/ (Same(s) /\ ~Excused(t, s))
    BY <2>2, <2>5 DEF Same
  <2> QED
    BY <1>0, <2>1, <2>2, <2>3, EntriesSteady
<1>25. ASSUME NEW t \in Threads, renameCreate(t) PROVE EntriesOK'
  <2>1. PICK s \in Streams, o \in Slots, name \in Names :
              /\ Makes(t, s, o, name)
              /\ CallStep(t) /\ SameChain(t) /\ th'[t].op = "rename" /\ th'[t].pc = "sync" /\ th'[t].s = s
              /\ th'[t].old = th[t].old /\ th'[t].lock = th[t].lock /\ th'[t].size = th[t].size
              /\ th'[t].write = "new"
    BY <1>25, <1>0, RenameCreateDoes
  <2>3. \A r \in Streams : Kept(r)' => Excused(t, r)' \/ (Kept(r) /\ Same(r))
    <3>1. \A r \in Streams \ {s} : stream'[r] = stream[r]
      BY <2>1 DEF Makes, StreamStep
    <3>2. Excused(t, s)'
      BY <2>1 DEF Excused, Writes, Mine, Renaming, Flushes
    <3> QED
      BY <3>1, <3>2 DEF Kept, Same
  <2>4. \A r \in Streams : ~Excused(t, r)
    BY <1>25, <1>0, RenameCreateDoes, IdleIs, NoExcuse
  <2>2. dir' = dir /\ \A u \in Threads \ {t} : th[u].op \notin DirectoryCalls /\ th'[u] = th[u]
    BY <2>1, <1>0, NobodyNames DEF Makes, CallStep
  <2> QED
    BY <1>0, <2>2, <2>3, <2>4, EntriesAlone
<1>26. ASSUME NEW t \in Threads, renameFails(t) PROVE EntriesOK'
  <2>1. Steady(t)
    BY Zenon, <1>26, <1>0, QuietSteady DEF Quiet
  <2>2. dir' = dir
    BY <1>26, <1>0, RenameFailsDoes
  <2>4. \A s \in Streams : ~Excused(t, s)
    BY <1>26, <1>0, RenameFailsDoes, IdleIs, NoExcuse
  <2>3. \A s \in Streams : Kept(s) => Same(s) /\ ~Excused(t, s)
    BY <1>26, <1>0, <2>4, RenameFailsDoes DEF Drops, StreamStep, Same, Kept
  <2> QED
    BY <1>0, <2>1, <2>2, <2>3, EntriesSteady
<1>27. ASSUME NEW t \in Threads, swap(t) PROVE EntriesOK'
  <2>0. PICK new \in Streams, old \in Streams : new = th[t].s /\ old = th[t].old
    BY <1>27, <1>0, SwapDoes
  <2>1. /\ Swaps(new, old) /\ th[t].pc = "swap" /\ th[t].op = "rename" /\ dir' = dir /\ new # old
        /\ th'[t].op = "rename" /\ th'[t].pc = "flush" /\ th'[t].s = new /\ th'[t].old = old
        /\ \A u \in Threads \ {t} : th'[u] = th[u]
    BY <1>27, <1>0, <2>0, SwapDoes DEF Goes, CallStep, SameWork
  <2>2. Kept(new) /\ Kept(old)
    BY <1>00, <2>0, <2>1 DEF KeptOf
  <2>3. \A u \in Threads \ {t} : th[u].op \notin DirectoryCalls
    BY <1>0, <2>1 DEF SoloOK, DirectoryCalls
  <2>4. \A r \in Streams : ~Excused(t, r)
    BY <1>0, <2>1, NoExcuse
  <2>5. Mine(t)' = new /\ Theirs(t)' = old /\ Moved(t)' /\ Unsaved(t)'
    BY <2>1 DEF Mine, Theirs, Moved, Unsaved, Renaming, Flushes
  <2>6. Excused(t, new)'
    BY <2>5 DEF Excused
  <2>7. \A r \in Streams \ {new, old} : Kept(r)' => Kept(r) /\ Same(r)
    BY <2>1 DEF Swaps, Kept, Same
  <2>8. On(stream[old].offset, old) => Excused(t, old)'
    <3>1. On(stream[old].offset, old) => On(stream[new].offset, old)'
      BY <2>1 DEF Swaps, On
    <3> HIDE DEF Mine
    <3> QED
      BY <2>5, <3>1 DEF Excused
  <2>9. CASE On(stream[old].offset, old)
    BY <1>0, <2>1, <2>3, <2>4, <2>6, <2>7, <2>8, <2>9, EntriesAlone
  <2>10. CASE ~On(stream[old].offset, old)
    <3>1. PICK u \in Threads : Excused(u, old)
      BY <2>2, <2>10 DEF EntriesOK
    <3>2. Excused(u, old)'
      BY <1>0, <2>1, <2>3, <2>4, <3>1, ExcuseOfSetSize, UnwrittenStays
    <3>3. ASSUME NEW r \in Streams, Kept(r)'
          PROVE  On(stream[r].offset, r)' \/ \E v \in Threads : Excused(v, r)'
      <4>1. CASE r \in {new, old}
        BY <2>6, <3>2, <4>1
      <4>2. CASE r \notin {new, old}
        <5>1. Kept(r) /\ Same(r)
          BY <2>7, <3>3, <4>2
        <5>2. CASE On(stream[r].offset, r)
          BY <2>1, <5>1, <5>2 DEF Same, On
        <5>3. ASSUME NEW v \in Threads, Excused(v, r) PROVE Excused(v, r)'
          <6>1. v \in Threads \ {t}
            BY <2>4, <5>3
          <6> QED
            BY <1>0, <2>1, <2>3, <5>3, <6>1, ExcuseOfSetSize, UnwrittenStays
        <5> QED
          BY <5>1, <5>2, <5>3 DEF EntriesOK
      <4> QED
        BY <4>1, <4>2
    <3> QED
      BY <3>3 DEF EntriesOK
  <2> QED
    BY <2>9, <2>10
<1>28. ASSUME NEW t \in Threads, renameFlush(t) PROVE EntriesOK'
  <2>1. Steady(t)
    BY Zenon, <1>28, <1>0, QuietSteady DEF Quiet
  <2>2. dir' = dir /\ stream' = stream
    BY <1>28, <1>0, RenameFlushDoes
  <2>4. /\ th[t].pc = "flush" /\ th[t].op = "rename" /\ th'[t].op = "rename" /\ th'[t].pc \in {"sync", "written"}
        /\ th'[t].write = "fcb" /\ th'[t].s = th[t].old /\ th'[t].old = th[t].s
    BY <1>28, <1>0, RenameFlushDoes DEF Goes, Flushing
  <2>5. \A s \in Streams : Excused(t, s) => Excused(t, s)'
    <3>1. /\ (Writes(t, "new") \/ Moved(t) => Mine(t)' = Mine(t)) /\ (Writes(t, "new") => Writes(t, "new")') /\ (Moved(t) => Moved(t)')
          /\ \A s \in Streams : Unwritten(t, s) => Unwritten(t, s)'
      BY <2>4 DEF SameWork, Mine, Moved, Writes, Unwritten, Renaming, Flushes, Erasing
    <3>2. Unsaved(t) => Unsaved(t)' /\ Theirs(t)' = Theirs(t) /\ Moved(t)
      BY <2>4 DEF SameWork, Theirs, Unsaved, Moved, Renaming, Flushes
    <3> HIDE DEF Mine
    <3> QED
      BY <2>2, <3>1, <3>2 DEF Excused, On
  <2>3. \A s \in Streams : Kept(s) => Excused(t, s)' \/ (Same(s) /\ ~Excused(t, s))
    BY <2>2, <2>5 DEF Same
  <2> QED
    BY <1>0, <2>1, <2>2, <2>3, EntriesSteady
<1> QED
  BY Zenon, <1>1, <1>2, <1>3, <1>4, <1>5, <1>6, <1>7, <1>8, <1>9, <1>10, <1>11, <1>12, <1>13,
     <1>14, <1>15, <1>16, <1>17, <1>18, <1>19, <1>20, <1>21, <1>22, <1>23, <1>24, <1>25,
     <1>26, <1>27, <1>28 DEF Next, Continue

(* The part of the inductive invariant that is about files. *)
FilesOK == KeptOK /\ OffsetsOK /\ NewOK /\ FcbOK /\ BoundOK /\ EntriesOK

(* It holds at first, with no stream and no call. *)
LEMMA FilesInit == Init => ApartOK /\ FilesOK
<1> SUFFICES ASSUME Init PROVE ApartOK /\ FilesOK
  OBVIOUS
<1>1. stream = [s \in Streams |-> None] /\ th = [t \in Threads |-> Idle]
  BY DEF Init
<1>2. \A t \in Threads : th[t] = Idle
  BY <1>1
<1>3. \A s \in Streams : stream[s] = None /\ ~Kept(s)
  BY <1>1 DEF Kept
<1>4. ApartOK
  BY <1>2, IdleIs DEF ApartOK
<1>5. KeptOK /\ NewOK
  BY <1>2, IdleIs DEF KeptOK, KeptOf, NewOK, NewOf, Renaming, Writes, Erasing, Flushes
<1>6. OffsetsOK /\ FcbOK /\ BoundOK /\ EntriesOK
  BY <1>3 DEF OffsetsOK, FcbOK, FcbOf, BoundOK, EntriesOK
<1> QED
  BY <1>4, <1>5, <1>6 DEF FilesOK

(* Every step keeps it, but where two calls may both be in the directory with the same name. *)
LEMMA FilesStep ==
  ASSUME "names" \notin Allow, Base, ApartOK, FilesOK, [Next]_vars
  PROVE  Base' /\ ApartOK' /\ FilesOK'
<1>1. Placed
  BY SoloIs DEF Placed, Base
<1>2. Base' /\ ApartOK'
  BY BaseStep, ApartStep
<1>3. KeptOK' /\ OffsetsOK' /\ NewOK'
  BY <1>1, KeptStep, OffsetsStep, NewStep DEF FilesOK
<1>4. FcbOK' /\ BoundOK' /\ EntriesOK'
  BY <1>1, FcbStep, BoundStep, EntriesStep DEF FilesOK
<1> QED
  BY <1>2, <1>3, <1>4 DEF FilesOK

(* It says what BoundWhileOpen says: an open file that no setSize() is at work on is excused by
   none but rename(), whose other entry then has its clusters and its size. *)
LEMMA OpenIsBound ==
  ASSUME Base, FilesOK
  PROVE  BoundWhileOpen
<1>0. Typed /\ PlacesOK /\ RefsOK
  BY TypesAre DEF Base
<1> SUFFICES ASSUME NEW t \in Threads, held[t] # None, ~stream[held[t]].removed,
                    \A u \in Threads : th[u].op = "setSize" => th[u].lock # held[t]
             PROVE  \E o \in Slots : /\ dir[o] # None /\ dir[o].fstClus = stream[held[t]].fstClus
                                     /\ dir[o].size = stream[held[t]].size
  BY DEF BoundWhileOpen
<1> DEFINE s == held[t]
<1>1. s \in Streams /\ Kept(s)
  BY <1>0 DEF Typed, RefsOK, Kept
<1> HIDE DEF s
<1>2. \A u \in Threads : ~Resized(u, s) /\ ~Unwritten(u, s)
  BY <1>0 DEF PlacesOK, CallOK, Resized, Unwritten, s
<1>3. stream[s].fcb.size = stream[s].size
  BY <1>1, <1>2 DEF FilesOK, FcbOK, FcbOf, Kept
<1>4. \A u \in Threads : (Writes(u, "new") \/ Moved(u)) => Mine(u) # s
  <2> SUFFICES ASSUME NEW u \in Threads, Writes(u, "new") \/ Moved(u) PROVE Mine(u) # s
    OBVIOUS
  <2>1. th[u].op = "create" \/ Renaming(u)
    BY <1>0 DEF PlacesOK, CallOK, Typed, Writes, Moved, Renaming
  <2> HIDE DEF Mine
  <2> QED
    BY <2>1 DEF FilesOK, NewOK, NewOf, s
<1>5. \E o : On(o, s) /\ o \in Slots
  <2>1. CASE On(stream[s].offset, s)
    BY <1>0, <1>1, <2>1, StreamTyped DEF Kept
  <2>2. ASSUME NEW u \in Threads, Excused(u, s) PROVE \E o : On(o, s) /\ o \in Slots
    <3>1. Unsaved(u) /\ On(stream[Mine(u)].offset, s)
      BY <1>2, <1>4, <2>2 DEF Excused
    <3>2. Kept(Mine(u))
      BY <3>1 DEF FilesOK, KeptOK, KeptOf, Unsaved, Mine, Renaming, Flushes
    <3>3. stream[Mine(u)].offset \in Slots
      BY <1>0, <3>2, StreamTyped DEF Kept
    <3> QED
      BY <3>1, <3>3
  <2> QED
    BY <1>1, <2>1, <2>2 DEF FilesOK, EntriesOK
<1> QED
  BY <1>3, <1>5 DEF On, s

(* fatStream.cpp, fatDirectory.cpp: a file that is open, and not removed, has an entry with its
   first cluster and its size, whatever create(), unbind(), rename() and setSize() of other threads do
   and wherever they are in it. It needs the lookup of a name and the use of its entry to be one step:
   without it two of these calls may have the same name, or the same entry (Situations). *)
THEOREM FileBoundWhileOpen ==
  ASSUME "names" \notin Allow
  PROVE  Spec => []BoundWhileOpen
<1> DEFINE Inv == Base /\ ApartOK /\ FilesOK
<1>1. Init => Inv
  BY BaseInit, FilesInit
<1>2. Inv /\ [Next]_vars => Inv'
  BY FilesStep
<1>3. Inv => BoundWhileOpen
  BY OpenIsBound
<1> HIDE DEF Inv
<1> QED
  BY <1>1, <1>2, <1>3, PTL DEF Spec

====
