---- MODULE FatChains ----
(* Proofs about the cluster chains of the FAT file system (Fat).

   The FAT is a graph in which no link is to a free cluster and no two links are to
   the same one (Linked). The first cluster of a chain is then that of one stream,
   one call or one entry (HeadsOK) and no link is to it (RootsOK); so two chains
   meet nowhere, and a step on one spares the others. Of each stream, entry and
   allocation it is said how long its chain is (StreamsLong, EntriesLong, AllocOK),
   of the hint of getClusNum() that it is on it (HintsOK), and of freeCount which
   clusters it counts (CountOK). An entry that rename() is about to write says
   nothing (Sure): the call says it instead.                                    *)
EXTENDS FatProofs

(* The FAT as a graph: no link is to a free cluster, and no two are to the same. *)
Linked(f) == /\ \A c \in Clusters : f[c] \in Clusters => f[f[c]] # 0
             /\ \A c, d \in Clusters : f[c] \in Clusters /\ f[c] = f[d] => c = d

(* A chain may begin at r: it is in use, and no link is to it. *)
IsRoot(f, r) == f[r] # 0 /\ \A c \in Clusters : f[c] # r

(* The chain from c has n clusters, or more. *)
IsLong(f, c, n) == \A i \in 0 .. n - 1 : Walk(f, c, i) \in Clusters

(* The first cluster of a chain, and one further. *)
LEMMA WalkStep ==
  ASSUME NEW f, NEW c, NEW i \in Nat, Walk(f, c, i) \in Clusters
  PROVE  Walk(f, c, i + 1) = f[Walk(f, c, i)]
BY WalkUnfolds DEF After

(* A chain is as long as any of its clusters is far. *)
LEMMA WalkIsLong ==
  ASSUME NEW f \in [Clusters -> Links], NEW c \in Links, NEW n \in Nat, Walk(f, c, n) \in Clusters
  PROVE  IsLong(f, c, n + 1)
<1> DEFINE B == {k \in Nat : \A j \in Nat : Walk(f, c, k + j) \in Clusters => Walk(f, c, j) \in Clusters}
<1>1. 0 \in B
  <2>1. \A j \in Nat : 0 + j = j
    OBVIOUS
  <2> QED
    BY <2>1
<1>2. ASSUME NEW k \in Nat, k \in B PROVE k + 1 \in B
  <2> SUFFICES ASSUME NEW j \in Nat, Walk(f, c, (k + 1) + j) \in Clusters PROVE Walk(f, c, j) \in Clusters
    OBVIOUS
  <2>1. (k + 1) + j = (k + j) + 1 /\ k + j \in Nat
    OBVIOUS
  <2>2. Walk(f, c, (k + j) + 1) = After(f, Walk(f, c, k + j))
    BY <2>1, WalkUnfolds
  <2>3. Walk(f, c, k + j) \in Clusters
    BY <2>1, <2>2 DEF After
  <2> QED
    BY <1>2, <2>3
<1> HIDE DEF B
<1>3. Nat \subseteq B
  BY <1>1, <1>2, SetInduction
<1> SUFFICES ASSUME NEW i \in 0 .. (n + 1) - 1 PROVE Walk(f, c, i) \in Clusters
  BY DEF IsLong
<1>4. i \in Nat /\ n - i \in Nat /\ (n - i) + i = n
  OBVIOUS
<1>5. n - i \in B
  BY <1>3, <1>4
<1> QED
  BY <1>4, <1>5 DEF B

(* No cluster of a chain is free. *)
LEMMA LongIsUsed ==
  ASSUME NEW f \in [Clusters -> Links], Linked(f), NEW r \in Clusters, IsRoot(f, r),
         NEW n \in Nat, IsLong(f, r, n), NEW i \in 0 .. n - 1
  PROVE  f[Walk(f, r, i)] # 0
<1>1. CASE i = 0
  BY <1>1, WalkUnfolds DEF IsRoot
<1>2. CASE i # 0
  <2>1. i - 1 \in Nat /\ i - 1 \in 0 .. n - 1 /\ (i - 1) + 1 = i
    BY <1>2
  <2>2. Walk(f, r, i - 1) \in Clusters /\ Walk(f, r, i) \in Clusters
    BY <2>1 DEF IsLong
  <2>3. Walk(f, r, i) = f[Walk(f, r, i - 1)]
    BY <2>1, <2>2, WalkStep
  <2> QED
    BY <2>2, <2>3 DEF Linked
<1> QED
  BY <1>1, <1>2

(* No link of a chain is to a root. *)
LEMMA RootIsFirst ==
  ASSUME NEW f, NEW r \in Clusters, IsRoot(f, r), NEW q, NEW n \in Nat, IsLong(f, q, n),
         NEW i \in 0 .. n - 1, Walk(f, q, i) = r
  PROVE  i = 0 /\ q = r
<1>1. CASE i = 0
  BY <1>1, WalkUnfolds
<1>2. CASE i # 0
  <2>1. i - 1 \in Nat /\ i - 1 \in 0 .. n - 1 /\ (i - 1) + 1 = i
    BY <1>2
  <2>2. Walk(f, q, i - 1) \in Clusters
    BY <2>1 DEF IsLong
  <2>3. Walk(f, q, i) = f[Walk(f, q, i - 1)]
    BY <2>1, <2>2, WalkStep
  <2> QED
    BY <2>2, <2>3 DEF IsRoot
<1> QED
  BY <1>1, <1>2

(* Two chains have no cluster in common, and none has one twice. *)
LEMMA ChainsApart ==
  ASSUME NEW f, Linked(f), NEW r \in Clusters, IsRoot(f, r), NEW q \in Clusters, IsRoot(f, q),
         NEW m \in Nat, IsLong(f, r, m), NEW n \in Nat, IsLong(f, q, n),
         NEW i \in 0 .. m - 1, NEW j \in 0 .. n - 1, Walk(f, r, i) = Walk(f, q, j)
  PROVE  r = q /\ i = j
<1> DEFINE B == {k \in Nat : \A l \in Nat : k < m /\ l < n /\ Walk(f, r, k) = Walk(f, q, l) => r = q /\ k = l}
<1>1. 0 \in B
  <2> SUFFICES ASSUME NEW l \in Nat, l < n, Walk(f, r, 0) = Walk(f, q, l) PROVE r = q /\ 0 = l
    OBVIOUS
  <2>1. Walk(f, q, l) = r /\ l \in 0 .. n - 1
    BY WalkUnfolds
  <2> QED
    BY <2>1, RootIsFirst
<1>2. ASSUME NEW k \in Nat, k \in B PROVE k + 1 \in B
  <2> SUFFICES ASSUME NEW l \in Nat, k + 1 < m, l < n, Walk(f, r, k + 1) = Walk(f, q, l) PROVE r = q /\ k + 1 = l
    OBVIOUS
  <2>1. k \in 0 .. m - 1 /\ k + 1 \in 0 .. m - 1 /\ k + 1 # 0 /\ l \in 0 .. n - 1
    OBVIOUS
  <2>2. Walk(f, r, k) \in Clusters /\ Walk(f, r, k + 1) \in Clusters /\ Walk(f, q, l) \in Clusters
    BY <2>1 DEF IsLong
  <2>3. l # 0
    <3> SUFFICES ASSUME l = 0 PROVE FALSE
      OBVIOUS
    <3>1. Walk(f, r, k + 1) = q
      BY WalkUnfolds
    <3> QED
      BY <2>1, <3>1, RootIsFirst
  <2>4. l - 1 \in Nat /\ l - 1 \in 0 .. n - 1 /\ (l - 1) + 1 = l /\ l - 1 < n /\ k < m
    BY <2>1, <2>3
  <2>5. Walk(f, q, l - 1) \in Clusters
    BY <2>4 DEF IsLong
  <2>6. Walk(f, q, l) = f[Walk(f, q, l - 1)] /\ Walk(f, r, k + 1) = f[Walk(f, r, k)]
    BY <2>2, <2>4, <2>5, WalkStep
  <2>7. Walk(f, r, k) = Walk(f, q, l - 1)
    BY <2>2, <2>5, <2>6 DEF Linked
  <2>8. r = q /\ k = l - 1
    BY <1>2, <2>4, <2>7
  <2> QED
    BY <2>4, <2>8
<1> HIDE DEF B
<1>3. i \in B /\ i \in Nat /\ j \in Nat /\ i < m /\ j < n
  BY <1>1, <1>2, SetInduction
<1> QED
  BY <1>3 DEF B

(* One link changes. *)
Relinks(f, g, x, v) == g = [f EXCEPT ![x] = v]

(* A link that changes changes no chain before it. *)
LEMMA WalkKept ==
  ASSUME NEW f \in [Clusters -> Links], NEW x \in Clusters, NEW v, NEW g, Relinks(f, g, x, v), NEW r, NEW n \in Nat, IsLong(f, r, n),
         \A i \in 0 .. n - 1 : i + 1 < n => Walk(f, r, i) # x
  PROVE  IsLong(g, r, n) /\ \A i \in 0 .. n - 1 : Walk(g, r, i) = Walk(f, r, i)
<1> DEFINE B == {k \in Nat : k < n => Walk(g, r, k) = Walk(f, r, k)}
<1>1. 0 \in B
  BY WalkUnfolds
<1>2. ASSUME NEW k \in Nat, k \in B PROVE k + 1 \in B
  <2> SUFFICES ASSUME k + 1 < n PROVE Walk(g, r, k + 1) = Walk(f, r, k + 1)
    OBVIOUS
  <2>1. k \in 0 .. n - 1 /\ k < n
    OBVIOUS
  <2>2. Walk(f, r, k) \in Clusters /\ Walk(f, r, k) # x /\ Walk(g, r, k) = Walk(f, r, k)
    BY <1>2, <2>1 DEF IsLong
  <2>3. Walk(f, r, k + 1) = f[Walk(f, r, k)] /\ Walk(g, r, k + 1) = g[Walk(g, r, k)]
    BY <2>2, WalkStep
  <2> HIDE DEF B
  <2>4. g[Walk(f, r, k)] = f[Walk(f, r, k)]
    BY <2>2 DEF Relinks
  <2> QED
    BY <2>2, <2>3, <2>4
<1> HIDE DEF B
<1>3. Nat \subseteq B
  BY <1>1, <1>2, SetInduction
<1>4. ASSUME NEW i \in 0 .. n - 1 PROVE Walk(g, r, i) = Walk(f, r, i)
  <2>1. i \in B /\ i < n
    BY <1>3
  <2> QED
    BY <2>1 DEF B
<1> QED
  BY <1>4 DEF IsLong

(* The chain from r stays, as far as it went. *)
KeepsChain(f, g, r) == \A n \in Nat : IsLong(f, r, n) =>
    IsLong(g, r, n) /\ \A i \in 0 .. n - 1 : Walk(g, r, i) = Walk(f, r, i)

(* What does not begin has no cluster. *)
LEMMA NoChain ==
  ASSUME NEW f, NEW r, r \notin Clusters, NEW n \in Nat, IsLong(f, r, n)
  PROVE  n = 0
<1> SUFFICES ASSUME n # 0 PROVE FALSE
  OBVIOUS
<1>1. 0 \in 0 .. n - 1
  OBVIOUS
<1>2. Walk(f, r, 0) = r
  BY WalkUnfolds
<1> QED
  BY <1>1, <1>2 DEF IsLong

(* The link of a last or a free cluster changes. *)
LEMMA EndKeeps ==
  ASSUME NEW f \in [Clusters -> Links], NEW x \in Clusters, f[x] \notin Clusters,
         NEW v, NEW g, Relinks(f, g, x, v), NEW r
  PROVE  KeepsChain(f, g, r)
<1> SUFFICES ASSUME NEW n \in Nat, IsLong(f, r, n)
             PROVE  IsLong(g, r, n) /\ \A i \in 0 .. n - 1 : Walk(g, r, i) = Walk(f, r, i)
  BY DEF KeepsChain
<1>1. ASSUME NEW i \in 0 .. n - 1, i + 1 < n PROVE Walk(f, r, i) # x
  <2>1. i \in Nat /\ i + 1 \in 0 .. n - 1
    BY <1>1
  <2>2. Walk(f, r, i) \in Clusters /\ Walk(f, r, i + 1) \in Clusters
    BY <2>1 DEF IsLong
  <2>3. Walk(f, r, i + 1) = f[Walk(f, r, i)]
    BY <2>1, <2>2, WalkStep
  <2> QED
    BY <2>2, <2>3
<1> QED
  BY <1>1, WalkKept

(* A link in the chain of another changes. *)
LEMMA OthersKeep ==
  ASSUME NEW f \in [Clusters -> Links], Linked(f), NEW q \in Clusters, IsRoot(f, q), NEW m \in Nat, IsLong(f, q, m + 1),
         NEW x, x = Walk(f, q, m),
         NEW v, NEW g, Relinks(f, g, x, v), NEW r \in Clusters, IsRoot(f, r), r # q
  PROVE  KeepsChain(f, g, r)
<1> SUFFICES ASSUME NEW n \in Nat, IsLong(f, r, n)
             PROVE  IsLong(g, r, n) /\ \A i \in 0 .. n - 1 : Walk(g, r, i) = Walk(f, r, i)
  BY DEF KeepsChain
<1>1. m \in 0 .. (m + 1) - 1 /\ m + 1 \in Nat
  OBVIOUS
<1>2. x \in Clusters
  BY <1>1 DEF IsLong
<1>3. ASSUME NEW i \in 0 .. n - 1 PROVE Walk(f, r, i) # x
  BY <1>1, ChainsApart
<1> QED
  BY <1>2, <1>3, WalkKept

(* A link in the chain changes, and the chain keeps what is before it. *)
LEMMA PartKept ==
  ASSUME NEW f \in [Clusters -> Links], Linked(f), NEW q \in Clusters, IsRoot(f, q), NEW m \in Nat, IsLong(f, q, m + 1),
         NEW x, x = Walk(f, q, m), NEW v, NEW g, Relinks(f, g, x, v)
  PROVE  /\ IsLong(g, q, m + 1)
         /\ \A i \in 0 .. m : Walk(g, q, i) = Walk(f, q, i)
<1>1. m \in 0 .. (m + 1) - 1 /\ m + 1 \in Nat /\ (m + 1) - 1 = m
  OBVIOUS
<1>2. x \in Clusters
  BY <1>1 DEF IsLong
<1>3. ASSUME NEW i \in 0 .. (m + 1) - 1, i + 1 < m + 1 PROVE Walk(f, q, i) # x
  <2>1. i # m
    BY <1>3
  <2> QED
    BY <1>1, <2>1, ChainsApart
<1> DEFINE n == m + 1
<1>4. n \in Nat /\ IsLong(f, q, n) /\ \A i \in 0 .. n - 1 : i + 1 < n => Walk(f, q, i) # x
  BY <1>1, <1>3
<1> HIDE DEF n
<1>5. IsLong(g, q, n) /\ \A i \in 0 .. n - 1 : Walk(g, q, i) = Walk(f, q, i)
  BY <1>2, <1>4, WalkKept
<1> QED
  BY <1>1, <1>5 DEF n

(* mark(): a free cluster is the chain of its own. *)
LEMMA MarkGraph ==
  ASSUME NEW f \in [Clusters -> Links], Linked(f), NEW x \in Clusters, f[x] = 0, NEW g, Relinks(f, g, x, Eof)
  PROVE  /\ Linked(g) /\ IsRoot(g, x)
         /\ \A r \in Clusters : IsRoot(f, r) => IsRoot(g, r) /\ r # x
BY Numbers DEF Linked, IsRoot, Relinks

(* link(), chain(): a chain is hung on another. *)
LEMMA HangGraph ==
  ASSUME NEW f \in [Clusters -> Links], Linked(f), NEW x \in Clusters, NEW v \in Clusters, IsRoot(f, v),
         NEW g, Relinks(f, g, x, v)
  PROVE  /\ Linked(g)
         /\ \A r \in Clusters \ {v} : IsRoot(f, r) => IsRoot(g, r)
BY Numbers DEF Linked, IsRoot, Relinks

(* cut(): the rest is a chain of its own. *)
LEMMA CutGraph ==
  ASSUME NEW f \in [Clusters -> Links], Linked(f), NEW x \in Clusters, NEW g, Relinks(f, g, x, Eof)
  PROVE  /\ Linked(g)
         /\ \A r \in Clusters : IsRoot(f, r) => IsRoot(g, r)
         /\ f[x] \in Clusters => IsRoot(g, f[x]) /\ ~IsRoot(f, f[x])
BY Numbers DEF Linked, IsRoot, Relinks

(* freeCluster(): so it is when the first cluster is freed. *)
LEMMA FreeGraph ==
  ASSUME NEW f \in [Clusters -> Links], Linked(f), NEW x \in Clusters, IsRoot(f, x), NEW g, Relinks(f, g, x, 0)
  PROVE  /\ Linked(g)
         /\ \A r \in Clusters \ {x} : IsRoot(f, r) => IsRoot(g, r)
         /\ f[x] \in Clusters => f[x] # x /\ IsRoot(g, f[x]) /\ ~IsRoot(f, f[x])
BY Numbers DEF Linked, IsRoot, Relinks

(* The entries that rename() is about to write or to erase. *)
DoubtBy(t, o) ==
    /\ Moved(t)
    /\ \/ o = stream[Mine(t)].offset
       \/ Unsaved(t) /\ o = stream[Theirs(t)].offset
(* Some call is about to write the entry. *)
Doubtful(o) == \E t \in Threads : DoubtBy(t, o)
(* The entry has the file that it says. *)
Sure(o) == o \in Slots /\ dir[o] # None /\ ~Doubtful(o)

(* The clusters that a chain begins with: those of the files in memory and on the disk,
   and those that a call allocates or frees. *)
Starts(r) ==
    \/ \E s \in Streams : stream[s] # None /\ stream[s].fstClus = r
    \/ \E t \in Threads : th[t].clus = r
    \/ \E o \in Slots : Sure(o) /\ dir[o].fstClus = r

(* No link is to one of them. *)
RootsOK == \A r \in Clusters : Starts(r) => IsRoot(fat, r)

(* The cluster that mark() has taken is nobody's yet. *)
SpareOK == \A t \in Threads : th[t].pc = "link" =>
    fat[nxtFree] = Eof /\ IsRoot(fat, nxtFree) /\ ~Starts(nxtFree)

(* A chain is that of one stream, *)
StreamsApart == \A r, s \in Streams : stream[r] # None /\ stream[s] # None
    /\ stream[s].fstClus \in Clusters /\ stream[r].fstClus = stream[s].fstClus => r = s
(* of one call, *)
CallsApart == \A t, u \in Threads : th[t].clus \in Clusters /\ th[u].clus = th[t].clus => t = u
(* never of a stream and a call at a time, *)
CallsAside == \A t \in Threads, s \in Streams :
    stream[s] # None /\ th[t].clus \in Clusters => stream[s].fstClus # th[t].clus

(* The stream has the entry, in the hash table or while it is being removed. *)
Bears(o, s) == /\ stream[s].offset = o
               /\ Kept(s) \/ \E t \in Threads : Erasing(t) /\ th[t].s = s
(* The stream of setSize(), to be made empty, that has the entry. *)
Empties(o, t) == Unwritten(t, th[t].s) /\ stream[th[t].s].offset = o
(* No two entries have the same chain. *)
EntriesApart == \A o, p \in Slots : Sure(o) /\ Sure(p)
    /\ dir[o].fstClus \in Clusters /\ dir[p].fstClus = dir[o].fstClus => o = p
(* The chain of an entry is in memory only in the stream of that entry, *)
EntriesBorne == \A o \in Slots, s \in Streams : Sure(o) /\ stream[s] # None
    /\ dir[o].fstClus \in Clusters /\ dir[o].fstClus = stream[s].fstClus => Bears(o, s)
(* and in a call only in the setSize() that is about to make that stream empty. *)
EntriesEmptied == \A o \in Slots, t \in Threads : Sure(o)
    /\ dir[o].fstClus \in Clusters /\ dir[o].fstClus = th[t].clus => Empties(o, t)

(* A chain is in one place at a time. *)
HeadsOK == /\ StreamsApart /\ CallsApart /\ CallsAside
           /\ EntriesApart /\ EntriesBorne /\ EntriesEmptied

(* Every stream has the clusters its size needs, *)
StreamsLong == \A s \in Streams : stream[s] # None =>
    /\ IsLong(fat, stream[s].fstClus, ClustersOf(stream[s].fcb.size))
    /\ stream[s].fcb.size = 0 => stream[s].fstClus = 0
(* and every entry. *)
EntriesLong == \A o \in Slots : Sure(o) =>
    /\ IsLong(fat, dir[o].fstClus, ClustersOf(dir[o].size))
    /\ dir[o].size = 0 => dir[o].fstClus = 0

(* The clusters that allocCluster() has chained so far, prev the last of them. *)
Chained(t, k) == IF k = 0 THEN th[t].clus = 0 /\ th[t].prev = 0
                 ELSE /\ IsLong(fat, th[t].clus, k) /\ th[t].prev = Walk(fat, th[t].clus, k - 1)
                      /\ fat[th[t].prev] = Eof
(* What allocCluster() has left to do, and what it has done. *)
AllocOf(t) ==
    LET c == th[t]
        k == ClustersOf(c.size) - ClustersOf(stream[c.s].size) - c.n
    IN c.pc \in {"alloc", "mark", "link", "chain"} =>
             /\ ClustersOf(c.size) > ClustersOf(stream[c.s].size)
             /\ k \in Nat /\ Chained(t, k)
             /\ c.pc = "alloc" => k = 0
             /\ c.pc = "chain" => c.n = 0
(* That of every call. *)
AllocOK == \A t \in Threads : AllocOf(t)

(* setSize() is about to reset what getClusNum() remembers. *)
Resets(t, s) == Resized(t, s) /\ (th[t].size = 0 \/ th[t].pc \in {"free", "count"})
(* lastClus is the cluster at lastPosition. *)
HintOf(s) == stream[s].lastClus = Walk(fat, stream[s].fstClus, stream[s].lastPosition)
(* It is, or setSize() is about to reset it. *)
HintsOK == \A s \in Streams : stream[s] # None /\ stream[s].lastClus \in Clusters =>
    HintOf(s) \/ \E t \in Threads : Resets(t, s)

(* The write of rename() is that of flush(), from then on. *)
MovingOK == \A t \in Threads : th[t].op = "rename" /\ th[t].pc \in {"remove", "erase"} => th[t].write = "fcb"

(* The calls that have freed a cluster and are still to count it. *)
Counting == {t \in Threads : th[t].pc = "count"}
(* freeCount lacks the clusters that are still to be counted; FSInfo and a clean disk have them all. *)
CountOK ==
    /\ mounted = "yes" => freeCount + Cardinality(Counting) = Cardinality(FreeClusters)
    /\ mounted = "leaving" \/ clean => fsi.freeCount = Cardinality(FreeClusters)
    /\ clean => mounted = "no"

(* A step that begins no chain but that of th[t].clus: no stream gets one. *)
StreamsFrom == \A s \in Streams : stream'[s] # None /\ stream'[s].fstClus \in Clusters =>
    stream[s] # None /\ stream'[s].fstClus = stream[s].fstClus
(* No call but t gets a chain. *)
CallsFrom(t) ==
    /\ \A u \in Threads \ {t} : th'[u].clus \in Clusters => th'[u].clus = th[u].clus
    /\ t \in Threads /\ th'[t].clus \in Clusters => th'[t].clus = th[t].clus \/ ~Starts(th'[t].clus)
(* No entry gets a chain, and the one it has keeps its place. *)
EntriesFrom == \A o \in Slots : Sure(o)' /\ dir'[o].fstClus \in Clusters =>
    /\ Sure(o) /\ dir'[o].fstClus = dir[o].fstClus
    /\ \A s \in Streams : stream[s] # None /\ stream'[s] # None /\ Bears(o, s) => Bears(o, s)'
    /\ \A u \in Threads : th'[u].clus \in Clusters /\ Empties(o, u) => Empties(o, u)'
(* An entry that is sure was so before. *)
SureFrom == \A o \in Slots : Sure(o)' => Sure(o) /\ dir'[o] = dir[o]
(* All of them together. *)
HeadsFrom(t) == StreamsFrom /\ CallsFrom(t) /\ EntriesFrom

(* No cluster but th[t].clus begins to be the first of a chain. *)
NoOtherStarts(t) == \A r \in Clusters : Starts(r)' => Starts(r) \/ (t \in Threads /\ r = th'[t].clus)

(* After such a step the chains still have one stream, call and entry each. *)
LEMMA HeadsMove ==
  ASSUME HeadsOK, NEW t, HeadsFrom(t)
  PROVE  HeadsOK' /\ NoOtherStarts(t)
<1>1. StreamsApart'
  BY DEF StreamsApart, HeadsOK, HeadsFrom, StreamsFrom
<1>2. CallsApart'
  BY DEF CallsApart, HeadsOK, HeadsFrom, CallsFrom, Starts
<1>3. CallsAside'
  BY DEF CallsAside, HeadsOK, HeadsFrom, CallsFrom, StreamsFrom, Starts
<1>4. EntriesApart'
  BY DEF EntriesApart, HeadsOK, HeadsFrom, EntriesFrom
<1>5. EntriesBorne'
  BY DEF EntriesBorne, HeadsOK, HeadsFrom, EntriesFrom, StreamsFrom
<1>6. EntriesEmptied'
  <2> SUFFICES ASSUME NEW o \in Slots, NEW u \in Threads, Sure(o)', dir'[o].fstClus \in Clusters,
                      dir'[o].fstClus = th'[u].clus
               PROVE  Empties(o, u)'
    BY DEF EntriesEmptied
  <2>1. Sure(o) /\ dir'[o].fstClus = dir[o].fstClus /\ (Empties(o, u) => Empties(o, u)')
    BY DEF HeadsFrom, EntriesFrom
  <2>2. Starts(dir[o].fstClus)
    BY <2>1 DEF Starts
  <2>3. th'[u].clus = th[u].clus
    BY <2>1, <2>2 DEF HeadsFrom, CallsFrom
  <2> QED
    BY <2>1, <2>3 DEF HeadsOK, EntriesEmptied
<1>7. NoOtherStarts(t)
  <2> SUFFICES ASSUME NEW r \in Clusters, Starts(r)', ~(t \in Threads /\ r = th'[t].clus) PROVE Starts(r)
    BY DEF NoOtherStarts
  <2>1. CASE \E s \in Streams : stream'[s] # None /\ stream'[s].fstClus = r
    BY <2>1 DEF HeadsFrom, StreamsFrom, Starts
  <2>2. CASE \E u \in Threads : th'[u].clus = r
    BY <2>2 DEF HeadsFrom, CallsFrom, Starts
  <2>3. CASE \E o \in Slots : Sure(o)' /\ dir'[o].fstClus = r
    <3>1. PICK o \in Slots : Sure(o)' /\ dir'[o].fstClus = r
      BY <2>3
    <3>2. Sure(o) /\ dir[o].fstClus = r
      BY <3>1 DEF HeadsFrom, EntriesFrom
    <3> QED
      BY <3>2 DEF Starts
  <2> QED
    BY <2>1, <2>2, <2>3 DEF Starts
<1> QED
  BY <1>1, <1>2, <1>3, <1>4, <1>5, <1>6, <1>7 DEF HeadsOK

(* lookup() makes the stream of an entry whose chain no stream and no call has. *)
LEMMA HeadsOpen ==
  ASSUME HeadsOK, NEW s \in Streams, NEW o \in Slots, stream[s] = None, stream'[s] # None,
         stream'[s].fstClus = dir[o].fstClus, stream'[s].offset = o, ~stream'[s].removed,
         \A r \in Streams \ {s} : stream'[r] = stream[r],
         dir[o] # None, \A p \in Slots : ~Doubtful(p) /\ ~Doubtful(p)', dir' = dir,
         \A u \in Threads : th'[u].clus \in Clusters => th'[u].clus = th[u].clus /\ Unwritten(u, th[u].s)' = Unwritten(u, th[u].s) /\ th'[u].s = th[u].s,
         \A r \in Streams : Kept(r) => stream[r].offset # o,
         \A u \in Threads : ~Erasing(u),
         \A u \in Threads : Unwritten(u, th[u].s) => Kept(th[u].s)
  PROVE  HeadsOK' /\ \A r \in Clusters : Starts(r)' => Starts(r)
<1>0. \A p \in Slots : Sure(p)' <=> Sure(p)
  BY DEF Sure
<1>1. \A r \in Streams : stream[r] # None => (Bears(o, r) <=> FALSE)
  BY DEF Bears
<1>2. \A u \in Threads : ~Empties(o, u)
  BY DEF Empties, Kept
<1>3. Sure(o)
  BY DEF Sure
<1>4. \A r \in Streams : stream[r] # None /\ stream[r].fstClus \in Clusters => stream[r].fstClus # dir[o].fstClus
  BY <1>1, <1>3 DEF HeadsOK, EntriesBorne
<1>5. \A u \in Threads : th[u].clus \in Clusters => th[u].clus # dir[o].fstClus
  BY <1>2, <1>3 DEF HeadsOK, EntriesEmptied
<1>6. StreamsApart' /\ CallsApart' /\ CallsAside'
  BY <1>4, <1>5 DEF HeadsOK, StreamsApart, CallsApart, CallsAside
<1>7. EntriesApart'
  BY <1>0 DEF HeadsOK, EntriesApart
<1>8. \A p \in Slots, r \in Streams : stream[r] # None /\ Bears(p, r) => Bears(p, r)'
  BY DEF Bears, Kept
<1>9. Bears(o, s)'
  BY DEF Bears, Kept
<1>10. EntriesBorne'
  <2> SUFFICES ASSUME NEW p \in Slots, NEW r \in Streams, Sure(p)', stream'[r] # None,
                      dir'[p].fstClus \in Clusters, dir'[p].fstClus = stream'[r].fstClus
               PROVE  Bears(p, r)'
    BY DEF EntriesBorne
  <2>1. CASE r = s
    <3>1. p = o
      BY <1>0, <1>3, <2>1 DEF HeadsOK, EntriesApart
    <3> QED
      BY <1>9, <2>1, <3>1
  <2>2. CASE r # s
    BY <1>0, <1>8, <2>2 DEF HeadsOK, EntriesBorne
  <2> QED
    BY <2>1, <2>2
<1>11. EntriesEmptied'
  <2> SUFFICES ASSUME NEW p \in Slots, NEW u \in Threads, Sure(p)', dir'[p].fstClus \in Clusters,
                      dir'[p].fstClus = th'[u].clus
               PROVE  Empties(p, u)'
    BY DEF EntriesEmptied
  <2>1. Empties(p, u)
    BY <1>0 DEF HeadsOK, EntriesEmptied
  <2>2. th[u].s # s /\ th[u].s \in Streams
    BY <2>1 DEF Empties, Kept
  <2> QED
    BY <2>1, <2>2 DEF Empties
<1>12. ASSUME NEW r \in Clusters, Starts(r)' PROVE Starts(r)
  <2>1. CASE \E q \in Streams : stream'[q] # None /\ stream'[q].fstClus = r
    <3>1. PICK q \in Streams : stream'[q] # None /\ stream'[q].fstClus = r
      BY <2>1
    <3>2. CASE q = s
      BY <1>3, <3>1, <3>2 DEF Starts
    <3>3. CASE q # s
      <4>1. stream[q] # None /\ stream[q].fstClus = r
        BY <3>1, <3>3
      <4> QED
        BY <4>1 DEF Starts
    <3> QED
      BY <3>2, <3>3
  <2>2. CASE \E u \in Threads : th'[u].clus = r
    BY <2>2 DEF Starts
  <2>3. CASE \E p \in Slots : Sure(p)' /\ dir'[p].fstClus = r
    <3>1. PICK p \in Slots : Sure(p)' /\ dir'[p].fstClus = r
      BY <2>3
    <3>2. Sure(p) /\ dir[p].fstClus = r
      BY <1>0, <3>1
    <3> QED
      BY <3>2 DEF Starts
  <2> QED
    BY <1>12, <2>1, <2>2, <2>3 DEF Starts
<1> QED
  BY <1>6, <1>7, <1>10, <1>11, <1>12 DEF HeadsOK

(* A step that begins no chain: no call gets one. *)
CallsSame == \A u \in Threads : th'[u].clus \in Clusters => th'[u].clus = th[u].clus
(* Nobody gets one. *)
HeadsSame == StreamsFrom /\ CallsSame /\ EntriesFrom
(* No cluster begins to be the first of a chain. *)
NoStarts == \A r \in Clusters : Starts(r)' => Starts(r)

(* The same for a step that begins no chain. *)
LEMMA HeadsStay ==
  ASSUME HeadsOK, HeadsSame
  PROVE  HeadsOK' /\ NoStarts
<1>1. \A t : HeadsFrom(t)
  BY DEF HeadsSame, HeadsFrom, CallsSame, CallsFrom
<1>2. \A t : HeadsOK' /\ NoOtherStarts(t)
  BY <1>1, HeadsMove
<1>3. NoStarts
  <2> SUFFICES ASSUME NEW r \in Clusters, Starts(r)' PROVE Starts(r)
    BY DEF NoStarts
  <2>1. \A t : Starts(r) \/ (t \in Threads /\ r = th'[t].clus)
    BY <1>2 DEF NoOtherStarts
  <2>2. ASSUME NEW t \in Threads, r = th'[t].clus PROVE Starts(r)
    <3>1. r = th[t].clus
      BY <2>2 DEF HeadsSame, CallsSame
    <3> QED
      BY <3>1 DEF Starts
  <2> QED
    BY <2>1, <2>2
<1> QED
  BY <1>2, <1>3

(* setSize(): the clusters of a file that becomes empty are those of the call. *)
LEMMA HeadsZero ==
  ASSUME HeadsOK, NEW t \in Threads, NEW s \in Streams, stream[s] # None, stream'[s].fstClus = 0,
         \A r \in Streams \ {s} : stream'[r] = stream[r],
         \A u \in Threads \ {t} : th'[u].clus = th[u].clus,
         th'[t].clus = stream[s].fstClus, EntriesFrom,
         \A o \in Slots : Bears(o, s) => Empties(o, t)'
  PROVE  HeadsOK' /\ NoStarts
<1>0. 0 \notin Clusters
  BY Numbers
<1>1. StreamsApart' /\ CallsApart' /\ CallsAside'
  BY <1>0 DEF HeadsOK, StreamsApart, CallsApart, CallsAside
<1>2. EntriesApart'
  BY DEF EntriesApart, HeadsOK, EntriesFrom
<1>3. EntriesBorne'
  <2> SUFFICES ASSUME NEW o \in Slots, NEW r \in Streams, Sure(o)', stream'[r] # None,
                      dir'[o].fstClus \in Clusters, dir'[o].fstClus = stream'[r].fstClus
               PROVE  Bears(o, r)'
    BY DEF EntriesBorne
  <2>1. r # s /\ stream'[r] = stream[r]
    BY <1>0
  <2> QED
    BY <2>1 DEF HeadsOK, EntriesBorne, EntriesFrom
<1>4. EntriesEmptied'
  <2> SUFFICES ASSUME NEW o \in Slots, NEW u \in Threads, Sure(o)', dir'[o].fstClus \in Clusters,
                      dir'[o].fstClus = th'[u].clus
               PROVE  Empties(o, u)'
    BY DEF EntriesEmptied
  <2>1. CASE u = t
    <3>1. Bears(o, s)
      BY <2>1 DEF HeadsOK, EntriesBorne, EntriesFrom
    <3> QED
      BY <2>1, <3>1
  <2>2. CASE u # t
    BY <2>2 DEF HeadsOK, EntriesEmptied, EntriesFrom
  <2> QED
    BY <2>1, <2>2
<1>5. NoStarts
  <2> SUFFICES ASSUME NEW r \in Clusters, Starts(r)' PROVE Starts(r)
    BY DEF NoStarts
  <2>1. ASSUME NEW q \in Streams, stream'[q] # None, stream'[q].fstClus = r PROVE Starts(r)
    <3>1. stream'[q] = stream[q]
      BY <1>0, <2>1
    <3> QED
      BY <2>1, <3>1 DEF Starts
  <2>2. ASSUME NEW u \in Threads, th'[u].clus = r PROVE Starts(r)
    BY <2>2 DEF Starts
  <2>3. ASSUME NEW o \in Slots, Sure(o)', dir'[o].fstClus = r PROVE Starts(r)
    <3>1. Sure(o) /\ dir[o].fstClus = r
      BY <2>3 DEF EntriesFrom
    <3> QED
      BY <3>1 DEF Starts
  <2> QED
    BY <2>1, <2>2, <2>3 DEF Starts
<1> QED
  BY <1>1, <1>2, <1>3, <1>4, <1>5 DEF HeadsOK

(* chain(): the clusters of the call are those of the file, which was empty. *)
LEMMA HeadsChain ==
  ASSUME HeadsOK, NEW t \in Threads, NEW s \in Streams, stream[s] # None, stream'[s].fstClus = th[t].clus,
         \A r \in Streams \ {s} : stream'[r] = stream[r],
         \A u \in Threads \ {t} : th'[u].clus = th[u].clus,
         th'[t].clus = 0, EntriesFrom,
         \A o \in Slots : ~Empties(o, t)
  PROVE  HeadsOK' /\ NoStarts
<1>0. 0 \notin Clusters
  BY Numbers
<1>1. StreamsApart' /\ CallsApart' /\ CallsAside'
  BY <1>0 DEF HeadsOK, StreamsApart, CallsApart, CallsAside
<1>2. EntriesApart'
  BY DEF EntriesApart, HeadsOK, EntriesFrom
<1>3. EntriesBorne'
  <2> SUFFICES ASSUME NEW o \in Slots, NEW r \in Streams, Sure(o)', stream'[r] # None,
                      dir'[o].fstClus \in Clusters, dir'[o].fstClus = stream'[r].fstClus
               PROVE  Bears(o, r)'
    BY DEF EntriesBorne
  <2>1. Sure(o) /\ dir'[o].fstClus = dir[o].fstClus
    BY DEF EntriesFrom
  <2>2. r # s
    BY <2>1 DEF HeadsOK, EntriesEmptied
  <2>3. stream'[r] = stream[r]
    BY <2>2
  <2> QED
    BY <2>1, <2>3 DEF HeadsOK, EntriesBorne, EntriesFrom
<1>4. EntriesEmptied'
  <2> SUFFICES ASSUME NEW o \in Slots, NEW u \in Threads, Sure(o)', dir'[o].fstClus \in Clusters,
                      dir'[o].fstClus = th'[u].clus
               PROVE  Empties(o, u)'
    BY DEF EntriesEmptied
  <2>1. u # t
    BY <1>0
  <2> QED
    BY <2>1 DEF HeadsOK, EntriesEmptied, EntriesFrom
<1>5. NoStarts
  <2> SUFFICES ASSUME NEW r \in Clusters, Starts(r)' PROVE Starts(r)
    BY DEF NoStarts
  <2>1. ASSUME NEW q \in Streams, stream'[q] # None, stream'[q].fstClus = r PROVE Starts(r)
    BY <2>1 DEF Starts
  <2>2. ASSUME NEW u \in Threads, th'[u].clus = r PROVE Starts(r)
    BY <1>0, <2>2 DEF Starts
  <2>3. ASSUME NEW o \in Slots, Sure(o)', dir'[o].fstClus = r PROVE Starts(r)
    <3>1. Sure(o) /\ dir[o].fstClus = r
      BY <2>3 DEF EntriesFrom
    <3> QED
      BY <3>1 DEF Starts
  <2> QED
    BY <2>1, <2>2, <2>3 DEF Starts
<1> QED
  BY <1>1, <1>2, <1>3, <1>4, <1>5 DEF HeadsOK

(* flush(), create() and remove() write the entry of a stream. *)
LEMMA HeadsEntry ==
  ASSUME HeadsOK, StreamsFrom, CallsSame, NEW s \in Streams, stream[s] # None, NEW e,
         \A o \in Slots : dir'[o] = IF o = stream[s].offset THEN e ELSE dir[o],
         e # None => /\ e.fstClus = stream[s].fstClus
                     /\ stream'[s].offset = stream[s].offset /\ Kept(s)',
         \A o \in Slots : o # stream[s].offset /\ Sure(o)' /\ dir'[o].fstClus \in Clusters =>
            /\ Sure(o)
            /\ \A r \in Streams : stream[r] # None /\ stream'[r] # None /\ Bears(o, r) => Bears(o, r)'
            /\ \A u \in Threads : th'[u].clus \in Clusters /\ Empties(o, u) => Empties(o, u)'
  PROVE  HeadsOK' /\ NoStarts
<1>1. StreamsApart'
  BY DEF StreamsApart, HeadsOK, StreamsFrom
<1>2. CallsApart'
  BY DEF CallsApart, HeadsOK, CallsSame
<1>3. CallsAside'
  BY DEF CallsAside, HeadsOK, StreamsFrom, CallsSame
<1>4. ASSUME NEW o \in Slots, Sure(o)', dir'[o].fstClus \in Clusters, o = stream[s].offset
      PROVE  dir'[o].fstClus = stream[s].fstClus /\ Bears(o, s)'
  <2>1. e # None /\ dir'[o] = e
    BY <1>4 DEF Sure
  <2> QED
    BY <1>4, <2>1 DEF Bears
<1>5. ASSUME NEW o \in Slots, Sure(o)', dir'[o].fstClus \in Clusters, o # stream[s].offset
      PROVE  /\ Sure(o) /\ dir'[o] = dir[o] /\ dir[o].fstClus # stream[s].fstClus
  <2>1. Sure(o) /\ dir'[o] = dir[o]
    BY <1>5
  <2> QED
    BY <1>5, <2>1 DEF HeadsOK, EntriesBorne, Bears
<1>6. EntriesApart'
  <2> SUFFICES ASSUME NEW o \in Slots, NEW p \in Slots, Sure(o)', Sure(p)',
                      dir'[o].fstClus \in Clusters, dir'[p].fstClus = dir'[o].fstClus
               PROVE  o = p
    BY DEF EntriesApart
  <2> QED
    BY <1>4, <1>5 DEF HeadsOK, EntriesApart
<1>7. EntriesBorne'
  <2> SUFFICES ASSUME NEW o \in Slots, NEW r \in Streams, Sure(o)', stream'[r] # None,
                      dir'[o].fstClus \in Clusters, dir'[o].fstClus = stream'[r].fstClus
               PROVE  Bears(o, r)'
    BY DEF EntriesBorne
  <2>0. stream[r] # None /\ stream'[r].fstClus = stream[r].fstClus
    BY DEF StreamsFrom
  <2>1. CASE o = stream[s].offset
    <3>1. r = s
      BY <1>4, <2>0, <2>1 DEF HeadsOK, StreamsApart
    <3> QED
      BY <1>4, <2>1, <3>1
  <2>2. CASE o # stream[s].offset
    <3>1. Bears(o, r)
      BY <1>5, <2>0, <2>2 DEF HeadsOK, EntriesBorne
    <3> QED
      BY <2>0, <2>2, <3>1
  <2> QED
    BY <2>1, <2>2
<1>8. EntriesEmptied'
  <2> SUFFICES ASSUME NEW o \in Slots, NEW u \in Threads, Sure(o)', dir'[o].fstClus \in Clusters,
                      dir'[o].fstClus = th'[u].clus
               PROVE  Empties(o, u)'
    BY DEF EntriesEmptied
  <2>0. th'[u].clus = th[u].clus
    BY DEF CallsSame
  <2>1. CASE o = stream[s].offset
    BY <1>4, <2>0, <2>1 DEF HeadsOK, CallsAside
  <2>2. CASE o # stream[s].offset
    <3>1. Empties(o, u)
      BY <1>5, <2>0, <2>2 DEF HeadsOK, EntriesEmptied
    <3> QED
      BY <2>0, <2>2, <3>1
  <2> QED
    BY <2>1, <2>2
<1>9. NoStarts
  <2> SUFFICES ASSUME NEW r \in Clusters, Starts(r)' PROVE Starts(r)
    BY DEF NoStarts
  <2>1. ASSUME NEW q \in Streams, stream'[q] # None, stream'[q].fstClus = r PROVE Starts(r)
    BY <2>1 DEF StreamsFrom, Starts
  <2>2. ASSUME NEW u \in Threads, th'[u].clus = r PROVE Starts(r)
    BY <2>2 DEF CallsSame, Starts
  <2>3. ASSUME NEW o \in Slots, Sure(o)', dir'[o].fstClus = r PROVE Starts(r)
    BY <1>4, <1>5, <2>3 DEF Starts
  <2> QED
    BY <2>1, <2>2, <2>3 DEF Starts
<1> QED
  BY <1>1, <1>2, <1>3, <1>6, <1>7, <1>8, <1>9 DEF HeadsOK

(* A call that is about the entries of files goes on to be about the same ones. *)
Calm(t) ==
    /\ \A o \in Slots : DoubtBy(t, o) => DoubtBy(t, o)'
    /\ Erasing(t) => Erasing(t)' /\ th'[t].s = th[t].s /\ stream'[th[t].s].offset = stream[th[t].s].offset
    /\ th'[t].clus \in Clusters /\ Unwritten(t, th[t].s) =>
            /\ Unwritten(t, th[t].s)' /\ th'[t].s = th[t].s
            /\ stream'[th[t].s].offset = stream[th[t].s].offset

(* The entries that another rename() is about stay the same. *)
LEMMA DoubtStays ==
  ASSUME Typed, PlacesOK, RefsOK, KeptOK, NEW t \in Threads, Steady(t), NEW u \in Threads \ {t}, NEW o, DoubtBy(u, o)
  PROVE  DoubtBy(u, o)'
<1>1. th'[u] = th[u] /\ KeptOf(u) /\ CallOK(u)
  BY DEF Steady, KeptOK, PlacesOK
<1>2. Moved(u)' /\ Mine(u)' = Mine(u) /\ Theirs(u)' = Theirs(u) /\ (Unsaved(u) => Unsaved(u)')
  BY <1>1 DEF DoubtBy, Moved, Mine, Theirs, Unsaved, Renaming, Erasing, Flushes, Writes
<1>3. Unsaved(u) => Kept(Theirs(u))
  BY <1>1 DEF Unsaved, Theirs, Renaming, Flushes, KeptOf, Writes
<1>4. CASE Erasing(u)
  <2>1. Mine(u) = th[u].s /\ th[u].s \in Streams
    BY <1>1, <1>4 DEF Mine, Renaming, Flushes, Erasing, Writes, CallOK, DoubtBy, Moved
  <2>2. stream'[th[u].s].offset = stream[th[u].s].offset
    BY <1>1, <1>4, <2>1, FatAssumption DEF KeptOf, Steady, KeepsGone, RefsOK
  <2>3. Unsaved(u) => stream'[Theirs(u)].offset = stream[Theirs(u)].offset
    BY <1>3 DEF Steady, KeepsKept, Kept
  <2>4. stream'[Mine(u)].offset = stream[Mine(u)].offset
    BY <2>1, <2>2
  <2> QED
    BY <1>2, <2>3, <2>4 DEF DoubtBy
<1>5. CASE ~Erasing(u)
  <2>1. Kept(Mine(u))
    BY <1>1, <1>5 DEF Mine, Renaming, Flushes, Erasing, Writes, DoubtBy, Moved, KeptOf
  <2>3. Unsaved(u) => stream'[Theirs(u)].offset = stream[Theirs(u)].offset
    BY <1>3 DEF Steady, KeepsKept, Kept
  <2>4. stream'[Mine(u)].offset = stream[Mine(u)].offset
    BY <2>1 DEF Steady, KeepsKept, Kept
  <2> QED
    BY <1>2, <2>3, <2>4 DEF DoubtBy
<1> QED
  BY <1>4, <1>5

(* A step that leaves the directory and the hash table as they are leaves the entries to who has them. *)
LEMMA EntriesCalm ==
  ASSUME Typed, PlacesOK, RefsOK, KeptOK, NEW t \in Threads, Steady(t), dir' = dir, Calm(t)
  PROVE  EntriesFrom /\ SureFrom
<1>1. \A o \in Slots : Sure(o)' => Sure(o)
  <2> SUFFICES ASSUME NEW o \in Slots, Doubtful(o) PROVE Doubtful(o)'
    BY DEF Sure
  <2>1. PICK u \in Threads : DoubtBy(u, o)
    BY DEF Doubtful
  <2>2. DoubtBy(u, o)'
    BY <2>1, DoubtStays DEF Calm
  <2> QED
    BY <2>2 DEF Doubtful
<1>2. ASSUME NEW u \in Threads \ {t}, Erasing(u) PROVE Erasing(u)' /\ th'[u].s = th[u].s /\ stream'[th[u].s].offset = stream[th[u].s].offset
  <2>1. th'[u] = th[u] /\ KeptOf(u) /\ th[u].s \in Streams
    BY <1>2, CallTyped, OpOf DEF Steady, KeptOK, PlacesOK, CallOK, Erasing, Writes, Operations
  <2>2. stream'[th[u].s].offset = stream[th[u].s].offset
    BY <1>2, <2>1, FatAssumption DEF KeptOf, Steady, KeepsGone, RefsOK
  <2> QED
    BY <1>2, <2>1, <2>2 DEF Erasing, Writes
<1>3. ASSUME NEW o \in Slots, NEW s \in Streams, Bears(o, s) PROVE Bears(o, s)'
  <2>1. CASE Kept(s)
    BY <1>3, <2>1 DEF Bears, Steady, KeepsKept
  <2>2. ASSUME NEW u \in Threads, Erasing(u), th[u].s = s PROVE Bears(o, s)'
    <3>1. Erasing(u)' /\ th'[u].s = th[u].s /\ stream'[th[u].s].offset = stream[th[u].s].offset
      BY <1>2, <2>2 DEF Calm
    <3> QED
      BY <1>3, <2>2, <3>1 DEF Bears
  <2> QED
    BY <1>3, <2>1, <2>2 DEF Bears
<1>4. ASSUME NEW o \in Slots, NEW u \in Threads, th'[u].clus \in Clusters, Empties(o, u) PROVE Empties(o, u)'
  <2>1. CASE u = t
    BY <1>4, <2>1 DEF Calm, Empties
  <2>2. CASE u # t
    <3>1. th'[u] = th[u] /\ th[u].s \in Streams /\ stream[th[u].s] # None
      BY <1>4, <2>2, FatAssumption DEF Steady, Empties, Unwritten, PlacesOK, CallOK, RefsOK
    <3>2. stream'[th[u].s].offset = stream[th[u].s].offset
      <4>1. CASE stream[th[u].s].removed
        BY <2>2, <3>1, <4>1 DEF Steady, KeepsGone
      <4>2. CASE ~stream[th[u].s].removed
        BY <3>1, <4>2 DEF Steady, KeepsKept, Kept
      <4> QED
        BY <4>1, <4>2
    <3> QED
      BY <1>4, <3>1, <3>2 DEF Empties, Unwritten
  <2> QED
    BY <2>1, <2>2
<1> QED
  BY <1>1, <1>3, <1>4 DEF EntriesFrom, SureFrom, Sure

(* A call that is not about an entry. *)
LEMMA CalmCall ==
  ASSUME Typed, PlacesOK, NEW t \in Threads,
         th[t].pc \notin {"swap", "flush", "remove", "erase", "sync", "entry", "written"}
  PROVE  Calm(t) /\ \A o : ~Empties(o, t)
<1>1. ~Moved(t) /\ ~Erasing(t) /\ ~Unwritten(t, th[t].s)
  BY DEF Moved, Erasing, Unwritten, Flushes, Writes
<1> QED
  BY <1>1 DEF Calm, DoubtBy, Empties

(* All that has been shown so far. *)
Ready == Base /\ ApartOK /\ FilesOK

(* Its parts, by name. *)
LEMMA ReadyIs ==
  ASSUME Ready
  PROVE  /\ Typed /\ TypeOK /\ PlacesOK /\ RefsOK /\ LocksOK /\ MountedOK /\ SoloOK
         /\ KeptOK /\ OffsetsOK /\ NewOK /\ FcbOK /\ BoundOK /\ EntriesOK
BY TypesAre, SoloIs DEF Ready, Base, FilesOK

(* Nobody is in the end of a rename() or of a remove() when a name is looked up. *)
LEMMA NobodyMoves ==
  ASSUME Ready, NEW t \in Threads, Apart(t), "names" \notin Allow, th[t].pc \in {"idle", "create"}
  PROVE  \A u \in Threads : ~Moved(u) /\ ~Erasing(u)
<1>0. Typed /\ PlacesOK
  BY ReadyIs
<1> SUFFICES ASSUME NEW u \in Threads, Moved(u) \/ Erasing(u) PROVE FALSE
  OBVIOUS
<1>1. th[u].op \in {"unbind", "rename"}
  BY <1>0, CallTyped, OpOf DEF Moved, Renaming, Erasing, Writes, PlacesOK, CallOK
<1>2. u = t
  BY <1>1 DEF Apart
<1> QED
  BY <1>2 DEF Moved, Erasing, Flushes, Writes

(* lookup() begins no chain: a new stream has that of its entry. *)
LEMMA LookHeads ==
  ASSUME Ready, HeadsOK, NEW t \in Threads, th[t] = Idle, NEW s, NEW o, Opens(s, o), dir' = dir,
         \A u \in Threads : ~Moved(u) /\ ~Erasing(u), \A u \in Threads \ {t} : th'[u] = th[u],
         th'[t].clus = 0, ~Moved(t)'
  PROVE  HeadsOK' /\ NoStarts /\ SureFrom
<1>0. Typed /\ PlacesOK /\ RefsOK /\ KeptOK /\ s \in Streams /\ o \in Slots
  BY ReadyIs DEF Opens
<1>1. \A p \in Slots : ~Doubtful(p) /\ ~Doubtful(p)'
  <2>1. \A u \in Threads : ~Moved(u)'
    BY DEF Moved, Renaming, Erasing, Flushes, Writes
  <2> QED
    BY <2>1 DEF Doubtful, DoubtBy
<1>2. \A u \in Threads : th'[u].clus \in Clusters => th'[u] = th[u]
  BY Numbers
<1>3. ASSUME stream[s] # None, stream'[s] = stream[s] PROVE HeadsOK' /\ NoStarts
  <2>1. \A r \in Streams : stream'[r] = stream[r]
    BY <1>3 DEF Opens, StreamStep
  <2>2. EntriesFrom
    <3>1. \A p \in Slots, r \in Streams : Bears(p, r) => Bears(p, r)'
      BY <2>1 DEF Bears, Kept
    <3>2. \A p \in Slots, u \in Threads : th'[u].clus \in Clusters /\ Empties(p, u) => Empties(p, u)'
      <4>1. \A u \in Threads : Unwritten(u, th[u].s) => th[u].s \in Streams
        BY <1>0 DEF Unwritten, PlacesOK, CallOK
      <4> QED
        BY <1>2, <2>1, <4>1 DEF Empties, Unwritten
    <3> QED
      BY <1>1, <3>1, <3>2 DEF EntriesFrom, Sure
  <2>3. StreamsFrom /\ CallsSame
    BY <1>2, <2>1 DEF StreamsFrom, CallsSame
  <2> QED
    BY <2>2, <2>3, HeadsStay DEF HeadsSame
<1>4. ASSUME stream[s] = None, stream'[s] = FatStream(o, dir[o]), \A r \in Streams : Kept(r) => stream[r].offset # o
      PROVE  HeadsOK' /\ NoStarts
  <2>1. dir[o] # None /\ stream'[s] # None /\ stream'[s].fstClus = dir[o].fstClus /\ stream'[s].offset = o /\ ~stream'[s].removed
    BY <1>0, <1>4, NewStream DEF Opens, Typed
  <2>2. \A r \in Streams \ {s} : stream'[r] = stream[r]
    BY DEF Opens, StreamStep
  <2>3. \A u \in Threads : th'[u].clus \in Clusters => th'[u].clus = th[u].clus /\ Unwritten(u, th[u].s)' = Unwritten(u, th[u].s) /\ th'[u].s = th[u].s
    BY <1>2 DEF Unwritten
  <2>4. \A u \in Threads : Unwritten(u, th[u].s) => Kept(th[u].s)
    BY <1>0 DEF Unwritten, KeptOK, KeptOf, PlacesOK, CallOK, Writes
  <2> QED
    BY <1>0, <1>1, <1>4, <2>1, <2>2, <2>3, <2>4, HeadsOpen DEF NoStarts
<1>5. SureFrom
  BY <1>1 DEF SureFrom, Sure
<1> QED
  BY <1>3, <1>4, <1>5 DEF Opens

(* A file that create() makes is empty. *)
LEMMA MakeHeads ==
  ASSUME Ready, HeadsOK, NEW t \in Threads, NEW s, NEW o, NEW name \in Names, Makes(t, s, o, name),
         \A u \in Threads : ~Moved(u) /\ ~Erasing(u), \A u \in Threads \ {t} : th'[u] = th[u],
         th'[t].clus = th[t].clus, th[t].op # "setSize", ~Moved(t)'
  PROVE  HeadsOK' /\ NoStarts /\ SureFrom
<1>0. Typed /\ PlacesOK /\ RefsOK /\ s \in Streams /\ o \in Slots /\ dir' = dir /\ stream[s] = None
  BY ReadyIs DEF Makes
<1>1. \A p \in Slots : ~Doubtful(p) /\ ~Doubtful(p)'
  <2>1. \A u \in Threads : ~Moved(u)'
    BY DEF Moved, Renaming, Erasing, Flushes, Writes
  <2> QED
    BY <2>1 DEF Doubtful, DoubtBy
<1>2. \A r \in Streams : r # s => stream'[r] = stream[r]
  BY DEF Makes, StreamStep
<1>3. stream'[s].fstClus = 0
  BY <1>0, Numbers, NewStream DEF Makes, Entry, Entries
<1>4. EntriesFrom
  <2>1. \A p \in Slots, r \in Streams : stream[r] # None /\ Bears(p, r) => Bears(p, r)'
    BY <1>0, <1>2 DEF Bears, Kept
  <2>2. \A p \in Slots, u \in Threads : Empties(p, u) => Empties(p, u)'
    BY <1>0, <1>2, FatAssumption DEF Empties, Unwritten, PlacesOK, CallOK, RefsOK
  <2> QED
    BY <1>0, <1>1, <2>1, <2>2 DEF EntriesFrom, Sure
<1>5. StreamsFrom /\ CallsSame
  BY <1>0, <1>2, <1>3, Numbers DEF StreamsFrom, CallsSame
<1>6. SureFrom
  BY <1>0, <1>1 DEF SureFrom, Sure
<1> QED
  BY <1>4, <1>5, <1>6, HeadsStay DEF HeadsSame

(* Nothing is left in memory. *)
LEMMA ForgetHeads ==
  ASSUME HeadsOK, Forget, dir' = dir, \A u \in Threads : ~Moved(u)
  PROVE  HeadsOK' /\ NoStarts /\ SureFrom
<1>1. \A s \in Streams : stream'[s] = None
  BY ForgetDoes
<1>2. \A u \in Threads : th'[u].clus \notin Clusters
  BY ForgetDoes, IdleIs, Numbers
<1>3. \A o \in Slots : ~Doubtful(o)
  BY DEF Doubtful, DoubtBy
<1>4. StreamsFrom /\ CallsSame
  BY <1>1, <1>2 DEF StreamsFrom, CallsSame
<1>5. EntriesFrom
  BY <1>1, <1>2, <1>3 DEF EntriesFrom, Sure
<1>6. SureFrom
  BY <1>3 DEF SureFrom, Sure
<1> QED
  BY <1>4, <1>5, <1>6, HeadsStay DEF HeadsSame

(* What a call that is not about an entry leaves of the chains. *)
LEMMA CalmHeads ==
  ASSUME Ready, HeadsOK, NEW t \in Threads, Quiet(t), dir' = dir, Calm(t), StreamsFrom,
         th'[t].clus \in Clusters => th'[t].clus = th[t].clus
  PROVE  HeadsOK' /\ NoStarts /\ SureFrom
<1>1. Steady(t) /\ Typed /\ PlacesOK /\ RefsOK /\ KeptOK
  BY ReadyIs, QuietSteady
<1>2. EntriesFrom /\ SureFrom
  BY <1>1, EntriesCalm
<1>3. CallsSame
  BY <1>1 DEF CallsSame, Steady
<1> QED
  BY <1>2, <1>3, HeadsStay DEF HeadsSame

(* The call has a new chain, or the rest of one. *)
LEMMA FreshHeads ==
  ASSUME Ready, HeadsOK, NEW t \in Threads, Quiet(t), dir' = dir, Calm(t), StreamsFrom,
         th'[t].clus \in Clusters => ~Starts(th'[t].clus)
  PROVE  HeadsOK' /\ NoOtherStarts(t) /\ SureFrom
<1>1. Steady(t) /\ Typed /\ PlacesOK /\ RefsOK /\ KeptOK
  BY ReadyIs, QuietSteady
<1>2. EntriesFrom /\ SureFrom
  BY <1>1, EntriesCalm
<1>3. CallsFrom(t)
  BY <1>1 DEF CallsFrom, Steady
<1> QED
  BY <1>2, <1>3, HeadsMove DEF HeadsFrom

(* setSize() *)
LEMMA SetSizeHeads ==
  ASSUME Ready, HeadsOK, NEW t \in Threads, NEW size \in 0 .. MaxSize, setSize(t, size)
  PROVE  HeadsOK' /\ NoStarts /\ SureFrom
<1>0. Typed /\ PlacesOK /\ RefsOK /\ KeptOK /\ Quiet(t) /\ Steady(t)
  <2>1. Quiet(t)
    BY Zenon DEF Quiet
  <2> QED
    BY <2>1, ReadyIs, QuietSteady
<1>1. PICK s \in Streams : /\ s = held[t] /\ th[t] = Idle /\ stream[s] # None /\ Unlocked(s, t)
                           /\ Grows(t, size) \/ Shrinks(t, size)
                           /\ dir' = dir
  BY <1>0, SetSizeDoes
<1>2. Calm(t)
  BY <1>0, <1>1, IdleIs, CalmCall
<1>3. CASE Grows(t, size)
  <2>1. StreamsFrom /\ th'[t].clus = 0
    BY <1>3 DEF Grows, StreamsFrom
  <2> QED
    BY <1>0, <1>1, <1>2, <2>1, Numbers, CalmHeads
<1>4. CASE Shrinks(t, size) /\ size # 0
  <2>1. StreamsFrom /\ th'[t].clus = 0
    BY <1>1, <1>4 DEF Shrinks, StreamStep, StreamsFrom
  <2> QED
    BY <1>0, <1>1, <1>2, <2>1, Numbers, CalmHeads
<1>5. CASE Shrinks(t, size) /\ size = 0
  <2>1. /\ stream'[s].fstClus = 0 /\ stream'[s].offset = stream[s].offset
        /\ \A r \in Streams \ {s} : stream'[r] = stream[r]
        /\ \A u \in Threads \ {t} : th'[u].clus = th[u].clus
        /\ th'[t].clus = stream[s].fstClus
        /\ th'[t].op = "setSize" /\ th'[t].s = s /\ th'[t].pc = Flushing(s)
    BY <1>1, <1>5 DEF Shrinks, StreamStep, CallStep
  <2>2. EntriesFrom /\ SureFrom
    BY <1>0, <1>1, <1>2, EntriesCalm
  <2>3. ASSUME NEW o \in Slots, Bears(o, s) PROVE Empties(o, t)'
    <3>1. \A u \in Threads : Erasing(u) => th[u].s # s
      <4> SUFFICES ASSUME NEW u \in Threads, Erasing(u), th[u].s = s PROVE FALSE
        OBVIOUS
      <4>1. th[u].lock = s
        BY <1>0, CallTyped, OpOf DEF Erasing, Writes, PlacesOK, CallOK
      <4>2. u # t
        BY <1>1, IdleIs DEF Erasing, Writes
      <4> QED
        BY <1>1, <4>1, <4>2 DEF Unlocked
    <3>2. ~stream[s].removed
      BY <2>3, <3>1 DEF Bears, Kept
    <3>3. th'[t].pc = "sync"
      BY <2>1, <3>2 DEF Flushing
    <3> QED
      BY <2>1, <2>3, <3>3 DEF Bears, Empties, Unwritten
  <2> QED
    BY <1>1, <2>1, <2>2, <2>3, HeadsZero
<1> QED
  BY <1>1, <1>3, <1>4, <1>5

(* chain() *)
LEMMA ChainHeads ==
  ASSUME Ready, HeadsOK, NEW t \in Threads, chain(t)
  PROVE  HeadsOK' /\ NoStarts /\ SureFrom /\ (stream[th[t].s].size > 0 => \A v \in Clusters : v = th[t].clus => ~Starts(v)')
<1>0. Typed /\ PlacesOK /\ RefsOK /\ KeptOK /\ Quiet(t) /\ Steady(t)
  <2>1. Quiet(t)
    BY Zenon DEF Quiet
  <2> QED
    BY <2>1, ReadyIs, QuietSteady
<1>1. PICK s \in Streams : /\ s = th[t].s /\ th[t].pc = "chain" /\ stream[s] # None
                           /\ ChainEffect(t) /\ dir' = dir /\ th'[t].clus = 0
  BY <1>0, ChainDoes
<1>2. Calm(t) /\ \A o : ~Empties(o, t)
  BY <1>0, <1>1, CalmCall
<1>3. stream[s].size \in Nat
  BY <1>0, <1>1, StreamTyped
<1>4. EntriesFrom /\ SureFrom
  BY <1>0, <1>1, <1>2, EntriesCalm
<1>5. /\ \A r \in Streams \ {s} : stream'[r] = stream[r]
      /\ \A u \in Threads \ {t} : th'[u].clus = th[u].clus
  BY <1>0, <1>1 DEF ChainEffect, StreamStep, Steady
<1>6. CASE stream[s].size > 0
  <2>1. StreamsFrom
    BY <1>1, <1>6 DEF ChainEffect, StreamStep, StreamsFrom
  <2>2. HeadsOK' /\ NoStarts /\ SureFrom
    BY <1>0, <1>1, <1>2, <2>1, Numbers, CalmHeads
  <2>3. ASSUME NEW v \in Clusters, v = th[t].clus, Starts(v)' PROVE FALSE
    <3>1. ASSUME NEW r \in Streams, stream'[r] # None, stream'[r].fstClus = v PROVE FALSE
      BY <2>1, <2>3, <3>1 DEF StreamsFrom, HeadsOK, CallsAside
    <3>2. ASSUME NEW u \in Threads, th'[u].clus = v PROVE FALSE
      BY <1>1, <1>5, <2>3, <3>2, Numbers DEF HeadsOK, CallsApart
    <3>3. ASSUME NEW o \in Slots, Sure(o)', dir'[o].fstClus = v PROVE FALSE
      BY <1>2, <1>4, <2>3, <3>3 DEF EntriesFrom, HeadsOK, EntriesEmptied
    <3> QED
      BY <2>3, <3>1, <3>2, <3>3 DEF Starts
  <2> QED
    BY <2>2, <2>3
<1>7. CASE ~(stream[s].size > 0)
  <2>1. stream'[s].fstClus = th[t].clus
    BY <1>1, <1>7 DEF ChainEffect
  <2>2. HeadsOK' /\ NoStarts /\ SureFrom
    BY <1>1, <1>2, <1>4, <1>5, <2>1, HeadsChain
  <2> QED
    BY <1>1, <1>7, <2>2
<1> QED
  BY <1>6, <1>7

(* freeCluster() *)
LEMMA FreesHeads ==
  ASSUME Ready, HeadsOK, NEW t \in Threads, freeCluster(t), Frees(t),
         fat[th[t].clus] \in Clusters => ~Starts(fat[th[t].clus])
  PROVE  HeadsOK' /\ NoOtherStarts(t) /\ SureFrom /\ \A v \in Clusters : v = th[t].clus /\ fat[v] # v => ~Starts(v)'
<1>0. Typed /\ PlacesOK /\ RefsOK /\ KeptOK /\ Quiet(t) /\ Steady(t)
  <2>1. Quiet(t)
    BY Zenon DEF Quiet
  <2> QED
    BY <2>1, ReadyIs, QuietSteady
<1>1. th[t].pc = "free" /\ dir' = dir /\ stream' = stream /\ th'[t].clus = fat[th[t].clus] /\ th[t].clus \in Clusters
  BY <1>0, FreeClusterDoes DEF Frees
<1>2. Calm(t) /\ \A o : ~Empties(o, t)
  BY <1>0, <1>1, CalmCall
<1>3. StreamsFrom
  BY <1>1 DEF StreamsFrom
<1>4. EntriesFrom /\ SureFrom
  BY <1>0, <1>1, <1>2, EntriesCalm
<1>5. HeadsOK' /\ NoOtherStarts(t) /\ SureFrom
  BY <1>0, <1>1, <1>2, <1>3, FreshHeads
<1>6. ASSUME NEW v \in Clusters, v = th[t].clus, fat[v] # v, Starts(v)' PROVE FALSE
  <2>1. ASSUME NEW r \in Streams, stream'[r] # None, stream'[r].fstClus = v PROVE FALSE
    BY <1>1, <1>6, <2>1 DEF HeadsOK, CallsAside
  <2>2. ASSUME NEW u \in Threads, th'[u].clus = v PROVE FALSE
    BY <1>0, <1>1, <1>6, <2>2 DEF HeadsOK, CallsApart, Steady
  <2>3. ASSUME NEW o \in Slots, Sure(o)', dir'[o].fstClus = v PROVE FALSE
    BY <1>1, <1>2, <1>4, <1>6, <2>3 DEF EntriesFrom, HeadsOK, EntriesEmptied
  <2> QED
    BY <1>6, <2>1, <2>2, <2>3 DEF Starts
<1> QED
  BY <1>5, <1>6

(* The entry of a stream that flush(), create() or remove() writes. *)
LEMMA EntryHeads ==
  ASSUME Ready, HeadsOK, NEW t \in Threads, entry(t)
  PROVE  /\ HeadsOK' /\ NoStarts
         /\ \A o \in Slots : o # stream[th[t].s].offset /\ Sure(o)' => Sure(o) /\ dir'[o] = dir[o]
<1>0. /\ Typed /\ PlacesOK /\ RefsOK /\ KeptOK /\ OffsetsOK /\ NewOK /\ FcbOK /\ SoloOK
      /\ Quiet(t) /\ Steady(t)
  <2>1. Quiet(t)
    BY Zenon DEF Quiet
  <2> QED
    BY <2>1, ReadyIs, QuietSteady
<1>1. PICK s, e : /\ s \in Streams /\ s = th[t].s /\ th[t].pc = "entry" /\ stream[s] # None /\ Wrote(t)
                 /\ e = (IF th[t].write = "erase" THEN None ELSE stream[s].fcb)
                 /\ dir' = [dir EXCEPT ![stream[s].offset] = e]
  BY <1>0, EntryDoes
<1>2. /\ \A o \in Slots : dir'[o] = IF o = stream[s].offset THEN e ELSE dir[o]
  BY <1>0, <1>1 DEF Typed
<1>3. KeptOf(t) /\ CallOK(t) /\ th[t].write \in {"new", "fcb", "erase"}
  BY <1>0, <1>1, EntryWrites DEF KeptOK, PlacesOK
<1>4. th[t].write # "erase" => Kept(s) /\ Kept(s)' /\ stream'[s].offset = stream[s].offset
  BY <1>0, <1>1, <1>3 DEF KeptOf, Writes, Steady, KeepsKept
<1>5. e # None => e.fstClus = stream[s].fstClus /\ stream'[s].offset = stream[s].offset /\ Kept(s)'
  BY <1>0, <1>1, <1>4 DEF FcbOK, FcbOf
<1>6. StreamsFrom /\ CallsSame
  <2>1. \A r \in Streams : stream'[r] # None => stream[r] # None /\ stream'[r].fstClus = stream[r].fstClus
    BY <1>0, <1>1 DEF Wrote, WroteNew, WroteNewName, WroteMoved, WroteLarger, WroteSmaller, WroteErased, Drops, StreamStep, RefsOK
  <2>2. th'[t].clus \in Clusters => th'[t].clus = th[t].clus
    BY <1>1, IdleIs, Numbers DEF Wrote, WroteNew, WroteNewName, WroteMoved, WroteLarger, WroteSmaller, WroteErased, Drops, Returns, Goes, SameChain
  <2> QED
    BY <1>0, <2>1, <2>2 DEF StreamsFrom, CallsSame, Steady
<1>7. ASSUME NEW o \in Slots, o # stream[s].offset, DoubtBy(t, o) PROVE DoubtBy(t, o)'
  <2>1. th[t].op = "rename" /\ th[t].write \in {"fcb", "erase"}
    BY <1>1, <1>7 DEF DoubtBy, Moved, Renaming, Flushes, Erasing, Writes
  <2>2. CASE th[t].write = "erase"
    BY <1>1, <1>7, <2>1, <2>2 DEF DoubtBy, Unsaved, Flushes, Mine, Renaming
  <2>3. CASE th[t].write = "fcb"
    <3>1. WroteMoved(t)
      BY <1>1, <2>1, <2>3 DEF Wrote, WroteNew, WroteNewName, WroteLarger, WroteSmaller, WroteErased
    <3>2. PICK n : n = th[t].old
      OBVIOUS
    <3>3. Mine(t) = n /\ Theirs(t) = s /\ Moved(t)' /\ Mine(t)' = n
      BY <1>1, <2>1, <2>3, <3>1, <3>2 DEF WroteMoved, Mine, Theirs, Moved, Renaming, Flushes
    <3>4. stream' = stream
      BY <3>1 DEF WroteMoved
    <3> QED
      BY <1>7, <3>3, <3>4 DEF DoubtBy
  <2> QED
    BY <2>1, <2>2, <2>3
<1>8. ASSUME NEW o \in Slots, o # stream[s].offset, Sure(o)' PROVE Sure(o)
  <2>1. dir[o] # None
    BY <1>2, <1>8 DEF Sure
  <2>2. Doubtful(o) => Doubtful(o)'
    BY <1>0, <1>7, <1>8, DoubtStays DEF Doubtful
  <2> QED
    BY <1>8, <2>1, <2>2 DEF Sure
<1>9. ASSUME NEW o \in Slots, o # stream[s].offset, NEW r \in Streams, stream[r] # None, Bears(o, r) PROVE Bears(o, r)'
  <2>1. r # s
    BY <1>9 DEF Bears
  <2>2. CASE Kept(r)
    BY <1>0, <1>9, <2>2 DEF Bears, Steady, KeepsKept
  <2>3. ASSUME NEW u \in Threads, Erasing(u), th[u].s = r PROVE Bears(o, r)'
    <3>1. u # t /\ th'[u] = th[u] /\ KeptOf(u)
      BY <1>0, <1>1, <2>1, <2>3 DEF Steady, KeptOK
    <3>2. stream'[r].offset = stream[r].offset
      BY <1>0, <1>9, <2>3, <3>1 DEF Steady, KeepsGone, KeptOf
    <3> QED
      BY <1>9, <2>3, <3>1, <3>2 DEF Bears, Erasing, Writes
  <2> QED
    BY <1>9, <2>2, <2>3 DEF Bears
<1>10. ASSUME NEW o \in Slots, o # stream[s].offset, NEW u \in Threads, Empties(o, u) PROVE Empties(o, u)'
  <2>1. u # t /\ th'[u] = th[u] /\ th[u].s \in Streams /\ stream[th[u].s] # None
    BY <1>0, <1>1, <1>10, FatAssumption DEF Steady, Empties, Unwritten, PlacesOK, CallOK, RefsOK
  <2>2. stream'[th[u].s].offset = stream[th[u].s].offset
    <3>1. CASE stream[th[u].s].removed
      BY <1>0, <2>1, <3>1 DEF Steady, KeepsGone
    <3>2. CASE ~stream[th[u].s].removed
      BY <1>0, <2>1, <3>2 DEF Steady, KeepsKept, Kept
    <3> QED
      BY <3>1, <3>2
  <2> QED
    BY <1>10, <2>1, <2>2 DEF Empties, Unwritten
<1> QED
  BY <1>1, <1>2, <1>5, <1>6, <1>8, <1>9, <1>10, HeadsEntry

(* The streams of rename() change places: their entries are in doubt from now on. *)
LEMMA SwapHeads ==
  ASSUME Ready, HeadsOK, NEW t \in Threads, swap(t)
  PROVE  HeadsOK' /\ NoStarts /\ SureFrom
<1>0. Typed /\ PlacesOK /\ RefsOK /\ KeptOK /\ SoloOK
  BY ReadyIs
<1>1. PICK new \in Streams, old \in Streams :
        /\ Swaps(new, old) /\ th[t].pc = "swap" /\ th[t].op = "rename" /\ dir' = dir /\ new # old
        /\ stream[new] # None /\ stream[old] # None
        /\ th'[t].op = "rename" /\ th'[t].pc = "flush" /\ th'[t].s = new /\ th'[t].old = old
        /\ th'[t].clus = th[t].clus
        /\ \A u \in Threads \ {t} : th'[u] = th[u]
  BY <1>0, SwapDoes DEF Goes, CallStep, SameWork, SameChain
<1>2. \A u \in Threads : ~Moved(u) /\ ~Erasing(u)
  <2>1. \A u \in Threads \ {t} : th[u].op \notin DirectoryCalls
    BY <1>0, <1>1 DEF SoloOK, DirectoryCalls
  <2>2. \A u \in Threads \ {t} : ~Moved(u) /\ ~Erasing(u)
    BY <1>0, <2>1, CallTyped, OpOf DEF DirectoryCalls, Moved, Renaming, Erasing, Writes, PlacesOK, CallOK
  <2>3. ~Moved(t) /\ ~Erasing(t)
    BY <1>1 DEF Moved, Erasing, Flushes, Writes
  <2> QED
    BY <2>2, <2>3
<1>3. ASSUME NEW o \in Slots, Sure(o)'
      PROVE  Sure(o) /\ o # stream[new].offset /\ o # stream[old].offset
  <2>1. Moved(t)' /\ Unsaved(t)' /\ Mine(t)' = new /\ Theirs(t)' = old
    BY <1>1 DEF Moved, Unsaved, Mine, Theirs, Renaming, Flushes
  <2>2. o # stream'[new].offset /\ o # stream'[old].offset
    <3>1. ~DoubtBy(t, o)'
      BY <1>3 DEF Sure, Doubtful
    <3> QED
      BY <2>1, <3>1 DEF DoubtBy
  <2>3. ~Doubtful(o)
    BY <1>2 DEF Doubtful, DoubtBy
  <2> QED
    BY <1>1, <1>3, <2>2, <2>3 DEF Swaps, Sure
<1>4. EntriesFrom
  <2>1. ASSUME NEW o \in Slots, Sure(o)', NEW r \in Streams, Bears(o, r) PROVE Bears(o, r)'
    BY <1>1, <1>2, <1>3, <2>1 DEF Bears, Kept, Swaps
  <2>2. ASSUME NEW o \in Slots, Sure(o)', NEW u \in Threads, Empties(o, u) PROVE Empties(o, u)'
    <3>1. u # t /\ th[u].s \in Streams /\ th'[u] = th[u]
      BY <1>0, <1>1, <2>2 DEF Empties, Unwritten, PlacesOK, CallOK
    <3> QED
      BY <1>1, <1>3, <2>2, <3>1 DEF Empties, Unwritten, Swaps
  <2> QED
    BY <1>1, <1>3, <2>1, <2>2 DEF EntriesFrom
<1>5. StreamsFrom /\ CallsSame
  BY <1>1 DEF StreamsFrom, CallsSame, Swaps
<1> QED
  BY <1>1, <1>3, <1>4, <1>5, HeadsStay DEF HeadsSame, SureFrom

(* remove() takes the stream out of the hash table, and is to free its entry. *)
LEMMA RemoveHeads ==
  ASSUME Ready, HeadsOK, NEW t \in Threads, remove(t)
  PROVE  HeadsOK' /\ NoStarts /\ SureFrom /\ RemovesStream(t)
<1>0. Typed /\ PlacesOK /\ RefsOK /\ KeptOK /\ SoloOK
  BY ReadyIs
<1>1. PICK s \in Streams : /\ s = th[t].s /\ stream[s] # None /\ dir' = dir /\ th[t].pc = "remove"
                           /\ (stream[s].removed /\ Drops(t, s)) \/ RemovesStream(t)
  BY <1>0, RemoveDoes
<1>2. RemovesStream(t)
  BY <1>0, <1>1 DEF KeptOK, KeptOf, Kept
<1>3. /\ stream'[s] # None /\ stream'[s].removed /\ stream'[s].offset = stream[s].offset /\ stream'[s].fstClus = stream[s].fstClus
      /\ \A r \in Streams \ {s} : stream'[r] = stream[r]
      /\ th'[t].pc = "erase" /\ th'[t].op = th[t].op /\ th'[t].s = s /\ th'[t].old = th[t].old /\ th'[t].clus = th[t].clus
      /\ \A u \in Threads \ {t} : th'[u] = th[u]
  BY <1>1, <1>2 DEF RemovesStream, StreamStep, CallStep, SameChain
<1>4. \A r \in Streams : stream'[r].offset = stream[r].offset
  BY <1>3
<1>5. ASSUME NEW o \in Slots, NEW u \in Threads, DoubtBy(u, o) PROVE DoubtBy(u, o)'
  <2>1. CASE u = t
    <3>1. Moved(t)' /\ Mine(t) = s /\ Mine(t)' = s /\ ~Unsaved(t)
      BY <1>1, <1>3, <1>5, <2>1 DEF DoubtBy, Moved, Mine, Unsaved, Renaming, Flushes, Erasing
    <3> QED
      BY <1>4, <1>5, <2>1, <3>1 DEF DoubtBy
  <2>2. CASE u # t
    <3>1. th[u].op = "rename" /\ th[t].op \in {"unbind", "rename"}
      BY <1>0, <1>1, <1>5, OpOf DEF DoubtBy, Moved, Renaming
    <3> QED
      BY <1>0, <2>2, <3>1 DEF SoloOK, DirectoryCalls
  <2> QED
    BY <2>1, <2>2
<1>6. EntriesFrom
  <2>1. \A o \in Slots : Sure(o)' => Sure(o)
    BY <1>1, <1>5 DEF Sure, Doubtful
  <2>2. ASSUME NEW o \in Slots, NEW r \in Streams, Bears(o, r) PROVE Bears(o, r)'
    <3>1. CASE r = s
      <4>1. Erasing(t)'
        BY <1>3 DEF Erasing
      <4> QED
        BY <1>3, <2>2, <3>1, <4>1 DEF Bears
    <3>2. CASE r # s
      <4>1. \A u \in Threads : Erasing(u) => Erasing(u)' /\ (th[u].s = r => th'[u].s = r)
        BY <1>1, <1>3 DEF Erasing, Writes
      <4> QED
        BY <1>3, <2>2, <3>2, <4>1 DEF Bears, Kept
    <3> QED
      BY <3>1, <3>2
  <2>3. ASSUME NEW o \in Slots, NEW u \in Threads, Empties(o, u) PROVE Empties(o, u)'
    <3>1. u # t /\ th[u].s \in Streams /\ th'[u] = th[u]
      BY <1>0, <1>1, <1>3, <2>3 DEF Empties, Unwritten, PlacesOK, CallOK
    <3> QED
      BY <1>4, <2>3, <3>1 DEF Empties, Unwritten
  <2> QED
    BY <1>1, <2>1, <2>2, <2>3 DEF EntriesFrom
<1>7. StreamsFrom /\ CallsSame
  BY <1>1, <1>3 DEF StreamsFrom, CallsSame
<1>8. SureFrom
  BY <1>1, <1>5 DEF SureFrom, Sure, Doubtful
<1> QED
  BY <1>2, <1>6, <1>7, <1>8, HeadsStay DEF HeadsSame

(* The number of clusters of an empty file, and of another. *)
LEMMA ClustersAre ==
  /\ ClustersOf(0) = 0
  /\ \A size \in Nat : size > 0 => size - 1 \in Nat /\ ClustersOf(size) = ((size - 1) \div BytsPerClus) + 1
<1>1. \A B \in Nat \ {0} : (0 + B - 1) \div B = 0
  BY SMT
<1>2. \A B \in Nat \ {0}, size \in Nat : size > 0 => size - 1 \in Nat /\ (size + B - 1) \div B = ((size - 1) \div B) + 1
  BY SMT
<1>3. BytsPerClus \in Nat \ {0}
  BY Numbers
<1> QED
  BY Zenon, <1>1, <1>2, <1>3 DEF ClustersOf

(* A call that writes an entry, or is about to, is about the same entries until it has done so. *)
LEMMA CalmSync ==
  ASSUME Typed, PlacesOK, NEW t \in Threads, sync(t)
  PROVE  Calm(t)
<1>1. /\ th[t].pc = "sync" /\ th'[t].pc = "entry" /\ th'[t].op = th[t].op /\ th'[t].s = th[t].s /\ th'[t].old = th[t].old
      /\ th'[t].write = th[t].write /\ stream' = stream
  BY SyncDoes DEF Goes, SameWork
<1>2. ASSUME NEW o \in Slots, DoubtBy(t, o) PROVE DoubtBy(t, o)'
  <2>1. Moved(t)' /\ Mine(t)' = Mine(t) /\ Theirs(t)' = Theirs(t) /\ (Unsaved(t) => Unsaved(t)')
    BY <1>1, <1>2 DEF DoubtBy, Moved, Mine, Theirs, Unsaved, Renaming, Erasing, Flushes, Writes
  <2> QED
    BY <1>1, <1>2, <2>1 DEF DoubtBy
<1>3. (Erasing(t) => Erasing(t)') /\ (Unwritten(t, th[t].s) => Unwritten(t, th[t].s)')
  BY <1>1 DEF Erasing, Writes, Unwritten
<1> QED
  BY <1>1, <1>2, <1>3 DEF Calm

(* erase() goes on to write the entry it was about. *)
LEMMA CalmErase ==
  ASSUME Typed, PlacesOK, NEW t \in Threads, erase(t)
  PROVE  Calm(t)
<1>1. /\ th[t].pc = "erase" /\ th'[t].pc = "sync" /\ th'[t].op = th[t].op /\ th'[t].s = th[t].s /\ th'[t].old = th[t].old
      /\ th'[t].write = "erase" /\ stream' = stream
  BY EraseDoes DEF SameWork
<1>2. ASSUME NEW o \in Slots, DoubtBy(t, o) PROVE DoubtBy(t, o)'
  <2>1. Moved(t)' /\ Mine(t)' = Mine(t) /\ ~Unsaved(t)
    BY <1>1, <1>2 DEF DoubtBy, Moved, Mine, Theirs, Unsaved, Renaming, Erasing, Flushes, Writes
  <2> QED
    BY <1>1, <1>2, <2>1 DEF DoubtBy
<1>3. Erasing(t)' /\ ~Unwritten(t, th[t].s)
  BY <1>1 DEF Erasing, Writes, Unwritten
<1> QED
  BY <1>1, <1>2, <1>3 DEF Calm

(* So does the flush of rename() begin to write the one it was about. *)
LEMMA CalmRenameFlush ==
  ASSUME Typed, PlacesOK, RefsOK, NEW t \in Threads, renameFlush(t)
  PROVE  Calm(t)
<1>1. /\ th[t].pc = "flush" /\ th[t].op = "rename" /\ th'[t].op = "rename" /\ th'[t].pc \in {"sync", "written"}
      /\ th'[t].s = th[t].old /\ th'[t].old = th[t].s
      /\ th'[t].write = "fcb" /\ stream' = stream
  BY RenameFlushDoes DEF Flushing
<1>2. ASSUME NEW o \in Slots, DoubtBy(t, o) PROVE DoubtBy(t, o)'
  <2>1. Moved(t)' /\ Mine(t)' = Mine(t) /\ Theirs(t)' = Theirs(t) /\ (Unsaved(t) => Unsaved(t)')
    BY <1>1, <1>2 DEF DoubtBy, Moved, Mine, Theirs, Unsaved, Renaming, Erasing, Flushes, Writes
  <2> QED
    BY <1>1, <1>2, <2>1 DEF DoubtBy
<1>3. ~Erasing(t) /\ ~Unwritten(t, th[t].s)
  BY <1>1 DEF Erasing, Writes, Unwritten
<1> QED
  BY <1>1, <1>2, <1>3 DEF Calm

(* flush() of a removed stream is that of setSize(). *)
LEMMA WrittenIsSetSize ==
  ASSUME Ready, NEW t \in Threads, written(t)
  PROVE  th[t].op = "setSize" /\ th[t].pc = "written" /\ (WroteLarger(t) \/ WroteSmaller(t)) /\ Calm(t)
<1>0. Typed /\ PlacesOK /\ RefsOK /\ KeptOK
  BY ReadyIs
<1>1. th[t].pc = "written" /\ Wrote(t) /\ th[t].write = "fcb"
  BY <1>0, WrittenDoes
<1>2. th[t].op # "rename"
  BY <1>0, <1>1 DEF KeptOK, KeptOf, PlacesOK, SharedOK, Kept, Flushes
<1>3. WroteLarger(t) \/ WroteSmaller(t)
  BY <1>1, <1>2 DEF Wrote, WroteNew, WroteNewName, WroteMoved, WroteErased
<1>4. ~Moved(t) /\ ~Erasing(t) /\ ~Unwritten(t, th[t].s)
  BY <1>1, <1>2 DEF Moved, Renaming, Erasing, Writes, Unwritten
<1> QED
  BY <1>1, <1>3, <1>4 DEF Calm, DoubtBy, WroteLarger, WroteSmaller

(* getClusNum() finds the cluster of the position. *)
LEMMA GetIsWalk ==
  ASSUME Typed, NEW s \in Streams, stream[s] # None, NEW position \in Nat,
         stream[s].lastClus \in Clusters => HintOf(s)
  PROVE  getClusNum(stream[s], position) = Walk(fat, stream[s].fstClus, position \div BytsPerClus)
<1> DEFINE st == stream[s]
           i == position \div BytsPerClus
<1>1. i \in Nat /\ st.lastPosition \in Nat /\ st.lastClus \in Links
  BY Numbers, DivNat, StreamTyped
<1>2. getClusNum(st, position) = IF i < st.lastPosition \/ st.lastClus = 0 \/ isEof(st.lastClus)
                                 THEN Walk(fat, st.fstClus, i) ELSE Walk(fat, st.lastClus, i - st.lastPosition)
  BY DEF getClusNum, Nth
<1>3. ASSUME ~(i < st.lastPosition \/ st.lastClus = 0 \/ isEof(st.lastClus))
      PROVE  Walk(fat, st.lastClus, i - st.lastPosition) = Walk(fat, st.fstClus, i)
  <2>1. st.lastClus \in Clusters
    BY <1>1, <1>3, Numbers DEF Links, Eof, isEof, Clusters
  <2>2. st.lastClus = Walk(fat, st.fstClus, st.lastPosition)
    BY <2>1 DEF HintOf
  <2>3. i - st.lastPosition \in Nat /\ st.lastPosition + (i - st.lastPosition) = i
    BY <1>1, <1>3
  <2> HIDE DEF i
  <2> QED
    BY <1>1, <2>2, <2>3, WalkOn
<1> QED
  BY <1>2, <1>3

(* Nobody else is in the setSize() of a stream that is not locked. *)
LEMMA HintThere ==
  ASSUME Typed, PlacesOK, LocksOK, HintsOK, NEW t \in Threads, NEW s \in Streams, stream[s] # None,
         Unlocked(s, t) \/ th[t].lock = s, ~Resets(t, s)
  PROVE  stream[s].lastClus \in Clusters => HintOf(s)
<1>1. \A u \in Threads \ {t} : ~Resets(u, s)
  BY OneResizes DEF Resets
<1> QED
  BY <1>1 DEF HintsOK

(* The links of the chain from r stay, as far as it went. *)
Untouched(f, g, r) == \A n \in Nat : IsLong(f, r, n) => \A i \in 0 .. n - 1 : g[Walk(f, r, i)] = f[Walk(f, r, i)]

(* A link in the chain of another changes. *)
LEMMA OtherUntouched ==
  ASSUME NEW f \in [Clusters -> Links], Linked(f), NEW q \in Clusters, IsRoot(f, q), NEW m \in Nat, IsLong(f, q, m + 1),
         NEW x, x = Walk(f, q, m),
         NEW v, NEW g, Relinks(f, g, x, v), NEW r \in Clusters, IsRoot(f, r), r # q
  PROVE  Untouched(f, g, r)
<1> SUFFICES ASSUME NEW n \in Nat, IsLong(f, r, n), NEW i \in 0 .. n - 1 PROVE g[Walk(f, r, i)] = f[Walk(f, r, i)]
  BY DEF Untouched
<1>1. m \in 0 .. (m + 1) - 1 /\ m + 1 \in Nat
  OBVIOUS
<1>2. Walk(f, r, i) # x
  BY <1>1, ChainsApart
<1>3. Walk(f, r, i) \in Clusters
  BY DEF IsLong
<1> QED
  BY <1>2, <1>3 DEF Relinks

(* The link of a free cluster changes. *)
LEMMA FreeUntouched ==
  ASSUME NEW f \in [Clusters -> Links], Linked(f), NEW x \in Clusters, f[x] = 0,
         NEW v, NEW g, Relinks(f, g, x, v), NEW r \in Clusters, IsRoot(f, r)
  PROVE  Untouched(f, g, r)
<1> SUFFICES ASSUME NEW n \in Nat, IsLong(f, r, n), NEW i \in 0 .. n - 1 PROVE g[Walk(f, r, i)] = f[Walk(f, r, i)]
  BY DEF Untouched
<1>1. Walk(f, r, i) # x
  BY LongIsUsed
<1>2. Walk(f, r, i) \in Clusters
  BY DEF IsLong
<1> QED
  BY <1>1, <1>2 DEF Relinks

(* A step leaves a chain alone: it stays a chain, and goes the same way. *)
ChainKept(r) == KeepsChain(fat, fat', r) /\ Untouched(fat, fat', r)
(* Every chain is left alone, but perhaps the one from q. *)
Spared(q) == \A r \in Clusters : Starts(r) /\ r # q => ChainKept(r)

(* A step that leaves the FAT leaves every chain. *)
LEMMA SparedSame ==
  ASSUME fat' = fat
  PROVE  \A r : ChainKept(r)
BY DEF ChainKept, KeepsChain, Untouched

(* The FAT, the chains that begin, and the cluster of mark(). *)
GraphOK == Linked(fat) /\ RootsOK /\ SpareOK

(* The graph stays sound when the FAT stays and no chain begins. *)
LEMMA GraphStays ==
  ASSUME GraphOK, NoStarts, fat' = fat,
         \A u \in Threads : th'[u].pc = "link" => th[u].pc = "link" /\ nxtFree' = nxtFree /\ nxtFree \in Clusters
  PROVE  GraphOK'
<1>1. Linked(fat)' /\ \A r : IsRoot(fat, r) <=> IsRoot(fat', r)
  BY DEF GraphOK
<1>2. RootsOK'
  BY <1>1 DEF GraphOK, RootsOK, NoStarts
<1>3. SpareOK'
  BY <1>1 DEF GraphOK, SpareOK, NoStarts
<1> QED
  BY <1>1, <1>2, <1>3 DEF GraphOK

(* mark() makes a chain of one cluster, that nobody has yet. *)
LEMMA MarkFat ==
  ASSUME Ready, GraphOK, HeadsOK, NEW t \in Threads, mark(t)
  PROVE  HeadsOK' /\ NoStarts /\ SureFrom /\ GraphOK' /\ Spared(0) /\ fat'[nxtFree'] = Eof
<1>0. Typed /\ PlacesOK /\ RefsOK /\ KeptOK /\ Quiet(t) /\ Steady(t)
  <2>1. Quiet(t)
    BY Zenon DEF Quiet
  <2> QED
    BY <2>1, ReadyIs, QuietSteady
<1>1. PICK c \in Clusters : /\ fat[c] = 0 /\ Relinks(fat, fat', c, Eof) /\ nxtFree' = c
                            /\ th[t].pc = "mark" /\ Goes(t, "link") /\ dir' = dir /\ stream' = stream
  BY <1>0, MarkDoes DEF Relinks
<1>2. HeadsOK' /\ NoStarts /\ SureFrom
  <2>1. StreamsFrom /\ th'[t].clus = th[t].clus
    BY <1>1 DEF StreamsFrom, Goes, SameChain
  <2> QED
    BY <1>0, <1>1, <2>1, CalmCall, CalmHeads
<1>3. /\ Linked(fat') /\ IsRoot(fat', c)
      /\ \A r \in Clusters : IsRoot(fat, r) => IsRoot(fat', r) /\ r # c
  BY <1>0, <1>1, MarkGraph DEF GraphOK, Typed
<1>4. fat'[c] = Eof
  BY <1>0, <1>1 DEF Relinks, Typed
<1>5. RootsOK' /\ ~Starts(c)'
  BY <1>2, <1>3 DEF GraphOK, RootsOK, NoStarts
<1>6. SpareOK'
  <2>1. c = nxtFree'
    BY <1>1
  <2> QED
    BY <1>3, <1>4, <1>5, <2>1 DEF SpareOK
<1>7. Spared(0)
  <2> SUFFICES ASSUME NEW r \in Clusters, IsRoot(fat, r) PROVE ChainKept(r)
    BY DEF Spared, GraphOK, RootsOK
  <2>1. KeepsChain(fat, fat', r)
    BY <1>0, <1>1, Numbers, EndKeeps DEF Typed
  <2>2. Untouched(fat, fat', r)
    BY <1>0, <1>1, FreeUntouched DEF Typed, GraphOK
  <2> QED
    BY <2>1, <2>2 DEF ChainKept
<1> QED
  BY <1>1, <1>2, <1>3, <1>4, <1>5, <1>6, <1>7 DEF GraphOK

(* Nobody is at link() when another is, or after it. *)
LEMMA NobodyLinks ==
  ASSUME Ready, NEW t \in Threads, fatMonitor \in {None, t}
  PROVE  \A u \in Threads \ {t} : th[u].pc # "link"
BY ReadyIs, FatAssumption DEF PlacesOK, SharedOK

(* link() begins the chain of the call, or makes it longer by one cluster. *)
LEMMA LinkFat ==
  ASSUME Ready, GraphOK, HeadsOK, AllocOK, NEW t \in Threads, link(t)
  PROVE  /\ HeadsOK' /\ GraphOK' /\ NoOtherStarts(t) /\ SureFrom
         /\ th[t].prev = 0 => fat' = fat
         /\ th[t].prev # 0 => /\ th[t].clus \in Clusters /\ Starts(th[t].clus)
                              /\ Relinks(fat, fat', th[t].prev, nxtFree)
                              /\ Spared(th[t].clus) /\ KeepsChain(fat, fat', th[t].clus)
                              /\ th[t].prev # nxtFree
<1>0. Typed /\ PlacesOK /\ RefsOK /\ KeptOK /\ Quiet(t) /\ Steady(t)
  <2>1. Quiet(t)
    BY Zenon DEF Quiet
  <2> QED
    BY <2>1, ReadyIs, QuietSteady
<1>1. PICK v \in Clusters : /\ v = nxtFree /\ th[t].pc = "link" /\ dir' = dir /\ stream' = stream
                            /\ th'[t].clus = (IF th[t].prev = 0 THEN v ELSE th[t].clus)
                            /\ fat' = (IF th[t].prev = 0 THEN fat ELSE [fat EXCEPT ![th[t].prev] = v])
                            /\ th'[t].pc # "link"
  BY <1>0, LinkDoes
<1>2. fat[v] = Eof /\ IsRoot(fat, v) /\ ~Starts(v)
  BY <1>1 DEF GraphOK, SpareOK
<1>3. Calm(t) /\ StreamsFrom
  BY <1>0, <1>1, CalmCall DEF StreamsFrom
<1>4. \A u \in Threads : th'[u].pc # "link"
  <2>1. fatMonitor = t
    BY <1>0, <1>1 DEF PlacesOK, SharedOK
  <2> QED
    BY <1>0, <1>1, <2>1, NobodyLinks DEF Steady
<1>5. CASE th[t].prev = 0
  <2>1. HeadsOK' /\ NoOtherStarts(t) /\ SureFrom
    BY <1>0, <1>1, <1>2, <1>3, <1>5, FreshHeads
  <2>2. Linked(fat)' /\ \A r : IsRoot(fat, r) => IsRoot(fat, r)'
    BY <1>1, <1>5 DEF GraphOK
  <2>3. RootsOK'
    BY <1>1, <1>2, <1>5, <2>1, <2>2 DEF RootsOK, GraphOK, NoOtherStarts
  <2>4. SpareOK'
    BY <1>4 DEF SpareOK
  <2> QED
    BY <1>1, <1>5, <2>1, <2>2, <2>3, <2>4 DEF GraphOK
<1>6. CASE th[t].prev # 0
  <2>1. PICK x \in Clusters, k \in Nat, q \in Links :
               /\ x = th[t].prev /\ q = th[t].clus /\ k # 0
               /\ IsLong(fat, q, k) /\ x = Walk(fat, q, k - 1) /\ fat[x] = Eof
    BY <1>0, <1>1, <1>6, CallTyped DEF AllocOK, AllocOf, Chained
  <2>2. q \in Clusters /\ Starts(q)
    BY <2>1, NoChain DEF Starts
  <2>3. IsRoot(fat, q) /\ q # v
    BY <1>2, <2>2 DEF GraphOK, RootsOK
  <2>4. x # v
    <3>1. k - 1 \in 0 .. k - 1
      BY <2>1
    <3> QED
      BY <1>2, <2>1, <2>2, <2>3, <3>1, RootIsFirst
  <2>5. HeadsOK' /\ NoStarts /\ SureFrom
    BY <1>0, <1>1, <1>3, <1>6, CalmHeads
  <2>6. Relinks(fat, fat', x, v)
    BY <1>1, <1>6, <2>1 DEF Relinks
  <2>7. Linked(fat)' /\ \A r \in Clusters \ {v} : IsRoot(fat, r) => IsRoot(fat, r)'
    BY <1>0, <1>2, <2>6, HangGraph DEF GraphOK, Typed
  <2>8. RootsOK'
    BY <1>2, <2>5, <2>7 DEF RootsOK, GraphOK, NoStarts
  <2>9. SpareOK'
    BY <1>4 DEF SpareOK
  <2>10. KeepsChain(fat, fat', q) /\ \A r : KeepsChain(fat, fat', r)
    BY <1>0, <2>1, <2>6, Numbers, EndKeeps DEF Typed
  <2>11. Spared(q)
    <3> SUFFICES ASSUME NEW r \in Clusters, r # q, IsRoot(fat, r) PROVE ChainKept(r)
      BY DEF Spared, GraphOK, RootsOK
    <3>1. PICK m \in Nat : m = k - 1 /\ m + 1 = k
      BY <2>1
    <3>2. Untouched(fat, fat', r)
      BY <1>0, <2>1, <2>2, <2>3, <2>6, <3>1, OtherUntouched DEF Typed, GraphOK
    <3> QED
      BY <2>10, <3>2 DEF ChainKept
  <2>12. NoOtherStarts(t)
    BY <2>5 DEF NoOtherStarts, NoStarts
  <2> QED
    BY <1>1, <1>6, <2>1, <2>2, <2>4, <2>5, <2>6, <2>7, <2>8, <2>9, <2>10, <2>11, <2>12 DEF GraphOK
<1> QED
  BY <1>5, <1>6

(* Two chains are one when the last cluster of the first has the other for its link. *)
LEMMA Joined ==
  ASSUME NEW g, NEW q, NEW m \in Nat, IsLong(g, q, m + 1), NEW v, g[Walk(g, q, m)] = v, NEW k \in Nat, IsLong(g, v, k)
  PROVE  IsLong(g, q, (m + 1) + k)
<1> SUFFICES ASSUME NEW i \in 0 .. ((m + 1) + k) - 1 PROVE Walk(g, q, i) \in Clusters
  BY DEF IsLong
<1>1. CASE i < m + 1
  <2>1. i \in 0 .. (m + 1) - 1
    BY <1>1
  <2> QED
    BY <2>1 DEF IsLong
<1>2. CASE ~(i < m + 1)
  <2>1. PICK j \in Nat : j = i - (m + 1) /\ i = (m + 1) + j /\ j \in 0 .. k - 1
    BY <1>2
  <2>2. Walk(g, q, m) \in Clusters
    <3>1. m \in 0 .. (m + 1) - 1
      OBVIOUS
    <3> QED
      BY <3>1 DEF IsLong
  <2>3. Walk(g, q, m + 1) = v /\ m + 1 \in Nat
    BY <2>2, WalkStep
  <2>4. Walk(g, q, (m + 1) + j) = Walk(g, v, j)
    BY <2>3, WalkOn
  <2> QED
    BY <2>1, <2>4 DEF IsLong
<1> QED
  BY <1>1, <1>2

(* The clusters of a file that nobody resizes. *)
LEMMA SizedLong ==
  ASSUME Ready, StreamsLong, NEW s \in Streams, stream[s] # None, \A u \in Threads : ~Resized(u, s)
  PROVE  /\ stream[s].fcb.size = stream[s].size
         /\ IsLong(fat, stream[s].fstClus, ClustersOf(stream[s].size))
         /\ stream[s].size = 0 => stream[s].fstClus = 0
BY ReadyIs DEF FcbOK, FcbOf, StreamsLong

(* chain() hangs the new clusters on the last one of the file. *)
LEMMA ChainFat ==
  ASSUME Ready, GraphOK, HeadsOK, StreamsLong, AllocOK, HintsOK, NEW t \in Threads, chain(t),
         NEW s \in Streams, s = th[t].s, stream[s].size > 0
  PROVE  /\ HeadsOK' /\ NoStarts /\ SureFrom /\ GraphOK' /\ Spared(stream[s].fstClus)
         /\ \E m, x :
              /\ m \in Nat
              /\ m + 1 = ClustersOf(stream[s].size) /\ x = Walk(fat, stream[s].fstClus, m)
              /\ stream[s].fstClus \in Clusters /\ IsRoot(fat, stream[s].fstClus)
              /\ IsLong(fat, stream[s].fstClus, m + 1)
              /\ Relinks(fat, fat', x, th[t].clus)
              /\ th[t].clus \in Clusters /\ th[t].clus # stream[s].fstClus
              /\ stream'[s].lastPosition = m /\ stream'[s].lastClus = x
<1>0. /\ Typed /\ PlacesOK /\ RefsOK /\ LocksOK /\ KeptOK /\ fat \in [Clusters -> Links]
  BY ReadyIs DEF Typed
<1>1. /\ th[t].pc = "chain" /\ th[t].op = "setSize" /\ stream[s] # None /\ ChainEffect(t)
      /\ dir' = dir /\ th[t].lock = s /\ th'[t].pc # "link" /\ nxtFree' = nxtFree
      /\ \A u \in Threads \ {t} : th'[u] = th[u]
  BY <1>0, ChainDoes DEF PlacesOK, CallOK, Flushing, CallStep
<1>2. ~Resized(t, s) /\ ~Resets(t, s)
  BY <1>1 DEF Resized, Resets
<1>3. \A u \in Threads : ~Resized(u, s)
  BY <1>0, <1>1, <1>2, OneResizes
<1>4. PICK q, size : q = stream[s].fstClus /\ size = stream[s].size /\ size > 0 /\ size \in Nat
  <2>1. stream[s].size \in Nat
    BY <1>0, <1>1, StreamTyped
  <2> QED
    BY <2>1
<1>5. PICK m \in Nat : m = (size - 1) \div BytsPerClus /\ m + 1 = ClustersOf(size) /\ size - 1 \in Nat
  <2>1. size - 1 \in Nat /\ ClustersOf(size) = ((size - 1) \div BytsPerClus) + 1
    BY <1>4, ClustersAre
  <2> QED
    BY <2>1, Numbers, DivNat
<1>6. IsLong(fat, q, m + 1)
  BY <1>1, <1>3, <1>4, <1>5, SizedLong
<1>7. PICK x : x = Walk(fat, q, m)
  OBVIOUS
<1>8. q \in Clusters /\ x \in Clusters
  <2>1. 0 \in 0 .. (m + 1) - 1 /\ m \in 0 .. (m + 1) - 1
    OBVIOUS
  <2>2. Walk(fat, q, 0) = q
    BY WalkUnfolds
  <2> QED
    BY <1>6, <1>7, <2>1, <2>2 DEF IsLong
<1>9. IsRoot(fat, q)
  BY <1>1, <1>4, <1>8 DEF GraphOK, RootsOK, Starts
<1>10. getClusNum(stream[s], size - 1) = x
  <2>1. stream[s].lastClus \in Clusters => HintOf(s)
    BY <1>0, <1>1, <1>2, HintThere
  <2> QED
    BY <1>0, <1>1, <1>4, <1>5, <1>7, <2>1, GetIsWalk
<1>11. PICK v : v = th[t].clus
  OBVIOUS
<1>12. v \in Clusters
  <2>1. PICK k \in Nat : k # 0 /\ IsLong(fat, v, k)
    <3>1. /\ ClustersOf(th[t].size) > ClustersOf(stream[s].size) /\ th[t].n = 0
          /\ Chained(t, ClustersOf(th[t].size) - ClustersOf(stream[s].size) - th[t].n)
      BY <1>1 DEF AllocOK, AllocOf
    <3>2. PICK a \in Nat, b \in Nat : a = ClustersOf(th[t].size) /\ b = ClustersOf(stream[s].size)
      BY <1>0, <1>4, CallTyped, Clusters0
    <3>3. a - b - th[t].n \in Nat /\ a - b - th[t].n # 0
      BY <3>1, <3>2
    <3> QED
      BY <1>11, <3>1, <3>2, <3>3 DEF Chained
  <2> QED
    BY <2>1, NoChain
<1>13. IsRoot(fat, v) /\ v # q
  BY <1>1, <1>4, <1>11, <1>12 DEF GraphOK, RootsOK, Starts, HeadsOK, CallsAside
<1>14. /\ Relinks(fat, fat', x, v) /\ stream'[s].lastPosition = m /\ stream'[s].lastClus = x
  <2>1. LET last == Sought(stream[s], size - 1) IN last.lastPosition = m /\ last.lastClus = x
    BY <1>0, <1>1, <1>4, <1>5, <1>10, StreamTyped, SoughtTyped
  <2> QED
    BY <1>1, <1>4, <1>11, <2>1 DEF ChainEffect, Relinks
<1>15. /\ HeadsOK' /\ NoStarts /\ SureFrom /\ ~Starts(v)'
  BY <1>4, <1>11, <1>12, ChainHeads
<1>16. Linked(fat)' /\ \A r \in Clusters \ {v} : IsRoot(fat, r) => IsRoot(fat, r)'
  BY <1>0, <1>8, <1>12, <1>13, <1>14, HangGraph DEF GraphOK
<1>17. RootsOK'
  BY <1>15, <1>16 DEF RootsOK, GraphOK, NoStarts
<1>18. SpareOK'
  <2>1. \A u \in Threads : th'[u].pc # "link"
    BY <1>0, <1>1, ChainDoes, NobodyLinks
  <2> QED
    BY <2>1 DEF SpareOK
<1>19. Spared(q)
  <2> SUFFICES ASSUME NEW r \in Clusters, r # q, IsRoot(fat, r) PROVE ChainKept(r)
    BY DEF Spared, GraphOK, RootsOK
  <2>1. KeepsChain(fat, fat', r)
    BY <1>0, <1>6, <1>7, <1>8, <1>9, <1>14, OthersKeep DEF GraphOK
  <2>2. Untouched(fat, fat', r)
    BY <1>0, <1>6, <1>7, <1>8, <1>9, <1>14, OtherUntouched DEF GraphOK
  <2> QED
    BY <2>1, <2>2 DEF ChainKept
<1> QED
  BY <1>4, <1>5, <1>6, <1>7, <1>8, <1>9, <1>11, <1>12, <1>13, <1>14, <1>15, <1>16, <1>17, <1>18, <1>19 DEF GraphOK

(* cut() makes the rest of a chain one of its own. *)
LEMMA CutFat ==
  ASSUME Ready, GraphOK, HeadsOK, StreamsLong, HintsOK, NEW t \in Threads, cut(t),
         NEW s \in Streams, s = th[t].s, th[t].size # 0
  PROVE  /\ HeadsOK' /\ NoOtherStarts(t) /\ SureFrom /\ GraphOK' /\ Spared(stream[s].fstClus)
         /\ \E m, x :
              /\ m \in Nat
              /\ m + 1 = ClustersOf(th[t].size) /\ x = Walk(fat, stream[s].fstClus, m)
              /\ stream[s].fstClus \in Clusters /\ IsRoot(fat, stream[s].fstClus)
              /\ IsLong(fat, stream[s].fstClus, m + 1)
              /\ Relinks(fat, fat', x, Eof)
<1>0. /\ Typed /\ PlacesOK /\ RefsOK /\ LocksOK /\ KeptOK /\ FcbOK /\ fat \in [Clusters -> Links] /\ Quiet(t) /\ Steady(t)
  <2>1. Quiet(t)
    BY Zenon DEF Quiet
  <2> QED
    BY <2>1, ReadyIs, QuietSteady DEF Typed
<1>1. /\ th[t].pc = "cut" /\ th[t].op = "setSize" /\ stream[s] # None /\ stream' = stream
      /\ dir' = dir /\ th[t].lock = s /\ th'[t].pc # "link" /\ fatMonitor = None
      /\ fat' = [fat EXCEPT ![getClusNum(stream[s], th[t].size - 1)] = Eof]
      /\ th'[t].clus = After(fat, getClusNum(stream[s], th[t].size - 1))
  BY <1>0, CutDoes DEF PlacesOK, CallOK
<1>2. Resized(t, s) /\ ~Resets(t, s)
  BY <1>1 DEF Resized, Resets
<1>4. PICK q, size : q = stream[s].fstClus /\ size = th[t].size /\ size > 0 /\ size \in Nat
  <2>1. th[t].size \in Nat /\ th[t].size > 0
    BY <1>0, CallTyped
  <2> QED
    BY <2>1
<1>5. PICK m \in Nat : m = (size - 1) \div BytsPerClus /\ m + 1 = ClustersOf(size) /\ size - 1 \in Nat
  <2>1. size - 1 \in Nat /\ ClustersOf(size) = ((size - 1) \div BytsPerClus) + 1
    BY <1>4, ClustersAre
  <2> QED
    BY <2>1, Numbers, DivNat
<1>6. IsLong(fat, q, m + 1)
  <2>1. stream[s].fcb.size = size
    BY <1>0, <1>1, <1>2, <1>4 DEF FcbOK, FcbOf
  <2> QED
    BY <1>1, <1>4, <1>5, <2>1 DEF StreamsLong
<1>7. PICK x : x = Walk(fat, q, m)
  OBVIOUS
<1>8. q \in Clusters /\ x \in Clusters
  <2>1. 0 \in 0 .. (m + 1) - 1 /\ m \in 0 .. (m + 1) - 1
    OBVIOUS
  <2>2. Walk(fat, q, 0) = q
    BY WalkUnfolds
  <2> QED
    BY <1>6, <1>7, <2>1, <2>2 DEF IsLong
<1>9. IsRoot(fat, q)
  BY <1>1, <1>4, <1>8 DEF GraphOK, RootsOK, Starts
<1>10. getClusNum(stream[s], size - 1) = x
  <2>1. stream[s].lastClus \in Clusters => HintOf(s)
    BY <1>0, <1>1, <1>2, HintThere
  <2> QED
    BY <1>0, <1>1, <1>4, <1>5, <1>7, <2>1, GetIsWalk
<1>11. Relinks(fat, fat', x, Eof) /\ th'[t].clus = fat[x]
  BY <1>1, <1>4, <1>8, <1>10 DEF Relinks, After
<1>12. /\ Linked(fat)' /\ \A r \in Clusters : IsRoot(fat, r) => IsRoot(fat, r)'
       /\ fat[x] \in Clusters => IsRoot(fat', fat[x]) /\ ~IsRoot(fat, fat[x])
  BY <1>0, <1>8, <1>11, CutGraph DEF GraphOK
<1>13. HeadsOK' /\ NoOtherStarts(t) /\ SureFrom
  <2>1. th'[t].clus \in Clusters => ~Starts(th'[t].clus)
    BY <1>11, <1>12 DEF GraphOK, RootsOK
  <2>2. StreamsFrom
    BY <1>1 DEF StreamsFrom
  <2> QED
    BY <1>0, <1>1, <2>1, <2>2, CalmCall, FreshHeads
<1>14. RootsOK'
  BY <1>11, <1>12, <1>13 DEF RootsOK, GraphOK, NoOtherStarts
<1>15. SpareOK'
  <2>1. \A u \in Threads : th'[u].pc # "link"
    BY <1>0, <1>1, NobodyLinks DEF Steady
  <2> QED
    BY <2>1 DEF SpareOK
<1>16. Spared(q)
  <2> SUFFICES ASSUME NEW r \in Clusters, r # q, IsRoot(fat, r) PROVE ChainKept(r)
    BY DEF Spared, GraphOK, RootsOK
  <2>1. KeepsChain(fat, fat', r)
    BY <1>0, <1>6, <1>7, <1>8, <1>9, <1>11, OthersKeep DEF GraphOK
  <2>2. Untouched(fat, fat', r)
    BY <1>0, <1>6, <1>7, <1>8, <1>9, <1>11, OtherUntouched DEF GraphOK
  <2> QED
    BY <2>1, <2>2 DEF ChainKept
<1> QED
  BY <1>4, <1>5, <1>6, <1>7, <1>8, <1>9, <1>11, <1>12, <1>13, <1>14, <1>15, <1>16 DEF GraphOK

(* freeCluster() takes the first cluster from the chain of the call. *)
LEMMA FreesFat ==
  ASSUME Ready, GraphOK, HeadsOK, NEW t \in Threads, freeCluster(t), Frees(t)
  PROVE  /\ HeadsOK' /\ NoOtherStarts(t) /\ SureFrom /\ GraphOK' /\ Spared(th[t].clus)
         /\ fat[th[t].clus] # 0
<1>0. /\ Typed /\ PlacesOK /\ RefsOK /\ fat \in [Clusters -> Links]
  BY ReadyIs DEF Typed
<1>1. PICK x \in Clusters : /\ x = th[t].clus /\ Relinks(fat, fat', x, 0) /\ th'[t].clus = fat[x] /\ th'[t].pc # "link"
                            /\ fatMonitor = None /\ \A u \in Threads \ {t} : th'[u] = th[u]
  BY <1>0, FreeClusterDoes DEF Frees, Relinks, CallStep
<1>2. IsRoot(fat, x)
  BY <1>1 DEF GraphOK, RootsOK, Starts
<1>3. /\ Linked(fat)' /\ \A r \in Clusters \ {x} : IsRoot(fat, r) => IsRoot(fat, r)'
      /\ fat[x] \in Clusters => fat[x] # x /\ IsRoot(fat', fat[x]) /\ ~IsRoot(fat, fat[x])
  BY <1>0, <1>1, <1>2, FreeGraph DEF GraphOK
<1>4. HeadsOK' /\ NoOtherStarts(t) /\ SureFrom /\ ~Starts(x)'
  <2>1. fat[x] \in Clusters => ~Starts(fat[x])
    BY <1>3 DEF GraphOK, RootsOK
  <2>2. fat[x] # x
    BY <1>3
  <2> QED
    BY <1>1, <2>1, <2>2, FreesHeads
<1>5. RootsOK'
  BY <1>1, <1>3, <1>4 DEF RootsOK, GraphOK, NoOtherStarts
<1>6. SpareOK'
  <2>1. \A u \in Threads : th'[u].pc # "link"
    BY <1>1, NobodyLinks
  <2> QED
    BY <2>1 DEF SpareOK
<1>7. Spared(x)
  <2> SUFFICES ASSUME NEW r \in Clusters, r # x, IsRoot(fat, r) PROVE ChainKept(r)
    BY DEF Spared, GraphOK, RootsOK
  <2>1. IsLong(fat, x, 0 + 1) /\ Walk(fat, x, 0) = x
    BY WalkUnfolds DEF IsLong
  <2>2. KeepsChain(fat, fat', r)
    BY <1>0, <1>1, <1>2, <2>1, OthersKeep DEF GraphOK
  <2>3. Untouched(fat, fat', r)
    BY <1>0, <1>1, <1>2, <2>1, OtherUntouched DEF GraphOK
  <2> QED
    BY <2>2, <2>3 DEF ChainKept
<1> QED
  BY <1>1, <1>2, <1>3, <1>4, <1>5, <1>6, <1>7 DEF GraphOK, IsRoot

(* A chain that a step leaves alone is as long as it was, and goes the same way. *)
LEMMA SparedLong ==
  ASSUME NEW q, Spared(q), NEW r, Starts(r), r \in Clusters => r # q, NEW n \in Nat, IsLong(fat, r, n)
  PROVE  /\ IsLong(fat', r, n)
         /\ \A i \in 0 .. n - 1 : /\ Walk(fat', r, i) = Walk(fat, r, i)
                                  /\ fat'[Walk(fat, r, i)] = fat[Walk(fat, r, i)]
<1>1. CASE r \in Clusters
  BY <1>1 DEF Spared, ChainKept, KeepsChain, Untouched
<1>2. CASE r \notin Clusters
  <2>1. n = 0
    BY <1>2, NoChain
  <2> QED
    BY <2>1 DEF IsLong
<1> QED
  BY <1>1, <1>2

(* A stream has as many clusters as the size in its fcb needs. *)
LongStream(s) == /\ IsLong(fat, stream[s].fstClus, ClustersOf(stream[s].fcb.size))
                 /\ stream[s].fcb.size = 0 => stream[s].fstClus = 0
(* The same for an entry. *)
LongEntry(o) == /\ IsLong(fat, dir[o].fstClus, ClustersOf(dir[o].size))
                /\ dir[o].size = 0 => dir[o].fstClus = 0

(* A stream keeps its clusters unless its chain is the one that changes, or it is long enough after all. *)
LEMMA StreamsStayLong ==
  ASSUME Typed, StreamsLong, NEW q, Spared(q),
         \A s \in Streams : stream'[s] # None =>
            \/ /\ stream[s] # None /\ stream'[s].fstClus = stream[s].fstClus
               /\ stream'[s].fcb.size = stream[s].fcb.size /\ (stream[s].fstClus \in Clusters => stream[s].fstClus # q)
            \/ LongStream(s)'
  PROVE  StreamsLong'
<1> SUFFICES ASSUME NEW s \in Streams, stream[s] # None, stream'[s] # None, stream'[s].fstClus = stream[s].fstClus,
                    stream'[s].fcb.size = stream[s].fcb.size, stream[s].fstClus \in Clusters => stream[s].fstClus # q
             PROVE  LongStream(s)'
  BY DEF StreamsLong, LongStream
<1>1. ClustersOf(stream[s].fcb.size) \in Nat
  BY StreamTyped, Clusters0
<1>2. LongStream(s) /\ Starts(stream[s].fstClus)
  BY DEF StreamsLong, LongStream, Starts
<1>3. PICK r, n : r = stream[s].fstClus /\ n = ClustersOf(stream[s].fcb.size) /\ n \in Nat
  BY <1>1
<1>4. IsLong(fat', r, n)
  BY <1>2, <1>3, SparedLong DEF LongStream
<1> QED
  BY <1>2, <1>3, <1>4 DEF LongStream

(* So does an entry. *)
LEMMA EntriesStayLong ==
  ASSUME Typed, EntriesLong, NEW q, Spared(q),
         \A o \in Slots : Sure(o)' =>
            \/ Sure(o) /\ dir'[o] = dir[o] /\ (dir[o].fstClus \in Clusters => dir[o].fstClus # q)
            \/ LongEntry(o)'
  PROVE  EntriesLong'
<1> SUFFICES ASSUME NEW o \in Slots, Sure(o), dir'[o] = dir[o], dir[o].fstClus \in Clusters => dir[o].fstClus # q
             PROVE  LongEntry(o)'
  BY DEF EntriesLong, LongEntry
<1>1. ClustersOf(dir[o].size) \in Nat
  BY EntryTyped, Clusters0 DEF Sure
<1>2. LongEntry(o) /\ Starts(dir[o].fstClus)
  BY DEF EntriesLong, LongEntry, Starts
<1>3. PICK r, n : r = dir[o].fstClus /\ n = ClustersOf(dir[o].size) /\ n \in Nat
  BY <1>1
<1>4. IsLong(fat', r, n)
  BY <1>2, <1>3, SparedLong DEF LongEntry
<1> QED
  BY <1>2, <1>3, <1>4 DEF LongEntry

(* What getClusNum() remembers of the chain stays right. *)
LEMMA HintsStay ==
  ASSUME Typed, HintsOK, NEW q, Spared(q),
         \A s \in Streams : stream'[s] # None /\ stream'[s].lastClus \in Clusters =>
            \/ /\ stream[s] # None /\ stream'[s].fstClus = stream[s].fstClus /\ SameHint(s)
               /\ stream[s].fstClus \in Clusters => stream[s].fstClus # q
               /\ \A u \in Threads : Resets(u, s) => \E v \in Threads : Resets(v, s)'
            \/ HintOf(s)'
            \/ \E v \in Threads : Resets(v, s)'
  PROVE  HintsOK'
<1> SUFFICES ASSUME NEW s \in Streams, stream[s] # None, stream'[s].fstClus = stream[s].fstClus, SameHint(s),
                    stream[s].fstClus \in Clusters => stream[s].fstClus # q, stream[s].lastClus \in Clusters, HintOf(s)
             PROVE  HintOf(s)'
  BY DEF HintsOK, SameHint
<1>1. PICK r \in Links, n \in Nat : r = stream[s].fstClus /\ n = stream[s].lastPosition
  BY StreamTyped, Numbers
<1>2. Walk(fat, r, n) \in Clusters
  BY <1>1 DEF HintOf
<1>3. IsLong(fat, r, n + 1) /\ n \in 0 .. (n + 1) - 1 /\ n + 1 \in Nat
  BY <1>2, WalkIsLong DEF Typed
<1>4. Starts(r)
  BY <1>1 DEF Starts
<1>5. Walk(fat', r, n) = Walk(fat, r, n)
  BY <1>1, <1>3, <1>4, SparedLong
<1> QED
  BY <1>1, <1>5 DEF HintOf, SameHint

(* What allocCluster() has chained for another call stays so. *)
LEMMA ChainedStays ==
  ASSUME NEW q, Spared(q), NEW u \in Threads, th'[u].clus = th[u].clus, th'[u].prev = th[u].prev,
         th[u].clus \in Clusters => th[u].clus # q, NEW k \in Nat, Chained(u, k)
  PROVE  Chained(u, k)'
<1>1. CASE k = 0
  BY <1>1 DEF Chained
<1>2. CASE k # 0
  <2>1. PICK r : r = th[u].clus
    OBVIOUS
  <2>2. IsLong(fat, r, k) /\ th[u].prev = Walk(fat, r, k - 1) /\ fat[Walk(fat, r, k - 1)] = Eof /\ Starts(r)
    BY <1>2, <2>1 DEF Chained, Starts
  <2>3. k - 1 \in 0 .. k - 1
    BY <1>2
  <2>4. IsLong(fat', r, k) /\ Walk(fat', r, k - 1) = Walk(fat, r, k - 1) /\ fat'[Walk(fat, r, k - 1)] = Eof
    BY <2>1, <2>2, <2>3, SparedLong
  <2> QED
    BY <1>2, <2>1, <2>2, <2>4 DEF Chained
<1> QED
  BY <1>1, <1>2

(* A call that allocates keeps what it has chained while others are at work on another chain. *)
LEMMA AllocStays ==
  ASSUME AllocOK, NEW q, Spared(q), NEW u \in Threads, th'[u] = th[u], th[u].clus \in Clusters => th[u].clus # q,
         th[u].pc \in {"alloc", "mark", "link", "chain"} => stream'[th[u].s].size = stream[th[u].s].size
  PROVE  AllocOf(u)'
<1> SUFFICES ASSUME th[u].pc \in {"alloc", "mark", "link", "chain"} PROVE AllocOf(u)'
  BY DEF AllocOf
<1>1. PICK k : k = ClustersOf(th[u].size) - ClustersOf(stream[th[u].s].size) - th[u].n
  OBVIOUS
<1>2. /\ ClustersOf(th[u].size) > ClustersOf(stream[th[u].s].size)
      /\ k \in Nat /\ Chained(u, k)
      /\ th[u].pc = "alloc" => k = 0
      /\ th[u].pc = "chain" => th[u].n = 0
  BY <1>1 DEF AllocOK, AllocOf
<1>3. Chained(u, k)'
  BY <1>2, ChainedStays
<1>4. k = ClustersOf(th'[u].size) - ClustersOf(stream'[th'[u].s].size) - th'[u].n
  BY <1>1
<1> QED
  BY <1>2, <1>3, <1>4 DEF AllocOf

(* MovingOK for one call. *)
MovingOf(t) == th[t].op = "rename" /\ th[t].pc \in {"remove", "erase"} => th[t].write = "fcb"
(* The part of the inductive invariant that is about chains. *)
ChainsOK == GraphOK /\ HeadsOK /\ StreamsLong /\ EntriesLong /\ AllocOK /\ HintsOK /\ MovingOK

(* A stream whose clusters and whose hint stay. *)
SameFile(s) == /\ stream[s] # None
               /\ stream'[s].fstClus = stream[s].fstClus /\ stream'[s].fcb.size = stream[s].fcb.size
               /\ SameHint(s)
               /\ \A u \in Threads : Resets(u, s) => \E v \in Threads : Resets(v, s)'
(* A stream has its clusters, and its hint is right unless it is about to be reset. *)
FileOK(s) == /\ LongStream(s)
             /\ stream[s].lastClus \in Clusters => HintOf(s) \/ \E u \in Threads : Resets(u, s)
(* The call allocates clusters. *)
Resizing(u) == th[u].pc \in {"alloc", "mark", "link", "chain"}

(* A step that leaves the chains alone, but the one from q. *)
LEMMA ChainsSpared ==
  ASSUME Typed, ChainsOK, NEW q, Spared(q), GraphOK', HeadsOK', NEW t \in Threads, \A u \in Threads \ {t} : th'[u] = th[u],
         \A s \in Streams : stream'[s] # None =>
            FileOK(s)' \/ (SameFile(s) /\ (stream[s].fstClus \in Clusters => stream[s].fstClus # q)),
         \A o \in Slots : Sure(o)' =>
            LongEntry(o)' \/ (Sure(o) /\ dir'[o] = dir[o] /\ (dir[o].fstClus \in Clusters => dir[o].fstClus # q)),
         \A u \in Threads \ {t} : /\ th[u].clus \in Clusters => th[u].clus # q
                                  /\ Resizing(u) => stream'[th[u].s].size = stream[th[u].s].size,
         AllocOf(t)', MovingOf(t)'
  PROVE  ChainsOK'
<1> USE DEF ChainsOK
<1>1. StreamsLong'
  <2>1. \A s \in Streams : stream'[s] # None =>
            \/ /\ stream[s] # None /\ stream'[s].fstClus = stream[s].fstClus
               /\ stream'[s].fcb.size = stream[s].fcb.size /\ (stream[s].fstClus \in Clusters => stream[s].fstClus # q)
            \/ LongStream(s)'
    BY DEF FileOK, SameFile
  <2> QED
    BY <2>1, StreamsStayLong
<1>2. EntriesLong'
  <2>1. \A o \in Slots : Sure(o)' =>
            \/ Sure(o) /\ dir'[o] = dir[o] /\ (dir[o].fstClus \in Clusters => dir[o].fstClus # q)
            \/ LongEntry(o)'
    OBVIOUS
  <2> QED
    BY <2>1, EntriesStayLong
<1>3. HintsOK'
  <2>1. \A s \in Streams : stream'[s] # None /\ stream'[s].lastClus \in Clusters =>
            \/ /\ stream[s] # None /\ stream'[s].fstClus = stream[s].fstClus /\ SameHint(s)
               /\ stream[s].fstClus \in Clusters => stream[s].fstClus # q
               /\ \A u \in Threads : Resets(u, s) => \E v \in Threads : Resets(v, s)'
            \/ HintOf(s)'
            \/ \E v \in Threads : Resets(v, s)'
    BY DEF FileOK, SameFile
  <2> QED
    BY <2>1, HintsStay
<1>4. AllocOK'
  <2> SUFFICES ASSUME NEW u \in Threads \ {t} PROVE AllocOf(u)'
    BY DEF AllocOK
  <2> QED
    BY AllocStays DEF Resizing
<1>5. MovingOK'
  BY DEF MovingOK, MovingOf
<1> QED
  BY <1>1, <1>2, <1>3, <1>4, <1>5

(* A step that leaves the FAT alone. *)
LEMMA ChainsSame ==
  ASSUME Ready, ChainsOK, fat' = fat, nxtFree' = nxtFree, HeadsOK', NoStarts, NEW t \in Threads, \A u \in Threads \ {t} : th'[u] = th[u],
         th'[t].pc # "link",
         \A s \in Streams : stream'[s] # None => FileOK(s)' \/ SameFile(s),
         \A o \in Slots : Sure(o)' => LongEntry(o)' \/ (Sure(o) /\ dir'[o] = dir[o]),
         \A u \in Threads \ {t} : Resizing(u) => stream'[th[u].s].size = stream[th[u].s].size,
         AllocOf(t)', MovingOf(t)'
  PROVE  ChainsOK'
<1>1. Typed /\ PlacesOK
  BY ReadyIs
<1>2. Spared(0)
  BY SparedSame DEF Spared
<1>3. GraphOK'
  <2>1. \A u \in Threads : th'[u].pc = "link" => th[u].pc = "link" /\ nxtFree' = nxtFree /\ nxtFree \in Clusters
    BY <1>1 DEF PlacesOK, SharedOK
  <2> QED
    BY <2>1, GraphStays DEF ChainsOK
<1>4. 0 \notin Clusters
  BY Numbers
<1> QED
  BY <1>1, <1>2, <1>3, <1>4, ChainsSpared

(* A step of a call that does not resize, and leaves the files' clusters alone. *)
LEMMA ChainsPlain ==
  ASSUME Ready, ChainsOK, fat' = fat, nxtFree' = nxtFree, HeadsOK', NoStarts, SureFrom, NEW t \in Threads, \A u \in Threads \ {t} : th'[u] = th[u],
         th'[t].pc \notin {"alloc", "mark", "link", "chain"},
         \A s \in Streams : stream'[s] # None => FileOK(s)' \/ SameFile(s),
         \A u \in Threads \ {t} : Resizing(u) => stream'[th[u].s].size = stream[th[u].s].size,
         MovingOf(t)'
  PROVE  ChainsOK'
BY ChainsSame DEF SureFrom, AllocOf

(* A call that was not in setSize() resets nothing. *)
LEMMA ResetsStay ==
  ASSUME NEW t \in Threads, \A u \in Threads \ {t} : th'[u] = th[u], NEW s, ~Resets(t, s), NEW u \in Threads, Resets(u, s)
  PROVE  \E v \in Threads : Resets(v, s)'
BY DEF Resets, Resized

(* The streams of other calls are in memory. *)
LEMMA ResizingIs ==
  ASSUME Typed, PlacesOK, RefsOK, NEW u \in Threads, Resizing(u)
  PROVE  th[u].op = "setSize" /\ th[u].s \in Streams /\ stream[th[u].s] # None /\ th[u].lock = th[u].s
<1>1. th[u].op = "setSize" /\ th[u].s \in Streams
  BY OpOf DEF Resizing
<1> QED
  BY <1>1, FatAssumption DEF RefsOK, PlacesOK, CallOK

(* A stream that has nothing to do with the step. *)
LEMMA SameStream ==
  ASSUME NEW t \in Threads, \A u \in Threads \ {t} : th'[u] = th[u], NEW s, stream'[s] = stream[s], stream[s] # None, ~Resets(t, s)
  PROVE  SameFile(s)
BY ResetsStay DEF SameFile, SameHint

(* A new stream begins at the first cluster. *)
LEMMA FirstHint ==
  ASSUME NEW s, stream[s].lastClus = stream[s].fstClus, stream[s].lastPosition = 0
  PROVE  HintOf(s)
BY WalkUnfolds DEF HintOf

(* lookup(): the stream has the clusters of its entry. *)
LEMMA LookChains ==
  ASSUME Ready, ChainsOK, NEW t \in Threads, th[t] = Idle, NEW s, NEW o, Opens(s, o), dir' = dir, fat' = fat, nxtFree' = nxtFree,
         \A u \in Threads : ~Moved(u) /\ ~Erasing(u), \A u \in Threads \ {t} : th'[u] = th[u],
         th'[t].clus = 0, ~Moved(t)', th'[t].pc \in {"idle", "remove", "create"}, MovingOf(t)'
  PROVE  ChainsOK'
<1>1. Typed /\ PlacesOK /\ RefsOK
  BY ReadyIs
<1>2. HeadsOK' /\ NoStarts /\ SureFrom
  BY LookHeads DEF ChainsOK
<1>3. \A r \in Streams : ~Resets(t, r)
  BY IdleIs DEF Resets, Resized
<1>4. ASSUME NEW r \in Streams, stream'[r] # None
      PROVE  FileOK(r)' \/ SameFile(r)
  <2>1. CASE stream'[r] = stream[r]
    BY <1>3, <1>4, <2>1, SameStream
  <2>2. CASE stream'[r] # stream[r]
    <3>1. r = s /\ stream'[s] = FatStream(o, dir[o]) /\ o \in Slots /\ dir[o] # None
      BY <2>2 DEF Opens, StreamStep
    <3>2. Sure(o)
      BY <3>1 DEF Sure, Doubtful, DoubtBy
    <3>3. LongEntry(o)
      BY <3>1, <3>2 DEF ChainsOK, EntriesLong, LongEntry
    <3>4. dir[o] \in Entries
      BY <1>1, <3>1, EntryTyped
    <3>5. /\ stream'[s].fstClus = dir[o].fstClus /\ stream'[s].fcb = dir[o] /\ stream'[s].lastPosition = 0
          /\ stream'[s].lastClus = dir[o].fstClus
      BY <3>1, <3>4, NewStream
    <3>6. LongStream(s)'
      BY <3>3, <3>5 DEF LongStream, LongEntry
    <3>7. HintOf(s)'
      BY <3>5, FirstHint, WalkUnfolds DEF HintOf
    <3> QED
      BY <3>1, <3>6, <3>7 DEF FileOK
  <2> QED
    BY <2>1, <2>2
<1>5. ASSUME NEW u \in Threads \ {t}, Resizing(u)
      PROVE  stream'[th[u].s].size = stream[th[u].s].size
  <2>1. th[u].s \in Streams /\ stream[th[u].s] # None
    BY <1>1, <1>5, ResizingIs
  <2> QED
    BY <2>1 DEF Opens, StreamStep
<1>6. th'[t].pc \notin {"alloc", "mark", "link", "chain"}
  OBVIOUS
<1> QED
  BY Zenon, <1>2, <1>4, <1>5, <1>6, ChainsPlain

(* create(): the stream has none. *)
LEMMA MakeChains ==
  ASSUME Ready, ChainsOK, NEW t \in Threads, NEW s, NEW o, NEW name \in Names, Makes(t, s, o, name),
         \A u \in Threads : ~Moved(u) /\ ~Erasing(u), \A u \in Threads \ {t} : th'[u] = th[u],
         th'[t].clus = th[t].clus, th[t].op # "setSize", ~Moved(t)', th'[t].pc = "sync"
  PROVE  ChainsOK'
<1>1. Typed /\ PlacesOK /\ RefsOK
  BY ReadyIs
<1>2. HeadsOK' /\ NoStarts /\ SureFrom
  BY MakeHeads DEF ChainsOK
<1>3. \A r \in Streams : ~Resets(t, r)
  BY DEF Resets, Resized
<1>4. ASSUME NEW r \in Streams, stream'[r] # None
      PROVE  FileOK(r)' \/ SameFile(r)
  <2>1. CASE stream'[r] = stream[r]
    BY <1>3, <1>4, <2>1, SameStream
  <2>2. CASE stream'[r] # stream[r]
    <3>1. r = s /\ stream'[s] = FatStream(o, Entry(name, 0, 0)) /\ o \in Slots
      BY <2>2 DEF Makes, StreamStep
    <3>4. Entry(name, 0, 0) \in Entries /\ Entry(name, 0, 0).fstClus = 0 /\ Entry(name, 0, 0).size = 0
      BY Numbers DEF Entries, Entry
    <3>5. stream'[s].fstClus = 0 /\ stream'[s].fcb.size = 0 /\ stream'[s].lastClus = 0
      BY <3>1, <3>4, NewStream
    <3>6. LongStream(s)'
      BY <3>5, ClustersAre DEF LongStream, IsLong
    <3> QED
      BY <3>1, <3>5, <3>6, Numbers DEF FileOK
  <2> QED
    BY <2>1, <2>2
<1>5. ASSUME NEW u \in Threads \ {t}, Resizing(u)
      PROVE  stream'[th[u].s].size = stream[th[u].s].size
  <2>1. th[u].s \in Streams /\ stream[th[u].s] # None
    BY <1>1, <1>5, ResizingIs
  <2> QED
    BY <2>1 DEF Makes, StreamStep
<1>6. th'[t].pc \notin {"alloc", "mark", "link", "chain"} /\ MovingOf(t)' /\ fat' = fat /\ nxtFree' = nxtFree
  BY DEF Makes, MovingOf
<1> QED
  BY Zenon, <1>2, <1>4, <1>5, <1>6, ChainsPlain

(* A step of a call that leaves the streams' clusters and sizes, and the FAT. *)
LEMMA CalmChains ==
  ASSUME Ready, ChainsOK, NEW t \in Threads, fat' = fat, nxtFree' = nxtFree, HeadsOK', NoStarts, SureFrom,
         \A u \in Threads \ {t} : th'[u] = th[u], th'[t].pc \notin {"alloc", "mark", "link", "chain"}, MovingOf(t)',
         \A s \in Streams : stream'[s] # None => \/ stream'[s] = stream[s]
                                                \/ /\ stream[s] # None /\ stream'[s].fstClus = stream[s].fstClus
                                                   /\ stream'[s].fcb.size = stream[s].fcb.size /\ SameHint(s)
                                                   /\ stream'[s].size = stream[s].size,
         \A s \in Streams : stream[s] # None /\ stream'[s] = None => \A u \in Threads \ {t} : th[u].s # s,
         \A s \in Streams : Resets(t, s) => Resets(t, s)'
  PROVE  ChainsOK'
<1>1. Typed /\ PlacesOK /\ RefsOK
  BY ReadyIs
<1>2. \A u \in Threads, s \in Streams : Resets(u, s) => \E v \in Threads : Resets(v, s)'
  <2> SUFFICES ASSUME NEW u \in Threads, NEW s \in Streams, Resets(u, s) PROVE \E v \in Threads : Resets(v, s)'
    OBVIOUS
  <2> QED
    BY DEF Resets, Resized
<1>3. \A s \in Streams : stream'[s] # None => FileOK(s)' \/ SameFile(s)
  BY <1>2 DEF SameFile, SameHint
<1>4. ASSUME NEW u \in Threads \ {t}, Resizing(u)
      PROVE  stream'[th[u].s].size = stream[th[u].s].size
  <2>1. th[u].s \in Streams /\ stream[th[u].s] # None
    BY <1>1, <1>4, ResizingIs
  <2> QED
    BY <2>1
<1> QED
  BY Zenon, <1>3, <1>4, ChainsPlain

(* fatDirectory.cpp: lookup() brings a file into memory with the chain of its entry. *)
LEMMA OpenChains ==
  ASSUME Ready, "names" \notin Allow, ChainsOK, NEW t \in Threads, NEW name \in Names, open(t, name)
  PROVE  ChainsOK'
<1>1. Typed
  BY ReadyIs
<1>2. th[t] = Idle /\ Apart(t) /\ dir' = dir /\ fat' = fat /\ nxtFree' = nxtFree /\ th' = th
  BY <1>1, OpenDoes
<1>3. PICK s \in Streams, o \in Slots : Opens(s, o)
  BY <1>1, OpenDoes
<1>4. \A u \in Threads : ~Moved(u) /\ ~Erasing(u)
  BY <1>2, IdleIs, NobodyMoves
<1>5. th'[t].clus = 0 /\ th'[t].pc = "idle" /\ th'[t].op = "idle"
  BY <1>2, IdleIs
<1>6. ~Moved(t)' /\ MovingOf(t)'
  BY <1>5 DEF Moved, Renaming, MovingOf
<1> QED
  BY <1>2, <1>3, <1>4, <1>5, <1>6, LookChains

(* unbind() looks up the file that it is to remove. *)
LEMMA UnbindChains ==
  ASSUME Ready, "names" \notin Allow, ChainsOK, NEW t \in Threads, NEW name \in Names, unbind(t, name)
  PROVE  ChainsOK'
<1>1. Typed
  BY ReadyIs
<1>2. th[t] = Idle /\ Apart(t) /\ dir' = dir /\ fat' = fat /\ nxtFree' = nxtFree
  BY <1>1, UnbindDoes
<1>3. PICK s \in Streams, o \in Slots : Opens(s, o) /\ Begins(t, "unbind", "remove", s, None, "none")
  BY <1>1, UnbindDoes
<1>4. \A u \in Threads : ~Moved(u) /\ ~Erasing(u)
  BY <1>2, IdleIs, NobodyMoves
<1>5. th'[t].clus = 0 /\ th'[t].pc = "remove" /\ th'[t].op = "unbind" /\ \A u \in Threads \ {t} : th'[u] = th[u]
  BY <1>3 DEF Begins, CallStep
<1>6. ~Moved(t)' /\ MovingOf(t)'
  BY <1>5 DEF Moved, Renaming, MovingOf
<1> QED
  BY <1>2, <1>3, <1>4, <1>5, <1>6, LookChains

(* rename() looks up the file that it is to move. *)
LEMMA RenameChains ==
  ASSUME Ready, "names" \notin Allow, ChainsOK, NEW t \in Threads, NEW name \in Names, rename(t, name)
  PROVE  ChainsOK'
<1>1. Typed
  BY ReadyIs
<1>2. th[t] = Idle /\ Apart(t) /\ dir' = dir /\ fat' = fat /\ nxtFree' = nxtFree
  BY <1>1, RenameDoes
<1>3. PICK s \in Streams, o \in Slots : Opens(s, o) /\ Begins(t, "rename", "create", None, s, "none")
  BY <1>1, RenameDoes
<1>4. \A u \in Threads : ~Moved(u) /\ ~Erasing(u)
  BY <1>2, IdleIs, NobodyMoves
<1>5. th'[t].clus = 0 /\ th'[t].pc = "create" /\ \A u \in Threads \ {t} : th'[u] = th[u]
  BY <1>3 DEF Begins, CallStep
<1>6. ~Moved(t)' /\ MovingOf(t)'
  BY <1>5 DEF Moved, Renaming, MovingOf
<1> QED
  BY <1>2, <1>3, <1>4, <1>5, <1>6, LookChains

(* create() takes a free entry and a stream without clusters. *)
LEMMA CreateChains ==
  ASSUME Ready, "names" \notin Allow, ChainsOK, NEW t \in Threads, NEW name \in Names, create(t, name)
  PROVE  ChainsOK'
<1>1. Typed
  BY ReadyIs
<1>2. th[t] = Idle
  BY <1>1, CreateDoes
<1>3. PICK s \in Streams, o \in Slots : Makes(t, s, o, name) /\ Begins(t, "create", "sync", s, None, "new")
  BY <1>1, CreateDoes
<1>4. \A u \in Threads : ~Moved(u) /\ ~Erasing(u)
  BY <1>2, <1>3, IdleIs, NobodyMoves DEF Makes
<1>5. th'[t].clus = th[t].clus /\ th'[t].pc = "sync" /\ th'[t].op = "create" /\ \A u \in Threads \ {t} : th'[u] = th[u]
  BY <1>2, <1>3, IdleIs DEF Begins, CallStep
<1>6. ~Moved(t)' /\ th[t].op # "setSize"
  BY <1>2, <1>5, IdleIs DEF Moved, Renaming
<1> QED
  BY <1>3, <1>4, <1>5, <1>6, MakeChains

(* rename() makes the new entry, empty, as create() does. *)
LEMMA RenameCreateChains ==
  ASSUME Ready, "names" \notin Allow, ChainsOK, NEW t \in Threads, renameCreate(t)
  PROVE  ChainsOK'
<1>1. Typed /\ PlacesOK
  BY ReadyIs
<1>2. th[t].pc = "create" /\ th[t].op = "rename"
  BY <1>1, RenameCreateDoes
<1>3. PICK s \in Streams, o \in Slots, name \in Names :
              /\ Makes(t, s, o, name)
              /\ CallStep(t) /\ SameChain(t) /\ th'[t].op = "rename" /\ th'[t].pc = "sync" /\ th'[t].s = s
              /\ th'[t].old = th[t].old /\ th'[t].lock = th[t].lock /\ th'[t].size = th[t].size
              /\ th'[t].write = "new"
  BY <1>1, RenameCreateDoes
<1>4. \A u \in Threads : ~Moved(u) /\ ~Erasing(u)
  BY <1>2, <1>3, NobodyMoves DEF Makes
<1>5. th'[t].clus = th[t].clus /\ \A u \in Threads \ {t} : th'[u] = th[u]
  BY <1>3 DEF SameChain, CallStep
<1>6. ~Moved(t)' /\ th[t].op # "setSize"
  BY <1>2, <1>3 DEF Moved, Erasing, Writes, Flushes
<1> QED
  BY <1>3, <1>4, <1>5, <1>6, MakeChains

(* The call ends. *)
LEMMA ReturnedCall ==
  ASSUME NEW t \in Threads, Returns(t)
  PROVE  /\ th'[t].clus = 0 /\ th'[t].pc = "idle" /\ MovingOf(t)' /\ \A u \in Threads \ {t} : th'[u] = th[u]
BY IdleIs DEF Returns, CallStep, MovingOf

(* A call ends and drops its stream, whose chain is then that of the entry alone, if it has one. *)
LEMMA DropsChains ==
  ASSUME Ready, ChainsOK, NEW t \in Threads, NEW s \in Streams, Drops(t, s), Quiet(t), dir' = dir, fat' = fat, nxtFree' = nxtFree,
         Calm(t), \A r \in Streams : ~Resets(t, r)
  PROVE  ChainsOK'
<1>1. /\ \A r \in Streams \ {s} : stream'[r] = stream[r]
      /\ stream'[s] = stream[s] \/ (stream'[s] = None /\ \A u \in Threads \ {t} : th[u].s # s)
  BY DEF Drops, StreamStep
<1>2. StreamsFrom
  BY <1>1 DEF StreamsFrom
<1>3. 0 \notin Clusters /\ Returns(t)
  BY Numbers DEF Drops
<1>4. HeadsOK' /\ NoStarts /\ SureFrom
  BY <1>2, <1>3, ReturnedCall, CalmHeads DEF ChainsOK
<1>5. \A r \in Streams : stream'[r] # None => stream'[r] = stream[r]
  BY <1>1
<1>6. \A r \in Streams : stream[r] # None /\ stream'[r] = None => \A u \in Threads \ {t} : th[u].s # r
  BY <1>1
<1>7. \A r \in Streams : Resets(t, r) => Resets(t, r)'
  OBVIOUS
<1>8. th'[t].pc \notin {"alloc", "mark", "link", "chain"} /\ MovingOf(t)' /\ \A u \in Threads \ {t} : th'[u] = th[u]
  BY <1>3, ReturnedCall
<1> QED
  BY Zenon, <1>4, <1>5, <1>6, <1>7, <1>8, CalmChains

(* release() of an open file, the last one or not, frees no chain. *)
LEMMA CloseChains ==
  ASSUME Ready, ChainsOK, NEW t \in Threads, close(t)
  PROVE  ChainsOK'
<1>1. Typed /\ PlacesOK /\ RefsOK
  BY ReadyIs
<1>2. th[t] = Idle /\ held[t] \in Streams /\ Drops(t, held[t]) /\ dir' = dir /\ fat' = fat /\ nxtFree' = nxtFree
  BY <1>1, CloseDoes
<1>3. Quiet(t)
  BY Zenon DEF Quiet
<1>4. Calm(t)
  BY <1>1, <1>2, IdleIs, CalmCall
<1>5. \A r \in Streams : ~Resets(t, r)
  BY <1>2, IdleIs DEF Resets, Resized
<1> QED
  BY <1>2, <1>3, <1>4, <1>5, DropsChains

(* fatStream.cpp: getClusNum() remembers the cluster it has walked to. *)
LEMMA SeekChains ==
  ASSUME Ready, ChainsOK, NEW t \in Threads, NEW position \in 0 .. MaxSize - 1, seek(t, position)
  PROVE  ChainsOK'
<1>1. Typed /\ PlacesOK /\ RefsOK /\ LocksOK
  BY ReadyIs
<1>2. PICK s \in Streams : s = held[t]
  BY <1>1, SeekDoes
<1>3. /\ th[t] = Idle /\ stream[s] # None /\ Unlocked(s, t)
      /\ StreamStep(s) /\ stream'[s] = Sought(stream[s], position) /\ stream'[s] # None
      /\ dir' = dir /\ fat' = fat /\ nxtFree' = nxtFree /\ th' = th
  BY <1>1, <1>2, SeekDoes
<1>4. position \in Nat /\ stream[s] \in FatStreams
  BY <1>1, <1>3, StreamTyped, Numbers
<1>5. /\ stream'[s].fcb = stream[s].fcb /\ stream'[s].fstClus = stream[s].fstClus /\ stream'[s].size = stream[s].size
      /\ stream'[s].lastPosition = position \div BytsPerClus /\ stream'[s].lastClus = getClusNum(stream[s], position)
  BY <1>1, <1>3, <1>4, SoughtTyped
<1>6. \A r \in Streams : ~Resets(t, r)
  BY <1>3, IdleIs DEF Resets, Resized
<1>7. stream[s].lastClus \in Clusters => HintOf(s)
  BY <1>1, <1>3, <1>6, HintThere DEF ChainsOK
<1>8. stream'[s].lastClus = Walk(fat, stream[s].fstClus, position \div BytsPerClus)
  BY <1>1, <1>3, <1>4, <1>5, <1>7, GetIsWalk
<1>9. HintOf(s)'
  BY <1>3, <1>5, <1>8 DEF HintOf
<1>10. Quiet(t)
  BY Zenon DEF Quiet
<1>11. Calm(t)
  BY <1>1, <1>3, IdleIs, CalmCall
<1>12. StreamsFrom
  BY <1>3, <1>5 DEF StreamsFrom, StreamStep
<1>13. HeadsOK' /\ NoStarts /\ SureFrom
  BY <1>3, <1>10, <1>11, <1>12, CalmHeads DEF ChainsOK
<1>14. ASSUME NEW r \in Streams, stream'[r] # None
       PROVE  FileOK(r)' \/ SameFile(r)
  <2>1. CASE r # s
    BY <1>3, <1>6, <1>14, <2>1, SameStream DEF StreamStep
  <2>2. CASE r = s
    <3>1. LongStream(s)
      BY <1>3 DEF ChainsOK, StreamsLong, LongStream
    <3>2. LongStream(s)'
      BY <1>3, <1>5, <3>1 DEF LongStream
    <3> QED
      BY <1>9, <2>2, <3>2 DEF FileOK
  <2> QED
    BY <2>1, <2>2
<1>15. ASSUME NEW u \in Threads \ {t}, Resizing(u)
      PROVE  stream'[th[u].s].size = stream[th[u].s].size
  BY <1>1, <1>3, <1>5, <1>15, ResizingIs DEF StreamStep
<1>16. th'[t].pc \notin {"alloc", "mark", "link", "chain"} /\ MovingOf(t)' /\ \A u \in Threads \ {t} : th'[u] = th[u]
  BY <1>3, IdleIs DEF MovingOf
<1> QED
  BY Zenon, <1>3, <1>13, <1>14, <1>15, <1>16, ChainsPlain

(* A chain is as long as any less. *)
LEMMA LongFewer ==
  ASSUME NEW f, NEW r, NEW n \in Nat, IsLong(f, r, n), NEW m \in Nat, m <= n
  PROVE  IsLong(f, r, m)
BY DEF IsLong

(* setSize() begins to make a file larger. *)
LEMMA GrowsChains ==
  ASSUME Ready, ChainsOK, NEW t \in Threads, NEW size \in 0 .. MaxSize, setSize(t, size), Grows(t, size)
  PROVE  ChainsOK'
<1>1. Typed /\ PlacesOK /\ RefsOK
  BY ReadyIs
<1>2. /\ th[t] = Idle /\ held[t] \in Streams /\ stream[held[t]] # None
      /\ dir' = dir /\ fat' = fat /\ nxtFree' = nxtFree
  BY <1>1, SetSizeDoes
<1>3. PICK s \in Streams : s = held[t]
  BY <1>2
<1>4. /\ CallStep(t) /\ stream' = stream /\ th'[t].op = "setSize" /\ th'[t].pc = "alloc" /\ th'[t].s = s
      /\ th'[t].size = size /\ th'[t].clus = 0 /\ th'[t].prev = 0
      /\ th'[t].n = ClustersOf(size) - ClustersOf(stream[s].size) /\ th'[t].n > 0
  BY <1>3 DEF Grows
<1>5. HeadsOK' /\ NoStarts /\ SureFrom
  BY SetSizeHeads DEF ChainsOK
<1>6. \A r \in Streams : ~Resets(t, r)
  BY <1>2, IdleIs DEF Resets, Resized
<1>7. \A u \in Threads \ {t} : th'[u] = th[u]
  BY <1>4 DEF CallStep
<1>8. \A r \in Streams : stream'[r] # None => FileOK(r)' \/ SameFile(r)
  BY <1>4, <1>6, <1>7, SameStream
<1>9. AllocOf(t)'
  <2>1. ClustersOf(size) \in Nat /\ ClustersOf(stream[s].size) \in Nat
    BY <1>1, <1>2, <1>3, Clusters0, StreamTyped, Numbers
  <2>2. Chained(t, 0)'
    BY <1>4 DEF Chained
  <2>3. PICK a \in Nat, b \in Nat : a = ClustersOf(size) /\ b = ClustersOf(stream[s].size)
    BY <2>1
  <2>4. a - b - (a - b) = 0 /\ (a - b > 0 => a > b)
    OBVIOUS
  <2> QED
    BY <1>4, <2>2, <2>3, <2>4 DEF AllocOf
<1>10. MovingOf(t)' /\ th'[t].pc # "link"
  BY <1>4 DEF MovingOf
<1>11. \A o \in Slots : Sure(o)' => LongEntry(o)' \/ (Sure(o) /\ dir'[o] = dir[o])
  BY <1>5 DEF SureFrom
<1>12. \A u \in Threads \ {t} : Resizing(u) => stream'[th[u].s].size = stream[th[u].s].size
  BY <1>4
<1> QED
  BY Zenon, <1>2, <1>5, <1>7, <1>8, <1>9, <1>10, <1>11, <1>12, ChainsSame

(* setSize() begins to make a file smaller: the fcb has the new size, fstClus the old chain. *)
LEMMA ShrinksChains ==
  ASSUME Ready, ChainsOK, NEW t \in Threads, NEW size \in 0 .. MaxSize, setSize(t, size), Shrinks(t, size)
  PROVE  ChainsOK'
<1>1. Typed /\ PlacesOK /\ RefsOK /\ LocksOK
  BY ReadyIs
<1>2. /\ th[t] = Idle /\ held[t] \in Streams /\ stream[held[t]] # None /\ Unlocked(held[t], t)
      /\ dir' = dir /\ fat' = fat /\ nxtFree' = nxtFree
  BY <1>1, SetSizeDoes
<1>3. PICK s \in Streams : s = held[t]
  BY <1>2
<1>4. /\ CallStep(t) /\ th'[t].op = "setSize" /\ th'[t].pc = Flushing(s) /\ th'[t].s = s
      /\ th'[t].size = size
      /\ ClustersOf(size) <= ClustersOf(stream[s].size)
      /\ StreamStep(s) /\ stream'[s] # None /\ SameHint(s)
      /\ stream'[s].size = stream[s].size /\ stream'[s].fcb.size = size
      /\ stream'[s].fstClus = (IF size = 0 THEN 0 ELSE stream[s].fstClus)
  BY <1>3 DEF Shrinks
<1>5. HeadsOK' /\ NoStarts /\ SureFrom
  BY SetSizeHeads DEF ChainsOK
<1>6. \A r \in Streams : ~Resets(t, r)
  BY <1>2, IdleIs DEF Resets, Resized
<1>7. \A u \in Threads \ {t} : th'[u] = th[u]
  BY <1>4 DEF CallStep
<1>8. FileOK(s)'
  <2>1. CASE size = 0
    <3>1. LongStream(s)'
      BY <1>4, <2>1, ClustersAre DEF LongStream, IsLong
    <3>2. Resets(t, s)'
      BY <1>4, <2>1 DEF Resets, Resized, Flushing
    <3> QED
      BY <3>1, <3>2 DEF FileOK
  <2>2. CASE size # 0
    <3>1. \A u \in Threads : ~Resized(u, s)
      BY <1>1, <1>2, <1>3, OneResizes, IdleIs DEF Resized
    <3>2. IsLong(fat, stream[s].fstClus, ClustersOf(stream[s].size))
      BY <1>2, <1>3, <3>1, SizedLong DEF ChainsOK
    <3>3. ClustersOf(size) \in Nat /\ ClustersOf(stream[s].size) \in Nat
      BY <1>1, <1>2, <1>3, Clusters0, StreamTyped, Numbers
    <3>4. IsLong(fat, stream[s].fstClus, ClustersOf(size))
      BY <1>4, <3>2, <3>3, LongFewer
    <3>5. LongStream(s)'
      BY <1>2, <1>4, <2>2, <3>4 DEF LongStream
    <3>6. stream[s].lastClus \in Clusters => HintOf(s)
      BY <1>1, <1>2, <1>3, <1>6, HintThere DEF ChainsOK
    <3>7. stream'[s].lastClus \in Clusters => HintOf(s)'
      BY <1>2, <1>4, <2>2, <3>6 DEF HintOf, SameHint
    <3> QED
      BY <3>5, <3>7 DEF FileOK
  <2> QED
    BY <2>1, <2>2
<1>9. ASSUME NEW r \in Streams, stream'[r] # None
      PROVE  FileOK(r)' \/ SameFile(r)
  BY <1>4, <1>6, <1>7, <1>8, <1>9, SameStream DEF StreamStep
<1>10. ASSUME NEW u \in Threads \ {t}, Resizing(u)
       PROVE  stream'[th[u].s].size = stream[th[u].s].size
  BY <1>1, <1>4, <1>10, ResizingIs DEF StreamStep
<1>11. th'[t].pc \notin {"alloc", "mark", "link", "chain"} /\ MovingOf(t)'
  BY <1>4 DEF MovingOf, Flushing
<1> QED
  BY Zenon, <1>2, <1>5, <1>7, <1>9, <1>10, <1>11, ChainsPlain

(* setSize() begins. *)
LEMMA SetSizeChains ==
  ASSUME Ready, ChainsOK, NEW t \in Threads, NEW size \in 0 .. MaxSize, setSize(t, size)
  PROVE  ChainsOK'
<1>1. Typed /\ RefsOK
  BY ReadyIs
<1> QED
  BY <1>1, SetSizeDoes, GrowsChains, ShrinksChains

(* allocCluster() begins, or finds too few clusters and ends. *)
LEMMA AllocClusterChains ==
  ASSUME Ready, ChainsOK, NEW t \in Threads, allocCluster(t)
  PROVE  ChainsOK'
<1>1. Typed /\ PlacesOK /\ RefsOK
  BY ReadyIs
<1>2. /\ th[t].pc = "alloc" /\ dir' = dir /\ fat' = fat /\ nxtFree' = nxtFree /\ stream' = stream
      /\ Returns(t) \/ Goes(t, "mark")
  BY <1>1, AllocClusterDoes
<1>3. Quiet(t)
  BY Zenon DEF Quiet
<1>4. Calm(t)
  BY <1>1, <1>2, CalmCall
<1>5. th'[t].clus \in Clusters => th'[t].clus = th[t].clus
  BY <1>2, ReturnedCall, Numbers DEF Goes, SameChain
<1>6. HeadsOK' /\ NoStarts /\ SureFrom
  BY <1>2, <1>3, <1>4, <1>5, CalmHeads DEF ChainsOK, StreamsFrom
<1>7. \A r \in Streams : ~Resets(t, r)
  BY <1>2 DEF Resets, Resized
<1>8. \A u \in Threads \ {t} : th'[u] = th[u]
  BY <1>2 DEF Returns, Goes, CallStep
<1>9. \A r \in Streams : stream'[r] # None => FileOK(r)' \/ SameFile(r)
  BY <1>2, <1>7, <1>8, SameStream
<1>10. AllocOf(t)'
  <2>1. CASE Returns(t)
    BY <2>1, ReturnedCall DEF AllocOf
  <2>2. CASE Goes(t, "mark")
    <3>1. PICK k : k = ClustersOf(th[t].size) - ClustersOf(stream[th[t].s].size) - th[t].n
      OBVIOUS
    <3>2. /\ ClustersOf(th[t].size) > ClustersOf(stream[th[t].s].size)
          /\ k \in Nat /\ Chained(t, k) /\ k = 0
      BY <1>2, <3>1 DEF ChainsOK, AllocOK, AllocOf
    <3>3. /\ th'[t].size = th[t].size /\ th'[t].s = th[t].s /\ th'[t].n = th[t].n /\ th'[t].clus = th[t].clus
          /\ th'[t].prev = th[t].prev /\ th'[t].pc = "mark"
      BY <2>2 DEF Goes, SameWork, SameChain
    <3>4. Chained(t, k)'
      BY <3>2, <3>3 DEF Chained
    <3>5. k = ClustersOf(th'[t].size) - ClustersOf(stream'[th'[t].s].size) - th'[t].n
      BY <1>2, <3>1, <3>3
    <3> QED
      BY <1>2, <3>2, <3>3, <3>4, <3>5 DEF AllocOf
  <2> QED
    BY <1>2, <2>1, <2>2
<1>11. MovingOf(t)' /\ th'[t].pc # "link"
  BY <1>2, ReturnedCall DEF MovingOf, Goes
<1>12. \A o \in Slots : Sure(o)' => LongEntry(o)' \/ (Sure(o) /\ dir'[o] = dir[o])
  BY <1>6 DEF SureFrom
<1>13. \A u \in Threads \ {t} : Resizing(u) => stream'[th[u].s].size = stream[th[u].s].size
  BY <1>2
<1> QED
  BY Zenon, <1>2, <1>6, <1>8, <1>9, <1>10, <1>11, <1>12, <1>13, ChainsSame

(* mark() makes of a free cluster the end of a chain that is nobody's yet. *)
LEMMA MarkChains ==
  ASSUME Ready, ChainsOK, NEW t \in Threads, mark(t)
  PROVE  ChainsOK'
<1>1. Typed /\ PlacesOK /\ RefsOK
  BY ReadyIs
<1>2. HeadsOK' /\ SureFrom /\ GraphOK' /\ Spared(0)
  BY MarkFat DEF ChainsOK
<1>3. th[t].pc = "mark" /\ Goes(t, "link") /\ dir' = dir /\ stream' = stream
  BY <1>1, MarkDoes
<1>4. /\ th'[t].size = th[t].size /\ th'[t].s = th[t].s /\ th'[t].n = th[t].n /\ th'[t].clus = th[t].clus
      /\ th'[t].prev = th[t].prev /\ th'[t].pc = "link"
  BY <1>3 DEF Goes, SameWork, SameChain
<1>5. \A u \in Threads \ {t} : th'[u] = th[u]
  BY <1>3 DEF Goes, CallStep
<1>6. \A r \in Streams : ~Resets(t, r)
  BY <1>3 DEF Resets, Resized
<1>7. \A r : r \in Clusters => r # 0
  BY Numbers
<1>8. \A r \in Streams : stream'[r] # None => FileOK(r)' \/ (SameFile(r) /\ (stream[r].fstClus \in Clusters => stream[r].fstClus # 0))
  BY <1>3, <1>5, <1>6, <1>7, SameStream
<1>9. \A o \in Slots : Sure(o)' =>
        LongEntry(o)' \/ (Sure(o) /\ dir'[o] = dir[o] /\ (dir[o].fstClus \in Clusters => dir[o].fstClus # 0))
  BY <1>2, <1>7 DEF SureFrom
<1>10. \A u \in Threads \ {t} : /\ th[u].clus \in Clusters => th[u].clus # 0
                                /\ Resizing(u) => stream'[th[u].s].size = stream[th[u].s].size
  BY <1>3, <1>7
<1>11. AllocOf(t)'
  <2>1. PICK k : k = ClustersOf(th[t].size) - ClustersOf(stream[th[t].s].size) - th[t].n
    OBVIOUS
  <2>2. /\ ClustersOf(th[t].size) > ClustersOf(stream[th[t].s].size)
        /\ k \in Nat /\ Chained(t, k)
    BY <1>3, <2>1 DEF ChainsOK, AllocOK, AllocOf
  <2>4. Chained(t, k)'
    BY <1>2, <1>4, <1>7, <2>2, ChainedStays
  <2>5. k = ClustersOf(th'[t].size) - ClustersOf(stream'[th'[t].s].size) - th'[t].n
    BY <1>3, <1>4, <2>1
  <2> QED
    BY <1>3, <1>4, <2>2, <2>4, <2>5 DEF AllocOf
<1>12. MovingOf(t)'
  BY <1>4 DEF MovingOf
<1> QED
  BY Zenon, <1>1, <1>2, <1>5, <1>8, <1>9, <1>10, <1>11, <1>12, ChainsSpared

(* link() makes the chain of the call one longer. *)
LEMMA LinkIsLonger ==
  ASSUME Ready, ChainsOK, NEW t \in Threads, link(t)
  PROVE  AllocOf(t)'
<1>1. Typed /\ PlacesOK /\ RefsOK
  BY ReadyIs
<1>2. /\ th[t].pc = "link" /\ nxtFree \in Clusters /\ th[t].n \in Nat \ {0}
      /\ th'[t].size = th[t].size /\ th'[t].s = th[t].s /\ stream' = stream
      /\ th'[t].prev = nxtFree /\ th'[t].n = th[t].n - 1
      /\ th'[t].clus = (IF th[t].prev = 0 THEN nxtFree ELSE th[t].clus)
      /\ th'[t].pc = (IF th[t].n > 1 THEN "mark" ELSE "chain")
  BY <1>1, LinkDoes DEF SameWork
<1>3. PICK k : k = ClustersOf(th[t].size) - ClustersOf(stream[th[t].s].size) - th[t].n
  OBVIOUS
<1>4. /\ ClustersOf(th[t].size) > ClustersOf(stream[th[t].s].size)
      /\ k \in Nat /\ Chained(t, k)
  BY <1>2, <1>3 DEF ChainsOK, AllocOK, AllocOf
<1>5. /\ th[t].prev = 0 => fat' = fat
      /\ th[t].prev # 0 => /\ th[t].clus \in Clusters
                           /\ Relinks(fat, fat', th[t].prev, nxtFree)
                           /\ KeepsChain(fat, fat', th[t].clus)
                           /\ th[t].prev # nxtFree
  BY LinkFat DEF ChainsOK
<1>6. fat[nxtFree] = Eof
  BY <1>2 DEF ChainsOK, GraphOK, SpareOK
<1>7. PICK v : v = nxtFree
  OBVIOUS
<1>8. k + 1 \in Nat /\ k + 1 # 0 /\ (k + 1) - 1 = k
  BY <1>4
<1>9. PICK q : q = th'[t].clus
  OBVIOUS
<1>10. IsLong(fat', q, k + 1) /\ Walk(fat', q, k) = v /\ fat'[v] = Eof
  <2>1. CASE k = 0
    <3>1. q = v /\ fat' = fat
      BY <1>2, <1>4, <1>5, <1>7, <1>9, <2>1 DEF Chained
    <3>2. Walk(fat', q, 0) = v
      BY <3>1, WalkUnfolds
    <3> QED
      BY <1>2, <1>6, <1>7, <2>1, <3>1, <3>2 DEF IsLong
  <2>2. CASE k # 0
    <3>1. PICK m \in Nat : m = k - 1
      BY <1>4, <2>2
    <3>2. PICK c, p : c = th[t].clus /\ p = th[t].prev
      OBVIOUS
    <3>3. IsLong(fat, c, k) /\ p = Walk(fat, c, m)
      BY <1>4, <2>2, <3>1, <3>2 DEF Chained
    <3>4. m \in 0 .. k - 1 /\ m + 1 = k
      BY <1>4, <3>1
    <3>5. p \in Clusters
      BY <3>3, <3>4 DEF IsLong
    <3>6. p # 0 /\ q = c
      BY <1>2, <1>9, <3>2, <3>5, Numbers
    <3>7. KeepsChain(fat, fat', c) /\ Relinks(fat, fat', p, v) /\ p # v
      BY <1>5, <1>7, <3>2, <3>6
    <3>8. IsLong(fat', c, k) /\ Walk(fat', c, m) = p
      BY <1>4, <3>3, <3>4, <3>7 DEF KeepsChain
    <3>9. fat'[p] = v /\ fat'[v] = Eof
      BY <1>1, <1>2, <1>6, <1>7, <3>5, <3>7 DEF Relinks, Typed
    <3>10. Walk(fat', c, m + 1) = v
      BY <3>1, <3>5, <3>8, <3>9, WalkStep
    <3>11. IsLong(fat', c, k + 1)
      BY <1>2, <1>4, <1>7, <3>4, <3>8, <3>10 DEF IsLong
    <3> QED
      BY <3>4, <3>6, <3>9, <3>10, <3>11
  <2> QED
    BY <2>1, <2>2
<1>11. Chained(t, k + 1)'
  BY <1>2, <1>7, <1>8, <1>9, <1>10 DEF Chained
<1>12. k + 1 = ClustersOf(th'[t].size) - ClustersOf(stream'[th'[t].s].size) - th'[t].n
  <2>1. ClustersOf(th[t].size) \in Nat /\ ClustersOf(stream[th[t].s].size) \in Nat
    BY <1>1, <1>2, Clusters0, StreamTyped, CallTyped, Numbers, ResizingIs DEF Resizing
  <2>2. PICK a \in Nat, b \in Nat, n \in Nat : a = ClustersOf(th[t].size) /\ b = ClustersOf(stream[th[t].s].size) /\ n = th[t].n
    BY <1>2, <2>1
  <2>3. k + 1 = a - b - (n - 1)
    BY <1>3, <1>4, <2>2
  <2> QED
    BY <1>2, <2>2, <2>3
<1>13. th'[t].pc = "chain" => th'[t].n = 0
  BY <1>2
<1>14. th'[t].pc # "alloc"
  BY <1>2
<1> QED
  BY <1>2, <1>4, <1>8, <1>11, <1>12, <1>13, <1>14 DEF AllocOf

(* link() puts that cluster after the ones the call has chained. *)
LEMMA LinkChains ==
  ASSUME Ready, ChainsOK, NEW t \in Threads, link(t)
  PROVE  ChainsOK'
<1>1. Typed /\ PlacesOK /\ RefsOK
  BY ReadyIs
<1>2. /\ HeadsOK' /\ GraphOK' /\ SureFrom
      /\ th[t].prev = 0 => fat' = fat
      /\ th[t].prev # 0 => th[t].clus \in Clusters /\ Spared(th[t].clus)
  BY LinkFat DEF ChainsOK
<1>3. /\ th[t].pc = "link" /\ dir' = dir /\ stream' = stream /\ CallStep(t)
      /\ th'[t].pc = (IF th[t].n > 1 THEN "mark" ELSE "chain")
  BY <1>1, LinkDoes
<1>4. PICK q : q = (IF th[t].prev = 0 THEN 0 ELSE th[t].clus) /\ Spared(q) /\ (q \in Clusters => q = th[t].clus)
  BY <1>2, SparedSame, Numbers DEF Spared
<1>5. \A u \in Threads \ {t} : th'[u] = th[u]
  BY <1>3 DEF CallStep
<1>6. \A r \in Streams : ~Resets(t, r)
  BY <1>3 DEF Resets, Resized
<1>7. \A r \in Streams : stream'[r] # None => FileOK(r)' \/ (SameFile(r) /\ (stream[r].fstClus \in Clusters => stream[r].fstClus # q))
  BY <1>3, <1>4, <1>5, <1>6, SameStream DEF ChainsOK, HeadsOK, CallsAside
<1>8. \A o : ~Empties(o, t)
  BY <1>1, <1>3, CalmCall
<1>9. \A o \in Slots : Sure(o)' =>
        LongEntry(o)' \/ (Sure(o) /\ dir'[o] = dir[o] /\ (dir[o].fstClus \in Clusters => dir[o].fstClus # q))
  BY <1>2, <1>4, <1>8 DEF SureFrom, ChainsOK, HeadsOK, EntriesEmptied
<1>10. \A u \in Threads \ {t} : /\ th[u].clus \in Clusters => th[u].clus # q
                                /\ Resizing(u) => stream'[th[u].s].size = stream[th[u].s].size
  BY <1>3, <1>4 DEF ChainsOK, HeadsOK, CallsApart
<1>11. AllocOf(t)'
  BY LinkIsLonger
<1>12. MovingOf(t)'
  BY <1>3 DEF MovingOf
<1> QED
  BY Zenon, <1>1, <1>2, <1>4, <1>5, <1>7, <1>9, <1>10, <1>11, <1>12, ChainsSpared

(* freeCluster() frees the first cluster of the chain it has and goes on with the next. *)
LEMMA FreesChains ==
  ASSUME Ready, ChainsOK, NEW t \in Threads, freeCluster(t), Frees(t)
  PROVE  ChainsOK'
<1>1. Typed /\ PlacesOK /\ RefsOK
  BY ReadyIs
<1>2. HeadsOK' /\ GraphOK' /\ SureFrom /\ Spared(th[t].clus)
  BY FreesFat DEF ChainsOK
<1>3. th[t].pc = "free" /\ dir' = dir
  BY <1>1, FreeClusterDoes
<1>4. /\ stream' = stream /\ CallStep(t) /\ th'[t].op = th[t].op /\ th'[t].s = th[t].s /\ th'[t].size = th[t].size
      /\ th'[t].pc = "count" /\ th[t].clus \in Clusters
  BY DEF Frees, SameWork
<1>5. \A u \in Threads \ {t} : th'[u] = th[u]
  BY <1>4 DEF CallStep
<1>6. \A u \in Threads, r \in Streams : Resets(u, r) => \E v \in Threads : Resets(v, r)'
  BY <1>4, <1>5 DEF Resets, Resized
<1>7. \A r \in Streams : stream'[r] # None => FileOK(r)' \/ (SameFile(r) /\ (stream[r].fstClus \in Clusters => stream[r].fstClus # th[t].clus))
  BY <1>4, <1>6 DEF ChainsOK, HeadsOK, CallsAside, SameFile, SameHint
<1>8. \A o : ~Empties(o, t)
  BY <1>1, <1>3, CalmCall
<1>9. \A o \in Slots : Sure(o)' =>
        LongEntry(o)' \/ (Sure(o) /\ dir'[o] = dir[o] /\ (dir[o].fstClus \in Clusters => dir[o].fstClus # th[t].clus))
  BY <1>2, <1>8 DEF SureFrom, ChainsOK, HeadsOK, EntriesEmptied
<1>10. \A u \in Threads \ {t} : /\ th[u].clus \in Clusters => th[u].clus # th[t].clus
                                /\ Resizing(u) => stream'[th[u].s].size = stream[th[u].s].size
  BY <1>4 DEF ChainsOK, HeadsOK, CallsApart
<1>11. AllocOf(t)' /\ MovingOf(t)'
  BY <1>4 DEF MovingOf, AllocOf
<1> QED
  BY Zenon, <1>1, <1>2, <1>5, <1>7, <1>9, <1>10, <1>11, ChainsSpared

(* freeCluster() is done: the file of setSize() is as long as its size, and its hint is reset. *)
LEMMA EndsChains ==
  ASSUME Ready, ChainsOK, NEW t \in Threads, freeCluster(t), Ends(t)
  PROVE  ChainsOK'
<1>1. Typed /\ PlacesOK /\ RefsOK /\ LocksOK
  BY ReadyIs
<1>2. th[t].pc = "free" /\ th[t].op \in {"setSize", "close"} /\ dir' = dir /\ nxtFree' = nxtFree
  BY <1>1, FreeClusterDoes
<1>3. fat' = fat /\ Returns(t)
  BY DEF Ends
<1>4. Quiet(t)
  BY Zenon DEF Quiet
<1>5. Calm(t)
  BY <1>1, <1>2, CalmCall
<1>6. /\ th'[t].clus = 0 /\ th'[t].pc \notin {"alloc", "mark", "link", "chain"} /\ MovingOf(t)'
      /\ \A u \in Threads \ {t} : th'[u] = th[u]
  BY <1>3, ReturnedCall
<1>7. CASE th[t].op # "setSize"
  <2>1. stream' = stream
    BY <1>7 DEF Ends
  <2>2. HeadsOK' /\ NoStarts /\ SureFrom
    BY <1>2, <1>4, <1>5, <1>6, <2>1, Numbers, CalmHeads DEF ChainsOK, StreamsFrom
  <2>3. \A r \in Streams : ~Resets(t, r)
    BY <1>7 DEF Resets, Resized
  <2>4. \A r \in Streams : stream'[r] # None => FileOK(r)' \/ SameFile(r)
    BY <1>6, <2>1, <2>3, SameStream
  <2>5. \A u \in Threads \ {t} : Resizing(u) => stream'[th[u].s].size = stream[th[u].s].size
    BY <2>1
  <2> QED
    BY Zenon, <1>2, <1>3, <1>6, <2>2, <2>4, <2>5, ChainsPlain
<1>8. CASE th[t].op = "setSize"
  <2>1. PICK s \in Streams : s = th[t].s
    BY <1>8 DEF Ends
  <2>2. /\ stream[s] # None /\ StreamStep(s) /\ stream'[s] # None
        /\ stream'[s].fcb = stream[s].fcb /\ stream'[s].fstClus = stream[s].fstClus
        /\ stream'[s].lastPosition = 0 /\ stream'[s].lastClus = stream[s].fstClus
    BY <1>8, <2>1 DEF Ends
  <2>3. HeadsOK' /\ NoStarts /\ SureFrom
    BY <1>2, <1>4, <1>5, <1>6, <2>2, Numbers, CalmHeads DEF ChainsOK, StreamsFrom, StreamStep
  <2>4. FileOK(s)'
    <3>1. LongStream(s)
      BY <2>2 DEF ChainsOK, StreamsLong, LongStream
    <3>2. LongStream(s)'
      BY <1>3, <2>2, <3>1 DEF LongStream
    <3>3. HintOf(s)'
      BY <2>2, WalkUnfolds DEF HintOf
    <3> QED
      BY <3>2, <3>3 DEF FileOK
  <2>5. ASSUME NEW r \in Streams, stream'[r] # None
        PROVE  FileOK(r)' \/ SameFile(r)
    <3>1. CASE r = s
      BY <2>4, <3>1
    <3>2. CASE r # s
      <4>1. ~Resets(t, r)
        BY <2>1, <3>2 DEF Resets, Resized
      <4>2. stream'[r] = stream[r]
        BY <2>2, <3>2 DEF StreamStep
      <4> QED
        BY <1>6, <2>5, <4>1, <4>2, SameStream
    <3> QED
      BY <3>1, <3>2
  <2>6. ASSUME NEW u \in Threads \ {t}, Resizing(u)
        PROVE  stream'[th[u].s].size = stream[th[u].s].size
    <3>1. th[u].s \in Streams /\ th[u].lock = th[u].s
      BY <1>1, <2>6, ResizingIs
    <3>2. th[t].lock = s
      BY <1>1, <1>8, <2>1 DEF PlacesOK, CallOK
    <3>3. th[u].s # s
      BY <1>1, <3>1, <3>2, FatAssumption DEF LocksOK
    <3> QED
      BY <2>2, <3>1, <3>3 DEF StreamStep
  <2> QED
    BY Zenon, <1>2, <1>3, <1>6, <2>3, <2>5, <2>6, ChainsPlain
<1> QED
  BY <1>7, <1>8

(* A step of freeCluster(). *)
LEMMA FreeClusterChains ==
  ASSUME Ready, ChainsOK, NEW t \in Threads, freeCluster(t)
  PROVE  ChainsOK'
<1>1. Typed /\ PlacesOK /\ RefsOK
  BY ReadyIs
<1> QED
  BY <1>1, FreeClusterDoes, FreesChains, EndsChains

(* Nobody but setSize() itself is about the stream it is at work on. *)
LEMMA HeldIsNotNew ==
  ASSUME Ready, NEW t \in Threads, NEW s \in Streams, th[t].op = "setSize", th[t].s = s
  PROVE  /\ held[t] = s /\ th[t].lock = s
         /\ \A u \in Threads : ~Erasing(u) \/ th[u].s # s
         /\ \A u \in Threads : (Writes(u, "new") \/ Moved(u)) => Mine(u) # s
         /\ \A u \in Threads \ {t} : ~Unwritten(u, s) /\ ~Resized(u, s)
<1>1. Typed /\ PlacesOK /\ LocksOK /\ NewOK
  BY ReadyIs
<1>2. held[t] = s /\ th[t].lock = s
  BY <1>1 DEF PlacesOK, CallOK
<1>3. ASSUME NEW u \in Threads, Erasing(u), th[u].s = s
      PROVE  FALSE
  <2>1. th[u].lock = s /\ th[u].op # "setSize"
    BY <1>1, <1>3, CallTyped DEF PlacesOK, CallOK, Erasing, Writes, Operations
  <2> QED
    BY <1>1, <1>2, <2>1, FatAssumption DEF LocksOK
<1>4. ASSUME NEW u \in Threads, Writes(u, "new") \/ Moved(u), Mine(u) = s
      PROVE  FALSE
  <2>1. th[u].op = "create" \/ Renaming(u)
    BY <1>1, <1>4, CallTyped DEF PlacesOK, CallOK, Writes, Moved, Renaming, Erasing, Flushes, Operations
  <2>2. held[t] # Mine(u)
    BY <1>1, <2>1 DEF NewOK, NewOf
  <2> QED
    BY <1>2, <1>4, <2>2
<1>5. \A u \in Threads \ {t} : ~Unwritten(u, s) /\ ~Resized(u, s)
  BY <1>1, <1>2, OneResizes DEF Unwritten, Resized
<1> QED
  BY <1>2, <1>3, <1>4, <1>5

(* The entry with the clusters of a stream has its size, but while setSize() has not written it. *)
LEMMA SharedSize ==
  ASSUME Ready, ChainsOK, NEW t \in Threads, NEW s \in Streams, th[t].op = "setSize", th[t].s = s,
         th[t].pc \notin {"sync", "entry"},
         NEW o \in Slots, Sure(o), dir[o].fstClus \in Clusters, dir[o].fstClus = stream[s].fstClus
  PROVE  dir[o].size = stream[s].fcb.size
<1>1. Typed /\ PlacesOK /\ RefsOK /\ EntriesOK
  BY ReadyIs
<1>2. stream[s] # None
  BY <1>1, FatAssumption DEF RefsOK
<1>3. stream[s].offset = o /\ Kept(s)
  <2>1. Bears(o, s)
    BY <1>2 DEF ChainsOK, HeadsOK, EntriesBorne
  <2> QED
    BY <2>1, HeldIsNotNew DEF Bears
<1>4. ASSUME NEW u \in Threads, Excused(u, s)
      PROVE  FALSE
  <2>1. ~((Writes(u, "new") \/ Moved(u)) /\ Mine(u) = s)
    BY HeldIsNotNew
  <2>2. ~Unwritten(u, s)
    BY HeldIsNotNew DEF Unwritten
  <2>3. Unsaved(u) /\ Theirs(u) = s
    BY <1>4, <2>1, <2>2 DEF Excused
  <2>4. Moved(u)
    BY <2>3 DEF Unsaved, Moved
  <2>5. DoubtBy(u, o)
    BY <1>3, <2>3, <2>4 DEF DoubtBy
  <2> QED
    BY <2>5 DEF Sure, Doubtful
<1>5. On(o, s)
  BY <1>1, <1>3, <1>4 DEF EntriesOK
<1> QED
  BY <1>5 DEF On

(* setSize() gives the new clusters to a file that had none. *)
LEMMA ChainEmptyChains ==
  ASSUME Ready, ChainsOK, NEW t \in Threads, chain(t), NEW s \in Streams, s = th[t].s, ~(stream[s].size > 0)
  PROVE  ChainsOK'
<1>1. Typed /\ PlacesOK /\ RefsOK /\ LocksOK
  BY ReadyIs
<1>2. /\ th[t].pc = "chain" /\ th[t].op = "setSize" /\ stream[s] # None
      /\ ChainEffect(t) /\ CallStep(t) /\ SameWork(t)
      /\ th'[t].pc = Flushing(s) /\ dir' = dir /\ nxtFree' = nxtFree
  BY <1>1, ChainDoes
<1>3. /\ StreamStep(s) /\ stream'[s] # None /\ stream'[s].size = stream[s].size /\ stream'[s].fcb.size = th[t].size
      /\ fat' = fat /\ SameHint(s) /\ stream'[s].fstClus = th[t].clus
  BY <1>2 DEF ChainEffect
<1>4. HeadsOK' /\ NoStarts /\ SureFrom
  BY ChainHeads DEF ChainsOK
<1>5. \A r \in Streams : ~Resets(t, r)
  BY <1>2 DEF Resets, Resized
<1>6. \A u \in Threads \ {t} : th'[u] = th[u]
  BY <1>2 DEF CallStep
<1>7. \A u \in Threads : ~Resized(u, s)
  BY <1>2, HeldIsNotNew DEF Resized
<1>8. stream[s].size = 0
  BY <1>1, <1>2, StreamTyped, Numbers
<1>9. stream[s].fstClus = 0
  BY <1>2, <1>7, <1>8, SizedLong DEF ChainsOK
<1>10. stream[s].lastClus \notin Clusters
  <2> SUFFICES ASSUME stream[s].lastClus \in Clusters PROVE FALSE
    OBVIOUS
  <2>1. HintOf(s)
    BY <1>1, <1>2, <1>5, HintThere, HeldIsNotNew DEF ChainsOK
  <2>2. PICK n \in Nat : n = stream[s].lastPosition
    BY <1>1, <1>2, StreamTyped
  <2>3. Walk(fat, 0, n) \in Clusters
    BY <1>9, <2>1, <2>2 DEF HintOf
  <2>4. IsLong(fat, 0, n + 1)
    BY <1>1, <2>3, WalkIsLong, Numbers DEF Typed
  <2>5. n + 1 = 0
    BY <2>4, NoChain, Numbers
  <2> QED
    BY <2>5
<1>11. LongStream(s)'
  <2>1. PICK k : k = ClustersOf(th[t].size) - ClustersOf(stream[s].size) - th[t].n
    OBVIOUS
  <2>2. /\ ClustersOf(th[t].size) > ClustersOf(stream[s].size)
        /\ k \in Nat /\ Chained(t, k) /\ th[t].n = 0
    BY <1>2, <2>1 DEF ChainsOK, AllocOK, AllocOf
  <2>3. ClustersOf(stream[s].size) = 0
    BY <1>8, ClustersAre
  <2>4. ClustersOf(th[t].size) \in Nat
    BY <1>1, CallTyped, Clusters0, Numbers
  <2>5. k = ClustersOf(th[t].size) /\ k # 0
    BY <2>1, <2>2, <2>3, <2>4
  <2>6. IsLong(fat, th[t].clus, k)
    BY <2>2, <2>5 DEF Chained
  <2>7. th[t].size # 0
    BY Zenon, <2>5, ClustersAre
  <2> QED
    BY <1>3, <2>5, <2>6, <2>7 DEF LongStream
<1>12. FileOK(s)'
  BY <1>3, <1>10, <1>11 DEF FileOK, SameHint
<1>13. ASSUME NEW r \in Streams, stream'[r] # None
       PROVE  FileOK(r)' \/ SameFile(r)
  BY <1>3, <1>5, <1>6, <1>12, <1>13, SameStream DEF StreamStep
<1>14. ASSUME NEW u \in Threads \ {t}, Resizing(u)
       PROVE  stream'[th[u].s].size = stream[th[u].s].size
  BY <1>1, <1>3, <1>14, ResizingIs DEF StreamStep
<1>15. th'[t].pc \notin {"alloc", "mark", "link", "chain"} /\ MovingOf(t)'
  BY <1>2 DEF MovingOf, Flushing, SameWork
<1> QED
  BY Zenon, <1>2, <1>3, <1>4, <1>6, <1>13, <1>14, <1>15, ChainsPlain

(* What is left of the chain of a file whose last link changes. *)
LEMMA FileKept ==
  ASSUME Ready, ChainsOK, NEW q \in Clusters, NEW m \in Nat, NEW x, NEW v, x = Walk(fat, q, m),
         IsRoot(fat, q), IsLong(fat, q, m + 1), Relinks(fat, fat', x, v)
  PROVE  /\ IsLong(fat', q, m + 1)
         /\ \A i \in 0 .. m : Walk(fat', q, i) = Walk(fat, q, i)
         /\ fat'[x] = v /\ x \in Clusters
<1>1. Typed
  BY ReadyIs
<1>2. Linked(fat)
  BY DEF ChainsOK, GraphOK
<1>3. m \in 0 .. (m + 1) - 1
  OBVIOUS
<1>4. x \in Clusters
  BY <1>3 DEF IsLong
<1>5. fat'[x] = v
  BY <1>1, <1>4 DEF Relinks, Typed
<1> QED
  BY <1>1, <1>2, <1>4, <1>5, PartKept DEF Typed

(* setSize() hangs the new clusters on the last cluster of the file. *)
LEMMA ChainFullChains ==
  ASSUME Ready, ChainsOK, NEW t \in Threads, chain(t), NEW s \in Streams, s = th[t].s, stream[s].size > 0
  PROVE  ChainsOK'
<1>1. Typed /\ PlacesOK /\ RefsOK /\ LocksOK
  BY ReadyIs
<1>2. /\ th[t].pc = "chain" /\ th[t].op = "setSize" /\ stream[s] # None
      /\ ChainEffect(t) /\ CallStep(t) /\ SameWork(t)
      /\ th'[t].pc = Flushing(s) /\ dir' = dir /\ nxtFree' = nxtFree
  BY <1>1, ChainDoes
<1>3. /\ StreamStep(s) /\ stream'[s] # None /\ stream'[s].size = stream[s].size /\ stream'[s].fcb.size = th[t].size
      /\ stream'[s].fstClus = stream[s].fstClus
  BY <1>2 DEF ChainEffect
<1>4. HeadsOK' /\ NoStarts /\ SureFrom /\ GraphOK' /\ Spared(stream[s].fstClus)
  BY ChainFat DEF ChainsOK
<1>5. PICK m, x :
              /\ m \in Nat
              /\ m + 1 = ClustersOf(stream[s].size) /\ x = Walk(fat, stream[s].fstClus, m)
              /\ stream[s].fstClus \in Clusters /\ IsRoot(fat, stream[s].fstClus)
              /\ IsLong(fat, stream[s].fstClus, m + 1)
              /\ Relinks(fat, fat', x, th[t].clus)
              /\ th[t].clus \in Clusters /\ th[t].clus # stream[s].fstClus
              /\ stream'[s].lastPosition = m /\ stream'[s].lastClus = x
  BY ChainFat DEF ChainsOK
<1>6. PICK q, v, old, new : q = stream[s].fstClus /\ v = th[t].clus /\ old = stream[s].size /\ new = th[t].size
  OBVIOUS
<1>7. \A r \in Streams : ~Resets(t, r)
  BY <1>2 DEF Resets, Resized
<1>8. \A u \in Threads \ {t} : th'[u] = th[u]
  BY <1>2 DEF CallStep
<1>9. /\ IsLong(fat', q, m + 1) /\ \A i \in 0 .. m : Walk(fat', q, i) = Walk(fat, q, i)
      /\ fat'[x] = v /\ x \in Clusters
  <2>1. m \in Nat /\ q \in Clusters /\ IsRoot(fat, q) /\ IsLong(fat, q, m + 1) /\ x = Walk(fat, q, m) /\ Relinks(fat, fat', x, v)
    BY <1>5, <1>6
  <2> QED
    BY <2>1, FileKept
<1>10. PICK k \in Nat : k = ClustersOf(new) - ClustersOf(old) /\ IsLong(fat, v, k) /\ k # 0
  <2>1. PICK k : k = ClustersOf(th[t].size) - ClustersOf(stream[s].size) - th[t].n
    OBVIOUS
  <2>2. /\ ClustersOf(th[t].size) > ClustersOf(stream[s].size)
        /\ k \in Nat /\ Chained(t, k) /\ th[t].n = 0
    BY <1>2, <2>1 DEF ChainsOK, AllocOK, AllocOf
  <2>3. ClustersOf(th[t].size) \in Nat /\ ClustersOf(stream[s].size) \in Nat
    BY <1>1, <1>2, CallTyped, StreamTyped, Clusters0, Numbers
  <2>4. k = ClustersOf(th[t].size) - ClustersOf(stream[s].size) /\ k # 0
    BY <2>1, <2>2, <2>3
  <2>5. IsLong(fat, th[t].clus, k)
    BY <2>2, <2>4 DEF Chained
  <2> QED
    BY <1>6, <2>2, <2>4, <2>5
<1>11. IsLong(fat', v, k)
  <2>1. Starts(v)
    BY <1>6 DEF Starts
  <2> QED
    BY <1>4, <1>5, <1>6, <1>10, <2>1, SparedLong
<1>12. ClustersOf(old) \in Nat /\ ClustersOf(new) \in Nat /\ m + 1 = ClustersOf(old)
  BY <1>1, <1>2, <1>5, <1>6, CallTyped, StreamTyped, Clusters0, Numbers
<1>13. m \in Nat /\ Walk(fat', q, m) = x
  BY <1>5, <1>6, <1>9
<1>14. IsLong(fat', q, ClustersOf(new))
  <2>1. IsLong(fat', q, (m + 1) + k)
    BY <1>9, <1>10, <1>11, <1>13, Joined
  <2>2. (m + 1) + k = ClustersOf(new)
    BY <1>10, <1>12
  <2> QED
    BY <2>1, <2>2
<1>15. FileOK(s)'
  <2>1. new # 0
    <3>1. ClustersOf(new) # 0
      BY <1>10, <1>12
    <3> QED
      BY Zenon, <3>1, ClustersAre
  <2>2. LongStream(s)'
    BY <1>3, <1>6, <1>14, <2>1 DEF LongStream
  <2>3. HintOf(s)'
    BY <1>3, <1>5, <1>6, <1>13 DEF HintOf
  <2> QED
    BY <2>2, <2>3 DEF FileOK
<1>16. ASSUME NEW r \in Streams, stream'[r] # None
       PROVE  FileOK(r)' \/ (SameFile(r) /\ (stream[r].fstClus \in Clusters => stream[r].fstClus # q))
  <2>1. CASE r = s
    BY <1>15, <2>1
  <2>2. CASE r # s
    <3>1. stream'[r] = stream[r]
      BY <1>3, <2>2 DEF StreamStep
    <3>2. SameFile(r)
      BY <1>7, <1>8, <1>16, <3>1, SameStream
    <3>3. stream[r].fstClus # q
      BY <1>2, <1>5, <1>6, <1>16, <2>2, <3>1 DEF ChainsOK, HeadsOK, StreamsApart
    <3> QED
      BY <3>2, <3>3
  <2> QED
    BY <2>1, <2>2
<1>17. ASSUME NEW o \in Slots, Sure(o)'
       PROVE  LongEntry(o)' \/ (Sure(o) /\ dir'[o] = dir[o] /\ (dir[o].fstClus \in Clusters => dir[o].fstClus # q))
  <2>1. Sure(o) /\ dir'[o] = dir[o]
    BY <1>4, <1>17 DEF SureFrom
  <2>2. CASE dir[o].fstClus = q
    <3>1. dir[o].size = stream[s].fcb.size
      BY <1>2, <1>5, <1>6, <2>1, <2>2, SharedSize
    <3>2. stream[s].fcb.size = old
      BY <1>2, <1>6, HeldIsNotNew, SizedLong DEF Resized, ChainsOK
    <3>3. LongEntry(o)'
      BY <1>6, <1>9, <1>12, <2>1, <2>2, <3>1, <3>2 DEF LongEntry
    <3> QED
      BY <3>3
  <2> QED
    BY <2>1, <2>2
<1>18. ASSUME NEW u \in Threads \ {t}
       PROVE  /\ th[u].clus \in Clusters => th[u].clus # q
              /\ Resizing(u) => stream'[th[u].s].size = stream[th[u].s].size
  <2>1. th[u].clus \in Clusters => th[u].clus # q
    BY <1>2, <1>6 DEF ChainsOK, HeadsOK, CallsAside
  <2>2. Resizing(u) => stream'[th[u].s].size = stream[th[u].s].size
    BY <1>1, <1>3, ResizingIs DEF StreamStep
  <2> QED
    BY <2>1, <2>2
<1>19. AllocOf(t)' /\ MovingOf(t)'
  BY <1>2 DEF MovingOf, Flushing, SameWork, AllocOf
<1>20. Spared(q)
  BY <1>4, <1>6
<1> QED
  BY Zenon, <1>1, <1>4, <1>8, <1>16, <1>17, <1>18, <1>19, <1>20, ChainsSpared

(* The step of setSize() that has its clusters allocated. *)
LEMMA ChainChains ==
  ASSUME Ready, ChainsOK, NEW t \in Threads, chain(t)
  PROVE  ChainsOK'
<1>1. th[t].s \in Streams
  BY ReadyIs, ChainDoes
<1> QED
  BY <1>1, ChainEmptyChains, ChainFullChains

(* setSize() cuts the chain after the last cluster that the smaller size needs. *)
LEMMA CutChains ==
  ASSUME Ready, ChainsOK, NEW t \in Threads, cut(t), NEW s \in Streams, s = th[t].s, th[t].size # 0
  PROVE  ChainsOK'
<1>1. Typed /\ PlacesOK /\ RefsOK /\ LocksOK /\ FcbOK
  BY ReadyIs
<1>2. /\ th[t].pc = "cut" /\ th[t].op = "setSize" /\ stream[s] # None
      /\ stream' = stream /\ dir' = dir /\ CallStep(t) /\ SameWork(t) /\ th'[t].pc = "free"
  BY <1>1, CutDoes
<1>3. HeadsOK' /\ SureFrom /\ GraphOK' /\ Spared(stream[s].fstClus)
  BY CutFat DEF ChainsOK
<1>4. PICK m, x :
              /\ m \in Nat
              /\ m + 1 = ClustersOf(th[t].size) /\ x = Walk(fat, stream[s].fstClus, m)
              /\ stream[s].fstClus \in Clusters /\ IsRoot(fat, stream[s].fstClus)
              /\ IsLong(fat, stream[s].fstClus, m + 1)
              /\ Relinks(fat, fat', x, Eof)
  BY CutFat DEF ChainsOK
<1>5. PICK q, size : q = stream[s].fstClus /\ size = th[t].size
  OBVIOUS
<1>6. stream[s].fcb.size = size
  BY <1>1, <1>2, <1>5 DEF FcbOK, FcbOf, Resized
<1>7. \A u \in Threads \ {t} : th'[u] = th[u]
  BY <1>2 DEF CallStep
<1>8. \A u \in Threads, r \in Streams : Resets(u, r) => \E v \in Threads : Resets(v, r)'
  BY <1>2, <1>7 DEF Resets, Resized, SameWork
<1>9. IsLong(fat', q, ClustersOf(size))
  <2>1. m \in Nat /\ q \in Clusters /\ IsRoot(fat, q) /\ IsLong(fat, q, m + 1) /\ x = Walk(fat, q, m) /\ m + 1 = ClustersOf(size)
    BY <1>4, <1>5
  <2>2. IsLong(fat', q, m + 1)
    BY <1>4, <2>1, FileKept
  <2> QED
    BY <2>1, <2>2
<1>10. FileOK(s)'
  <2>1. LongStream(s)'
    BY <1>2, <1>5, <1>6, <1>9 DEF LongStream
  <2>2. Resets(t, s)'
    BY <1>2 DEF Resets, Resized, SameWork
  <2> QED
    BY <2>1, <2>2 DEF FileOK
<1>11. ASSUME NEW r \in Streams, stream'[r] # None
       PROVE  FileOK(r)' \/ (SameFile(r) /\ (stream[r].fstClus \in Clusters => stream[r].fstClus # q))
  <2>1. CASE r = s
    BY <1>10, <2>1
  <2>2. CASE r # s
    <3>1. SameFile(r)
      BY <1>2, <1>8, <1>11 DEF SameFile, SameHint
    <3>2. stream[r].fstClus # q
      BY <1>2, <1>4, <1>5, <1>11, <2>2 DEF ChainsOK, HeadsOK, StreamsApart
    <3> QED
      BY <3>1, <3>2
  <2> QED
    BY <2>1, <2>2
<1>12. ASSUME NEW o \in Slots, Sure(o)'
       PROVE  LongEntry(o)' \/ (Sure(o) /\ dir'[o] = dir[o] /\ (dir[o].fstClus \in Clusters => dir[o].fstClus # q))
  <2>1. Sure(o) /\ dir'[o] = dir[o]
    BY <1>3, <1>12 DEF SureFrom
  <2>2. CASE dir[o].fstClus = q
    <3>1. dir[o].size = size
      BY <1>2, <1>4, <1>5, <1>6, <2>1, <2>2, SharedSize
    <3>2. LongEntry(o)'
      BY <1>5, <1>9, <2>1, <2>2, <3>1 DEF LongEntry
    <3> QED
      BY <3>2
  <2> QED
    BY <2>1, <2>2
<1>13. \A u \in Threads \ {t} : /\ th[u].clus \in Clusters => th[u].clus # q
                                /\ Resizing(u) => stream'[th[u].s].size = stream[th[u].s].size
  BY <1>2, <1>5 DEF ChainsOK, HeadsOK, CallsAside
<1>14. AllocOf(t)' /\ MovingOf(t)'
  BY <1>2 DEF MovingOf, AllocOf
<1>15. Spared(q)
  BY <1>3, <1>5
<1> QED
  BY Zenon, <1>1, <1>3, <1>7, <1>11, <1>12, <1>13, <1>14, <1>15, ChainsSpared

(* setSize() to 0 takes the whole chain from the file. *)
LEMMA CutEmptyChains ==
  ASSUME Ready, ChainsOK, NEW t \in Threads, cut(t), th[t].size = 0
  PROVE  ChainsOK'
<1>1. Typed /\ PlacesOK /\ RefsOK
  BY ReadyIs
<1>2. /\ th[t].pc = "cut" /\ th[t].op = "setSize" /\ fat' = fat /\ nxtFree' = nxtFree
      /\ stream' = stream /\ dir' = dir /\ CallStep(t) /\ SameWork(t) /\ th'[t].pc = "free" /\ th'[t].clus = th[t].clus
  BY <1>1, CutDoes
<1>3. Quiet(t)
  BY Zenon DEF Quiet
<1>4. Calm(t)
  BY <1>1, <1>2, CalmCall
<1>5. HeadsOK' /\ NoStarts /\ SureFrom
  BY <1>2, <1>3, <1>4, CalmHeads DEF ChainsOK, StreamsFrom
<1>6. \A s \in Streams : Resets(t, s) => Resets(t, s)'
  BY <1>2 DEF Resets, Resized, SameWork
<1>7. th'[t].pc \notin {"alloc", "mark", "link", "chain"} /\ MovingOf(t)' /\ \A u \in Threads \ {t} : th'[u] = th[u]
  BY <1>2 DEF MovingOf, CallStep
<1>8. /\ \A s \in Streams : stream'[s] = stream[s]
      /\ \A s \in Streams : ~(stream[s] # None /\ stream'[s] = None)
  BY <1>2
<1> QED
  BY Zenon, <1>2, <1>5, <1>6, <1>7, <1>8, CalmChains

(* The step of setSize() that shortens the chain. *)
LEMMA CutStepChains ==
  ASSUME Ready, ChainsOK, NEW t \in Threads, cut(t)
  PROVE  ChainsOK'
<1>1. th[t].s \in Streams
  BY ReadyIs, CutDoes
<1> QED
  BY <1>1, CutChains, CutEmptyChains

(* ++freeCount changes no chain. *)
LEMMA CountChains ==
  ASSUME Ready, ChainsOK, NEW t \in Threads, count(t)
  PROVE  ChainsOK'
<1>1. Typed /\ PlacesOK /\ RefsOK
  BY ReadyIs
<1>2. /\ th[t].pc = "count" /\ fat' = fat /\ nxtFree' = nxtFree
      /\ stream' = stream /\ dir' = dir /\ Goes(t, "free")
  BY <1>1, CountDoes
<1>3. Quiet(t)
  BY Zenon DEF Quiet
<1>4. Calm(t)
  BY <1>1, <1>2, CalmCall
<1>5. HeadsOK' /\ NoStarts /\ SureFrom
  BY <1>2, <1>3, <1>4, CalmHeads DEF ChainsOK, StreamsFrom, Goes, SameChain
<1>6. \A s \in Streams : Resets(t, s) => Resets(t, s)'
  BY <1>2 DEF Resets, Resized, SameWork, Goes
<1>7. th'[t].pc \notin {"alloc", "mark", "link", "chain"} /\ MovingOf(t)' /\ \A u \in Threads \ {t} : th'[u] = th[u]
  BY <1>2 DEF MovingOf, CallStep, Goes
<1>8. /\ \A s \in Streams : stream'[s] = stream[s]
      /\ \A s \in Streams : ~(stream[s] # None /\ stream'[s] = None)
  BY <1>2
<1> QED
  BY Zenon, <1>2, <1>5, <1>6, <1>7, <1>8, CalmChains

(* flush() takes the monitor of the page and changes no chain. *)
LEMMA SyncChains ==
  ASSUME Ready, ChainsOK, NEW t \in Threads, sync(t)
  PROVE  ChainsOK'
<1>1. Typed /\ PlacesOK /\ RefsOK
  BY ReadyIs
<1>2. /\ th[t].pc = "sync" /\ fat' = fat /\ nxtFree' = nxtFree
      /\ stream' = stream /\ dir' = dir /\ Goes(t, "entry")
  BY <1>1, SyncDoes
<1>3. Quiet(t)
  BY Zenon DEF Quiet
<1>4. Calm(t)
  BY <1>1, CalmSync
<1>5. HeadsOK' /\ NoStarts /\ SureFrom
  BY <1>2, <1>3, <1>4, CalmHeads DEF ChainsOK, StreamsFrom, Goes, SameChain
<1>6. \A s \in Streams : Resets(t, s) => Resets(t, s)'
  BY <1>2 DEF Resets, Resized, SameWork, Goes
<1>7. th'[t].pc \notin {"alloc", "mark", "link", "chain"} /\ MovingOf(t)' /\ \A u \in Threads \ {t} : th'[u] = th[u]
  BY <1>2 DEF MovingOf, CallStep, Goes
<1>8. /\ \A s \in Streams : stream'[s] = stream[s]
      /\ \A s \in Streams : ~(stream[s] # None /\ stream'[s] = None)
  BY <1>2
<1> QED
  BY Zenon, <1>2, <1>5, <1>6, <1>7, <1>8, CalmChains

(* remove() takes the monitor of the directory and changes no chain. *)
LEMMA EraseChains ==
  ASSUME Ready, ChainsOK, NEW t \in Threads, erase(t)
  PROVE  ChainsOK'
<1>1. Typed /\ PlacesOK /\ RefsOK
  BY ReadyIs
<1>2. /\ th[t].pc = "erase" /\ th[t].op \in {"unbind", "rename"} /\ fat' = fat /\ nxtFree' = nxtFree
      /\ stream' = stream /\ dir' = dir /\ CallStep(t) /\ SameWork(t) /\ SameChain(t) /\ th'[t].pc = "sync"
  BY <1>1, EraseDoes
<1>3. Quiet(t)
  BY Zenon DEF Quiet
<1>4. Calm(t)
  BY <1>1, CalmErase
<1>5. HeadsOK' /\ NoStarts /\ SureFrom
  BY <1>2, <1>3, <1>4, CalmHeads DEF ChainsOK, StreamsFrom, SameChain
<1>6. \A s \in Streams : Resets(t, s) => Resets(t, s)'
  BY <1>2 DEF Resets, Resized
<1>7. th'[t].pc \notin {"alloc", "mark", "link", "chain"} /\ MovingOf(t)' /\ \A u \in Threads \ {t} : th'[u] = th[u]
  BY <1>2 DEF MovingOf, CallStep
<1>8. /\ \A s \in Streams : stream'[s] = stream[s]
      /\ \A s \in Streams : ~(stream[s] # None /\ stream'[s] = None)
  BY <1>2
<1> QED
  BY Zenon, <1>2, <1>5, <1>6, <1>7, <1>8, CalmChains

(* rename() begins to flush the old stream to the new entry. *)
LEMMA RenameFlushChains ==
  ASSUME Ready, ChainsOK, NEW t \in Threads, renameFlush(t)
  PROVE  ChainsOK'
<1>1. Typed /\ PlacesOK /\ RefsOK
  BY ReadyIs
<1>2. /\ th[t].pc = "flush" /\ th[t].op = "rename" /\ fat' = fat /\ nxtFree' = nxtFree
      /\ stream' = stream /\ dir' = dir /\ CallStep(t) /\ SameChain(t) /\ th'[t].pc = Flushing(th[t].old)
  BY <1>1, RenameFlushDoes
<1>3. Quiet(t)
  BY Zenon DEF Quiet
<1>4. Calm(t)
  BY <1>1, CalmRenameFlush
<1>5. HeadsOK' /\ NoStarts /\ SureFrom
  BY <1>2, <1>3, <1>4, CalmHeads DEF ChainsOK, StreamsFrom, SameChain
<1>6. \A s \in Streams : Resets(t, s) => Resets(t, s)'
  BY <1>2 DEF Resets, Resized
<1>7. th'[t].pc \notin {"alloc", "mark", "link", "chain"} /\ MovingOf(t)' /\ \A u \in Threads \ {t} : th'[u] = th[u]
  BY <1>2 DEF MovingOf, CallStep, Flushing
<1>8. /\ \A s \in Streams : stream'[s] = stream[s]
      /\ \A s \in Streams : ~(stream[s] # None /\ stream'[s] = None)
  BY <1>2
<1> QED
  BY Zenon, <1>2, <1>5, <1>6, <1>7, <1>8, CalmChains

(* rename() finds the new name taken and ends. *)
LEMMA RenameFailsChains ==
  ASSUME Ready, ChainsOK, NEW t \in Threads, renameFails(t)
  PROVE  ChainsOK'
<1>1. Typed /\ PlacesOK /\ RefsOK
  BY ReadyIs
<1>2. /\ th[t].pc = "create" /\ th[t].op = "rename" /\ th[t].old \in Streams /\ Drops(t, th[t].old)
      /\ dir' = dir /\ fat' = fat /\ nxtFree' = nxtFree
  BY <1>1, RenameFailsDoes
<1>3. Quiet(t)
  BY Zenon DEF Quiet
<1>4. Calm(t)
  BY <1>1, <1>2, CalmCall
<1>5. \A r \in Streams : ~Resets(t, r)
  BY <1>2 DEF Resets, Resized
<1> QED
  BY <1>2, <1>3, <1>4, <1>5, DropsChains

(* remove() takes the stream out of the hash table: its chain is its own from then on. *)
LEMMA RemoveChains ==
  ASSUME Ready, ChainsOK, NEW t \in Threads, remove(t)
  PROVE  ChainsOK'
<1>1. Typed /\ PlacesOK /\ RefsOK
  BY ReadyIs
<1>2. /\ th[t].pc = "remove" /\ th[t].op \in {"unbind", "rename"} /\ stream[th[t].s] # None
      /\ dir' = dir /\ fat' = fat /\ nxtFree' = nxtFree
  BY <1>1, RemoveDoes
<1>3. HeadsOK' /\ NoStarts /\ SureFrom /\ RemovesStream(t)
  BY RemoveHeads DEF ChainsOK
<1>4. PICK s : s = th[t].s
  OBVIOUS
<1>5. /\ StreamStep(s) /\ stream'[s] # None /\ SameHint(s) /\ stream[s] # None
      /\ stream'[s].fcb = stream[s].fcb
      /\ stream'[s].fstClus = stream[s].fstClus /\ stream'[s].size = stream[s].size
      /\ CallStep(t) /\ th'[t].op = th[t].op
      /\ th'[t].write = th[t].write /\ th'[t].pc = "erase"
  BY <1>2, <1>3, <1>4 DEF RemovesStream
<1>6. \A r \in Streams : Resets(t, r) => Resets(t, r)'
  BY <1>2 DEF Resets, Resized
<1>7. th'[t].pc \notin {"alloc", "mark", "link", "chain"} /\ MovingOf(t)' /\ \A u \in Threads \ {t} : th'[u] = th[u]
  BY <1>2, <1>5 DEF MovingOf, CallStep, ChainsOK, MovingOK
<1>8. \A r \in Streams : stream'[r] # None => \/ stream'[r] = stream[r]
                                              \/ /\ stream[r] # None /\ stream'[r].fstClus = stream[r].fstClus
                                                 /\ stream'[r].fcb.size = stream[r].fcb.size /\ SameHint(r)
                                                 /\ stream'[r].size = stream[r].size
  <2> SUFFICES ASSUME NEW r \in Streams, r # s PROVE stream'[r] = stream[r]
    BY <1>5
  <2> QED
    BY <1>5 DEF StreamStep
<1>9. \A r \in Streams : ~(stream[r] # None /\ stream'[r] = None)
  BY <1>5 DEF StreamStep
<1> QED
  BY Zenon, <1>2, <1>3, <1>6, <1>7, <1>8, <1>9, CalmChains

(* rename() exchanges the two streams: each chain has the entries in doubt until they are written. *)
LEMMA SwapChains ==
  ASSUME Ready, ChainsOK, NEW t \in Threads, swap(t)
  PROVE  ChainsOK'
<1>1. Typed /\ PlacesOK /\ RefsOK
  BY ReadyIs
<1>2. PICK new \in Streams, old \in Streams : new = th[t].s /\ old = th[t].old
  BY <1>1, SwapDoes
<1>3. /\ th[t].pc = "swap" /\ Goes(t, "flush") /\ stream[new] # None /\ stream[old] # None /\ Swaps(new, old)
      /\ dir' = dir /\ fat' = fat /\ nxtFree' = nxtFree
  BY <1>1, <1>2, SwapDoes
<1>4. HeadsOK' /\ NoStarts /\ SureFrom
  BY SwapHeads DEF ChainsOK
<1>6. \A r \in Streams : Resets(t, r) => Resets(t, r)'
  BY <1>3 DEF Resets, Resized
<1>7. th'[t].pc \notin {"alloc", "mark", "link", "chain"} /\ MovingOf(t)' /\ \A u \in Threads \ {t} : th'[u] = th[u]
  BY <1>3 DEF MovingOf, CallStep, Goes
<1>8. ASSUME NEW r \in Streams
      PROVE  \/ stream'[r] = stream[r]
             \/ /\ stream[r] # None /\ stream'[r].fstClus = stream[r].fstClus
                /\ stream'[r].fcb.size = stream[r].fcb.size /\ SameHint(r)
                /\ stream'[r].size = stream[r].size /\ stream'[r] # None
  <2>1. CASE r \in {new, old}
    BY <1>3, <2>1 DEF Swaps
  <2>2. CASE r \notin {new, old}
    BY <1>3, <2>2 DEF Swaps
  <2> QED
    BY <2>1, <2>2
<1>9. \A r \in Streams : ~(stream[r] # None /\ stream'[r] = None)
  BY <1>8
<1> QED
  BY Zenon, <1>3, <1>4, <1>6, <1>7, <1>8, <1>9, CalmChains

(* What follows the write of an entry. *)
LEMMA WroteChains ==
  ASSUME Ready, ChainsOK, NEW t \in Threads, Wrote(t), th[t].pc \in {"entry", "written"}, fat' = fat, nxtFree' = nxtFree,
         HeadsOK', NoStarts, \A o \in Slots : Sure(o)' => LongEntry(o)' \/ (Sure(o) /\ dir'[o] = dir[o])
  PROVE  ChainsOK'
<1>1. Typed /\ PlacesOK /\ RefsOK /\ LocksOK
  BY ReadyIs
<1>2. /\ \A u \in Threads \ {t} : th'[u] = th[u]
      /\ th'[t].pc \notin {"alloc", "mark", "link", "chain"} /\ MovingOf(t)'
  <2>1. CASE WroteNew(t)
    BY <2>1, ReturnedCall DEF WroteNew
  <2>2. CASE WroteNewName(t)
    BY <2>2 DEF WroteNewName, Goes, CallStep, MovingOf
  <2>3. CASE WroteMoved(t)
    BY <2>3 DEF WroteMoved, CallStep, MovingOf
  <2>4. CASE WroteLarger(t)
    BY <2>4, ReturnedCall DEF WroteLarger
  <2>5. CASE WroteSmaller(t)
    BY <2>5 DEF WroteSmaller, Goes, CallStep, MovingOf
  <2>6. CASE WroteErased(t)
    BY <2>6, ReturnedCall DEF WroteErased, Drops
  <2> QED
    BY <2>1, <2>2, <2>3, <2>4, <2>5, <2>6 DEF Wrote
<1>3. \A r \in Streams : Resets(t, r) => Resets(t, r)'
  <2>1. CASE WroteLarger(t)
    <3> SUFFICES ASSUME NEW r \in Streams, Resets(t, r) PROVE FALSE
      OBVIOUS
    <3>1. th[t].size = 0 /\ th[t].s = r
      BY DEF Resets, Resized
    <3>2. stream[r] # None /\ stream[r].size < 0
      BY <2>1, <3>1 DEF WroteLarger
    <3> QED
      BY <1>1, <3>2, StreamTyped, Numbers
  <2>2. CASE WroteSmaller(t)
    BY <2>2 DEF WroteSmaller, Goes, SameWork, Resets, Resized
  <2>3. CASE ~WroteLarger(t) /\ ~WroteSmaller(t)
    <3>1. th[t].op # "setSize"
      BY <2>3 DEF Wrote, WroteNew, WroteNewName, WroteMoved, WroteErased
    <3> QED
      BY <3>1 DEF Resets, Resized
  <2> QED
    BY <2>1, <2>2, <2>3
<1>4. \A u \in Threads, s \in Streams : Resets(u, s) => \E v \in Threads : Resets(v, s)'
  <2> SUFFICES ASSUME NEW u \in Threads, NEW s \in Streams, Resets(u, s) PROVE \E v \in Threads : Resets(v, s)'
    OBVIOUS
  <2> QED
    BY <1>2, <1>3 DEF Resets, Resized
<1>5. ASSUME NEW r \in Streams, stream'[r] # None
      PROVE  SameFile(r)
  <2>1. stream[r] # None /\ stream'[r].fstClus = stream[r].fstClus
                        /\ stream'[r].fcb.size = stream[r].fcb.size /\ SameHint(r)
    <3>1. CASE stream'[r] = stream[r]
      BY <1>5, <3>1 DEF SameHint
    <3>2. CASE stream'[r] # stream[r]
      <4>1. CASE WroteLarger(t)
        BY <3>2, <4>1 DEF WroteLarger, StreamStep
      <4>2. CASE WroteErased(t)
        BY <1>5, <3>2, <4>2 DEF WroteErased, Drops, StreamStep
      <4>3. CASE ~WroteLarger(t) /\ ~WroteErased(t)
        BY <3>2, <4>3 DEF Wrote, WroteNew, WroteNewName, WroteMoved, WroteSmaller
      <4> QED
        BY <4>1, <4>2, <4>3
    <3> QED
      BY <3>1, <3>2
  <2> QED
    BY <1>4, <2>1 DEF SameFile
<1>6. ASSUME NEW u \in Threads \ {t}, Resizing(u)
      PROVE  stream'[th[u].s].size = stream[th[u].s].size
  <2>1. th[u].op = "setSize" /\ th[u].s \in Streams /\ stream[th[u].s] # None /\ th[u].lock = th[u].s
    BY <1>1, <1>6, ResizingIs
  <2>2. CASE WroteLarger(t)
    <3>1. th[t].lock = th[t].s
      BY <1>1, <2>2 DEF WroteLarger, PlacesOK, CallOK
    <3>2. th[u].s # th[t].s
      BY <1>1, <2>1, <3>1, FatAssumption DEF LocksOK
    <3> QED
      BY <2>1, <2>2, <3>2 DEF WroteLarger, StreamStep
  <2>3. CASE WroteErased(t)
    BY <2>1, <2>3 DEF WroteErased, Drops, StreamStep
  <2>4. CASE ~WroteLarger(t) /\ ~WroteErased(t)
    BY <2>4 DEF Wrote, WroteNew, WroteNewName, WroteMoved, WroteSmaller
  <2> QED
    BY <2>2, <2>3, <2>4
<1>7. AllocOf(t)' /\ th'[t].pc # "link"
  BY <1>2 DEF AllocOf
<1> QED
  BY Zenon, <1>2, <1>5, <1>6, <1>7, ChainsSame

(* The write of an entry: afterwards it has the chain of its stream, or none. *)
LEMMA EntryChains ==
  ASSUME Ready, ChainsOK, NEW t \in Threads, entry(t)
  PROVE  ChainsOK'
<1>1. Typed /\ PlacesOK /\ RefsOK /\ FcbOK
  BY ReadyIs
<1>2. PICK s \in Streams : s = th[t].s
  BY <1>1, EntryDoes
<1>3. /\ th[t].pc = "entry" /\ stream[s] # None /\ Wrote(t) /\ fat' = fat /\ nxtFree' = nxtFree
      /\ dir' = [dir EXCEPT ![stream[s].offset] = IF th[t].write = "erase" THEN None ELSE stream[s].fcb]
  BY <1>1, <1>2, EntryDoes
<1>4. /\ HeadsOK' /\ NoStarts
      /\ \A o \in Slots : o # stream[s].offset /\ Sure(o)' => Sure(o) /\ dir'[o] = dir[o]
  BY <1>2, EntryHeads DEF ChainsOK
<1>5. ASSUME NEW o \in Slots, Sure(o)', o = stream[s].offset
      PROVE  LongEntry(o)'
  <2>1. dir'[o] # None
    BY <1>5 DEF Sure
  <2>2. dir'[o] = stream[s].fcb
    BY <1>1, <1>3, <1>5, <2>1 DEF Typed
  <2>3. stream[s].fcb.fstClus = stream[s].fstClus
    BY <1>1, <1>3 DEF FcbOK, FcbOf
  <2>4. LongStream(s)
    BY <1>3 DEF ChainsOK, StreamsLong, LongStream
  <2> QED
    BY <1>3, <2>2, <2>3, <2>4 DEF LongStream, LongEntry
<1>6. \A o \in Slots : Sure(o)' => LongEntry(o)' \/ (Sure(o) /\ dir'[o] = dir[o])
  BY <1>4, <1>5
<1> QED
  BY <1>3, <1>4, <1>6, WroteChains

(* What a call does after its entry is written. *)
LEMMA WrittenChains ==
  ASSUME Ready, ChainsOK, NEW t \in Threads, written(t)
  PROVE  ChainsOK'
<1>1. Typed /\ PlacesOK /\ RefsOK
  BY ReadyIs
<1>2. /\ th[t].pc = "written" /\ Wrote(t) /\ fat' = fat /\ nxtFree' = nxtFree /\ dir' = dir
  BY <1>1, WrittenDoes
<1>3. Quiet(t)
  BY Zenon DEF Quiet
<1>4. Calm(t) /\ (WroteLarger(t) \/ WroteSmaller(t))
  BY WrittenIsSetSize
<1>5. StreamsFrom /\ (th'[t].clus \in Clusters => th'[t].clus = th[t].clus)
  <2>1. CASE WroteLarger(t)
    BY <2>1, ReturnedCall, Numbers DEF WroteLarger, StreamsFrom, StreamStep
  <2>2. CASE WroteSmaller(t)
    BY <2>2 DEF WroteSmaller, StreamsFrom, Goes, SameChain
  <2> QED
    BY <1>4, <2>1, <2>2
<1>6. HeadsOK' /\ NoStarts /\ SureFrom
  BY <1>2, <1>3, <1>4, <1>5, CalmHeads DEF ChainsOK
<1>7. \A o \in Slots : Sure(o)' => LongEntry(o)' \/ (Sure(o) /\ dir'[o] = dir[o])
  BY <1>6 DEF SureFrom
<1> QED
  BY <1>2, <1>6, <1>7, WroteChains

(* The file is under two names only while rename() says so. *)
LEMMA MovedIsMoving ==
  ASSUME MovingOK, NEW t \in Threads, ~Moving(t)
  PROVE  ~Moved(t)
BY DEF MovingOK, Moving, Moved, Renaming, Erasing, Flushes, Writes

(* The memory is lost between two writes of rename(): what is on the disk is sound. *)
LEMMA ForgetChains ==
  ASSUME ChainsOK, Forget, dir' = dir, fat' = fat, \A u \in Threads : ~Moved(u)
  PROVE  ChainsOK'
<1>1. HeadsOK' /\ NoStarts /\ SureFrom
  BY ForgetHeads DEF ChainsOK
<1>2. (\A u \in Threads : th'[u] = Idle) /\ \A s \in Streams : stream'[s] = None
  BY ForgetDoes
<1>3. \A u \in Threads : th'[u].pc = "idle"
  BY <1>2, IdleIs
<1>4. GraphOK'
  BY <1>1, <1>3, GraphStays DEF ChainsOK
<1>5. StreamsLong' /\ HintsOK'
  BY <1>2 DEF StreamsLong, HintsOK
<1>6. EntriesLong'
  BY <1>1 DEF EntriesLong, SureFrom, ChainsOK
<1>7. AllocOK' /\ MovingOK'
  BY <1>3 DEF AllocOK, AllocOf, MovingOK
<1> QED
  BY <1>1, <1>4, <1>5, <1>6, <1>7 DEF ChainsOK

(* Nothing changes in the calls, the streams and the disk. *)
LEMMA StillChains ==
  ASSUME ChainsOK, th' = th, stream' = stream, dir' = dir, fat' = fat,
         nxtFree' = nxtFree \/ \A u \in Threads : th[u].pc # "link"
  PROVE  ChainsOK'
<1>1. \A o : Sure(o)' <=> Sure(o)
  BY DEF Sure, Doubtful, DoubtBy, Moved, Renaming, Erasing, Flushes, Writes, Mine, Theirs, Unsaved
<1>2. \A r : Starts(r)' <=> Starts(r)
  BY <1>1 DEF Starts
<1>3. \A o, s : Bears(o, s)' <=> Bears(o, s)
  BY DEF Bears, Kept, Erasing, Writes
<1>4. \A o, t : Empties(o, t)' <=> Empties(o, t)
  BY DEF Empties, Unwritten
<1>5. HeadsOK'
  <2>1. StreamsApart' /\ CallsApart' /\ CallsAside'
    BY DEF ChainsOK, HeadsOK, StreamsApart, CallsApart, CallsAside
  <2>2. EntriesApart'
    BY <1>1 DEF ChainsOK, HeadsOK, EntriesApart
  <2>3. EntriesBorne'
    BY <1>1, <1>3 DEF ChainsOK, HeadsOK, EntriesBorne
  <2>4. EntriesEmptied'
    BY <1>1, <1>4 DEF ChainsOK, HeadsOK, EntriesEmptied
  <2> QED
    BY <2>1, <2>2, <2>3, <2>4 DEF HeadsOK
<1>6. GraphOK'
  <2>1. RootsOK' /\ Linked(fat')
    BY <1>2 DEF ChainsOK, GraphOK, RootsOK
  <2>2. SpareOK'
    BY <1>2 DEF ChainsOK, GraphOK, SpareOK
  <2> QED
    BY <2>1, <2>2 DEF GraphOK
<1>7. StreamsLong'
  BY DEF ChainsOK, StreamsLong
<1>8. EntriesLong'
  BY <1>1 DEF ChainsOK, EntriesLong
<1>9. AllocOK'
  BY DEF ChainsOK, AllocOK, AllocOf, Chained
<1>10. HintsOK'
  BY DEF ChainsOK, HintsOK, HintOf, Resets, Resized
<1>11. MovingOK'
  BY DEF ChainsOK, MovingOK
<1> QED
  BY <1>5, <1>6, <1>7, <1>8, <1>9, <1>10, <1>11 DEF ChainsOK

(* With no mounted volume there are no calls. *)
LEMMA NobodyCalls ==
  ASSUME MountedOK, mounted # "yes"
  PROVE  \A u \in Threads : th[u].pc = "idle" /\ ~Moved(u)
<1>1. \A u \in Threads : th[u] = Idle
  BY DEF MountedOK
<1> QED
  BY <1>1, IdleIs DEF Moved, Renaming

(* mount() begins with the chains of the entries, and no streams. *)
LEMMA MountChains ==
  ASSUME Ready, ChainsOK, mount
  PROVE  ChainsOK'
<1>1. TypeOK /\ MountedOK
  BY ReadyIs
<1>2. mounted = "no" /\ fat' = fat /\ dir' = dir /\ stream' = stream /\ th' = th
  BY <1>1, MountDoes
<1>3. \A u \in Threads : th[u].pc # "link"
  BY <1>1, <1>2, NobodyCalls
<1> QED
  BY <1>2, <1>3, StillChains

(* The mark of a clean disk changes no chain. *)
LEMMA SetCleanChains ==
  ASSUME Ready, ChainsOK, setClean
  PROVE  ChainsOK'
<1>1. mounted = "leaving" /\ Forget /\ fat' = fat /\ dir' = dir
  BY SetCleanDoes
<1>2. \A u \in Threads : ~Moved(u)
  BY <1>1, ReadyIs, NobodyCalls
<1> QED
  BY <1>1, <1>2, ForgetChains

(* A crash leaves the entries with their chains, unless rename() was in the middle of its writes. *)
LEMMA CrashChains ==
  ASSUME "torn" \notin Allow, ChainsOK, Crash
  PROVE  ChainsOK'
<1>1. (\A t \in Threads : ~Moving(t)) /\ Forget /\ fat' = fat /\ dir' = dir
  BY CrashDoes
<1>2. \A u \in Threads : ~Moved(u)
  BY <1>1, MovedIsMoving DEF ChainsOK
<1> QED
  BY <1>1, <1>2, ForgetChains

(* Every step keeps the chains, but where a crash may find rename() half done, and where two calls may
   be in the directory with the same name. *)
LEMMA ChainsStep ==
  ASSUME "names" \notin Allow, "torn" \notin Allow, Ready, ChainsOK, [Next]_vars
  PROVE  ChainsOK'
<1>1. ASSUME mount PROVE ChainsOK'
  BY <1>1, MountChains
<1>2. ASSUME dismount PROVE ChainsOK'
  BY <1>2, DismountDoes, StillChains
<1>3. ASSUME setClean PROVE ChainsOK'
  BY <1>3, SetCleanChains
<1>4. ASSUME Crash PROVE ChainsOK'
  BY <1>4, CrashChains
<1>5. ASSUME NEW t \in Threads, NEW name \in Names, open(t, name) PROVE ChainsOK'
  BY <1>5, OpenChains
<1>6. ASSUME NEW t \in Threads, NEW name \in Names, create(t, name) PROVE ChainsOK'
  BY <1>6, CreateChains
<1>7. ASSUME NEW t \in Threads, NEW name \in Names, unbind(t, name) PROVE ChainsOK'
  BY <1>7, UnbindChains
<1>8. ASSUME NEW t \in Threads, NEW name \in Names, rename(t, name) PROVE ChainsOK'
  BY <1>8, RenameChains
<1>9. ASSUME NEW t \in Threads, close(t) PROVE ChainsOK'
  BY <1>9, CloseChains
<1>10. ASSUME NEW t \in Threads, NEW position \in 0 .. MaxSize - 1, seek(t, position) PROVE ChainsOK'
  BY <1>10, SeekChains
<1>11. ASSUME NEW t \in Threads, NEW size \in 0 .. MaxSize, setSize(t, size) PROVE ChainsOK'
  BY <1>11, SetSizeChains
<1>12. ASSUME NEW t \in Threads, allocCluster(t) PROVE ChainsOK'
  BY <1>12, AllocClusterChains
<1>13. ASSUME NEW t \in Threads, mark(t) PROVE ChainsOK'
  BY <1>13, MarkChains
<1>14. ASSUME NEW t \in Threads, link(t) PROVE ChainsOK'
  BY <1>14, LinkChains
<1>15. ASSUME NEW t \in Threads, chain(t) PROVE ChainsOK'
  BY <1>15, ChainChains
<1>16. ASSUME NEW t \in Threads, cut(t) PROVE ChainsOK'
  BY <1>16, CutStepChains
<1>17. ASSUME NEW t \in Threads, freeCluster(t) PROVE ChainsOK'
  BY <1>17, FreeClusterChains
<1>18. ASSUME NEW t \in Threads, count(t) PROVE ChainsOK'
  BY <1>18, CountChains
<1>19. ASSUME NEW t \in Threads, sync(t) PROVE ChainsOK'
  BY <1>19, SyncChains
<1>20. ASSUME NEW t \in Threads, entry(t) PROVE ChainsOK'
  BY <1>20, EntryChains
<1>21. ASSUME NEW t \in Threads, written(t) PROVE ChainsOK'
  BY <1>21, WrittenChains
<1>22. ASSUME NEW t \in Threads, remove(t) PROVE ChainsOK'
  BY <1>22, RemoveChains
<1>23. ASSUME NEW t \in Threads, erase(t) PROVE ChainsOK'
  BY <1>23, EraseChains
<1>24. ASSUME NEW t \in Threads, renameCreate(t) PROVE ChainsOK'
  BY <1>24, RenameCreateChains
<1>25. ASSUME NEW t \in Threads, renameFails(t) PROVE ChainsOK'
  BY <1>25, RenameFailsChains
<1>26. ASSUME NEW t \in Threads, swap(t) PROVE ChainsOK'
  BY <1>26, SwapChains
<1>27. ASSUME NEW t \in Threads, renameFlush(t) PROVE ChainsOK'
  BY <1>27, RenameFlushChains
<1>28. ASSUME UNCHANGED vars PROVE ChainsOK'
  BY <1>28, StillChains DEF vars, disk
<1> QED
  BY Zenon, <1>1, <1>2, <1>3, <1>4, <1>5, <1>6, <1>7, <1>8, <1>9, <1>10, <1>11, <1>12, <1>13, <1>14, <1>15, <1>16,
     <1>17, <1>18, <1>19, <1>20, <1>21, <1>22, <1>23, <1>24, <1>25, <1>26, <1>27, <1>28 DEF Next, Continue

(* The free clusters and the calls that are to count one are finite sets. *)
LEMMA CountsTyped ==
  /\ IsFiniteSet(FreeClusters) /\ Cardinality(FreeClusters) \in Nat
  /\ IsFiniteSet(Counting) /\ Cardinality(Counting) \in Nat
<1>1. IsFiniteSet(FreeClusters)
  BY Numbers, FS_Subset DEF FreeClusters
<1>2. IsFiniteSet(Counting)
  BY FatAssumption, FS_Subset DEF Counting
<1> QED
  BY <1>1, <1>2, FS_CardinalityType

(* A step in which no cluster becomes free, is taken or is counted. *)
Uncounted == /\ FreeClusters' = FreeClusters /\ Counting' = Counting
             /\ UNCHANGED <<clean, fsi, mounted, freeCount>>

(* A step that neither frees nor counts a cluster. *)
LEMMA CountStays ==
  ASSUME CountOK, Uncounted
  PROVE  CountOK'
BY DEF CountOK, Uncounted

(* The same, for the step of a call. *)
LEMMA CallUncounted ==
  ASSUME CountOK, NEW t \in Threads, \A u \in Threads \ {t} : th'[u] = th[u], th[t].pc # "count", th'[t].pc # "count",
         FreeClusters' = FreeClusters, UNCHANGED <<clean, fsi, mounted, freeCount>>
  PROVE  CountOK'
<1>1. Counting' = Counting
  <2> SUFFICES ASSUME NEW u \in Threads PROVE th'[u].pc = "count" <=> th[u].pc = "count"
    BY DEF Counting
  <2> QED
    OBVIOUS
<1> QED
  BY <1>1, CountStays DEF Uncounted

(* The link of a cluster in use changes. *)
LEMMA UsedRelinked ==
  ASSUME Typed, NEW x \in Clusters, fat[x] # 0, NEW v, v # 0, Relinks(fat, fat', x, v)
  PROVE  FreeClusters' = FreeClusters
<1> SUFFICES ASSUME NEW c \in Clusters PROVE fat'[c] = 0 <=> fat[c] = 0
  BY DEF FreeClusters
<1>1. fat' = [fat EXCEPT ![x] = v] /\ fat \in [Clusters -> Links]
  BY DEF Relinks, Typed
<1>2. CASE c = x
  BY <1>1, <1>2
<1>3. CASE c # x
  BY <1>1, <1>3
<1> QED
  BY <1>2, <1>3

(* A call in progress is on a mounted volume. *)
LEMMA CallMounted ==
  ASSUME Ready, CountOK, NEW t \in Threads, th[t].pc # "idle"
  PROVE  mounted = "yes" /\ ~clean
<1>1. MountedOK
  BY ReadyIs
<1>2. mounted = "yes"
  BY <1>1, IdleIs DEF MountedOK
<1> QED
  BY Zenon, <1>2 DEF CountOK

(* With no call in progress nothing is left to count. *)
LEMMA NobodyCounts ==
  ASSUME \A u \in Threads : th[u].pc # "count"
  PROVE  Cardinality(Counting) = 0
<1>1. Counting = {}
  BY DEF Counting
<1> QED
  BY <1>1, FS_EmptySet

(* mark() takes a free cluster, and one off freeCount. *)
LEMMA MarkCount ==
  ASSUME Ready, CountOK, NEW t \in Threads, mark(t)
  PROVE  CountOK'
<1>1. Typed
  BY ReadyIs
<1>2. PICK c \in Clusters : c = NextFree
  BY <1>1, MarkDoes
<1>3. /\ th[t].pc = "mark" /\ fat[c] = 0 /\ fat' = [fat EXCEPT ![c] = Eof] /\ freeCount' = freeCount - 1
      /\ Goes(t, "link") /\ clean' = clean /\ fsi' = fsi /\ mounted' = mounted
  BY <1>1, <1>2, MarkDoes
<1>4. mounted = "yes" /\ ~clean
  BY Zenon, <1>3, CallMounted
<1>5. Counting' = Counting
  <2> SUFFICES ASSUME NEW u \in Threads PROVE th'[u].pc = "count" <=> th[u].pc = "count"
    BY DEF Counting
  <2> QED
    BY <1>3 DEF Goes, CallStep
<1>6. FreeClusters' = FreeClusters \ {c}
  <2> SUFFICES ASSUME NEW d \in Clusters PROVE fat'[d] = 0 <=> fat[d] = 0 /\ d # c
    BY DEF FreeClusters
  <2>1. fat \in [Clusters -> Links] /\ Eof # 0
    BY <1>1, Numbers DEF Typed
  <2>2. CASE d = c
    BY <1>2, <1>3, <2>1, <2>2
  <2>3. CASE d # c
    BY <1>3, <2>1, <2>3
  <2> QED
    BY <2>2, <2>3
<1>7. c \in FreeClusters
  BY <1>2, <1>3 DEF FreeClusters
<1>8. Cardinality(FreeClusters') = Cardinality(FreeClusters) - 1
  BY <1>6, <1>7, CountsTyped, FS_RemoveElement
<1>9. PICK a \in Nat, b \in Nat, d \in Int : a = Cardinality(FreeClusters) /\ b = Cardinality(Counting) /\ d = freeCount
  BY <1>1, CountsTyped DEF Typed
<1>10. d + b = a
  BY <1>4, <1>9 DEF CountOK
<1>11. d - 1 + b = a - 1
  BY <1>10
<1>12. freeCount' + Cardinality(Counting') = Cardinality(FreeClusters')
  BY <1>3, <1>5, <1>8, <1>9, <1>11
<1> QED
  BY <1>3, <1>4, <1>12 DEF CountOK

(* freeCluster() frees a cluster, which it is to count. *)
LEMMA FreesCount ==
  ASSUME Ready, ChainsOK, CountOK, NEW t \in Threads, freeCluster(t), Frees(t)
  PROVE  CountOK'
<1>1. Typed /\ PlacesOK /\ RefsOK
  BY ReadyIs
<1>2. PICK c \in Clusters : c = th[t].clus
  BY DEF Frees
<1>3. fat[c] # 0
  BY <1>2, FreesFat DEF ChainsOK
<1>4. /\ th[t].pc = "free" /\ clean' = clean /\ fsi' = fsi /\ mounted' = mounted /\ freeCount' = freeCount
  BY <1>1, FreeClusterDoes
<1>5. fat' = [fat EXCEPT ![c] = 0] /\ CallStep(t) /\ th'[t].pc = "count"
  BY <1>2 DEF Frees
<1>6. mounted = "yes" /\ ~clean
  BY Zenon, <1>4, CallMounted
<1>7. Counting' = Counting \cup {t} /\ t \notin Counting
  BY <1>4, <1>5 DEF Counting, CallStep
<1>8. FreeClusters' = FreeClusters \cup {c} /\ c \notin FreeClusters
  <2>1. fat \in [Clusters -> Links]
    BY <1>1 DEF Typed
  <2>2. \A d \in Clusters : fat'[d] = 0 <=> fat[d] = 0 \/ d = c
    BY <1>5, <2>1
  <2> QED
    BY <1>2, <1>3, <2>2 DEF FreeClusters
<1>9. /\ Cardinality(FreeClusters') = Cardinality(FreeClusters) + 1
      /\ Cardinality(Counting') = Cardinality(Counting) + 1
  BY <1>7, <1>8, CountsTyped, FS_AddElement
<1>10. PICK a \in Nat, b \in Nat, d \in Int : a = Cardinality(FreeClusters) /\ b = Cardinality(Counting) /\ d = freeCount
  BY <1>1, CountsTyped DEF Typed
<1>11. d + b = a
  BY <1>6, <1>10 DEF CountOK
<1>12. d + (b + 1) = a + 1
  BY <1>11
<1>13. freeCount' + Cardinality(Counting') = Cardinality(FreeClusters')
  BY <1>4, <1>9, <1>10, <1>12
<1> QED
  BY <1>4, <1>6, <1>13 DEF CountOK

(* ++freeCount counts it, if no other core writes freeCount at the same time. *)
LEMMA CountCount ==
  ASSUME "race" \notin Allow, Ready, CountOK, NEW t \in Threads, count(t)
  PROVE  CountOK'
<1>1. Typed /\ PlacesOK
  BY ReadyIs
<1>2. /\ th[t].pc = "count" /\ freeCount' = freeCount + 1 /\ Goes(t, "free")
      /\ fat' = fat /\ clean' = clean /\ fsi' = fsi /\ mounted' = mounted
  BY <1>1, CountDoes
<1>3. mounted = "yes" /\ ~clean
  BY Zenon, <1>2, CallMounted
<1>4. Counting' = Counting \ {t} /\ t \in Counting
  BY <1>2 DEF Counting, Goes, CallStep
<1>5. Cardinality(Counting') = Cardinality(Counting) - 1
  BY <1>4, CountsTyped, FS_RemoveElement
<1>6. FreeClusters' = FreeClusters
  BY <1>2 DEF FreeClusters
<1>7. PICK a \in Nat, b \in Nat, d \in Int : a = Cardinality(FreeClusters) /\ b = Cardinality(Counting) /\ d = freeCount
  BY <1>1, CountsTyped DEF Typed
<1>8. d + b = a
  BY <1>3, <1>7 DEF CountOK
<1>9. d + 1 + (b - 1) = a
  BY <1>8
<1>10. freeCount' + Cardinality(Counting') = Cardinality(FreeClusters')
  BY <1>2, <1>5, <1>6, <1>7, <1>9
<1> QED
  BY <1>2, <1>3, <1>10 DEF CountOK

(* mount() counts the free clusters, or trusts the count of a clean disk. *)
LEMMA MountCount ==
  ASSUME Ready, CountOK, mount
  PROVE  CountOK'
<1>1. TypeOK /\ MountedOK
  BY ReadyIs
<1>2. /\ mounted = "no" /\ mounted' = "yes" /\ clean' = FALSE
      /\ freeCount' = Cardinality(FreeClusters) \/ (clean /\ freeCount' = fsi.freeCount)
      /\ fat' = fat /\ th' = th
  BY <1>1, MountDoes
<1>3. freeCount' = Cardinality(FreeClusters)
  BY <1>2 DEF CountOK
<1>4. \A u \in Threads : th[u].pc # "count"
  BY <1>1, <1>2, NobodyCalls
<1>5. Cardinality(Counting) = 0
  BY <1>4, NobodyCounts
<1>6. FreeClusters' = FreeClusters /\ Counting' = Counting
  BY <1>2 DEF FreeClusters, Counting
<1>7. PICK a \in Nat : a = Cardinality(FreeClusters)
  BY CountsTyped
<1>8. a + 0 = a
  OBVIOUS
<1> QED
  BY <1>2, <1>3, <1>5, <1>6, <1>7, <1>8 DEF CountOK

(* dismount() writes the count to FSInfo when no call is left that is to count a cluster. *)
LEMMA DismountCount ==
  ASSUME Ready, CountOK, dismount
  PROVE  CountOK'
<1>1. Typed
  BY ReadyIs
<1>2. /\ mounted = "yes" /\ mounted' = "leaving" /\ fsi' = [nxtFree |-> nxtFree, freeCount |-> freeCount]
      /\ (\A t \in Threads : th[t] = Idle) /\ fat' = fat /\ clean' = clean
  BY DismountDoes
<1>3. Cardinality(Counting) = 0
  BY <1>2, IdleIs, NobodyCounts
<1>4. FreeClusters' = FreeClusters
  BY <1>2 DEF FreeClusters
<1>5. PICK a \in Nat, d \in Int : a = Cardinality(FreeClusters) /\ d = freeCount
  BY <1>1, CountsTyped DEF Typed
<1>6. d + 0 = a
  BY <1>2, <1>3, <1>5 DEF CountOK
<1>7. fsi'.freeCount = Cardinality(FreeClusters')
  BY <1>2, <1>4, <1>5, <1>6
<1> QED
  BY <1>2, <1>7 DEF CountOK

(* The disk is marked clean after that. *)
LEMMA SetCleanCount ==
  ASSUME CountOK, setClean
  PROVE  CountOK'
<1>1. mounted = "leaving" /\ fat' = fat /\ fsi' = fsi /\ mounted' = "no"
  BY SetCleanDoes, ForgetDoes
<1>2. FreeClusters' = FreeClusters
  BY <1>1 DEF FreeClusters
<1> QED
  BY <1>1, <1>2 DEF CountOK

(* A crash loses freeCount; a disk still marked clean was not written. *)
LEMMA CrashCount ==
  ASSUME CountOK, Crash
  PROVE  CountOK'
<1>1. mounted # "no" /\ fat' = fat /\ fsi' = fsi /\ clean' = clean /\ mounted' = "no"
  BY CrashDoes, ForgetDoes
<1> QED
  BY <1>1 DEF CountOK

(* link() changes the link of a cluster that is used and stays so. *)
LEMMA LinkCount ==
  ASSUME Ready, ChainsOK, CountOK, NEW t \in Threads, link(t)
  PROVE  CountOK'
<1>1. Typed /\ PlacesOK /\ RefsOK
  BY ReadyIs
<1>2. /\ th[t].pc = "link" /\ nxtFree \in Clusters /\ CallStep(t)
      /\ th'[t].pc = (IF th[t].n > 1 THEN "mark" ELSE "chain")
      /\ fat' = (IF th[t].prev = 0 THEN fat ELSE [fat EXCEPT ![th[t].prev] = nxtFree])
      /\ UNCHANGED <<clean, fsi, mounted, freeCount>>
  BY <1>1, LinkDoes
<1>3. FreeClusters' = FreeClusters
  <2>1. CASE th[t].prev = 0
    BY <1>2, <2>1 DEF FreeClusters
  <2>2. CASE th[t].prev # 0
    <3>1. Relinks(fat, fat', th[t].prev, nxtFree)
      BY <2>2, LinkFat DEF ChainsOK
    <3>2. PICK k : k = ClustersOf(th[t].size) - ClustersOf(stream[th[t].s].size) - th[t].n
      OBVIOUS
    <3>3. Chained(t, k)
      BY <1>2, <3>2 DEF ChainsOK, AllocOK, AllocOf
    <3>4. fat[th[t].prev] = Eof
      BY <2>2, <3>3 DEF Chained
    <3>5. th[t].prev \in Clusters
      BY <1>1, <2>2, CallTyped
    <3>6. PICK x, v : x \in Clusters /\ x = th[t].prev /\ v = nxtFree
      BY <3>5
    <3>7. x \in Clusters /\ fat[x] # 0 /\ v # 0 /\ Relinks(fat, fat', x, v)
      BY <1>2, <3>1, <3>4, <3>6, Numbers
    <3> QED
      BY <1>1, <3>7, UsedRelinked
  <2> QED
    BY <2>1, <2>2
<1>4. th'[t].pc # "count" /\ th[t].pc # "count" /\ \A u \in Threads \ {t} : th'[u] = th[u]
  BY <1>2 DEF CallStep
<1> QED
  BY Zenon, <1>2, <1>3, <1>4, CallUncounted

(* The last cluster of a file, or one before, is in use. *)
LEMMA FileRelinked ==
  ASSUME Ready, ChainsOK, NEW q \in Clusters, NEW m \in Nat, NEW x, x = Walk(fat, q, m),
         IsRoot(fat, q), IsLong(fat, q, m + 1), NEW v, v # 0, Relinks(fat, fat', x, v)
  PROVE  FreeClusters' = FreeClusters
<1>1. Typed /\ Linked(fat)
  BY ReadyIs DEF ChainsOK, GraphOK
<1>2. m \in 0 .. (m + 1) - 1 /\ m + 1 \in Nat
  OBVIOUS
<1>3. x \in Clusters
  BY <1>2 DEF IsLong
<1>4. fat[x] # 0
  BY <1>1, <1>2, LongIsUsed DEF Typed
<1> QED
  BY <1>1, <1>3, <1>4, UsedRelinked

(* So does setSize() where it hangs the new clusters on the last of the file. *)
LEMMA ChainCount ==
  ASSUME Ready, ChainsOK, CountOK, NEW t \in Threads, chain(t)
  PROVE  CountOK'
<1>1. Typed /\ PlacesOK /\ RefsOK
  BY ReadyIs
<1>2. PICK s \in Streams : s = th[t].s
  BY <1>1, ChainDoes
<1>3. /\ th[t].pc = "chain" /\ CallStep(t) /\ th'[t].pc = Flushing(s) /\ ChainEffect(t)
      /\ UNCHANGED <<clean, fsi, mounted, freeCount>>
  BY <1>1, <1>2, ChainDoes
<1>4. FreeClusters' = FreeClusters
  <2>1. CASE stream[s].size > 0
    <3>1. PICK m, x :
              /\ m \in Nat
              /\ x = Walk(fat, stream[s].fstClus, m)
              /\ stream[s].fstClus \in Clusters /\ IsRoot(fat, stream[s].fstClus)
              /\ IsLong(fat, stream[s].fstClus, m + 1)
              /\ Relinks(fat, fat', x, th[t].clus) /\ th[t].clus \in Clusters
      BY <1>2, <2>1, ChainFat DEF ChainsOK
    <3>2. PICK q, v : q = stream[s].fstClus /\ v = th[t].clus
      OBVIOUS
    <3>3. /\ m \in Nat /\ q \in Clusters /\ x = Walk(fat, q, m) /\ IsRoot(fat, q) /\ IsLong(fat, q, m + 1)
          /\ Relinks(fat, fat', x, v) /\ v # 0
      BY <3>1, <3>2, Numbers
    <3> QED
      BY <3>3, FileRelinked
  <2>2. CASE ~(stream[s].size > 0)
    <3>1. fat' = fat
      BY <1>2, <1>3, <2>2 DEF ChainEffect
    <3> QED
      BY <3>1 DEF FreeClusters
  <2> QED
    BY <2>1, <2>2
<1>5. th'[t].pc # "count" /\ th[t].pc # "count" /\ \A u \in Threads \ {t} : th'[u] = th[u]
  BY <1>3 DEF CallStep, Flushing
<1> QED
  BY Zenon, <1>3, <1>4, <1>5, CallUncounted

(* The end of a chain is not the mark of a free cluster. *)
LEMMA EofNotZero == Eof # 0
BY FatAssumption DEF Eof

(* So does setSize() where it cuts the chain: the last cluster gets the end mark. *)
LEMMA CutCount ==
  ASSUME Ready, ChainsOK, CountOK, NEW t \in Threads, cut(t)
  PROVE  CountOK'
<1>1. Typed /\ PlacesOK /\ RefsOK
  BY ReadyIs
<1>2. PICK s \in Streams : s = th[t].s
  BY <1>1, CutDoes
<1>3. /\ th[t].pc = "cut" /\ CallStep(t) /\ th'[t].pc = "free"
      /\ UNCHANGED <<clean, fsi, mounted, freeCount>>
      /\ th[t].size = 0 => fat' = fat
  BY <1>1, <1>2, CutDoes
<1>4. FreeClusters' = FreeClusters
  <2>1. CASE th[t].size # 0
    <3>1. PICK m, x :
              /\ m \in Nat
              /\ x = Walk(fat, stream[s].fstClus, m)
              /\ stream[s].fstClus \in Clusters /\ IsRoot(fat, stream[s].fstClus)
              /\ IsLong(fat, stream[s].fstClus, m + 1)
              /\ Relinks(fat, fat', x, Eof)
      BY <1>2, <2>1, CutFat DEF ChainsOK
    <3>2. PICK q, v : q = stream[s].fstClus /\ v = Eof
      OBVIOUS
    <3>3. /\ m \in Nat /\ q \in Clusters /\ x = Walk(fat, q, m) /\ IsRoot(fat, q) /\ IsLong(fat, q, m + 1)
          /\ Relinks(fat, fat', x, v) /\ v # 0
      BY Zenon, <3>1, <3>2, EofNotZero
    <3> QED
      BY <3>3, FileRelinked
  <2>2. CASE th[t].size = 0
    BY <1>3, <2>2 DEF FreeClusters
  <2> QED
    BY <2>1, <2>2
<1>5. th'[t].pc # "count" /\ th[t].pc # "count" /\ \A u \in Threads \ {t} : th'[u] = th[u]
  BY <1>3 DEF CallStep
<1> QED
  BY Zenon, <1>3, <1>4, <1>5, CallUncounted

(* A step that has nothing to do with the FAT. *)
LEMMA CountsAside ==
  ASSUME CountOK, NEW t \in Threads, \A u \in Threads \ {t} : th'[u] = th[u], th[t].pc # "count", th'[t].pc # "count",
         fat' = fat, UNCHANGED <<clean, fsi, mounted, freeCount>>
  PROVE  CountOK'
<1>1. FreeClusters' = FreeClusters
  BY DEF FreeClusters
<1> QED
  BY Zenon, <1>1, CallUncounted

(* After the write of an entry no call is about to count a cluster but those that were. *)
LEMMA WroteNoCount ==
  ASSUME NEW t \in Threads, Wrote(t)
  PROVE  (\A u \in Threads \ {t} : th'[u] = th[u]) /\ th'[t].pc # "count"
<1>1. CASE WroteNew(t)
  BY <1>1, ReturnedCall DEF WroteNew
<1>2. CASE WroteNewName(t)
  BY <1>2 DEF WroteNewName, Goes, CallStep
<1>3. CASE WroteMoved(t)
  BY <1>3 DEF WroteMoved, CallStep
<1>4. CASE WroteLarger(t)
  BY <1>4, ReturnedCall DEF WroteLarger
<1>5. CASE WroteSmaller(t)
  BY <1>5 DEF WroteSmaller, Goes, CallStep
<1>6. CASE WroteErased(t)
  BY <1>6, ReturnedCall DEF WroteErased, Drops
<1> QED
  BY <1>1, <1>2, <1>3, <1>4, <1>5, <1>6 DEF Wrote

(* Every step keeps the counts, but where two cores may count at once. *)
LEMMA CountStep ==
  ASSUME "race" \notin Allow, Ready, ChainsOK, CountOK, [Next]_vars
  PROVE  CountOK'
<1>0. TypeOK /\ Typed /\ PlacesOK /\ RefsOK
  BY ReadyIs
<1>1. ASSUME mount PROVE CountOK'
  BY <1>1, MountCount
<1>2. ASSUME dismount PROVE CountOK'
  BY <1>2, DismountCount
<1>3. ASSUME setClean PROVE CountOK'
  BY <1>3, SetCleanCount
<1>4. ASSUME Crash PROVE CountOK'
  BY <1>4, CrashCount
<1>5. ASSUME NEW t \in Threads, NEW name \in Names, open(t, name) PROVE CountOK'
  BY <1>5, <1>0, OpenDoes, IdleIs, CountsAside
<1>6. ASSUME NEW t \in Threads, NEW name \in Names, create(t, name) PROVE CountOK'
  BY <1>6, <1>0, CreateDoes, IdleIs, CountsAside DEF Makes, Begins, CallStep
<1>7. ASSUME NEW t \in Threads, NEW name \in Names, unbind(t, name) PROVE CountOK'
  BY <1>7, <1>0, UnbindDoes, IdleIs, CountsAside DEF Begins, CallStep
<1>8. ASSUME NEW t \in Threads, NEW name \in Names, rename(t, name) PROVE CountOK'
  BY <1>8, <1>0, RenameDoes, IdleIs, CountsAside DEF Begins, CallStep
<1>9. ASSUME NEW t \in Threads, close(t) PROVE CountOK'
  BY <1>9, <1>0, CloseDoes, IdleIs, ReturnedCall, CountsAside DEF Drops
<1>10. ASSUME NEW t \in Threads, NEW position \in 0 .. MaxSize - 1, seek(t, position) PROVE CountOK'
  BY <1>10, <1>0, SeekDoes, IdleIs, CountsAside
<1>11. ASSUME NEW t \in Threads, NEW size \in 0 .. MaxSize, setSize(t, size) PROVE CountOK'
  <2>1. /\ th[t] = Idle /\ fat' = fat
        /\ Grows(t, size) \/ Shrinks(t, size)
        /\ UNCHANGED <<clean, fsi, mounted, freeCount>>
    BY <1>11, <1>0, SetSizeDoes
  <2>2. (\A u \in Threads \ {t} : th'[u] = th[u]) /\ th'[t].pc # "count"
    BY <2>1 DEF Grows, Shrinks, CallStep, Flushing
  <2> QED
    BY <2>1, <2>2, IdleIs, CountsAside
<1>12. ASSUME NEW t \in Threads, allocCluster(t) PROVE CountOK'
  BY <1>12, <1>0, AllocClusterDoes, ReturnedCall, CountsAside DEF Goes, CallStep
<1>13. ASSUME NEW t \in Threads, mark(t) PROVE CountOK'
  BY <1>13, MarkCount
<1>14. ASSUME NEW t \in Threads, link(t) PROVE CountOK'
  BY <1>14, LinkCount
<1>15. ASSUME NEW t \in Threads, chain(t) PROVE CountOK'
  BY <1>15, ChainCount
<1>16. ASSUME NEW t \in Threads, cut(t) PROVE CountOK'
  BY <1>16, CutCount
<1>17. ASSUME NEW t \in Threads, freeCluster(t) PROVE CountOK'
  <2>1. CASE Frees(t)
    BY <1>17, <2>1, FreesCount
  <2>2. CASE Ends(t)
    BY <1>17, <1>0, <2>2, FreeClusterDoes, ReturnedCall, CountsAside DEF Ends
  <2> QED
    BY <1>17, <1>0, <2>1, <2>2, FreeClusterDoes
<1>18. ASSUME NEW t \in Threads, count(t) PROVE CountOK'
  BY <1>18, CountCount
<1>19. ASSUME NEW t \in Threads, sync(t) PROVE CountOK'
  BY <1>19, <1>0, SyncDoes, CountsAside DEF Goes, CallStep
<1>20. ASSUME NEW t \in Threads, entry(t) PROVE CountOK'
  BY <1>20, <1>0, EntryDoes, WroteNoCount, CountsAside
<1>21. ASSUME NEW t \in Threads, written(t) PROVE CountOK'
  BY <1>21, <1>0, WrittenDoes, WroteNoCount, CountsAside
<1>22. ASSUME NEW t \in Threads, remove(t) PROVE CountOK'
  BY <1>22, <1>0, RemoveDoes, ReturnedCall, CountsAside DEF Drops, RemovesStream, CallStep
<1>23. ASSUME NEW t \in Threads, erase(t) PROVE CountOK'
  BY <1>23, <1>0, EraseDoes, CountsAside DEF CallStep
<1>24. ASSUME NEW t \in Threads, renameCreate(t) PROVE CountOK'
  BY <1>24, <1>0, RenameCreateDoes, CountsAside DEF Makes, CallStep
<1>25. ASSUME NEW t \in Threads, renameFails(t) PROVE CountOK'
  BY <1>25, <1>0, RenameFailsDoes, ReturnedCall, CountsAside DEF Drops
<1>26. ASSUME NEW t \in Threads, swap(t) PROVE CountOK'
  BY <1>26, <1>0, SwapDoes, CountsAside DEF Goes, CallStep
<1>27. ASSUME NEW t \in Threads, renameFlush(t) PROVE CountOK'
  BY <1>27, <1>0, RenameFlushDoes, CountsAside DEF CallStep, Flushing
<1>28. ASSUME UNCHANGED vars PROVE CountOK'
  BY <1>28 DEF vars, disk, CountOK, FreeClusters, Counting
<1> QED
  BY Zenon, <1>1, <1>2, <1>3, <1>4, <1>5, <1>6, <1>7, <1>8, <1>9, <1>10, <1>11, <1>12, <1>13, <1>14, <1>15, <1>16,
     <1>17, <1>18, <1>19, <1>20, <1>21, <1>22, <1>23, <1>24, <1>25, <1>26, <1>27, <1>28 DEF Next, Continue

(* A freshly formatted volume has no chains, and all its clusters are free. *)
LEMMA ChainsInit ==
  ASSUME Init
  PROVE  ChainsOK /\ CountOK
<1>1. /\ fat = [c \in Clusters |-> 0] /\ (\A c \in Clusters : fat[c] = 0)
      /\ (\A o \in Slots : dir[o] = None) /\ (\A s \in Streams : stream[s] = None)
      /\ (\A t \in Threads : th[t] = Idle) /\ fsi.freeCount = CountOfClusters /\ mounted = "no" /\ clean = TRUE
  BY DEF Init
<1>2. \A t \in Threads : th[t].clus = 0 /\ th[t].pc = "idle" /\ th[t].op = "idle"
  BY <1>1, IdleIs
<1>3. \A o : ~Sure(o)
  BY <1>1 DEF Sure
<1>4. \A r \in Clusters : ~Starts(r)
  BY <1>1, <1>2, <1>3, Numbers DEF Starts
<1>5. GraphOK
  BY <1>1, <1>2, <1>4, Numbers DEF GraphOK, Linked, RootsOK, SpareOK
<1>6. HeadsOK
  BY <1>1, <1>2, <1>3, Numbers DEF HeadsOK, StreamsApart, CallsApart, CallsAside, EntriesApart, EntriesBorne, EntriesEmptied
<1>7. StreamsLong /\ HintsOK
  BY <1>1 DEF StreamsLong, HintsOK
<1>8. EntriesLong
  BY <1>3 DEF EntriesLong
<1>9. AllocOK /\ MovingOK
  BY <1>2 DEF AllocOK, AllocOf, MovingOK
<1>10. CountOK
  <2>1. FreeClusters = 2 .. CountOfClusters + 1
    BY <1>1 DEF FreeClusters, Clusters
  <2>2. Cardinality(2 .. CountOfClusters + 1) = CountOfClusters
    <3>1. CountOfClusters \in Nat \ {0}
      BY FatAssumption
    <3>2. Cardinality(2 .. CountOfClusters + 1) = IF 2 > CountOfClusters + 1 THEN 0 ELSE (CountOfClusters + 1) - 2 + 1
      BY <3>1, FS_Interval
    <3> QED
      BY <3>1, <3>2
  <2> QED
    BY <1>1, <2>1, <2>2 DEF CountOK
<1> QED
  BY <1>5, <1>6, <1>7, <1>8, <1>9, <1>10 DEF ChainsOK

(* A file that has clusters, as ChainsSound has it. *)
FileAt(f) == IF f[1] = "entry" THEN dir[f[2]] ELSE stream[f[2]]

(* The files of ChainsSound: entries that nobody is about to write, and streams that were removed. *)
LEMMA FilesAre ==
  ASSUME Ready, ChainsOK, \A t \in Threads : ~Moving(t), NEW f \in Files
  PROVE  \/ /\ f[1] = "entry" /\ f[2] \in Slots /\ f = <<"entry", f[2]>> /\ Sure(f[2]) /\ FileAt(f) = dir[f[2]]
         \/ /\ f[1] = "stream" /\ f[2] \in Streams /\ f = <<"stream", f[2]>> /\ stream[f[2]] # None
            /\ stream[f[2]].removed /\ (\A t \in Threads : th[t].lock # f[2]) /\ FileAt(f) = stream[f[2]]
<1>1. CASE f \in {<<"entry", o>> : o \in {p \in Slots : dir[p] # None}}
  <2>1. PICK o \in Slots : dir[o] # None /\ f = <<"entry", o>>
    BY <1>1
  <2>2. \A t \in Threads : ~Moved(t)
    BY MovedIsMoving DEF ChainsOK
  <2>3. Sure(o)
    BY <2>1, <2>2 DEF Sure, Doubtful, DoubtBy
  <2> QED
    BY <2>1, <2>3 DEF FileAt
<1>2. CASE f \notin {<<"entry", o>> : o \in {p \in Slots : dir[p] # None}}
  <2>1. PICK s \in Streams : stream[s] # None /\ stream[s].removed /\ (\A t \in Threads : th[t].lock # s) /\ f = <<"stream", s>>
    BY <1>2 DEF Files
  <2> QED
    BY <2>1 DEF FileAt
<1> QED
  BY <1>1, <1>2

(* The clusters of such a file are a chain with a root, as long as its size needs. *)
LEMMA FileChain ==
  ASSUME Ready, ChainsOK, \A t \in Threads : ~Moving(t), NEW f \in Files
  PROVE  \E r, n : /\ n \in Nat /\ r = FileAt(f).fstClus /\ n = ClustersOf(FileAt(f).size)
                   /\ IsLong(fat, r, n) /\ (r \in Clusters => IsRoot(fat, r))
                   /\ ClustersOfFile(f) = {Walk(fat, r, i) : i \in 0 .. n - 1}
<1>1. Typed /\ PlacesOK
  BY ReadyIs
<1>2. PICK r, n : r = FileAt(f).fstClus /\ n = ClustersOf(FileAt(f).size)
  OBVIOUS
<1>3. n \in Nat /\ IsLong(fat, r, n) /\ Starts(r)
  <2>1. CASE f[1] = "entry"
    <3>1. f[2] \in Slots /\ Sure(f[2]) /\ FileAt(f) = dir[f[2]]
      BY <2>1, FilesAre
    <3>2. n \in Nat
      BY <1>1, <1>2, <3>1, EntryTyped, Clusters0, Numbers DEF Sure
    <3> QED
      BY <1>2, <3>1, <3>2 DEF ChainsOK, EntriesLong, Starts
  <2>2. CASE f[1] # "entry"
    <3>1. PICK s \in Streams : stream[s] # None /\ FileAt(f) = stream[s] /\ \A t \in Threads : th[t].lock # s
      BY <2>2, FilesAre
    <3>2. n \in Nat
      BY <1>1, <1>2, <3>1, StreamTyped, Clusters0, Numbers
    <3>3. \A u \in Threads : ~Resized(u, s)
      BY <1>1, <3>1 DEF Resized, PlacesOK, CallOK
    <3>4. IsLong(fat, stream[s].fstClus, ClustersOf(stream[s].size))
      BY <3>1, <3>3, SizedLong DEF ChainsOK
    <3> QED
      BY <1>2, <3>1, <3>2, <3>4 DEF Starts
  <2> QED
    BY <2>1, <2>2
<1>4. r \in Clusters => IsRoot(fat, r)
  BY <1>3 DEF ChainsOK, GraphOK, RootsOK
<1>5. ClustersOfFile(f) = {Walk(fat, r, i) : i \in 0 .. n - 1}
  BY <1>2 DEF ClustersOfFile, Chain, Nth, FileAt
<1> QED
  BY <1>2, <1>3, <1>4, <1>5

(* Two chains with different roots have no cluster in common, so the invariant has ChainsSound. *)
LEMMA ChainsAreSound ==
  ASSUME Ready, ChainsOK
  PROVE  ChainsSound
<1> SUFFICES ASSUME \A t \in Threads : ~Moving(t), NEW f \in Files
             PROVE  /\ ClustersOfFile(f) \subseteq Clusters \ FreeClusters
                    /\ \A g \in Files \ {f} : ClustersOfFile(f) \cap ClustersOfFile(g) = {}
  BY DEF ChainsSound
<1>1. Typed /\ PlacesOK /\ Linked(fat)
  BY ReadyIs DEF ChainsOK, GraphOK
<1>2. PICK r, n : /\ n \in Nat /\ r = FileAt(f).fstClus
                  /\ IsLong(fat, r, n) /\ (r \in Clusters => IsRoot(fat, r))
                  /\ ClustersOfFile(f) = {Walk(fat, r, i) : i \in 0 .. n - 1}
  BY FileChain
<1>3. ASSUME NEW i \in 0 .. n - 1
      PROVE  /\ Walk(fat, r, i) \in Clusters /\ fat[Walk(fat, r, i)] # 0 /\ r \in Clusters
  <2>1. r \in Clusters
    <3>1. CASE r \notin Clusters
      <4>1. n = 0
        BY <1>2, <3>1, NoChain
      <4> QED
        BY <1>3, <4>1
    <3> QED
      BY <3>1
  <2> QED
    BY <1>1, <1>2, <2>1, LongIsUsed DEF IsLong, Typed
<1>4. ClustersOfFile(f) \subseteq Clusters \ FreeClusters
  BY <1>2, <1>3 DEF FreeClusters
<1>5. ASSUME NEW g \in Files \ {f}, NEW x \in ClustersOfFile(f), x \in ClustersOfFile(g)
      PROVE  FALSE
  <2>1. PICK q, m : /\ m \in Nat /\ q = FileAt(g).fstClus
                    /\ IsLong(fat, q, m) /\ (q \in Clusters => IsRoot(fat, q))
                    /\ ClustersOfFile(g) = {Walk(fat, q, i) : i \in 0 .. m - 1}
    BY FileChain
  <2>2. PICK i \in 0 .. n - 1 : x = Walk(fat, r, i)
    BY <1>2, <1>5
  <2>3. PICK j \in 0 .. m - 1 : x = Walk(fat, q, j)
    BY <1>5, <2>1
  <2>4. r \in Clusters
    BY <1>3, <2>2
  <2>5. q \in Clusters
    <3>1. CASE q \notin Clusters
      <4>1. m = 0
        BY <2>1, <3>1, NoChain
      <4> QED
        BY <2>3, <4>1
    <3> QED
      BY <3>1
  <2>6. r = q
    BY <1>1, <1>2, <2>1, <2>2, <2>3, <2>4, <2>5, ChainsApart
  <2>7. FileAt(f).fstClus \in Clusters /\ FileAt(g).fstClus = FileAt(f).fstClus /\ f # g
    BY <1>2, <1>5, <2>1, <2>4, <2>6
  <2>8. CASE f[1] = "entry" /\ g[1] = "entry"
    BY <2>7, <2>8, FilesAre DEF ChainsOK, HeadsOK, EntriesApart
  <2>9. CASE f[1] # "entry" /\ g[1] # "entry"
    BY <2>7, <2>9, FilesAre DEF ChainsOK, HeadsOK, StreamsApart
  <2>10. ASSUME NEW o \in Slots, NEW s \in Streams, Sure(o), stream[s] # None, stream[s].removed,
                \A t \in Threads : th[t].lock # s, dir[o].fstClus \in Clusters, dir[o].fstClus = stream[s].fstClus
         PROVE  FALSE
    <3>1. Bears(o, s)
      BY <2>10 DEF ChainsOK, HeadsOK, EntriesBorne
    <3>2. PICK t \in Threads : Erasing(t) /\ th[t].s = s
      BY <2>10, <3>1 DEF Bears, Kept
    <3>3. th[t].lock = s
      BY <1>1, <3>2, CallTyped DEF PlacesOK, CallOK, Erasing, Writes, Operations
    <3> QED
      BY <2>10, <3>3
  <2>11. CASE f[1] = "entry" /\ g[1] # "entry"
    BY <2>7, <2>10, <2>11, FilesAre
  <2>12. CASE f[1] # "entry" /\ g[1] = "entry"
    BY <2>7, <2>10, <2>12, FilesAre
  <2> QED
    BY <2>8, <2>9, <2>11, <2>12
<1> QED
  BY <1>4, <1>5

(* Nobody resets the hint of a stream that no call has locked. *)
LEMMA HintsAreRight ==
  ASSUME Ready, ChainsOK
  PROVE  HintIsRight
<1> SUFFICES ASSUME NEW s \in Streams, stream[s] # None, stream[s].lastClus \in Clusters,
                    \A t \in Threads : th[t].lock # s
             PROVE  stream[s].lastClus = Nth(stream[s].fstClus, stream[s].lastPosition)
  BY DEF HintIsRight
<1>1. PlacesOK
  BY ReadyIs
<1>2. \A t \in Threads : ~Resets(t, s)
  BY <1>1 DEF Resets, Resized, PlacesOK, CallOK
<1> QED
  BY <1>2 DEF ChainsOK, HintsOK, HintOf, Nth

(* CountOK says what FreeSpaceExact says, and more. *)
LEMMA CountIsExact == CountOK => FreeSpaceExact
BY DEF CountOK, FreeSpaceExact, Counting

(* All of it is an invariant: fatStream.cpp setSize(), fatCluster.cpp allocCluster() and freeCluster(),
   fatDirectory.cpp create(), remove() and rename(), fatFileSystem.cpp mount(), and crashes between them. *)
LEMMA ChainsStay ==
  ASSUME "names" \notin Allow, "torn" \notin Allow
  PROVE  Spec => [](Ready /\ ChainsOK)
<1> DEFINE Inv == Ready /\ ChainsOK
<1>1. Init => Inv
  BY BaseInit, FilesInit, ChainsInit DEF Ready
<1>2. Inv /\ [Next]_vars => Inv'
  <2>1. ASSUME Inv, [Next]_vars PROVE Inv'
    <3>1. Ready'
      BY <2>1, FilesStep DEF Ready
    <3>2. ChainsOK'
      BY <2>1, ChainsStep
    <3> QED
      BY <3>1, <3>2
  <2> QED
    BY <2>1
<1>3. Inv => Ready /\ ChainsOK
  OBVIOUS
<1> HIDE DEF Inv
<1> QED
  BY <1>1, <1>2, <1>3, PTL DEF Spec

(* fatStream.cpp, fatCluster.cpp: setSize() and freeCluster() write the FAT and the entry in an order
   that leaves, at every moment the machine may stop, every file with all the clusters its size needs,
   none of them free and none in another file, whatever other threads resize, create, remove and rename
   and however often the volume is mounted again. It needs the lookup of a name and the use of its
   entry to be one step, and no crash between the writes of rename() (Situations). *)
THEOREM ChainsStaySound ==
  ASSUME "names" \notin Allow, "torn" \notin Allow
  PROVE  Spec => []ChainsSound
<1>1. Ready /\ ChainsOK => ChainsSound
  BY ChainsAreSound
<1>2. Spec => [](Ready /\ ChainsOK)
  BY ChainsStay
<1> HIDE DEF Ready, ChainsOK
<1> QED
  BY <1>1, <1>2, PTL

(* fatStream.cpp getClusNum(): the cluster it begins its walk at is the one at lastPosition of the chain
   as it is now: setSize() resets it where it frees it, and every other step on a chain leaves the part
   of it before that cluster. *)
THEOREM HintStaysRight ==
  ASSUME "names" \notin Allow, "torn" \notin Allow
  PROVE  Spec => []HintIsRight
<1>1. Ready /\ ChainsOK => HintIsRight
  BY HintsAreRight
<1>2. Spec => [](Ready /\ ChainsOK)
  BY ChainsStay
<1> HIDE DEF Ready, ChainsOK
<1> QED
  BY <1>1, <1>2, PTL

(* fatCluster.cpp, fatFileSystem.cpp: freeCount, which allocCluster() trusts, is the number of free
   clusters but for those freeCluster() has still to count, and so is the count on a disk marked clean,
   which mount() trusts, provided that no other core writes freeCount during ++freeCount, which
   freeCluster() does outside fatMonitor (Situations). *)
THEOREM FreeSpaceStaysExact ==
  ASSUME "names" \notin Allow, "torn" \notin Allow, "race" \notin Allow
  PROVE  Spec => []FreeSpaceExact
<1> DEFINE Inv == Ready /\ ChainsOK /\ CountOK
<1>1. Init => Inv
  BY BaseInit, FilesInit, ChainsInit DEF Ready
<1>2. Inv /\ [Next]_vars => Inv'
  <2>1. ASSUME Inv, [Next]_vars PROVE Inv'
    <3>1. Ready'
      BY <2>1, FilesStep DEF Ready
    <3>2. ChainsOK'
      BY <2>1, ChainsStep
    <3>3. CountOK'
      BY <2>1, CountStep
    <3> QED
      BY <3>1, <3>2, <3>3
  <2> QED
    BY <2>1
<1>3. Inv => FreeSpaceExact
  BY CountIsExact
<1> HIDE DEF Inv
<1> QED
  BY <1>1, <1>2, <1>3, PTL DEF Spec

====
