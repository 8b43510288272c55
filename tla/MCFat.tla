------------------------------- MODULE MCFat -------------------------------
EXTENDS Fat, TLC

Symmetry == Permutations(Threads) \cup Permutations(Names)

(* FSInfo is not read before it is written again, unless clean; which FatStream
   object is which is told by who uses it. *)
View ==
    <<fat, dir, clean, IF clean \/ mounted = "leaving" THEN fsi ELSE None, mounted,
      nxtFree, freeCount, locks,
      [t \in Threads |-> [th[t] EXCEPT !.s = None, !.old = None, !.lock = None]],
      {<<stream[s], {t \in Threads : held[t] = s}, {t \in Threads : th[t].s = s},
         {t \in Threads : th[t].old = s}, {t \in Threads : th[t].lock = s}>> : s \in Streams}>>
=============================================================================
