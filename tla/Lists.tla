-------------------------------- MODULE Lists --------------------------------
(* Doubly linked lists (include/es/list.h) as sequences. *)
EXTENDS Naturals, Sequences

(* What is left of a list when the entries that are not in S are unlinked:   *)
(* SelectSeq(), in a form the lemmas of ListLemmas can be proved of.         *)
Only(list, S) ==
    LET only[i \in 0 .. Len(list)] ==
            IF i = 0 THEN <<>>
            ELSE IF list[i] \in S THEN Append(only[i - 1], list[i]) ELSE only[i - 1]
    IN  only[Len(list)]
=============================================================================
