---------------------------- MODULE MCPageCache ----------------------------
(* Instances of PageCache for TLC. *)
EXTENDS PageCache, TLC

CONSTANTS t1, t2

(* One thread changes the size, the other maps; both write. *)
AllCalls ==
    (t1 :> {"write", "append", "setSize", "invalidate"})
        @@ (t2 :> {"read", "write", "flush", "get"})

=============================================================================
