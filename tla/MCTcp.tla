------------------------------- MODULE MCTcp -------------------------------
(* Small instances of Tcp for TLC. *)
EXTENDS Tcp

(* Of a closed end, steps and properties read what its application has written and
   read, whether it has the socket and has shut it; err is read by none. *)
Seen(s) ==
    IF s.state = "Closed"
    THEN [NewStream("Closed") EXCEPT !.held = s.held, !.shutwr = s.shutwr, !.got = s.got,
                                     !.recvRing = s.recvRing, !.wrote = s.wrote]
    ELSE [s EXCEPT !.err = FALSE]

(* The equation has TLC work the function out before the state is shared. *)
View == <<tcb = tcb, {<<e, Seen(tcb[e])>> : e \in End}, listener, net>>
============================================================================
