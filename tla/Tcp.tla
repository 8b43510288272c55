-------------------------------- MODULE Tcp --------------------------------
(***************************************************************************)
(* The TCP of the network stack (src/os/net): the StreamReceiver of each   *)
(* end of a connection, the listening StreamReceiver that clones the       *)
(* server's ends, and a network that loses, duplicates and reorders        *)
(* segments.                                                               *)
(*                                                                         *)
(* The entries of a StreamReceiver hold its monitor, so an action is a     *)
(* whole call: the handler and the output() it ends with.  expired() does  *)
(* not: on the timer thread, which has the highest priority, it begins in  *)
(* the middle of a call, does all but its own output(), for which it waits *)
(* until the call has ended, and lets the call go on.  Leave() has these   *)
(* moments, those inside send() if Allow admits them.  Inside a handler    *)
(* expired() does what it does after it, since ack() and expired() both    *)
(* leave sendNext at sendUna, but for its abort(), which a setState() that *)
(* follows undoes: that is left out.                                       *)
(*                                                                         *)
(* Sequence numbers are relative to the ISS, byte k of a stream is the     *)
(* number k.  What an application has outstanding fits one segment and     *)
(* both windows: windows, congestion control, SACK, urgent data and        *)
(* options are left out.                                                   *)
(***************************************************************************)
EXTENDS Integers, Sequences, FiniteSets, FiniteSetsExt, SequencesExt, Functions, Lists

CONSTANTS
    Clients,        \* the hosts that connect to the one listening socket
    Backlog,        \* backLogCount of the listening StreamReceiver
    ClientBytes, ServerBytes,   \* bounds: bytes the applications write to each end
    R2,             \* bound: expiries of rxmitTimer before ETIMEDOUT
    Room,           \* bound: segments in flight; the network drops more
    Unreliable,     \* may the network lose, duplicate and fail?
    Allow           \* the situations of Situations the instance admits

(***************************************************************************)
(* What an instance may leave out, because the code does not cope with it: *)
(*   build    expired() begins while send() puts a segment together        *)
(*   sent     expired() begins between that and the end of send()          *)
(*   gap      data arrives before data that was sent earlier               *)
(***************************************************************************)
Situations == {"build", "sent", "gap"}

ASSUME TcpAssumption == /\ Backlog \in Nat \ {0} /\ R2 \in Nat \ {0}
                        /\ {ClientBytes, ServerBytes, Room} \subseteq Nat
                        /\ Unreliable \in BOOLEAN /\ Allow \subseteq Situations

VARIABLES
    tcb,            \* the StreamReceiver of each end
    listener,       \* parConn, pendingConn and accepted of the listening one
    net             \* the segments in flight

vars == <<tcb, listener, net>>

End == Clients \X {"client", "server"}
Bytes(e) == IF e[2] = "client" THEN ClientBytes ELSE ServerBytes
Peer(e) == <<e[1], IF e[2] = "client" THEN "server" ELSE "client">>

States == {"None", "Closed", "SynSent", "SynReceived", "Established", "FinWait1",
           "FinWait2", "CloseWait", "LastAck", "Closing", "TimeWait"}

(* A StreamReceiver as constructed, with iss = 0 and irs = 0.  `got' is what the
   application has read, `wrote' how much it has written, and `held' says that
   it has the socket (connect() was called, accept() returned it). *)
NewStream(state) ==
    [state |-> state, sendUna |-> 0, sendNext |-> 0, sendMax |-> 0, sendRing |-> << >>,
     recvNext |-> 1, recvRing |-> << >>, asb |-> << >>, ackNow |-> FALSE,
     shutrd |-> FALSE, shutwr |-> FALSE, rxmitTimer |-> FALSE, rxmitCount |-> 0,
     err |-> FALSE, got |-> << >>, wrote |-> 0, held |-> FALSE]

Segment(e, flag, seq, ack, data) ==
    [from |-> e, flag |-> flag, seq |-> seq, ack |-> ack, data |-> data]

(* SYN and FIN take one sequence number each. *)
SegmentLength(m) == Len(m.data) + Cardinality(m.flag \cap {"SYN", "FIN"})

Init ==
    /\ tcb = [e \in End |-> NewStream(IF e[2] = "client" THEN "Closed" ELSE "None")]
    /\ listener = [parConn |-> 0, pendingConn |-> 0, accepted |-> << >>]
    /\ net = {}

----------------------------------------------------------------------------
(* States and timers. *)

stopRxmitTimer(s) == [s EXCEPT !.rxmitTimer = FALSE, !.rxmitCount = 0]

(* setState() with the start() of the new state. *)
setState(s, state) ==
    LET t == [s EXCEPT !.state = state] IN
    CASE state \in {"CloseWait", "Closing"} -> [t EXCEPT !.shutrd = TRUE]
      [] state = "TimeWait" -> [stopRxmitTimer(t) EXCEPT !.shutrd = TRUE, !.rxmitTimer = TRUE]
      [] OTHER -> t

abort(s) == stopRxmitTimer(setState(s, "Closed"))

(* What a handler leaves: the StreamReceiver, the segments sendReset() made, and
   whether input() goes on to output(). *)
Result(s, seg, out) == [s |-> s, seg |-> seg, out |-> out]

(* expired() up to its output(), when rxmitTimer goes off. *)
timeout(on) ==
    LET s == [on EXCEPT !.rxmitTimer = FALSE]
    IN IF s.state = "TimeWait" THEN Result(abort(s), {}, FALSE)
       ELSE IF s.rxmitCount = R2 THEN Result(abort([s EXCEPT !.err = TRUE]), {}, FALSE)
       ELSE Result([s EXCEPT !.rxmitCount = @ + 1, !.sendNext = s.sendUna], {}, TRUE)

(* sendReset(m): the answer of end e to a segment it cannot place. *)
sendReset(e, m) ==
    IF "RST" \in m.flag THEN {}
    ELSE IF "ACK" \in m.flag
         THEN {Segment(e, {"RST"}, m.ack, 0, << >>)}
         ELSE {Segment(e, {"RST", "ACK"}, 0, m.seq + SegmentLength(m), << >>)}

(* reset(): a RST is believed when it falls into the receive window. *)
reset(s, m, err) ==
    IF s.recvNext <= m.seq THEN abort([s EXCEPT !.err = @ \/ err]) ELSE s

----------------------------------------------------------------------------
(* Output. *)

(* What output() has to send, with which flag: getSendableWithSyn(), getSendable()
   and getSendableWithFin(). *)
Sendable(s) ==
    LET unsent == Len(s.sendRing) - (s.sendNext - s.sendUna) IN
    CASE s.state \in {"SynSent", "SynReceived"} /\ s.sendNext = 0 ->
            [len |-> 1 + Len(s.sendRing), flag |-> {"SYN"}]
      [] s.state \in {"Established", "FinWait2", "CloseWait"} ->
            [len |-> Max({unsent, 0}), flag |-> {}]
      [] s.state \in {"FinWait1", "LastAck", "Closing", "TimeWait"} /\ unsent >= 0 ->
            [len |-> unsent + 1, flag |-> {"FIN"}]
      [] OTHER -> [len |-> 0, flag |-> {}]

(* output() has nothing to send. *)
Silent(s) == s.state \in {"None", "Closed"} \/ (Sendable(s).len = 0 /\ ~s.ackNow)

(* `count' bytes of the ring from sendNext on. *)
Load(s, count) == SubSeq(s.sendRing, s.sendNext - s.sendUna + 1, s.sendNext - s.sendUna + count)

(* The segment for what is sendable in w: its data as the StreamReceiver is in s, its
   header as it is in t. *)
segment(e, w, s, t) ==
    Segment(e,
            w.flag \union (IF t.state = "SynSent" THEN {} ELSE {"ACK"})
                   \union (IF w.len > 0 /\ w.flag = {} THEN {"PSH"} ELSE {}),
            IF w.len > 0 THEN t.sendNext ELSE t.sendMax,
            CASE t.state = "SynSent" -> 0
              [] t.state = "SynReceived" -> 1
              [] OTHER -> t.recvNext,
            Load(s, w.len - Cardinality(w.flag)))

(* A segment of that length is counted as sent. *)
advanced(s, len) == [s EXCEPT !.ackNow = FALSE, !.sendNext = @ + len,
                              !.sendMax = Max({@, s.sendNext + len})]

(* startRxmitTimer(), "not for an ACK-only segment". *)
timed(s) == [s EXCEPT !.rxmitTimer = @ \/ s.sendNext # s.sendUna]

(* output() and send(): the StreamReceiver after it and the segment, if any. *)
output(e, s) ==
    LET w == Sendable(s)
    IN IF Silent(s) THEN [s |-> s, seg |-> {}]
       ELSE [s |-> timed(advanced(s, w.len)), seg |-> {segment(e, w, s, s)}]

(* The moments in output() at which it can be found by expired(): it has what is
   sendable, the data, the sequence number, or has counted the segment. *)
Moments(s) ==
    IF Silent(s) THEN {}
    ELSE (IF "build" \in Allow THEN {"sized", "copied", "numbered"} ELSE {})
             \union (IF "sent" \in Allow THEN {"counted"} ELSE {})

(* output() with expired() at a moment of it: sendNext is read again and again, and set
   to what it was at least in the end; the output() of expired() comes after that. *)
interrupted(e, s, moment) ==
    LET At(m, t)  == IF m = moment THEN timeout(t).s ELSE t
        w         == Sendable(s)
        sized     == At("sized", s)
        copied    == At("copied", sized)
        counted   == At("counted", advanced(At("numbered", copied), w.len))
        left      == [timed(counted) EXCEPT !.sendNext = Max({@, s.sendNext})]
        again     == output(e, left)
    IN [s |-> again.s, seg |-> {segment(e, w, sized, copied)} \union again.seg]

----------------------------------------------------------------------------
(* Input. *)

(* trim(): cut off what has been received already.  `ok' is its result. *)
trim(s, m) ==
    LET syn  == IF "SYN" \in m.flag /\ m.seq < s.recvNext THEN 1 ELSE 0
        len  == SegmentLength(m) - syn
        drop == Min({len, Max({s.recvNext - m.seq - syn, 0})})
        cut  == (IF syn = 1 THEN {"SYN"} ELSE {})
                    \union (IF m.seq < s.recvNext /\ len <= s.recvNext - m.seq - syn
                            THEN {"FIN"} ELSE {})
        t    == [m EXCEPT !.flag = @ \ cut, !.seq = @ + syn + drop,
                          !.data = SubSeq(@, drop + 1, Len(@))]
        ok   == drop < len \/ s.recvNext <= t.seq
    IN [m |-> t, ok |-> ok,
        s |-> IF ok THEN s ELSE [s EXCEPT !.ackNow = SegmentLength(m) > 0]]

(* Mistake: acknowledged bytes stay in the ring. *)
unskipped(ring, n) == ring

(* Ring::skip. *)
skip(ring, n) == SubSeq(ring, n + 1, Len(ring))

(* Mistake: an acknowledgement stops the timer, whatever is still outstanding. *)
settledEarly(s, t, ack) == stopRxmitTimer(t)

(* The timer, started again in t, stops when all that s has sent is acknowledged. *)
settled(s, t, ack) == IF ack = s.sendMax THEN stopRxmitTimer(t) ELSE t

(* ack(): an acknowledgement of `sent' octets (without SYN) up to `ack'. *)
Ack(s, ack, sent) ==
    LET finAcked == Len(s.sendRing) < sent
        acked    == Min({sent, Len(s.sendRing)})
        t == [s EXCEPT !.sendUna = ack, !.sendNext = Max({@, ack}), !.rxmitTimer = TRUE,
                       !.sendRing = skip(@, acked)]
    IN IF ack <= s.sendUna
       THEN [s |-> s, finAcked |-> TRUE]
       ELSE [s |-> settled(s, t, ack), finAcked |-> finAcked]

(* recvRing.write(): put `data' at ring position `at' and, when that extends the
   bytes in the ring, take in the blocks kept above them. *)
ringWrite(s, data, at) ==
    LET tail  == Len(s.got) + Len(s.recvRing)
        above == [p \in DOMAIN s.asb \union {at + i : i \in 1 .. Len(data)} |->
                    IF p > at /\ p <= at + Len(data) THEN data[p - at] ELSE s.asb[p]]
        run   == {n \in 0 .. Cardinality(DOMAIN above) :
                    \A i \in 1 .. n : tail + i \in DOMAIN above}
    IN CASE data = << >> -> s
         [] data # << >> /\ at = tail ->
            [s EXCEPT !.recvRing = @ \o [i \in 1 .. Max(run) |-> above[tail + i]],
                      !.asb = Restrict(above, {p \in DOMAIN above : p > tail + Max(run)})]
         [] OTHER -> [s EXCEPT !.asb = above]

(* Mistake: the FIN of a segment beyond a gap counts. *)
anyFin(s, m) == "FIN" \in m.flag

(* A FIN counts only when everything before it has arrived. *)
finInOrder(s, m) == "FIN" \in m.flag /\ m.seq = s.recvNext

(* Mistake: the FIN is counted with the data and once more on its own. *)
advanceAll(m) == SegmentLength(m)

advance(m) == Len(m.data)

(* text(): take the data of a trimmed segment in.  `fin' says whether its FIN
   counts; `ok' is the result. *)
text(e, s, m) ==
    LET adv  == Len(m.data)
        tail == Len(s.got) + Len(s.recvRing)
        w    == ringWrite(s, m.data, tail + m.seq - s.recvNext)
    IN IF s.shutrd /\ adv > 0
       THEN [s |-> abort([s EXCEPT !.err = TRUE]), seg |-> sendReset(e, m),
             fin |-> FALSE, ok |-> FALSE]
       ELSE [s |-> IF m.seq = s.recvNext
                   THEN [w EXCEPT !.recvNext = @ + advance(m),
                                  !.ackNow = @ \/ (adv > 0 /\ "PSH" \in m.flag)]
                   ELSE [w EXCEPT !.ackNow = @ \/ adv > 0],
             seg |-> {}, fin |-> finInOrder(s, m), ok |-> TRUE]

(* The state after ack() said `finAcked'. *)
AfterAck(s, finAcked) ==
    CASE s.state = "FinWait1" /\ finAcked -> setState(s, "FinWait2")
      [] s.state = "LastAck" /\ finAcked  -> abort([s EXCEPT !.err = FALSE])
      [] s.state = "Closing" /\ finAcked  -> setState([s EXCEPT !.err = FALSE], "TimeWait")
      [] s.state = "TimeWait"             -> [s EXCEPT !.rxmitTimer = TRUE]
      [] OTHER -> s

(* text() and the FIN after it. *)
TextAndFin(e, s, m) ==
    LET x == text(e, s, m)
        f == [x.s EXCEPT !.recvNext = @ + 1, !.ackNow = TRUE]
    IN CASE ~x.ok -> Result(x.s, x.seg, FALSE)
         [] x.ok /\ ~x.fin -> Result(x.s, {}, TRUE)
         [] OTHER -> Result(setState(f, CASE s.state = "FinWait1" -> "Closing"
                                          [] s.state = "FinWait2" -> "TimeWait"
                                          [] OTHER -> "CloseWait"), {}, TRUE)

(* input() of Established, FinWait1, FinWait2, CloseWait, LastAck, Closing and
   TimeWait: the early returns in their order. *)
SynchronizedInput(e, s, m) ==
    LET t == trim(s, m)
        a == Ack(s, m.ack, m.ack - s.sendUna)
        u == AfterAck(a.s, a.finAcked)
    IN IF "RST" \in m.flag
       THEN Result(reset(s, m, s.state \notin {"LastAck", "Closing", "TimeWait"}), {}, FALSE)
       ELSE IF ~t.ok THEN Result(t.s, {}, TRUE)
       ELSE IF "SYN" \in t.m.flag THEN Result(abort(s), sendReset(e, m), FALSE)
       ELSE IF "ACK" \notin m.flag THEN Result(s, {}, FALSE)
       ELSE IF s.sendMax < m.ack THEN Result([s EXCEPT !.ackNow = TRUE], {}, TRUE)
       ELSE IF u.state \in {"Established", "FinWait1", "FinWait2"} THEN TextAndFin(e, u, t.m)
       ELSE Result(u, {}, u.state # "Closed")

(* StateSynSent::input; nobody connects to a client, so every SYN has an ACK. *)
SynSentInput(e, s, m) ==
    LET up == [s EXCEPT !.state = "Established", !.sendUna = 1, !.sendNext = Max({@, 1}),
                        !.recvNext = m.seq + 1, !.ackNow = TRUE]
    IN IF "ACK" \in m.flag /\ (m.ack <= 0 \/ s.sendMax < m.ack)
       THEN Result(s, sendReset(e, m), FALSE)
       ELSE IF {"RST", "ACK"} \subseteq m.flag THEN Result(abort([s EXCEPT !.err = TRUE]), {}, FALSE)
       ELSE IF "RST" \in m.flag \/ "SYN" \notin m.flag THEN Result(s, {}, FALSE)
       ELSE TextAndFin(e, Ack(up, m.ack, m.ack - 1).s, trim(up, m).m)

(* StateSynReceived::input. *)
SynReceivedInput(e, s, m) ==
    LET t  == trim(s, m)
        up == IF "ACK" \in m.flag /\ m.ack > 0
              THEN Ack(setState(s, "Established"), m.ack, m.ack - s.sendUna - 1).s ELSE s
    IN IF "ACK" \in m.flag /\ (m.ack < s.sendUna \/ s.sendMax < m.ack)
       THEN Result(s, sendReset(e, m), FALSE)
       ELSE IF "RST" \in m.flag THEN Result(reset(s, m, TRUE), {}, FALSE)
       ELSE IF ~t.ok THEN Result(t.s, {}, TRUE)
       ELSE IF "SYN" \in t.m.flag THEN Result(abort(s), sendReset(e, m), FALSE)
       ELSE TextAndFin(e, up, t.m)

(* StreamReceiver::input, the listening one apart. *)
input(e, s, m) ==
    CASE s.state = "Closed" -> Result(s, sendReset(e, m), FALSE)
      [] s.state = "SynSent" -> SynSentInput(e, s, m)
      [] s.state = "SynReceived" -> SynReceivedInput(e, s, m)
      [] OTHER -> SynchronizedInput(e, s, m)

----------------------------------------------------------------------------
(* Actions. *)

(* The network (external) takes what it has room for and drops the rest. *)
Carry(flying, seg) == IF Cardinality(flying \union seg) <= Room THEN flying \union seg ELSE flying

(* What output() makes of a handler's result r: expired() may begin before it, with
   nothing left to send for its own output(), and in the middle of it. *)
Outcomes(e, r) ==
    IF ~r.out THEN {[s |-> r.s, seg |-> {}]}
    ELSE {output(e, r.s)} \union
         (IF r.s.rxmitTimer
          THEN {output(e, timeout(r.s).s)} \union {interrupted(e, r.s, m) : m \in Moments(r.s)}
          ELSE {})

(* End e becomes r.s and, when r.out, sends what output() makes of it; abort()
   takes a closed end out of the listening socket's queue. *)
Leave(e, r, flying, l) ==
    \E x \in {r} : \E o \in Outcomes(e, x) :
    /\ tcb' = [tcb EXCEPT ![e] = o.s]
    /\ net' = Carry(flying, x.seg \union o.seg)
    /\ listener' = IF o.s.state = "Closed"
                   THEN [l EXCEPT !.accepted = Only(@, Clients \ {e[1]})] ELSE l

(* The segment is consumed, or a copy of it stays in the network. *)
Taken(m) == {net \ {m}} \union (IF Unreliable THEN {net} ELSE {})

(* A segment reaches an end that has its StreamReceiver. *)
Input(m) ==
    LET e == Peer(m.from)
        r == input(e, tcb[e], m)
        l == IF tcb[e].state = "SynReceived" /\ r.s.state \in {"Established", "CloseWait"}
             THEN [listener EXCEPT !.parConn = @ - 1, !.pendingConn = @ + 1,
                                   !.accepted = Append(@, e[1])]
             ELSE listener
    IN /\ tcb[e].state # "None"
       /\ "gap" \in Allow \/ m.data = << >> \/ m.seq <= tcb[e].recvNext
       /\ \E flying \in Taken(m) : Leave(e, r, flying, l)

counted(l) == [l EXCEPT !.parConn = @ + 1]

(* StateListen::input: a SYN from a host the server has no StreamReceiver for makes
   one, which takes the SYN again; at the backlog the new one is aborted and stays. *)
ListenInput(m) ==
    LET e    == Peer(m.from)
        full == listener.parConn + listener.pendingConn >= Backlog
        s    == [NewStream("SynReceived") EXCEPT !.recvNext = m.seq + 1]
        l    == IF full THEN listener ELSE counted(listener)
        r    == IF "RST" \in m.flag \/ ("ACK" \notin m.flag /\ "SYN" \notin m.flag)
                THEN Result(tcb[e], {}, FALSE)
                ELSE IF "ACK" \in m.flag THEN Result(tcb[e], sendReset(e, m), FALSE)
                ELSE IF full THEN Result(abort(s), {}, FALSE)
                ELSE SynReceivedInput(e, s, m)
    IN /\ tcb[e].state = "None"
       /\ \E flying \in Taken(m) : Leave(e, r, flying, IF r.s.state = "None" THEN listener ELSE l)

Lose(m) == Unreliable /\ net' = net \ {m} /\ UNCHANGED <<tcb, listener>>

(* error(): the network reports the peer unreachable. *)
Error(e) ==
    /\ Unreliable /\ tcb[e].state \notin {"None", "Closed"}
    /\ Leave(e, Result(abort([tcb[e] EXCEPT !.err = TRUE]), {}, FALSE), net, listener)

(* expired(), between two calls. *)
expired(e) ==
    /\ tcb[e].state # "Closed" /\ tcb[e].rxmitTimer
    /\ Leave(e, timeout(tcb[e]), net, listener)

----------------------------------------------------------------------------
(* The calls of the applications. *)

connect(e) ==
    /\ e[2] = "client" /\ tcb[e].state = "Closed" /\ ~tcb[e].held
    /\ Leave(e, Result([NewStream("SynSent") EXCEPT !.held = TRUE], {}, TRUE), net, listener)

accept ==
    /\ listener.accepted # << >>
    /\ tcb' = [tcb EXCEPT ![<<Head(listener.accepted), "server">>].held = TRUE]
    /\ listener' = [listener EXCEPT !.pendingConn = @ - 1, !.accepted = Tail(@)]
    /\ UNCHANGED net

(* connect() and the calls on a StreamReceiver that was aborted are over. *)
InUse(e) == tcb[e].held /\ tcb[e].state \notin {"Closed", "SynSent"}

(* write() of the next byte; an application does not write after shutdownOutput(). *)
write(e) ==
    LET s == tcb[e] IN
    /\ InUse(e) /\ ~s.shutwr /\ s.wrote < Bytes(e)
    /\ Leave(e, Result([s EXCEPT !.wrote = @ + 1, !.sendRing = Append(@, s.wrote + 1)], {}, TRUE),
             net, listener)

(* read() of one byte. *)
read(e) ==
    LET s == tcb[e] IN
    /\ InUse(e) /\ s.recvRing # << >>
    /\ Leave(e, Result([s EXCEPT !.got = Append(@, Head(s.recvRing)), !.recvRing = Tail(@)], {}, TRUE),
             net, listener)

(* close() and shutdownOutput() give the state's close() a FIN to send. *)
Shut(e, s) ==
    Leave(e, CASE s.state = "Established" -> Result(setState(s, "FinWait1"), {}, TRUE)
               [] s.state = "CloseWait"   -> Result(setState(s, "LastAck"), {}, TRUE)
               [] s.state = "SynSent"     -> Result(abort(s), {}, FALSE)
               [] OTHER                   -> Result(s, {}, FALSE), net, listener)

shutdownOutput(e) == InUse(e) /\ ~tcb[e].shutwr /\ Shut(e, [tcb[e] EXCEPT !.shutwr = TRUE])

close(e) ==
    /\ tcb[e].held /\ tcb[e].state # "Closed" /\ ~(tcb[e].shutrd /\ tcb[e].shutwr)
    /\ Shut(e, [tcb[e] EXCEPT !.shutrd = TRUE, !.shutwr = TRUE])

shutdownInput(e) ==
    /\ InUse(e) /\ ~tcb[e].shutrd
    /\ tcb' = [tcb EXCEPT ![e].shutrd = TRUE]
    /\ UNCHANGED <<listener, net>>

(* close() of a non-blocking socket: state->abort(), with sendReset() in the states
   from SynReceived to CloseWait. *)
nonBlockingClose(e) ==
    LET s == tcb[e] IN
    /\ s.held /\ s.state # "Closed"
    /\ Leave(e, Result(abort(s),
                       IF s.state \in {"SynReceived", "Established", "FinWait1", "FinWait2", "CloseWait"}
                       THEN {Segment(e, {"RST"}, s.sendMax, 0, << >>)} ELSE {}, FALSE), net, listener)

Next ==
    \/ \E m \in net : Input(m) \/ ListenInput(m) \/ Lose(m)
    \/ accept
    \/ \E e \in End : \/ expired(e) \/ Error(e) \/ connect(e) \/ write(e) \/ read(e)
                      \/ shutdownOutput(e) \/ shutdownInput(e) \/ close(e) \/ nonBlockingClose(e)

Spec == Init /\ [][Next]_vars

----------------------------------------------------------------------------
(* Properties. *)

TypeOK ==
    /\ \A e \in End : LET s == tcb[e] IN
        /\ s.state \in States
        /\ {s.sendUna, s.sendNext, s.sendMax, s.recvNext} \subseteq Nat
        /\ {s.ackNow, s.shutrd, s.shutwr, s.rxmitTimer, s.err, s.held} \subseteq BOOLEAN
        /\ s.rxmitCount \in 0 .. R2 /\ s.wrote \in 0 .. Bytes(e)
    /\ listener.parConn \in Nat /\ listener.pendingConn \in Nat
    /\ listener.accepted \in Seq(Clients)
    /\ \A m \in net : m.from \in End

Upto(n) == [i \in 1 .. n |-> i]

(* What an application has read, followed by what waits for it in recvRing, is a
   prefix of what its peer wrote (text(), trim() and ack() with the rings). *)
StreamIntact ==
    \A e \in End : IsPrefix(tcb[e].got \o tcb[e].recvRing, Upto(tcb[Peer(e)].wrote))

(* An end that took a FIN has every byte its peer wrote, and the peer will write no
   more: no segment order makes the FIN overtake data. *)
FinIsLast ==
    \A e \in End : tcb[e].state \in {"CloseWait", "LastAck", "Closing", "TimeWait"} =>
        /\ tcb[Peer(e)].shutwr
        /\ Len(tcb[e].got \o tcb[e].recvRing) = tcb[Peer(e)].wrote
        /\ tcb[e].recvNext = tcb[Peer(e)].wrote + 2

Synchronized == {"Established", "FinWait1", "FinWait2", "CloseWait", "LastAck", "Closing", "TimeWait"}

(* The two ends agree on every sequence number: the receiver is between what the
   sender knows to be acknowledged and what it has sent at most, and what the
   sender forgot was received. *)
EndsAgree ==
    \A e \in End : {tcb[e].state, tcb[Peer(e)].state} \subseteq Synchronized =>
        /\ tcb[e].sendUna <= tcb[Peer(e)].recvNext
        /\ tcb[Peer(e)].recvNext <= tcb[e].sendMax
        /\ tcb[e].sendUna <= tcb[e].sendNext /\ tcb[e].sendNext <= tcb[e].sendMax

Transient == {"SynSent", "SynReceived", "FinWait1", "LastAck", "Closing", "TimeWait"}

(* An end that waits for an answer, or for the end of TIME-WAIT, has rxmitTimer running
   between two calls, so that whatever the network loses it leaves that state after R2 at
   the latest: the timer is set by send() and ack(), stopped by ack() and abort(), and
   goes off in between. *)
AnswerIsTimed == \A e \in End : tcb[e].state \in Transient => tcb[e].rxmitTimer

(* When send() has no more to do for a FIN that is not acknowledged (getSendableWithFin()
   says 0), rxmitTimer has not gone off yet: it will, and send the FIN again. *)
FinIsTimed ==
    \A e \in End : LET s == tcb[e] IN
        s.state \in {"FinWait1", "LastAck", "Closing"} /\ Len(s.sendRing) < s.sendNext - s.sendUna
            => s.rxmitTimer

============================================================================
