----------------------------- MODULE TcpProofs -----------------------------
(***************************************************************************)
(* Tcp for every number of clients and of bytes, and every size of the     *)
(* network: what is true of the two ends of a connection and of every      *)
(* segment between them, as long as expired() does not begin while send()  *)
(* puts a segment together ("build" of Tcp), and what follows for the      *)
(* streams while no segment is kept beyond a gap.                          *)
(***************************************************************************)
EXTENDS Tcp, ListLemmas

-----------------------------------------------------------------------------
(* Types. *)

Flags == {"SYN", "FIN", "ACK", "PSH", "RST"}

(* The blocks of a ring above its bytes. *)
Blocks == UNION {[D -> Nat] : D \in {B \in SUBSET Int : IsFiniteSet(B)}}

Streams ==
    [state : States, sendUna : Nat, sendNext : Nat, sendMax : Nat, sendRing : Seq(Nat),
     recvNext : Nat, recvRing : Seq(Nat), asb : Blocks, ackNow : BOOLEAN,
     shutrd : BOOLEAN, shutwr : BOOLEAN, rxmitTimer : BOOLEAN, rxmitCount : Nat,
     err : BOOLEAN, got : Seq(Nat), wrote : Nat, held : BOOLEAN]

Segments == [from : End, flag : SUBSET Flags, seq : Nat, ack : Nat, data : Seq(Nat)]

Listeners == [parConn : Int, pendingConn : Int, accepted : Seq(Clients)]

Types ==
    /\ tcb \in [End -> Streams]
    /\ listener \in Listeners
    /\ net \subseteq Segments

-----------------------------------------------------------------------------
(* The inductive invariant: of an end e in the state s, whose peer is in the *)
(* state p, and of a segment m, whose sender is in the state q.  Of the      *)
(* peer and of the sender only what never goes back is used.                 *)

Early == {"None", "SynSent", "SynReceived"}
Ended == {"CloseWait", "LastAck", "Closing", "TimeWait"}
Ending == {"FinWait1", "FinWait2", "LastAck", "Closing", "TimeWait"}

(* What was sent and acknowledged, and what the peer has received. *)
NumbersOK(s, p) ==
    /\ s.sendUna <= s.sendNext /\ s.sendNext <= s.sendMax
    /\ s.sendUna <= p.recvNext
    /\ 1 <= s.recvNext
    /\ s.recvNext = 1 \/ s.recvNext <= p.sendMax

(* The FIN counts last, and only when the peer has closed its stream. *)
EndOfStreamOK(s, p) ==
    /\ s.recvNext <= p.wrote + 1 \/ (p.shutwr /\ s.recvNext = p.wrote + 2)
    /\ s.state \in Ended => p.shutwr /\ s.recvNext = p.wrote + 2
    /\ s.state \notin Ended \cup {"Closed"} => s.recvNext <= p.wrote + 1

(* sendRing has the bytes from sendUna to the last one written. *)
SendRingOK(s) ==
    /\ s.sendUna = 0 => s.wrote = 0 /\ s.sendRing = << >>
    /\ s.sendUna > 0 => \/ s.sendUna + Len(s.sendRing) = s.wrote + 1
                        \/ s.sendRing = << >> /\ s.sendUna = s.wrote + 2 /\ s.shutwr
    /\ \A i \in 1 .. Len(s.sendRing) : s.sendRing[i] = s.sendUna - 1 + i

(* What the states before Established and after close() know. *)
StateOK(e, s) ==
    /\ s.state \in Early => s.sendUna = 0 /\ s.wrote = 0 /\ ~s.shutwr
    /\ s.state = "SynSent" => e[2] = "client" /\ s.recvNext = 1 /\ ~s.ackNow
    /\ s.state \in {"None", "SynReceived"} => e[2] = "server" /\ ~s.held
    /\ s.state = "None" => s = NewStream("None")
    /\ e[2] = "client" /\ ~s.held => s = NewStream("Closed")
    /\ s.state \in Synchronized => s.sendUna > 0
    /\ s.state \in Ending => s.shutwr

EndOK(e, s, p) ==
    /\ NumbersOK(s, p) /\ EndOfStreamOK(s, p) /\ SendRingOK(s) /\ StateOK(e, s)

(* A segment carries what its sender had, then. *)
FinOK(m, q) ==
    /\ q.shutwr
    /\ \/ m.seq + Len(m.data) = q.wrote + 1
       \/ m.data = << >> /\ m.seq = q.wrote + 2

CarriesOK(m, q) ==
    /\ m.seq + SegmentLength(m) <= q.sendMax
    /\ "ACK" \in m.flag => 1 <= m.ack /\ m.ack <= q.recvNext
    /\ "ACK" \notin m.flag => m.flag = {"SYN"} /\ m.from[2] = "client"
    /\ "SYN" \in m.flag => m.seq = 0 /\ m.data = << >> /\ "FIN" \notin m.flag
    /\ m.data # << >> => 1 <= m.seq /\ m.seq + Len(m.data) <= q.wrote + 1
    /\ \A i \in 1 .. Len(m.data) : m.data[i] = m.seq - 1 + i
    /\ "FIN" \in m.flag => FinOK(m, q)

SegmentOK(m, q) == "RST" \notin m.flag => CarriesOK(m, q)

EndsOK == \A e \in End : EndOK(e, tcb[e], tcb[Peer(e)])
SegmentsOK == \A m \in net : SegmentOK(m, tcb[m.from])
AcceptedOK == \A c \in ToSet(listener.accepted) :
                 tcb[<<c, "server">>].state \notin {"None", "SynReceived"}

IndInv == Types /\ EndsOK /\ SegmentsOK /\ AcceptedOK

(* While nothing is kept beyond a gap, the bytes of a stream are read and in *)
(* recvRing up to recvNext. *)
InOrder == \A e \in End : DOMAIN tcb[e].asb = {}

Received(s) == s.got \o s.recvRing

ReceivedOK(s, p) ==
    /\ \A i \in 1 .. Len(Received(s)) : Received(s)[i] = i
    /\ \/ s.recvNext = Len(Received(s)) + 1 /\ s.recvNext <= p.wrote + 1
       \/ s.recvNext = Len(Received(s)) + 2 /\ s.recvNext = p.wrote + 2

StreamsOK == \A e \in End : ReceivedOK(tcb[e], tcb[Peer(e)])

-----------------------------------------------------------------------------
(* The operators of Tcp. *)

(* The two ends of a connection are each other's peer. *)
LEMMA Peers ==
  ASSUME NEW e \in End
  PROVE  /\ Peer(e) \in End /\ Peer(Peer(e)) = e /\ Peer(e) # e
         /\ e[1] \in Clients /\ e[2] \in {"client", "server"}
         /\ e = <<e[1], e[2]>> /\ Peer(e)[1] = e[1]
         /\ e[2] = "client" <=> Peer(e)[2] = "server"
<1>1. e[1] \in Clients /\ e[2] \in {"client", "server"} /\ e = <<e[1], e[2]>>
  BY DEF End
<1>2. CASE e[2] = "client"
  BY <1>1, <1>2 DEF End, Peer
<1>3. CASE e[2] = "server"
  BY <1>1, <1>3 DEF End, Peer
<1> QED
  BY <1>1, <1>2, <1>3

(* Max and Min of two numbers. *)
LEMMA MaxOfTwo ==
  ASSUME NEW a \in Int, NEW b \in Int
  PROVE  Max({a, b}) = IF a >= b THEN a ELSE b
<1> DEFINE S == {a, b}
<1>1. \E x \in S : \A y \in S : x >= y
  OBVIOUS
<1>2. Max(S) \in S /\ \A y \in S : Max(S) >= y
  BY <1>1 DEF Max
<1> QED
  BY <1>2

LEMMA MinOfTwo ==
  ASSUME NEW a \in Int, NEW b \in Int
  PROVE  Min({a, b}) = IF a <= b THEN a ELSE b
<1> DEFINE S == {a, b}
<1>1. \E x \in S : \A y \in S : x <= y
  OBVIOUS
<1>2. Min(S) \in S /\ \A y \in S : Min(S) <= y
  BY <1>1 DEF Min
<1> QED
  BY <1>2

(* A piece of a sequence. *)
LEMMA Piece ==
  ASSUME NEW q \in Seq(Nat), NEW a \in Nat, NEW b \in Nat, b <= Len(q)
  PROVE  /\ SubSeq(q, a + 1, b) \in Seq(Nat)
         /\ Len(SubSeq(q, a + 1, b)) = IF a <= b THEN b - a ELSE 0
         /\ \A i \in 1 .. Len(SubSeq(q, a + 1, b)) : SubSeq(q, a + 1, b)[i] = q[a + i]
<1>1. \A i \in a + 1 .. b : q[i] \in Nat
  BY ElementOfSeq
<1>2. /\ SubSeq(q, a + 1, b) \in Seq(Nat)
      /\ Len(SubSeq(q, a + 1, b)) = IF a + 1 <= b THEN b - (a + 1) + 1 ELSE 0
      /\ \A i \in 1 .. b - (a + 1) + 1 : SubSeq(q, a + 1, b)[i] = q[a + 1 + i - 1]
  <2> DEFINE m == a + 1
  <2>1. m \in Int /\ b \in Int /\ \A i \in m .. b : q[i] \in Nat
    BY <1>1
  <2> HIDE DEF m
  <2>2. /\ SubSeq(q, m, b) \in Seq(Nat)
        /\ Len(SubSeq(q, m, b)) = IF m <= b THEN b - m + 1 ELSE 0
        /\ \A i \in 1 .. b - m + 1 : SubSeq(q, m, b)[i] = q[m + i - 1]
    BY <2>1, SubSeqProperties
  <2> QED
    BY <2>2 DEF m
<1> QED
  BY <1>2

(* The octets of a segment that take a sequence number. *)
LEMMA Lengths ==
  ASSUME NEW m \in Segments
  PROVE  /\ SegmentLength(m) \in Nat
         /\ "SYN" \in m.flag /\ "FIN" \in m.flag => SegmentLength(m) = Len(m.data) + 2
         /\ "SYN" \in m.flag /\ "FIN" \notin m.flag => SegmentLength(m) = Len(m.data) + 1
         /\ "SYN" \notin m.flag /\ "FIN" \in m.flag => SegmentLength(m) = Len(m.data) + 1
         /\ "SYN" \notin m.flag /\ "FIN" \notin m.flag => SegmentLength(m) = Len(m.data)
<1> DEFINE F == m.flag \cap {"SYN", "FIN"}
<1>0. Len(m.data) \in Nat
  BY LenProperties DEF Segments
<1>1. CASE "SYN" \in m.flag /\ "FIN" \in m.flag
  <2>1. F = {"SYN"} \cup {"FIN"} /\ IsFiniteSet({"SYN"}) /\ "FIN" \notin {"SYN"}
    BY <1>1, FS_Singleton
  <2>2. Cardinality({"SYN"} \cup {"FIN"}) = Cardinality({"SYN"}) + 1
    BY <2>1, FS_AddElement
  <2>3. Cardinality(F) = 2
    BY <2>1, <2>2, FS_Singleton
  <2> QED
    BY <1>0, <1>1, <2>3 DEF SegmentLength
<1>2. CASE "SYN" \in m.flag /\ "FIN" \notin m.flag
  <2>1. F = {"SYN"}
    BY <1>2
  <2>2. Cardinality(F) = 1
    BY <2>1, FS_Singleton
  <2> QED
    BY <1>0, <1>2, <2>2 DEF SegmentLength
<1>3. CASE "SYN" \notin m.flag /\ "FIN" \in m.flag
  <2>1. F = {"FIN"}
    BY <1>3
  <2>2. Cardinality(F) = 1
    BY <2>1, FS_Singleton
  <2> QED
    BY <1>0, <1>3, <2>2 DEF SegmentLength
<1>4. CASE "SYN" \notin m.flag /\ "FIN" \notin m.flag
  <2>1. F = {}
    BY <1>4
  <2>2. Cardinality(F) = 0
    BY <2>1, FS_EmptySet
  <2> QED
    BY <1>0, <1>4, <2>2 DEF SegmentLength
<1> QED
  BY <1>1, <1>2, <1>3, <1>4

(* A StreamReceiver as it is constructed. *)
LEMMA Constructed ==
  ASSUME NEW state \in States
  PROVE  NewStream(state) \in Streams
<1>1. << >> \in Seq(Nat) /\ << >> \in Blocks
  <2>1. << >> \in [{} -> Nat] /\ {} \in SUBSET Int /\ IsFiniteSet({})
    BY FS_EmptySet
  <2> QED
    BY <2>1 DEF Blocks
<1> QED
  BY <1>1 DEF NewStream, Streams

-----------------------------------------------------------------------------
(* What a step keeps. *)

(* What an end may rely on of its peer, and a segment of its sender. *)
Grows(s, t) ==
    /\ s.sendMax <= t.sendMax /\ s.recvNext <= t.recvNext
    /\ s.shutwr => t.shutwr
    /\ s.wrote <= t.wrote /\ (s.shutwr => t.wrote = s.wrote)
    /\ s.state \notin {"None", "SynReceived"} => t.state \notin {"None", "SynReceived"}

LEMMA EndKept ==
  ASSUME NEW e \in End, NEW s \in Streams, NEW p \in Streams, NEW q \in Streams,
         EndOK(e, s, p), Grows(p, q)
  PROVE  EndOK(e, s, q)
<1>1. {p.wrote, q.wrote, p.recvNext, q.recvNext, p.sendMax, q.sendMax,
       s.sendUna, s.recvNext} \subseteq Nat
  BY DEF Streams
<1> QED
  BY <1>1 DEF EndOK, Grows, NumbersOK, EndOfStreamOK

LEMMA ReceivedKept ==
  ASSUME NEW e \in End, NEW s \in Streams, NEW p \in Streams, NEW q \in Streams,
         EndOK(e, s, p), Grows(p, q), ReceivedOK(s, p)
  PROVE  ReceivedOK(s, q)
<1> DEFINE got == Received(s)
<1>1. p.wrote \in Nat /\ q.wrote \in Nat /\ s.recvNext \in Nat
  BY DEF Streams
<1>2. p.wrote <= q.wrote /\ (p.shutwr => q.wrote = p.wrote)
  BY DEF Grows
<1>3. s.recvNext = p.wrote + 2 => p.shutwr
  BY <1>1 DEF EndOK, EndOfStreamOK
<1>4. /\ \A i \in 1 .. Len(got) : got[i] = i
      /\ \/ s.recvNext = Len(got) + 1 /\ s.recvNext <= p.wrote + 1
         \/ s.recvNext = Len(got) + 2 /\ s.recvNext = p.wrote + 2
  BY DEF ReceivedOK
<1> HIDE DEF got
<1>5. \/ s.recvNext = Len(got) + 1 /\ s.recvNext <= q.wrote + 1
      \/ s.recvNext = Len(got) + 2 /\ s.recvNext = q.wrote + 2
  BY <1>1, <1>2, <1>3, <1>4
<1> QED
  BY <1>4, <1>5 DEF ReceivedOK, got

LEMMA SegmentKept ==
  ASSUME NEW m \in Segments, NEW q \in Streams, NEW r \in Streams,
         SegmentOK(m, q), Grows(q, r)
  PROVE  SegmentOK(m, r)
<1>1. /\ q.wrote \in Nat /\ r.wrote \in Nat /\ q.recvNext \in Nat /\ r.recvNext \in Nat
      /\ q.sendMax \in Nat /\ r.sendMax \in Nat /\ m.seq \in Nat /\ m.ack \in Nat
  BY DEF Streams, Segments
<1>2. Len(m.data) \in Nat
  BY LenProperties DEF Segments
<1>3. SegmentLength(m) \in Nat
  BY Lengths
<1>4. SUFFICES ASSUME CarriesOK(m, q)
               PROVE  CarriesOK(m, r)
  BY DEF SegmentOK
<1>5. m.seq + SegmentLength(m) <= r.sendMax
  BY <1>1, <1>3, <1>4 DEF CarriesOK, Grows
<1>6. "ACK" \in m.flag => 1 <= m.ack /\ m.ack <= r.recvNext
  BY <1>1, <1>4 DEF CarriesOK, Grows
<1>7. m.data # << >> => 1 <= m.seq /\ m.seq + Len(m.data) <= r.wrote + 1
  BY <1>1, <1>2, <1>4 DEF CarriesOK, Grows
<1>8. "FIN" \in m.flag => FinOK(m, r)
  BY <1>1, <1>2, <1>4 DEF CarriesOK, FinOK, Grows
<1> QED
  BY <1>4, <1>5, <1>6, <1>7, <1>8 DEF CarriesOK

(* s and t differ in their state, their timer and what they have to answer. *)
Alike(s, t) ==
    /\ t.sendUna = s.sendUna /\ t.sendNext = s.sendNext /\ t.sendMax = s.sendMax
    /\ t.sendRing = s.sendRing /\ t.recvNext = s.recvNext /\ t.recvRing = s.recvRing
    /\ t.asb = s.asb /\ t.shutwr = s.shutwr /\ t.got = s.got /\ t.wrote = s.wrote
    /\ t.held = s.held

LEMMA SetStates ==
  ASSUME NEW s \in Streams, NEW state \in States
  PROVE  /\ setState(s, state) \in Streams
         /\ setState(s, state).state = state
         /\ setState(s, state).ackNow = s.ackNow
         /\ Alike(s, setState(s, state))
<1> DEFINE t == [s EXCEPT !.state = state]
<1>1. t \in Streams /\ t.state = state /\ t.ackNow = s.ackNow /\ Alike(s, t)
  BY DEF Streams, Alike
<1>2. CASE state \in {"CloseWait", "Closing"}
  <2>1. setState(s, state) = [t EXCEPT !.shutrd = TRUE]
    BY <1>2 DEF setState
  <2> QED
    BY <1>1, <2>1 DEF Streams, Alike
<1>3. CASE state = "TimeWait"
  <2>1. setState(s, state) = [stopRxmitTimer(t) EXCEPT !.shutrd = TRUE, !.rxmitTimer = TRUE]
    BY <1>3 DEF setState
  <2>2. /\ stopRxmitTimer(t) \in Streams /\ Alike(s, stopRxmitTimer(t))
        /\ stopRxmitTimer(t).state = state /\ stopRxmitTimer(t).ackNow = s.ackNow
    BY <1>1 DEF Streams, Alike, stopRxmitTimer
  <2> QED
    BY ZenonT(30), <2>1, <2>2 DEF Streams, Alike
<1>4. CASE state \notin {"CloseWait", "Closing", "TimeWait"}
  <2>1. setState(s, state) = t
    BY <1>4 DEF setState
  <2> QED
    BY <1>1, <2>1
<1> QED
  BY <1>2, <1>3, <1>4

LEMMA Aborts ==
  ASSUME NEW s \in Streams
  PROVE  /\ abort(s) \in Streams /\ abort(s).state = "Closed" /\ Alike(s, abort(s))
<1> DEFINE t == setState(s, "Closed")
<1>1. t \in Streams /\ t.state = "Closed" /\ Alike(s, t)
  BY SetStates DEF States
<1> HIDE DEF t
<1>2. abort(s) = stopRxmitTimer(t)
  BY DEF abort, t
<1>3. /\ stopRxmitTimer(t) \in Streams /\ stopRxmitTimer(t).state = "Closed"
      /\ Alike(t, stopRxmitTimer(t))
  BY <1>1 DEF Streams, Alike, stopRxmitTimer
<1>4. Alike(s, stopRxmitTimer(t))
  BY <1>1, <1>3 DEF Alike
<1> QED
  BY <1>2, <1>3, <1>4

(* An end that closes, for whatever reason. *)
LEMMA ClosedEnd ==
  ASSUME NEW e \in End, NEW s \in Streams, NEW t \in Streams, NEW p \in Streams,
         EndOK(e, s, p), Alike(s, t), t.state = "Closed",
         s.state # "Closed" \/ (e[2] = "client" => s.held)
  PROVE  EndOK(e, t, p) /\ Grows(s, t)
<1>1. NumbersOK(t, p) /\ EndOfStreamOK(t, p) /\ SendRingOK(t)
  BY DEF EndOK, Alike, NumbersOK, EndOfStreamOK, SendRingOK, Ended
<1>2. e[2] = "client" => s.held
  BY DEF EndOK, StateOK, NewStream
<1>3. StateOK(e, t)
  BY <1>2 DEF StateOK, Alike, Early, Ending, Synchronized
<1>4. {s.wrote, s.recvNext, s.sendMax} \subseteq Nat
  BY DEF Streams
<1> QED
  BY <1>1, <1>3, <1>4 DEF EndOK, Grows, Alike

(* And what has been received of it. *)
LEMMA ReceivedAlike ==
  ASSUME NEW s, NEW t, NEW p, ReceivedOK(s, p), Alike(s, t)
  PROVE  ReceivedOK(t, p)
  BY DEF ReceivedOK, Received, Alike

-----------------------------------------------------------------------------
(* Acknowledgements. *)

(* What ack() leaves alone. *)
AckKeeps(s, t) ==
    /\ t.state = s.state /\ t.sendMax = s.sendMax /\ t.recvNext = s.recvNext
    /\ t.recvRing = s.recvRing /\ t.asb = s.asb /\ t.ackNow = s.ackNow
    /\ t.shutwr = s.shutwr /\ t.got = s.got /\ t.wrote = s.wrote /\ t.held = s.held

(* An acknowledgement of what the peer has received moves sendUna there and takes *)
(* as much off sendRing, not the SYN and not the FIN. *)
LEMMA Acks ==
  ASSUME NEW s \in Streams, NEW p \in Streams,
         NumbersOK(s, p), EndOfStreamOK(p, s), SendRingOK(s),
         s.sendUna = 0 => ~s.shutwr,
         NEW ack \in Nat, 1 <= ack, ack <= s.sendMax, ack <= p.recvNext,
         NEW sent \in Int, sent = IF s.sendUna = 0 THEN ack - 1 ELSE ack - s.sendUna,
         NEW t, t = Ack(s, ack, sent).s
  PROVE  /\ t \in Streams /\ AckKeeps(s, t)
         /\ NumbersOK(t, p) /\ SendRingOK(t) /\ t.sendUna > 0
<1> DEFINE acked == Min({sent, Len(s.sendRing)})
           next  == Max({s.sendNext, ack})
           ring  == skip(s.sendRing, acked)
           u == [s EXCEPT !.sendUna = ack, !.sendNext = Max({@, ack}), !.rxmitTimer = TRUE,
                          !.sendRing = skip(@, acked)]
<1>1. CASE ack <= s.sendUna
  <2>1. t = s
    BY <1>1 DEF Ack
  <2>2. s.sendUna > 0
    BY SMTT(30), <1>1 DEF Streams
  <2> QED
    BY <2>1, <2>2 DEF AckKeeps
<1>2. CASE ~(ack <= s.sendUna)
  <2>1. t = IF ack = s.sendMax THEN stopRxmitTimer(u) ELSE u
    BY <1>2 DEF Ack, settled
  <2>2. /\ s.sendUna \in Nat /\ s.sendNext \in Nat /\ s.sendMax \in Nat /\ s.wrote \in Nat
        /\ p.recvNext \in Nat /\ s.sendRing \in Seq(Nat) /\ Len(s.sendRing) \in Nat
    BY LenProperties DEF Streams
  <2>3. sent \in Nat /\ (s.sendUna = 0 => sent = ack - 1) /\ (s.sendUna > 0 => sent = ack - s.sendUna)
    BY <1>2, <2>2
  <2>4. /\ acked \in Nat /\ acked <= Len(s.sendRing) /\ acked <= sent
        /\ acked = sent \/ acked = Len(s.sendRing)
    <3>1. acked = IF sent <= Len(s.sendRing) THEN sent ELSE Len(s.sendRing)
      <4> DEFINE len == Len(s.sendRing)
      <4>1. len \in Int
        BY <2>2
      <4> HIDE DEF len
      <4>2. Min({sent, len}) = IF sent <= len THEN sent ELSE len
        BY <4>1, MinOfTwo
      <4> QED
        BY <4>2 DEF len
    <3> HIDE DEF acked
    <3> QED
      BY <2>2, <2>3, <3>1
  <2>5. next \in Nat /\ ack <= next /\ next <= s.sendMax
    BY <2>2, MaxOfTwo DEF NumbersOK
  <2>6. /\ ring \in Seq(Nat) /\ Len(ring) = Len(s.sendRing) - acked
        /\ \A i \in 1 .. Len(ring) : ring[i] = s.sendRing[acked + i]
    <3> DEFINE n == Len(s.sendRing)
    <3> HIDE DEF acked
    <3>1. n \in Nat /\ n <= Len(s.sendRing) /\ acked \in Nat /\ acked <= n
      BY <2>2, <2>4
    <3>2. ring = SubSeq(s.sendRing, acked + 1, n)
      BY DEF skip
    <3> HIDE DEF ring, n
    <3>3. /\ SubSeq(s.sendRing, acked + 1, n) \in Seq(Nat)
          /\ Len(SubSeq(s.sendRing, acked + 1, n)) = IF acked <= n THEN n - acked ELSE 0
          /\ \A i \in 1 .. Len(SubSeq(s.sendRing, acked + 1, n)) :
                SubSeq(s.sendRing, acked + 1, n)[i] = s.sendRing[acked + i]
      BY <2>2, <3>1, Piece
    <3> QED
      BY <3>1, <3>2, <3>3 DEF n
  <2> HIDE DEF acked, next, ring
  <2>7. u = [s EXCEPT !.sendUna = ack, !.sendNext = next, !.rxmitTimer = TRUE, !.sendRing = ring]
    BY DEF next, ring
  <2> HIDE DEF u
  <2>8. /\ u \in Streams /\ AckKeeps(s, u) /\ u.sendUna = ack /\ u.sendNext = next /\ u.sendRing = ring
    BY <2>5, <2>6, <2>7 DEF Streams, AckKeeps
  <2>9. /\ stopRxmitTimer(u) \in Streams /\ AckKeeps(s, stopRxmitTimer(u))
        /\ stopRxmitTimer(u).sendUna = ack /\ stopRxmitTimer(u).sendNext = next
        /\ stopRxmitTimer(u).sendRing = ring
    BY <2>8 DEF Streams, AckKeeps, stopRxmitTimer
  <2>10. /\ t \in Streams /\ AckKeeps(s, t) /\ t.sendUna = ack /\ t.sendNext = next
         /\ t.sendRing = ring
    BY <2>1, <2>8, <2>9
  <2>11. NumbersOK(t, p)
    BY <2>2, <2>5, <2>10 DEF NumbersOK, AckKeeps
  <2>12. CASE s.sendUna = 0
    <3>1. s.wrote = 0 /\ s.sendRing = << >> /\ ~s.shutwr
      BY <2>12 DEF SendRingOK
    <3>2. ack = 1
      BY <2>2, <3>1 DEF EndOfStreamOK
    <3>3. Len(s.sendRing) = 0
      BY <3>1
    <3>4. Len(ring) = 0
      BY <2>2, <2>4, <2>6, <3>3
    <3> QED
      BY <2>10, <2>11, <3>1, <3>2, <3>4 DEF SendRingOK, AckKeeps
  <2>13. CASE s.sendUna > 0 /\ s.sendRing = << >> /\ s.sendUna = s.wrote + 2
    BY <1>2, <2>2, <2>13 DEF EndOfStreamOK
  <2>14. CASE s.sendUna > 0 /\ s.sendUna + Len(s.sendRing) = s.wrote + 1
    <3>1. \A i \in 1 .. Len(ring) : ring[i] = ack - 1 + i
      <4> SUFFICES ASSUME NEW i \in 1 .. Len(ring) PROVE ring[i] = ack - 1 + i
        OBVIOUS
      <4>1. acked = sent
        BY <2>2, <2>3, <2>4, <2>6
      <4>2. ring[i] = s.sendRing[acked + i] /\ acked + i \in 1 .. Len(s.sendRing)
        <5>1. Len(ring) = Len(s.sendRing) - acked /\ ring[i] = s.sendRing[acked + i]
          BY <2>6
        <5>2. acked \in Nat /\ Len(s.sendRing) \in Nat /\ acked <= Len(s.sendRing)
          BY <2>2, <2>4
        <5> QED
          BY <5>1, <5>2
      <4>3. s.sendRing[acked + i] = s.sendUna - 1 + (acked + i)
        BY <4>2 DEF SendRingOK
      <4> QED
        BY <2>2, <2>3, <2>14, <4>1, <4>2, <4>3
    <3>2. CASE ack <= s.wrote + 1
      <4>1. acked = sent
        BY <2>2, <2>3, <2>4, <2>14, <3>2
      <4>2. Len(ring) = Len(s.sendRing) - sent /\ sent = ack - s.sendUna
        BY <2>3, <2>6, <2>14, <4>1
      <4>3. ack + Len(ring) = s.wrote + 1
        <5> DEFINE n == Len(s.sendRing)
        <5>1. n \in Nat /\ s.sendUna \in Nat /\ s.wrote \in Nat
          BY <2>2
        <5>2. s.sendUna + n = s.wrote + 1 /\ Len(ring) = n - (ack - s.sendUna)
          BY <2>14, <4>2
        <5> HIDE DEF n
        <5> QED
          BY <5>1, <5>2
      <4> QED
        <5>1. t.sendRing = ring /\ t.sendUna = ack /\ t.wrote = s.wrote /\ t.sendUna > 0
          BY <2>2, <2>10 DEF AckKeeps
        <5>2. t.sendUna + Len(t.sendRing) = t.wrote + 1
          BY <4>3, <5>1
        <5>3. \A i \in 1 .. Len(t.sendRing) : t.sendRing[i] = t.sendUna - 1 + i
          BY <3>1, <5>1
        <5>4. t.sendUna # 0
          BY <2>2, <5>1
        <5> QED
          BY <2>10, <2>11, <5>1, <5>2, <5>3, <5>4 DEF SendRingOK
    <3>3. CASE ack > s.wrote + 1
      <4>1. ack = s.wrote + 2 /\ s.shutwr
        BY <2>2, <3>3 DEF EndOfStreamOK
      <4>2. Len(ring) = 0
        BY <2>2, <2>3, <2>4, <2>6, <2>14, <4>1
      <4>3. ring = << >>
        BY <2>6, <4>2, EmptySeq
      <4>4. t.sendUna = t.wrote + 2 /\ t.sendRing = << >> /\ t.shutwr /\ t.sendUna > 0
        <5>1. t.sendUna = ack /\ t.wrote = s.wrote /\ t.shutwr = s.shutwr /\ t.sendRing = ring
          BY <2>10 DEF AckKeeps
        <5>2. t.sendUna = t.wrote + 2 /\ t.sendUna > 0
          BY <2>2, <4>1, <5>1
        <5>3. t.shutwr
          BY <4>1, <5>1
        <5> QED
          BY <4>3, <5>1, <5>2, <5>3
      <4>5. \A i \in 1 .. Len(t.sendRing) : t.sendRing[i] = t.sendUna - 1 + i
        BY <2>10, <3>1
      <4>6. SendRingOK(t)
        BY <4>4, <4>5 DEF SendRingOK
      <4> QED
        BY <2>10, <2>11, <4>4, <4>6
    <3> QED
      BY <2>2, <3>2, <3>3
  <2>15. \/ s.sendUna = 0
         \/ s.sendUna > 0 /\ s.sendRing = << >> /\ s.sendUna = s.wrote + 2
         \/ s.sendUna > 0 /\ s.sendUna + Len(s.sendRing) = s.wrote + 1
    BY <2>2 DEF SendRingOK
  <2> QED
    BY <2>12, <2>13, <2>14, <2>15
<1> QED
  BY <1>1, <1>2

-----------------------------------------------------------------------------
(* Segments that arrive. *)

(* What is left of a segment after trim(), with the FIN at its end. *)
TrimmedOK(t, p) ==
    /\ "SYN" \notin t.flag
    /\ t.seq + Len(t.data) <= p.sendMax
    /\ t.data # << >> => 1 <= t.seq /\ t.seq + Len(t.data) <= p.wrote + 1
    /\ \A i \in 1 .. Len(t.data) : t.data[i] = t.seq - 1 + i
    /\ "FIN" \in t.flag => FinOK(t, p) /\ t.seq + Len(t.data) + 1 <= p.sendMax

(* Where the data of m begins, then. *)
InPlace(s, m, r) ==
    /\ Len(m.data) = 0 => r.m.data = << >>
    /\ m.seq <= s.recvNext /\ r.ok => r.m.seq = s.recvNext

(* trim() cuts off what has been received already, the SYN and a FIN of it included. *)
LEMMA Trims ==
  ASSUME NEW s \in Streams, NEW p \in Streams, NEW m \in Segments,
         1 <= s.recvNext, CarriesOK(m, p),
         NEW r, r = trim(s, m)
  PROVE  /\ r.s \in Streams /\ r.m \in Segments /\ r.m.from = m.from /\ r.m.flag \subseteq m.flag
         /\ r.s = s \/ r.s = [s EXCEPT !.ackNow = SegmentLength(m) > 0]
         /\ TrimmedOK(r.m, p) /\ InPlace(s, m, r)
<1> DEFINE syn  == IF "SYN" \in m.flag /\ m.seq < s.recvNext THEN 1 ELSE 0
           len  == SegmentLength(m) - syn
           old  == Max({s.recvNext - m.seq - syn, 0})
           drop == Min({len, old})
           cut  == (IF syn = 1 THEN {"SYN"} ELSE {})
                       \union (IF m.seq < s.recvNext /\ len <= s.recvNext - m.seq - syn
                               THEN {"FIN"} ELSE {})
           t    == [m EXCEPT !.flag = @ \ cut, !.seq = @ + syn + drop,
                             !.data = SubSeq(@, drop + 1, Len(@))]
           ok   == drop < len \/ s.recvNext <= t.seq
<1>1. r = [m |-> t, ok |-> ok,
           s |-> IF ok THEN s ELSE [s EXCEPT !.ackNow = SegmentLength(m) > 0]]
  BY DEF trim
<1>2. /\ s.recvNext \in Nat /\ m.seq \in Nat /\ m.data \in Seq(Nat) /\ Len(m.data) \in Nat
      /\ SegmentLength(m) \in Nat /\ p.sendMax \in Nat /\ p.wrote \in Nat /\ m.flag \subseteq Flags
  BY LenProperties, Lengths DEF Streams, Segments
<1>3. syn = IF "SYN" \in m.flag THEN 1 ELSE 0
  BY <1>2 DEF CarriesOK
<1>4. /\ len \in Nat
      /\ len = IF "FIN" \in m.flag THEN Len(m.data) + 1 ELSE Len(m.data)
  <2>1. "FIN" \in m.flag => len = Len(m.data) + 1
    BY <1>2, <1>3, Lengths DEF CarriesOK
  <2>2. "FIN" \notin m.flag => len = Len(m.data)
    BY <1>2, <1>3, Lengths
  <2> QED
    BY <1>2, <2>1, <2>2
<1>5. /\ old \in Nat /\ old = IF s.recvNext - m.seq - syn >= 0 THEN s.recvNext - m.seq - syn ELSE 0
  <2> DEFINE n == s.recvNext - m.seq - syn
  <2>1. n \in Int
    BY <1>2
  <2> HIDE DEF n
  <2>2. Max({n, 0}) = IF n >= 0 THEN n ELSE 0
    BY <2>1, MaxOfTwo
  <2>3. old = IF n >= 0 THEN n ELSE 0
    BY <2>2 DEF n
  <2>4. old \in Nat
    BY <2>1, <2>3
  <2> QED
    BY <2>3, <2>4 DEF n
<1>6. drop \in Nat /\ drop <= len /\ drop <= old /\ (drop = len \/ drop = old)
  <2> HIDE DEF len, old
  <2>1. Min({len, old}) = IF len <= old THEN len ELSE old
    BY <1>4, <1>5, MinOfTwo
  <2> QED
    BY <1>4, <1>5, <2>1
<1> DEFINE data == SubSeq(m.data, drop + 1, Len(m.data))
<1>7. /\ data \in Seq(Nat)
      /\ Len(data) \in Nat /\ Len(data) = IF drop <= Len(m.data) THEN Len(m.data) - drop ELSE 0
      /\ \A i \in 1 .. Len(data) : data[i] = m.data[drop + i]
  <2> DEFINE n == Len(m.data)
             d == SubSeq(m.data, drop + 1, n)
  <2>1. n \in Nat /\ n <= Len(m.data) /\ m.data \in Seq(Nat)
    BY <1>2
  <2> HIDE DEF n, drop
  <2>2. /\ d \in Seq(Nat) /\ Len(d) = IF drop <= n THEN n - drop ELSE 0
        /\ \A i \in 1 .. Len(d) : d[i] = m.data[drop + i]
    BY <1>6, <2>1, Piece
  <2>3. data = d
    BY DEF n
  <2> HIDE DEF d, data
  <2>4. Len(d) \in Nat
    BY <2>2, LenProperties
  <2> QED
    BY <2>2, <2>3, <2>4 DEF n
<1>8. syn \in {0, 1}
  OBVIOUS
<1>9. t = [m EXCEPT !.flag = m.flag \ cut, !.seq = m.seq + syn + drop, !.data = data]
  OBVIOUS
<1>10. /\ "SYN" \in cut <=> "SYN" \in m.flag
       /\ "FIN" \in cut <=> m.seq < s.recvNext /\ len <= s.recvNext - m.seq - syn
  BY <1>3
<1>17. syn = 1 => m.seq < s.recvNext
  OBVIOUS
<1> HIDE DEF syn, len, old, drop, cut, data
<1>11. m.seq + syn + drop \in Nat
  BY <1>2, <1>6, <1>8
<1>12. /\ t \in Segments /\ t.from = m.from /\ t.flag = m.flag \ cut
       /\ t.seq = m.seq + syn + drop /\ t.data = data
  BY <1>7, <1>9, <1>11 DEF Segments
<1> HIDE DEF t
<1>13. "SYN" \notin t.flag
  BY <1>10, <1>12
<1>16. /\ r.m = t /\ r.s \in Streams
       /\ r.s = s \/ r.s = [s EXCEPT !.ackNow = SegmentLength(m) > 0]
  <2> DEFINE b == SegmentLength(m) > 0
  <2>2. b \in BOOLEAN
    OBVIOUS
  <2> HIDE DEF b
  <2>3. [s EXCEPT !.ackNow = b] \in Streams
    BY <2>2 DEF Streams
  <2>1. [s EXCEPT !.ackNow = SegmentLength(m) > 0] \in Streams
    BY <2>3 DEF b
  <2> HIDE DEF ok
  <2> QED
    BY <1>1, <2>1
<1> HIDE DEF ok
<1>20. r.ok = ok
  BY <1>1
<1>18. Len(m.data) = 0 => r.m.data = << >>
  <2> SUFFICES ASSUME Len(m.data) = 0 PROVE data = << >>
    BY <1>12, <1>16
  <2>1. Len(m.data) = 0
    OBVIOUS
  <2> DEFINE n == Len(m.data)
             k == Len(data)
  <2>2. n = 0
    BY <2>1
  <2>3. k \in Nat
    BY <1>7
  <2>4. k = IF drop <= n THEN n - drop ELSE 0
    BY <1>7
  <2> HIDE DEF n, k
  <2>5. k = 0
    BY <1>6, <2>2, <2>3, <2>4
  <2> QED
    BY <1>7, <2>5, EmptySeq DEF k
<1>19. m.seq <= s.recvNext /\ r.ok => r.m.seq = s.recvNext
  <2>0. r.ok => ok
    BY <1>20
  <2>6. r.m = t
    BY <1>16
  <2> SUFFICES ASSUME m.seq <= s.recvNext, ok PROVE t.seq = s.recvNext
    BY <2>0, <2>6
  <2>1. old = s.recvNext - m.seq - syn
    BY <1>2, <1>5, <1>8, <1>17
  <2>2. t.seq <= s.recvNext
    BY <1>2, <1>6, <1>8, <1>12, <2>1
  <2>3. drop < len => t.seq = s.recvNext
    BY <1>2, <1>4, <1>6, <1>8, <1>12, <2>1
  <2>4. t.seq \in Nat
    BY <1>11, <1>12
  <2>5. drop < len \/ s.recvNext <= t.seq
    BY DEF ok
  <2> QED
    BY <1>2, <2>2, <2>3, <2>4, <2>5
<1>21. InPlace(s, m, r)
  BY <1>18, <1>19 DEF InPlace
<1>14. CASE drop <= Len(m.data)
  <2>1. t.seq + Len(data) = m.seq + syn + Len(m.data) /\ Len(data) = Len(m.data) - drop
    BY <1>2, <1>6, <1>7, <1>8, <1>12, <1>14
  <2>2. m.seq + syn + len <= p.sendMax /\ len >= Len(m.data)
        /\ ("FIN" \in m.flag => len = Len(m.data) + 1)
    BY SMTT(30), <1>2, <1>4, <1>8 DEF CarriesOK, len
  <2>3. data # << >> => m.data # << >> /\ syn = 0
    <3>1. data # << >> => Len(m.data) > 0
      BY <1>2, <1>6, <1>7, <2>1, EmptySeq
    <3>2. Len(m.data) > 0 => m.data # << >>
      BY EmptySeq
    <3> QED
      BY <1>3, <3>1, <3>2 DEF CarriesOK
  <2>4. data # << >> => 1 <= t.seq /\ t.seq + Len(data) <= p.wrote + 1
    BY <1>2, <1>6, <1>11, <1>12, <2>1, <2>3 DEF CarriesOK
  <2>5. \A i \in 1 .. Len(data) : data[i] = t.seq - 1 + i
    <3> SUFFICES ASSUME NEW i \in 1 .. Len(data) PROVE data[i] = t.seq - 1 + i
      OBVIOUS
    <3>1. data[i] = m.data[drop + i] /\ drop + i \in 1 .. Len(m.data)
      <4>1. Len(data) = Len(m.data) - drop /\ data[i] = m.data[drop + i]
        BY <1>7, <2>1
      <4> QED
        BY SMTT(30), <1>2, <1>6, <1>14, <4>1
    <3>2. m.data[drop + i] = m.seq - 1 + (drop + i)
      BY <3>1 DEF CarriesOK
    <3>3. Len(data) > 0
      BY <1>7
    <3>4. data # << >>
      BY <3>3, EmptySeq
    <3> QED
      BY <1>2, <1>6, <1>12, <2>3, <3>1, <3>2, <3>4
  <2>6. "FIN" \in t.flag => FinOK(t, p) /\ t.seq + Len(data) + 1 <= p.sendMax
    <3> SUFFICES ASSUME "FIN" \in t.flag
                 PROVE  FinOK(t, p) /\ t.seq + Len(data) + 1 <= p.sendMax
      OBVIOUS
    <3>1. "FIN" \in m.flag /\ "FIN" \notin cut /\ syn = 0
      BY <1>3, <1>12 DEF CarriesOK
    <3>2. t.seq + Len(data) = m.seq + Len(m.data) /\ m.seq + Len(m.data) + 1 <= p.sendMax
      BY <1>2, <2>1, <2>2, <3>1
    <3>3. CASE m.seq + Len(m.data) = p.wrote + 1
      BY <1>12, <3>1, <3>2, <3>3 DEF CarriesOK, FinOK
    <3>4. CASE m.data = << >> /\ m.seq = p.wrote + 2
      <4>1. Len(m.data) = 0
        BY <3>4, EmptySeq
      <4>2. drop = 0 /\ Len(data) = 0
        BY <1>2, <1>6, <1>7, <1>14, <2>1, <4>1
      <4>3. data = << >>
        BY <1>7, <4>2, EmptySeq
      <4> QED
        BY <1>2, <1>12, <3>1, <3>2, <3>4, <4>2, <4>3 DEF CarriesOK, FinOK
    <3> QED
      BY <3>1, <3>3, <3>4 DEF CarriesOK, FinOK
  <2>7. t.seq + Len(data) <= p.sendMax
    <3>1. len \in Nat /\ syn \in Nat
      BY <1>4, <1>8
    <3> QED
      BY <1>2, <2>1, <2>2, <3>1
  <2>8. TrimmedOK(t, p)
    BY <1>12, <1>13, <2>4, <2>5, <2>6, <2>7 DEF TrimmedOK
  <2> QED
    BY <1>12, <1>16, <1>21, <2>8
<1>15. CASE ~(drop <= Len(m.data))
  <2>1. "FIN" \in m.flag /\ len = Len(m.data) + 1 /\ drop = len
    BY <1>2, <1>4, <1>6, <1>15
  <2>2. "FIN" \notin t.flag
    <3>1. len <= old /\ len > 0
      BY <1>2, <1>4, <1>6, <2>1
    <3>2. old = s.recvNext - m.seq - syn
      BY <1>2, <1>4, <1>5, <1>8, <3>1
    <3>3. m.seq < s.recvNext
      BY <1>2, <1>4, <1>8, <3>1, <3>2
    <3> QED
      BY <1>10, <1>12, <3>1, <3>2, <3>3
  <2>3. Len(data) = 0
    BY <1>7, <1>15
  <2>4. data = << >>
    BY <1>7, <2>3, EmptySeq
  <2>5. t.seq + Len(data) <= p.sendMax
    BY SMTT(30), <1>2, <1>4, <1>8, <1>12, <2>1, <2>3 DEF CarriesOK, len
  <2>6. TrimmedOK(t, p)
    BY <1>12, <1>13, <2>2, <2>3, <2>4, <2>5 DEF TrimmedOK
  <2> QED
    BY <1>12, <1>16, <1>21, <2>6
<1> QED
  BY <1>14, <1>15

-----------------------------------------------------------------------------
(* The ring of received bytes. *)

(* The steps of text() and of the ring leave the sending side alone. *)
Receives(s, t) ==
    /\ t.state = s.state /\ t.sendUna = s.sendUna /\ t.sendNext = s.sendNext
    /\ t.sendMax = s.sendMax /\ t.sendRing = s.sendRing /\ t.shutwr = s.shutwr
    /\ t.got = s.got /\ t.wrote = s.wrote /\ t.held = s.held

LEMMA Regroup ==
  ASSUME NEW q \in Seq(Nat), NEW r \in Seq(Nat), NEW d \in Seq(Nat)
  PROVE  q \o (r \o d) = (q \o r) \o d
  BY SMTT(30), ConcatAssociative

(* The places of a block of bytes in the ring. *)
LEMMA Places ==
  ASSUME NEW at \in Int, NEW len \in Nat
  PROVE  /\ {at + i : i \in 1 .. len} = at + 1 .. at + len
         /\ IsFiniteSet(at + 1 .. at + len) /\ Cardinality(at + 1 .. at + len) = len
         /\ at + 1 .. at + len \in SUBSET Int
<1> DEFINE a == at + 1
           b == at + len
<1>1. a \in Int /\ b \in Int /\ b - a + 1 = len /\ (a > b <=> len = 0)
  OBVIOUS
<1>2. {at + i : i \in 1 .. len} = a .. b
  <2>1. \A x \in a .. b : x - at \in 1 .. len /\ at + (x - at) = x
    OBVIOUS
  <2>2. a .. b \subseteq {at + i : i \in 1 .. len}
    <3> SUFFICES ASSUME NEW x \in a .. b PROVE \E i \in 1 .. len : x = at + i
      OBVIOUS
    <3> WITNESS x - at \in 1 .. len
    <3> QED
      BY <2>1
  <2>3. \A i \in 1 .. len : at + i \in a .. b
    OBVIOUS
  <2> QED
    BY <2>2, <2>3
<1>3. a .. b \in SUBSET Int
  BY <1>1
<1> HIDE DEF a, b
<1>4. IsFiniteSet(a .. b) /\ Cardinality(a .. b) = IF a > b THEN 0 ELSE b - a + 1
  BY <1>1, FS_Interval
<1>5. Cardinality(a .. b) = len
  BY <1>1, <1>4
<1> QED
  BY <1>2, <1>3, <1>4, <1>5 DEF a, b

(* The end of recvRing, and the bytes up to there. *)
RingEnd(s) == Len(s.got) + Len(s.recvRing)

LEMMA RingEnds ==
  ASSUME NEW s \in Streams
  PROVE  /\ s.got \in Seq(Nat) /\ s.recvRing \in Seq(Nat) /\ Received(s) \in Seq(Nat)
         /\ RingEnd(s) \in Nat /\ Len(Received(s)) = RingEnd(s)
<1>1. PICK g \in Seq(Nat), r \in Seq(Nat) : g = s.got /\ r = s.recvRing
  BY DEF Streams
<1>2. g \o r \in Seq(Nat) /\ Len(g \o r) = Len(g) + Len(r)
  BY ConcatProperties
<1>3. Len(g) + Len(r) \in Nat
  BY LenProperties
<1>4. RingEnd(s) = Len(g) + Len(r) /\ Received(s) = g \o r
  BY <1>1 DEF RingEnd, Received
<1> QED
  BY <1>1, <1>2, <1>3, <1>4

RingWriteOK(s, data, at, w) ==
    /\ w \in Streams /\ Receives(s, w)
    /\ w.recvNext = s.recvNext /\ w.ackNow = s.ackNow
    /\ data = << >> => w = s
    /\ data # << >> /\ at # RingEnd(s) => DOMAIN w.asb # {}
    /\ data # << >> /\ at = RingEnd(s) /\ DOMAIN s.asb = {} =>
          w.recvRing = s.recvRing \o data /\ DOMAIN w.asb = {}

LEMMA RingWrites ==
  ASSUME NEW s \in Streams, NEW data \in Seq(Nat), NEW at \in Int,
         NEW w, w = ringWrite(s, data, at),
         NEW tail, tail = RingEnd(s)
  PROVE  RingWriteOK(s, data, at, w)
<1> DEFINE D == DOMAIN s.asb \union {at + i : i \in 1 .. Len(data)}
           above == [p \in D |->
                       IF p > at /\ p <= at + Len(data) THEN data[p - at] ELSE s.asb[p]]
           run == {n \in 0 .. Cardinality(DOMAIN above) :
                      \A i \in 1 .. n : tail + i \in DOMAIN above}
           more == [i \in 1 .. Max(run) |-> above[tail + i]]
           rest == Restrict(above, {p \in DOMAIN above : p > tail + Max(run)})
<1>1. w = CASE data = << >> -> s
            [] data # << >> /\ at = tail ->
                 [s EXCEPT !.recvRing = @ \o more, !.asb = rest]
            [] OTHER -> [s EXCEPT !.asb = above]
  BY DEF ringWrite, RingEnd
<1>2. /\ Len(data) \in Nat /\ s.recvRing \in Seq(Nat) /\ s.got \in Seq(Nat)
      /\ tail \in Nat /\ s.asb \in Blocks
  BY RingEnds, LenProperties DEF Streams
<1>3. PICK B \in SUBSET Int : IsFiniteSet(B) /\ s.asb \in [B -> Nat]
  BY <1>2 DEF Blocks
<1>4. D \in SUBSET Int /\ IsFiniteSet(D)
  <2> DEFINE I == at + 1 .. at + Len(data)
  <2>1. {at + i : i \in 1 .. Len(data)} = I /\ IsFiniteSet(I) /\ I \in SUBSET Int
    BY <1>2, Places
  <2>2. D = B \union I
    BY <1>3, <2>1
  <2> HIDE DEF D, I
  <2> QED
    BY <1>3, <2>1, <2>2, FS_Union
<1>5. above \in [D -> Nat]
  <2> SUFFICES ASSUME NEW p \in D
               PROVE  (IF p > at /\ p <= at + Len(data) THEN data[p - at] ELSE s.asb[p]) \in Nat
    OBVIOUS
  <2>1. p \in Int
    BY <1>4
  <2>2. CASE p > at /\ p <= at + Len(data)
    <3>1. p - at \in 1 .. Len(data)
      BY <1>2, <2>1, <2>2
    <3> QED
      BY <2>2, <3>1, ElementOfSeq
  <2>3. CASE ~(p > at /\ p <= at + Len(data))
    <3>1. p \in DOMAIN s.asb
      BY <1>2, <2>3
    <3> QED
      BY <1>3, <2>3, <3>1
  <2> QED
    BY <2>2, <2>3
<1> HIDE DEF above
<1>6. /\ Max(run) \in run /\ run \in SUBSET Nat /\ \A k \in run : k <= Max(run)
      /\ Cardinality(D) \in Nat
  <2>1. DOMAIN above = D
    BY <1>5
  <2>2. Cardinality(D) \in Nat
    BY <1>4, FS_CardinalityType
  <2>3. run \in SUBSET Nat /\ 0 \in run /\ \A k \in run : k <= Cardinality(D)
    <3> HIDE DEF D
    <3> DEFINE card == Cardinality(D)
    <3>1. run = {k \in 0 .. card : \A i \in 1 .. k : tail + i \in D}
      BY <2>1
    <3>2. card \in Nat
      BY <2>2
    <3> HIDE DEF run, card
    <3>3. \A k \in run : k \in Nat /\ k <= card
      BY <3>1, <3>2
    <3>4. 0 \in 0 .. card /\ \A i \in 1 .. 0 : tail + i \in D
      BY <3>2
    <3>5. 0 \in run
      BY <3>1, <3>4
    <3> QED
      BY <3>3, <3>5 DEF card
  <2> HIDE DEF run
  <2> QED
    BY <2>2, <2>3, MaxOfNaturals
<1> DEFINE n == Max(run)
<1>7. n \in Nat /\ \A i \in 1 .. n : tail + i \in D
  BY <1>5, <1>6
<1>8. more \in Seq(Nat)
  <2>1. \A i \in 1 .. n : above[tail + i] \in Nat
    BY <1>5, <1>7
  <2> DEFINE f(i) == above[tail + i]
  <2>2. \A i \in 1 .. n : f(i) \in Nat
    BY <2>1
  <2> HIDE DEF n, f
  <2>3. [i \in 1 .. n |-> f(i)] \in Seq(Nat)
    BY <1>7, <2>2, IsASeq
  <2> QED
    BY <2>3 DEF n, f
<1>9. rest \in Blocks
  <2> DEFINE R == {p \in D : p > tail + n}
  <2>1. rest = [p \in R |-> above[p]]
    BY <1>5 DEF Restrict
  <2>2. R \in SUBSET Int /\ IsFiniteSet(R) /\ R \subseteq D
    BY <1>4, FS_Subset
  <2> HIDE DEF R, D, rest
  <2>3. [p \in R |-> above[p]] \in [R -> Nat]
    BY <1>5, <2>2
  <2> QED
    BY <2>1, <2>2, <2>3 DEF Blocks
<1>10. above \in Blocks
  BY <1>4, <1>5 DEF Blocks
<1>11. s.recvRing \o more \in Seq(Nat)
  BY <1>2, <1>8, ConcatProperties
<1>12. CASE data = << >>
  <2>1. w = s
    BY <1>1, <1>12
  <2> QED
    BY <1>12, <2>1 DEF Receives, RingWriteOK
<1>13. CASE data # << >> /\ at = tail
  <2> HIDE DEF more, rest
  <2>1. w = [s EXCEPT !.recvRing = s.recvRing \o more, !.asb = rest]
    BY <1>1, <1>13
  <2>2. /\ w \in Streams /\ Receives(s, w) /\ w.recvNext = s.recvNext /\ w.ackNow = s.ackNow
        /\ w.recvRing = s.recvRing \o more /\ w.asb = rest
    BY <1>9, <1>11, <2>1 DEF Streams, Receives
  <2>3. ASSUME DOMAIN s.asb = {} PROVE more = data /\ DOMAIN rest = {}
    <3>1. D = tail + 1 .. tail + Len(data) /\ Cardinality(D) = Len(data)
      <4> DEFINE l == Len(data)
      <4>1. l \in Nat
        BY <1>2
      <4>2. D = {at + i : i \in 1 .. l}
        BY <2>3
      <4> HIDE DEF l, D
      <4>3. D = at + 1 .. at + l /\ Cardinality(at + 1 .. at + l) = l
        BY <4>1, <4>2, Places
      <4> QED
        BY <1>13, <4>3 DEF l
    <3>2. Len(data) \in Nat \ {0}
      BY <1>13, EmptySeq
    <3>3. D = DOMAIN above
      BY <1>5
    <3> DEFINE len == Len(data)
    <3>4. \A i \in 1 .. len : tail + i \in D
      <4> HIDE DEF D
      <4> QED
        BY SMTT(30), <1>2, <3>1
    <3>5. len \in run
      <4> HIDE DEF D, len
      <4>1. len \in 0 .. Cardinality(DOMAIN above)
        <5>1. Cardinality(DOMAIN above) = len
          BY <3>1, <3>3 DEF len
        <5>2. len \in Nat
          BY <3>2 DEF len
        <5> QED
          BY <5>1, <5>2
      <4>2. \A i \in 1 .. len : tail + i \in DOMAIN above
        BY <3>3, <3>4
      <4> QED
        BY <4>1, <4>2
    <3>6. n <= len
      <4>1. run \in SUBSET (0 .. Cardinality(D))
        BY <3>3
      <4> HIDE DEF run, D
      <4>2. n \in 0 .. len
        BY <1>6, <3>1, <4>1
      <4> QED
        BY <3>2, <4>2
    <3>7. n = len
      <4> HIDE DEF run, D
      <4>1. len <= n /\ n \in Nat
        BY <1>6, <3>5
      <4> HIDE DEF n
      <4> QED
        BY <3>2, <3>6, <4>1
    <3>9. \A i \in 1 .. len : above[tail + i] = data[i]
      <4> SUFFICES ASSUME NEW i \in 1 .. len PROVE above[tail + i] = data[i]
        OBVIOUS
      <4>1. tail + i \in D
        BY <3>4
      <4>2. tail + i > at /\ tail + i <= at + len /\ tail + i - at = i
        <5> HIDE DEF len
        <5>1. len \in Nat /\ i \in 1 .. len
          BY <3>2 DEF len
        <5>2. at \in Int /\ tail = at /\ i \in Nat
          BY <1>13, <5>1
        <5>3. at + i > at /\ at + i <= at + len /\ at + i - at = i
          BY <5>1, <5>2
        <5> QED
          BY <5>2, <5>3
      <4> HIDE DEF D
      <4>3. ASSUME NEW q \in D, q > at, q <= at + Len(data), q - at = i
            PROVE  above[q] = data[i]
        BY <4>3 DEF above
      <4>4. PICK q \in D : q = tail + i
        BY <4>1
      <4>5. q > at /\ q <= at + Len(data) /\ q - at = i
        <5>1. tail \in Int /\ at \in Int /\ i \in Int /\ q \in Int
          BY <1>2, <1>4, <3>2
        <5> QED
          BY <4>2, <4>4, <5>1
      <4>6. above[q] = data[i]
        BY <4>3, <4>5
      <4> QED
        BY <4>4, <4>6
    <3>8. more = [i \in 1 .. Len(data) |-> data[i]]
      BY <3>7, <3>9 DEF more
    <3>10. more = data
      BY <3>8, LenProperties
    <3>11. DOMAIN rest = {q \in D : q > tail + n}
      BY <3>3 DEF rest, Restrict
    <3>12. \A q \in D : ~(q > tail + n)
      <4> HIDE DEF D, n
      <4>1. n = Len(data) /\ n \in Nat
        BY <1>7, <3>7
      <4>2. D = tail + 1 .. tail + n
        BY <3>1, <4>1
      <4> QED
        BY <1>2, <4>1, <4>2
    <3> QED
      BY <3>10, <3>11, <3>12
  <2> QED
    BY <1>13, <2>2, <2>3 DEF RingWriteOK
<1>14. CASE data # << >> /\ at # tail
  <2>1. w = [s EXCEPT !.asb = above]
    BY <1>1, <1>14
  <2>2. /\ w \in Streams /\ Receives(s, w) /\ w.recvNext = s.recvNext /\ w.ackNow = s.ackNow
        /\ w.asb = above
    BY <1>10, <2>1 DEF Streams, Receives
  <2>3. at + 1 \in D
    <3>1. Len(data) \in Nat \ {0}
      BY <1>14, EmptySeq
    <3> QED
      BY <3>1
  <2>4. DOMAIN w.asb # {}
    BY <1>5, <2>2, <2>3
  <2> QED
    BY <1>14, <2>2, <2>4 DEF RingWriteOK
<1> QED
  BY <1>12, <1>13, <1>14

-----------------------------------------------------------------------------
(* Data and the FIN. *)

(* Resets sent by e. *)
Resets(e) == {m \in Segments : m.from = e /\ "RST" \in m.flag}

LEMMA ResetsSent ==
  ASSUME NEW e \in End, NEW m \in Segments
  PROVE  sendReset(e, m) \subseteq Resets(e)
<1>1. /\ m.ack \in Nat /\ m.seq \in Nat /\ SegmentLength(m) \in Nat /\ << >> \in Seq(Nat)
  BY Lengths DEF Segments
<1>2. m.seq + SegmentLength(m) \in Nat
  BY <1>1
<1>3. \A flag \in SUBSET Flags, a \in Nat, b \in Nat :
         "RST" \in flag => Segment(e, flag, a, b, << >>) \in Resets(e)
  BY <1>1 DEF Segment, Resets, Segments
<1>4. {"RST"} \in SUBSET Flags /\ {"RST", "ACK"} \in SUBSET Flags
  BY DEF Flags
<1> QED
  BY <1>1, <1>2, <1>3, <1>4 DEF sendReset

(* The states in which an end takes data in. *)
Taking == {"SynReceived", "Established", "FinWait1", "FinWait2"}

(* A segment whose data does not leave a gap, before and after trim(). *)
InTurn(s, m) == "gap" \in Allow \/ m.data = << >> \/ m.seq <= s.recvNext
AtHand(s, m) == "gap" \in Allow \/ m.data = << >> \/ m.seq = s.recvNext

(* s can become t: what holds of both, and of the bytes that were received. *)
BecomesOK(e, s, t, p) ==
    /\ t \in Streams /\ EndOK(e, t, p) /\ Grows(s, t)
    /\ "gap" \notin Allow /\ DOMAIN s.asb = {} => DOMAIN t.asb = {}
    /\ ReceivedOK(s, p) /\ DOMAIN s.asb = {} /\ DOMAIN t.asb = {} => ReceivedOK(t, p)

LEMMA Becoming ==
  ASSUME NEW e, NEW p, NEW s \in Streams, NEW t \in Streams, NEW u \in Streams,
         Grows(s, t), Grows(t, u)
  PROVE  Grows(s, u)
<1>1. /\ s.sendMax \in Nat /\ t.sendMax \in Nat /\ u.sendMax \in Nat
      /\ s.recvNext \in Nat /\ t.recvNext \in Nat /\ u.recvNext \in Nat
      /\ s.wrote \in Nat /\ t.wrote \in Nat /\ u.wrote \in Nat
  BY DEF Streams
<1> QED
  BY <1>1 DEF Grows

LEMMA Aborted ==
  ASSUME NEW e \in End, NEW s \in Streams, NEW p \in Streams, EndOK(e, s, p),
         s.state # "Closed", NEW b \in BOOLEAN
  PROVE  /\ BecomesOK(e, s, abort(s), p)
         /\ BecomesOK(e, s, abort([s EXCEPT !.err = b]), p)
<1>1. BecomesOK(e, s, abort(s), p)
  BY Aborts, ClosedEnd, ReceivedAlike DEF BecomesOK, Alike
<1> DEFINE u == [s EXCEPT !.err = b]
<1>2. u \in Streams /\ Alike(s, u)
  BY DEF Streams, Alike
<1> HIDE DEF u
<1>3. abort(u) \in Streams /\ abort(u).state = "Closed" /\ Alike(u, abort(u))
  BY <1>2, Aborts
<1>4. Alike(s, abort(u))
  BY <1>2, <1>3 DEF Alike
<1>5. BecomesOK(e, s, abort(u), p)
  BY <1>3, <1>4, ClosedEnd, ReceivedAlike DEF BecomesOK, Alike
<1> QED
  BY <1>1, <1>5 DEF u

(* text(): the data of a trimmed segment, up to its FIN. *)
LEMMA Texts ==
  ASSUME NEW e \in End, NEW s \in Streams, NEW p \in Streams, NEW m \in Segments,
         EndOK(e, s, p), TrimmedOK(m, p), AtHand(s, m), s.state \in Taking,
         NEW x, x = text(e, s, m)
  PROVE  /\ BecomesOK(e, s, x.s, p) /\ x.seg \subseteq Resets(e)
         /\ x.ok \in BOOLEAN /\ x.fin \in BOOLEAN
         /\ x.ok => x.s.state = s.state /\ x.s.shutwr = s.shutwr
         /\ x.fin => /\ "FIN" \in m.flag /\ m.seq = s.recvNext
                     /\ x.s.recvNext = m.seq + Len(m.data)
<1> DEFINE adv  == Len(m.data)
           tail == RingEnd(s)
           at   == tail + m.seq - s.recvNext
           w    == ringWrite(s, m.data, at)
<1>1. /\ s.recvNext \in Nat /\ m.seq \in Nat /\ m.data \in Seq(Nat) /\ adv \in Nat
      /\ s.got \in Seq(Nat) /\ s.recvRing \in Seq(Nat) /\ tail \in Nat /\ at \in Int
      /\ p.wrote \in Nat /\ p.sendMax \in Nat /\ s.sendMax \in Nat /\ s.wrote \in Nat
      /\ s.ackNow \in BOOLEAN
  <2>1. /\ s.recvNext \in Nat /\ m.seq \in Nat /\ m.data \in Seq(Nat)
        /\ p.wrote \in Nat /\ p.sendMax \in Nat /\ s.sendMax \in Nat /\ s.wrote \in Nat
        /\ s.ackNow \in BOOLEAN
    BY DEF Streams, Segments
  <2>2. adv \in Nat
    BY <2>1, LenProperties
  <2>3. tail \in Nat /\ s.got \in Seq(Nat) /\ s.recvRing \in Seq(Nat)
    BY RingEnds
  <2> HIDE DEF tail
  <2>4. at \in Int
    BY <2>1, <2>3
  <2> QED
    BY <2>1, <2>2, <2>3, <2>4
<1>2. /\ s.recvNext <= p.wrote + 1
      /\ s.state \notin Ended \cup {"None", "SynSent", "Closed"}
  BY DEF EndOK, EndOfStreamOK, Taking, Ended
<1>3. x = IF s.shutrd /\ adv > 0
          THEN [s |-> abort([s EXCEPT !.err = TRUE]), seg |-> sendReset(e, m),
                fin |-> FALSE, ok |-> FALSE]
          ELSE [s |-> IF m.seq = s.recvNext
                      THEN [w EXCEPT !.recvNext = @ + advance(m),
                                     !.ackNow = @ \/ (adv > 0 /\ "PSH" \in m.flag)]
                      ELSE [w EXCEPT !.ackNow = @ \/ adv > 0],
                seg |-> {}, fin |-> finInOrder(s, m), ok |-> TRUE]
  BY DEF text, RingEnd
<1>4. /\ w \in Streams /\ Receives(s, w)
      /\ w.recvNext = s.recvNext /\ w.ackNow = s.ackNow
      /\ m.data = << >> => w = s
      /\ m.data # << >> /\ at # tail => DOMAIN w.asb # {}
      /\ m.data # << >> /\ at = tail /\ DOMAIN s.asb = {} =>
            w.recvRing = s.recvRing \o m.data /\ DOMAIN w.asb = {}
  <2> HIDE DEF at, tail
  <2>1. at \in Int /\ m.data \in Seq(Nat)
    BY <1>1
  <2>2. w = ringWrite(s, m.data, at) /\ tail = RingEnd(s)
    BY DEF tail
  <2> HIDE DEF w
  <2>3. RingWriteOK(s, m.data, at, w)
    BY <2>1, <2>2, RingWrites
  <2> QED
    BY <2>2, <2>3 DEF RingWriteOK
<1>5. at = tail <=> m.seq = s.recvNext
  <2> HIDE DEF tail
  <2> QED
    BY <1>1
<1> HIDE DEF w, at, adv
<1>6. CASE s.shutrd /\ adv > 0
  <2>1. x = [s |-> abort([s EXCEPT !.err = TRUE]), seg |-> sendReset(e, m),
             fin |-> FALSE, ok |-> FALSE]
    BY <1>3, <1>6
  <2>2. BecomesOK(e, s, abort([s EXCEPT !.err = TRUE]), p)
    BY <1>2, Aborted
  <2> QED
    BY <2>1, <2>2, ResetsSent
(* Whatever else text() does to what has been received. *)
<1>7. ASSUME NEW t \in Streams, Receives(s, t), s.recvNext <= t.recvNext,
             t.recvNext <= p.wrote + 1,
             t.recvNext = s.recvNext \/ t.recvNext <= p.sendMax
      PROVE  EndOK(e, t, p) /\ Grows(s, t)
  <2>0. t.recvNext \in Nat
    BY <1>7 DEF Streams
  <2>1. NumbersOK(t, p)
    BY <1>1, <1>7, <2>0 DEF EndOK, NumbersOK, Receives
  <2>2. EndOfStreamOK(t, p)
    BY <1>2, <1>7 DEF EndOfStreamOK, Receives
  <2>3. SendRingOK(t)
    BY <1>7 DEF EndOK, SendRingOK, Receives
  <2>4. e[2] = "client" => s.held
    BY <1>2 DEF EndOK, StateOK, NewStream
  <2>5. StateOK(e, t)
    BY <1>2, <1>7, <2>4 DEF EndOK, StateOK, Receives
  <2>6. Grows(s, t)
    BY <1>1, <1>7 DEF Grows, Receives
  <2> QED
    BY <2>1, <2>2, <2>3, <2>5, <2>6 DEF EndOK
<1>8. finInOrder(s, m) \in BOOLEAN
      /\ (finInOrder(s, m) => "FIN" \in m.flag /\ m.seq = s.recvNext)
  BY DEF finInOrder
<1>9. CASE ~(s.shutrd /\ adv > 0) /\ m.seq = s.recvNext
  <2> DEFINE b == w.ackNow \/ (adv > 0 /\ "PSH" \in m.flag)
             t == [w EXCEPT !.recvNext = s.recvNext + adv, !.ackNow = b]
  <2>1. x = [s |-> t, seg |-> {}, fin |-> finInOrder(s, m), ok |-> TRUE]
    <3>1. x = [s |-> [w EXCEPT !.recvNext = @ + advance(m),
                               !.ackNow = @ \/ (adv > 0 /\ "PSH" \in m.flag)],
               seg |-> {}, fin |-> finInOrder(s, m), ok |-> TRUE]
      BY <1>3, <1>9
    <3>2. [w EXCEPT !.recvNext = @ + advance(m),
                    !.ackNow = @ \/ (adv > 0 /\ "PSH" \in m.flag)] = t
      BY <1>4 DEF advance, adv, Streams
    <3> QED
      BY <3>1, <3>2
  <2>2. b \in BOOLEAN
    OBVIOUS
  <2>3. s.recvNext + adv \in Nat
    BY <1>1
  <2> HIDE DEF b
  <2>4. /\ t \in Streams /\ Receives(s, t) /\ t.recvNext = s.recvNext + adv
        /\ t.recvRing = w.recvRing /\ t.asb = w.asb
    BY <1>4, <2>2, <2>3 DEF Streams, Receives
  <2> HIDE DEF t
  <2>5. adv # 0 => m.data # << >>
    BY EmptySeq DEF adv
  <2>6. adv # 0 => s.recvNext + adv <= p.wrote + 1 /\ s.recvNext + adv <= p.sendMax
    BY <1>9, <2>5 DEF TrimmedOK, adv
  <2>7. EndOK(e, t, p) /\ Grows(s, t)
    BY <1>1, <1>2, <1>7, <2>4, <2>6
  <2>8. ASSUME ReceivedOK(s, p), DOMAIN s.asb = {} PROVE ReceivedOK(t, p)
    <3> DEFINE old == Received(s)
               new == Received(t)
               n   == Len(old)
    <3>1. /\ \A i \in 1 .. n : old[i] = i
          /\ s.recvNext = n + 1 /\ n \in Nat /\ old \in Seq(Nat)
      <4>1. /\ \A i \in 1 .. n : old[i] = i
            /\ \/ s.recvNext = n + 1
               \/ s.recvNext = p.wrote + 2
        BY <2>8 DEF ReceivedOK
      <4>2. n \in Nat /\ old \in Seq(Nat)
        BY RingEnds
      <4> HIDE DEF old, n
      <4> QED
        BY <1>1, <1>2, <4>1, <4>2
    <3>2. CASE m.data = << >>
      <4>1. t.recvRing = s.recvRing /\ t.got = s.got /\ adv = 0
        BY <1>4, <2>4, <3>2, EmptySeq DEF adv, Receives
      <4>2. t.recvNext = s.recvNext /\ new = old
        BY <1>1, <2>4, <4>1 DEF Received
      <4> QED
        BY <1>2, <3>1, <4>2 DEF ReceivedOK
    <3>3. CASE m.data # << >>
      <4>1. t.recvRing = s.recvRing \o m.data /\ t.got = s.got
        BY <1>4, <1>5, <1>9, <2>4, <2>8, <3>3 DEF Receives
      <4>2. new = old \o m.data
        <5>1. PICK g \in Seq(Nat), r \in Seq(Nat), d \in Seq(Nat) :
                 g = s.got /\ r = s.recvRing /\ d = m.data
          BY <1>1
        <5>2. g \o (r \o d) = (g \o r) \o d
          BY Regroup, Zenon
        <5> QED
          BY <4>1, <5>1, <5>2 DEF Received
      <4> HIDE DEF old, new
      <4>3. /\ Len(new) = n + adv
            /\ \A i \in 1 .. n + adv :
                  new[i] = IF i <= n THEN old[i] ELSE m.data[i - n]
        BY <1>1, <3>1, <4>2, ConcatProperties DEF adv
      <4> HIDE DEF n
      <4>4. \A i \in 1 .. n + adv : new[i] = i
        <5> SUFFICES ASSUME NEW i \in 1 .. n + adv PROVE new[i] = i
          OBVIOUS
        <5>1. CASE i <= n
          <6>1. i \in 1 .. n /\ i \in 1 .. n + adv
            BY <1>1, <3>1, <5>1
          <6>2. new[i] = old[i] /\ old[i] = i
            BY <3>1, <4>3, <5>1, <6>1
          <6> QED
            BY <6>2
        <5>2. CASE i > n
          <6>1. i - n \in 1 .. adv /\ new[i] = m.data[i - n]
            <7>1. i \in Int /\ n \in Nat /\ adv \in Nat /\ i <= n + adv
              BY <1>1, <3>1
            <7>2. i - n \in 1 .. adv /\ ~(i <= n)
              BY <5>2, <7>1
            <7> QED
              BY <4>3, <7>2
          <6>2. m.data[i - n] = m.seq - 1 + (i - n)
            BY <6>1 DEF TrimmedOK, adv
          <6> QED
            <7>1. i \in Int /\ n \in Nat /\ s.recvNext = n + 1 /\ m.seq = s.recvNext
              BY <1>1, <1>9, <3>1
            <7>2. m.seq - 1 + (i - n) = i
              BY <7>1
            <7>3. new[i] = m.seq - 1 + (i - n)
              BY <6>1, <6>2
            <7> QED
              BY <7>2, <7>3, Zenon
        <5>3. i <= n \/ i > n
          BY <1>1, <3>1
        <5> QED
          BY <5>1, <5>2, <5>3
      <4>5. adv # 0
        BY <1>1, <3>3, EmptySeq DEF adv
      <4>6. t.recvNext = n + adv + 1 /\ t.recvNext <= p.wrote + 1
        BY <1>1, <2>4, <2>6, <3>1, <4>5
      <4> QED
        BY <4>3, <4>4, <4>6 DEF ReceivedOK, new
    <3> QED
      BY <3>2, <3>3
  <2>10. DOMAIN s.asb = {} => DOMAIN t.asb = {}
    BY <1>4, <1>5, <1>9, <2>4
  <2>9. BecomesOK(e, s, t, p)
    BY <2>4, <2>7, <2>8, <2>10 DEF BecomesOK
  <2> QED
    BY <1>8, <1>9, <2>1, <2>4, <2>9 DEF Receives, adv
<1>10. CASE ~(s.shutrd /\ adv > 0) /\ m.seq # s.recvNext
  <2> DEFINE b == w.ackNow \/ adv > 0
             t == [w EXCEPT !.ackNow = b]
  <2>1. x = [s |-> t, seg |-> {}, fin |-> finInOrder(s, m), ok |-> TRUE]
    BY <1>3, <1>10
  <2>2. b \in BOOLEAN
    OBVIOUS
  <2> HIDE DEF b
  <2>3. /\ t \in Streams /\ Receives(s, t) /\ t.recvNext = s.recvNext
        /\ t.recvRing = w.recvRing /\ t.asb = w.asb
    BY <1>4, <2>2 DEF Streams, Receives
  <2> HIDE DEF t
  <2>4. EndOK(e, t, p) /\ Grows(s, t)
    BY <1>1, <1>2, <1>7, <2>3
  <2>5. ASSUME ReceivedOK(s, p), DOMAIN t.asb = {} PROVE ReceivedOK(t, p)
    <3>1. m.data = << >>
      BY <1>4, <1>5, <1>10, <2>3, <2>5
    <3>2. Received(t) = Received(s)
      BY <1>4, <2>3, <3>1 DEF Receives, Received
    <3> QED
      BY <2>3, <2>5, <3>2 DEF ReceivedOK
  <2>7. "gap" \notin Allow => t.asb = s.asb
    BY <1>4, <1>10, <2>3 DEF AtHand
  <2>6. BecomesOK(e, s, t, p)
    BY <2>3, <2>4, <2>5, <2>7 DEF BecomesOK
  <2> QED
    BY <1>8, <1>10, <2>1, <2>3, <2>6 DEF Receives
<1> QED
  BY <1>6, <1>9, <1>10

-----------------------------------------------------------------------------
(* The handlers of the states. *)

(* One step after another; only one of them changes what is kept above a gap. *)
LEMMA BecomesTwice ==
  ASSUME NEW e, NEW p, NEW s \in Streams, NEW t, NEW u,
         BecomesOK(e, s, t, p), BecomesOK(e, t, u, p), t.asb = s.asb \/ u.asb = t.asb
  PROVE  BecomesOK(e, s, u, p)
<1>1. t \in Streams /\ u \in Streams /\ EndOK(e, u, p)
  BY DEF BecomesOK
<1>2. Grows(s, u)
  BY <1>1, Becoming DEF BecomesOK
<1> QED
  BY <1>1, <1>2 DEF BecomesOK

(* The timer, the error and the acknowledgement that is due change nothing. *)
LEMMA Same ==
  ASSUME NEW e \in End, NEW s \in Streams, NEW p \in Streams, NEW t \in Streams,
         EndOK(e, s, p), Alike(s, t), t.state = s.state,
         s.state \notin {"None", "SynSent", "Closed"}
  PROVE  BecomesOK(e, s, t, p)
<1>1. NumbersOK(t, p) /\ SendRingOK(t) /\ EndOfStreamOK(t, p)
  BY DEF EndOK, Alike, NumbersOK, SendRingOK, EndOfStreamOK
<1>2. e[2] = "client" => s.held
  BY DEF EndOK, StateOK, NewStream
<1>3. StateOK(e, t)
  BY <1>2 DEF EndOK, StateOK, Alike
<1>4. s.recvNext \in Nat /\ s.sendMax \in Nat /\ s.wrote \in Nat
  BY DEF Streams
<1>5. Grows(s, t)
  BY <1>4 DEF Grows, Alike
<1> QED
  BY <1>1, <1>3, <1>5, ReceivedAlike DEF BecomesOK, EndOK, Alike

(* A connection that goes from state to state with its numbers as they are. *)
LEMMA Moves ==
  ASSUME NEW e \in End, NEW s \in Streams, NEW p \in Streams, NEW t \in Streams,
         EndOK(e, s, p), Alike(s, t), s.state \in Synchronized, t.state \in Synchronized,
         t.state \in Ended <=> s.state \in Ended,
         t.state \in Ending => s.shutwr
  PROVE  BecomesOK(e, s, t, p)
<1>1. NumbersOK(t, p) /\ SendRingOK(t)
  BY DEF EndOK, Alike, NumbersOK, SendRingOK
<1>2. EndOfStreamOK(t, p)
  BY DEF EndOK, EndOfStreamOK, Alike, Synchronized
<1>3. e[2] = "client" => s.held
  BY DEF EndOK, StateOK, NewStream, Synchronized
<1>4. StateOK(e, t)
  BY <1>3 DEF EndOK, StateOK, Alike, Synchronized, Early
<1>5. s.recvNext \in Nat /\ s.sendMax \in Nat /\ s.wrote \in Nat
  BY DEF Streams
<1>6. Grows(s, t)
  BY <1>5 DEF Grows, Alike, Synchronized
<1> QED
  BY <1>1, <1>2, <1>4, <1>6, ReceivedAlike DEF BecomesOK, EndOK, Alike

(* What the peer has to be for an acknowledgement to be in order. *)
AckOK(s, p, ack) == ack \in Nat /\ 1 <= ack /\ ack <= s.sendMax /\ ack <= p.recvNext

(* ack() of a connection that is, or is now, established. *)
LEMMA Acked ==
  ASSUME NEW e \in End, NEW s \in Streams, NEW p \in Streams,
         EndOK(e, s, p), EndOK(Peer(e), p, s),
         NEW u \in Streams, Alike(s, u),
         \/ u.state = s.state /\ s.state \in Synchronized
         \/ u.state = "Established" /\ s.state = "SynReceived",
         NEW ack, AckOK(s, p, ack),
         NEW sent \in Int, sent = IF s.sendUna = 0 THEN ack - 1 ELSE ack - s.sendUna,
         NEW t, t = Ack(u, ack, sent).s
  PROVE  /\ BecomesOK(e, s, t, p)
         /\ t.state = u.state /\ t.shutwr = s.shutwr /\ t.asb = s.asb
         /\ t.recvNext = s.recvNext
<1>1. /\ NumbersOK(u, p) /\ EndOfStreamOK(p, u) /\ SendRingOK(u)
      /\ u.sendMax = s.sendMax /\ u.sendUna = s.sendUna
  BY DEF EndOK, Alike, NumbersOK, EndOfStreamOK, SendRingOK
<1>2. u.sendUna = 0 => ~u.shutwr
  <2>1. s.state \in Synchronized => s.sendUna > 0
    BY DEF EndOK, StateOK
  <2>2. s.state = "SynReceived" => ~s.shutwr
    BY DEF EndOK, StateOK, Early
  <2>3. s.sendUna \in Nat /\ u.shutwr = s.shutwr /\ u.sendUna = s.sendUna
    BY DEF Streams, Alike
  <2> QED
    BY <2>1, <2>2, <2>3
<1>3. /\ t \in Streams /\ AckKeeps(u, t)
      /\ NumbersOK(t, p) /\ SendRingOK(t) /\ t.sendUna > 0
  <2>1. ack \in Nat /\ 1 <= ack /\ ack <= u.sendMax /\ ack <= p.recvNext
    BY <1>1 DEF AckOK
  <2>2. sent = IF u.sendUna = 0 THEN ack - 1 ELSE ack - u.sendUna
    BY <1>1
  <2> QED
    BY <1>1, <1>2, <2>1, <2>2, Acks
<1>4. EndOfStreamOK(t, p)
  BY <1>3 DEF EndOK, EndOfStreamOK, AckKeeps, Alike, Ended, Synchronized
<1>5. e[2] = "client" => s.held
  BY DEF EndOK, StateOK, NewStream, Synchronized
<1>6. StateOK(e, t)
  BY <1>3, <1>5 DEF EndOK, StateOK, AckKeeps, Alike, Early, Ending, Synchronized
<1>7. s.recvNext \in Nat /\ s.sendMax \in Nat /\ s.wrote \in Nat
  BY DEF Streams
<1>8. Grows(s, t)
  BY <1>3, <1>7 DEF Grows, Alike, AckKeeps, Synchronized
<1>9. ReceivedOK(s, p) => ReceivedOK(t, p)
  BY ZenonT(30), <1>3 DEF ReceivedOK, Received, AckKeeps, Alike
<1> QED
  BY <1>3, <1>4, <1>6, <1>8, <1>9 DEF BecomesOK, EndOK, AckKeeps, Alike

(* The state after an acknowledgement. *)
LEMMA AfterAcks ==
  ASSUME NEW e \in End, NEW s \in Streams, NEW p \in Streams, EndOK(e, s, p),
         s.state \in Synchronized, NEW b \in BOOLEAN, NEW t, t = AfterAck(s, b)
  PROVE  /\ BecomesOK(e, s, t, p) /\ t.asb = s.asb /\ t.recvNext = s.recvNext
<1>1. s.state \in Ending => s.shutwr
  BY DEF EndOK, StateOK
<1>2. {"FinWait2", "TimeWait", "Closed"} \subseteq States
  BY DEF States
<1>3. CASE s.state = "FinWait1" /\ b
  <2>1. t = setState(s, "FinWait2")
    BY <1>3 DEF AfterAck
  <2>2. t \in Streams /\ t.state = "FinWait2" /\ Alike(s, t)
    BY SMTT(30), <1>2, <2>1, SetStates
  <2> QED
    BY <1>1, <1>3, <2>2, Moves DEF Alike, Synchronized, Ended, Ending
<1>4. CASE s.state = "LastAck" /\ b
  <2>1. t = abort([s EXCEPT !.err = FALSE])
    BY <1>4 DEF AfterAck
  <2>2. BecomesOK(e, s, t, p)
    BY <1>4, <2>1, Aborted
  <2>3. /\ [s EXCEPT !.err = FALSE] \in Streams /\ [s EXCEPT !.err = FALSE].asb = s.asb
        /\ [s EXCEPT !.err = FALSE].recvNext = s.recvNext
    BY DEF Streams
  <2>4. t.asb = s.asb /\ t.recvNext = s.recvNext
    BY <2>1, <2>3, Aborts DEF Alike
  <2> QED
    BY <2>2, <2>4
<1>5. CASE s.state = "Closing" /\ b
  <2> DEFINE u == [s EXCEPT !.err = FALSE]
  <2>1. t = setState(u, "TimeWait")
    BY <1>5 DEF AfterAck
  <2>2. u \in Streams /\ Alike(s, u)
    BY DEF Streams, Alike
  <2> HIDE DEF u
  <2>3. t \in Streams /\ t.state = "TimeWait" /\ Alike(u, t)
    <3>1. /\ setState(u, "TimeWait") \in Streams /\ setState(u, "TimeWait").state = "TimeWait"
          /\ Alike(u, setState(u, "TimeWait"))
      BY <1>2, <2>2, SetStates
    <3> QED
      BY <2>1, <3>1
  <2>4. Alike(s, t)
    BY <2>2, <2>3 DEF Alike
  <2> QED
    BY <1>1, <1>5, <2>3, <2>4, Moves DEF Alike, Synchronized, Ended, Ending
<1>6. CASE s.state = "TimeWait"
  <2>1. t = [s EXCEPT !.rxmitTimer = TRUE]
    BY <1>6 DEF AfterAck
  <2>2. t \in Streams /\ t.state = s.state /\ Alike(s, t)
    BY <2>1 DEF Streams, Alike
  <2> QED
    BY <1>6, <2>2, Same DEF Alike
<1>7. CASE /\ ~(s.state = "FinWait1" /\ b) /\ ~(s.state = "LastAck" /\ b)
           /\ ~(s.state = "Closing" /\ b) /\ s.state # "TimeWait"
  <2>1. t = s
    BY <1>7 DEF AfterAck
  <2>2. Alike(s, s)
    BY DEF Alike
  <2> QED
    BY <2>1, <2>2, Same DEF Synchronized
<1> QED
  BY <1>3, <1>4, <1>5, <1>6, <1>7

(* What a handler may leave. *)
InputOK(e, s, r, p) ==
    BecomesOK(e, s, r.s, p) /\ r.seg \subseteq Resets(e) /\ r.out \in BOOLEAN

(* text() and the FIN of a trimmed segment. *)
LEMMA TextsAndFins ==
  ASSUME NEW e \in End, NEW s \in Streams, NEW p \in Streams, NEW m \in Segments,
         EndOK(e, s, p), TrimmedOK(m, p), AtHand(s, m), s.state \in Taking,
         "FIN" \in m.flag => s.state # "SynReceived",
         NEW r, r = TextAndFin(e, s, m)
  PROVE  InputOK(e, s, r, p)
<1> DEFINE x == text(e, s, m)
           f == [x.s EXCEPT !.recvNext = @ + 1, !.ackNow = TRUE]
           new == CASE s.state = "FinWait1" -> "Closing"
                    [] s.state = "FinWait2" -> "TimeWait"
                    [] OTHER -> "CloseWait"
           u == setState(f, new)
<1>1. /\ BecomesOK(e, s, x.s, p) /\ x.seg \subseteq Resets(e)
      /\ x.ok \in BOOLEAN /\ x.fin \in BOOLEAN
      /\ x.ok => x.s.state = s.state /\ x.s.shutwr = s.shutwr
      /\ x.fin => /\ "FIN" \in m.flag /\ m.seq = s.recvNext
                  /\ x.s.recvNext = m.seq + Len(m.data)
  BY Texts
<1>2. r = CASE ~x.ok -> Result(x.s, x.seg, FALSE)
            [] x.ok /\ ~x.fin -> Result(x.s, {}, TRUE)
            [] OTHER -> Result(u, {}, TRUE)
  BY DEF TextAndFin
<1> HIDE DEF x
<1>3. CASE ~x.ok
  <2>1. r = Result(x.s, x.seg, FALSE)
    BY <1>2, <1>3
  <2> QED
    BY <1>1, <2>1 DEF Result, InputOK
<1>4. CASE x.ok /\ ~x.fin
  <2>1. r = Result(x.s, {}, TRUE)
    BY <1>2, <1>4
  <2> QED
    BY <1>1, <2>1 DEF Result, InputOK
<1>5. CASE x.ok /\ x.fin
  <2>1. r = Result(u, {}, TRUE)
    BY <1>1, <1>2, <1>5
  <2>2. /\ x.s \in Streams /\ EndOK(e, x.s, p) /\ x.s.state = s.state
        /\ s.state \in {"Established", "FinWait1", "FinWait2"}
    BY <1>1, <1>5 DEF BecomesOK, Taking
  <2>3. /\ p.wrote \in Nat /\ x.s.recvNext \in Nat /\ m.seq \in Nat
        /\ p.sendMax \in Nat /\ x.s.sendMax \in Nat /\ x.s.wrote \in Nat
    BY <2>2 DEF Streams, Segments
  <2>4. x.s.recvNext = p.wrote + 1 /\ p.shutwr /\ x.s.recvNext + 1 <= p.sendMax
    <3>1. /\ FinOK(m, p) /\ m.seq + Len(m.data) + 1 <= p.sendMax
          /\ x.s.recvNext = m.seq + Len(m.data)
      BY <1>1, <1>5 DEF TrimmedOK
    <3>2. m.seq = s.recvNext /\ s.recvNext <= p.wrote + 1
      BY <1>1, <1>5, <2>2 DEF EndOK, EndOfStreamOK, Ended
    <3>3. p.shutwr /\ m.seq + Len(m.data) = p.wrote + 1
      BY <2>3, <3>1, <3>2 DEF FinOK
    <3>4. x.s.recvNext = p.wrote + 1 /\ x.s.recvNext + 1 <= p.sendMax
      BY <3>1, <3>3
    <3> QED
      BY <3>3, <3>4
  <2>5. /\ f \in Streams /\ f.recvNext = p.wrote + 2 /\ f.asb = x.s.asb
        /\ Received(f) = Received(x.s) /\ Receives(x.s, f)
    <3>1. x.s.recvNext + 1 \in Nat /\ x.s.recvNext + 1 = p.wrote + 2
      BY <2>3, <2>4
    <3>2. f = [x.s EXCEPT !.recvNext = x.s.recvNext + 1, !.ackNow = TRUE]
      BY <2>2 DEF Streams
    <3> QED
      BY <2>2, <3>1, <3>2 DEF Streams, Received, Receives
  <2>6. new \in {"Closing", "TimeWait", "CloseWait"} /\ new \in States
        /\ (new \in Ending => s.state \in Ending)
    BY <2>2 DEF States, Ending
  <2> HIDE DEF f, new
  <2>7. u \in Streams /\ u.state = new /\ Alike(f, u)
    BY <2>5, <2>6, SetStates
  <2>8. NumbersOK(u, p)
    BY <2>2, <2>3, <2>4, <2>5, <2>7 DEF EndOK, NumbersOK, Alike, Receives
  <2>9. EndOfStreamOK(u, p)
    BY <2>4, <2>5, <2>6, <2>7 DEF EndOfStreamOK, Alike, Ended
  <2>10. SendRingOK(u)
    BY <2>2, <2>5, <2>7 DEF EndOK, SendRingOK, Alike, Receives
  <2>11. e[2] = "client" => x.s.held
    BY <2>2 DEF EndOK, StateOK, NewStream
  <2>12. StateOK(e, u)
    BY <2>2, <2>5, <2>6, <2>7, <2>11
       DEF EndOK, StateOK, Alike, Receives, Early, Synchronized, Ending
  <2>13. Grows(x.s, u)
    BY <2>2, <2>3, <2>4, <2>5, <2>6, <2>7 DEF Grows, Alike, Receives
  <2>14. ReceivedOK(x.s, p) => ReceivedOK(u, p)
    <3>1. Received(u) = Received(x.s) /\ u.recvNext = p.wrote + 2
      BY <2>5, <2>7 DEF Received, Alike
    <3>2. Len(Received(x.s)) \in Nat
      BY <2>2, RingEnds
    <3> DEFINE n == Len(Received(x.s))
    <3>3. SUFFICES ASSUME ReceivedOK(x.s, p) PROVE u.recvNext = n + 2
      BY <3>1 DEF ReceivedOK
    <3>4. x.s.recvNext = n + 1 \/ x.s.recvNext = p.wrote + 2
      BY <3>3 DEF ReceivedOK
    <3> HIDE DEF n
    <3>5. x.s.recvNext = n + 1
      BY <2>3, <2>4, <3>4
    <3>6. n \in Nat
      BY <3>2 DEF n
    <3> QED
      BY <2>3, <2>4, <3>1, <3>5, <3>6
  <2>15. u.asb = x.s.asb
    BY <2>5, <2>7 DEF Alike
  <2>16. BecomesOK(e, x.s, u, p)
    BY <2>7, <2>8, <2>9, <2>10, <2>12, <2>13, <2>14, <2>15 DEF BecomesOK, EndOK
  <2>17. BecomesOK(e, s, u, p)
    BY <1>1, <2>15, <2>16, BecomesTwice
  <2> QED
    BY <2>1, <2>17 DEF Result, InputOK
<1> QED
  BY <1>1, <1>3, <1>4, <1>5

LEMMA Believed ==
  ASSUME NEW e \in End, NEW s \in Streams, NEW p \in Streams, EndOK(e, s, p),
         s.state \notin {"None", "SynSent", "Closed"},
         NEW m \in Segments, NEW b \in BOOLEAN
  PROVE  InputOK(e, s, Result(reset(s, m, b), {}, FALSE), p)
<1>1. s.err \in BOOLEAN
  BY DEF Streams
<1> DEFINE c == s.err \/ b
<1>2. c \in BOOLEAN
  OBVIOUS
<1>3. reset(s, m, b) = abort([s EXCEPT !.err = c]) \/ reset(s, m, b) = s
  BY DEF reset, Streams
<1> HIDE DEF c
<1>4. BecomesOK(e, s, abort([s EXCEPT !.err = c]), p)
  BY <1>2, Aborted
<1>5. BecomesOK(e, s, s, p)
  BY Same DEF Alike
<1> QED
  BY <1>3, <1>4, <1>5 DEF Result, InputOK

(* What trim() leaves, and what a handler does when it says no. *)
LEMMA Trimmed ==
  ASSUME NEW e \in End, NEW s \in Streams, NEW p \in Streams, EndOK(e, s, p),
         s.state \notin {"None", "SynSent", "Closed"},
         NEW m \in Segments, CarriesOK(m, p), InTurn(s, m), NEW t, t = trim(s, m)
  PROVE  /\ t.m \in Segments /\ t.m.flag \subseteq m.flag /\ TrimmedOK(t.m, p)
         /\ t.ok => AtHand(s, t.m)
         /\ "SYN" \notin t.m.flag
         /\ InputOK(e, s, Result(t.s, {}, TRUE), p)
<1>1. 1 <= s.recvNext
  BY DEF EndOK, NumbersOK
<1>2. /\ t.s \in Streams /\ t.m \in Segments /\ t.m.flag \subseteq m.flag
      /\ t.s = s \/ t.s = [s EXCEPT !.ackNow = SegmentLength(m) > 0]
      /\ TrimmedOK(t.m, p) /\ InPlace(s, m, t)
  BY <1>1, Trims
<1>6. m.data = << >> => Len(m.data) = 0
  BY EmptySeq
<1>5. t.ok => AtHand(s, t.m)
  BY <1>2, <1>6 DEF InTurn, AtHand, InPlace
<1>3. Alike(s, t.s) /\ t.s.state = s.state
  BY <1>2 DEF Alike, Streams
<1>4. BecomesOK(e, s, t.s, p)
  BY <1>2, <1>3, Same
<1> QED
  BY <1>2, <1>4, <1>5 DEF TrimmedOK, Result, InputOK

LEMMA SynchronizedInputs ==
  ASSUME NEW e \in End, NEW s \in Streams, NEW p \in Streams,
         EndOK(e, s, p), EndOK(Peer(e), p, s), s.state \in Synchronized,
         NEW m \in Segments, SegmentOK(m, p), InTurn(s, m)
  PROVE  InputOK(e, s, SynchronizedInput(e, s, m), p)
<1> DEFINE t    == trim(s, m)
           sent == m.ack - s.sendUna
           a    == Ack(s, m.ack, sent)
           u    == AfterAck(a.s, a.finAcked)
           b    == s.state \notin {"LastAck", "Closing", "TimeWait"}
           now  == [s EXCEPT !.ackNow = TRUE]
           r    == SynchronizedInput(e, s, m)
<1>1. r = IF "RST" \in m.flag THEN Result(reset(s, m, b), {}, FALSE)
          ELSE IF ~t.ok THEN Result(t.s, {}, TRUE)
          ELSE IF "SYN" \in t.m.flag THEN Result(abort(s), sendReset(e, m), FALSE)
          ELSE IF "ACK" \notin m.flag THEN Result(s, {}, FALSE)
          ELSE IF s.sendMax < m.ack THEN Result(now, {}, TRUE)
          ELSE IF u.state \in {"Established", "FinWait1", "FinWait2"} THEN TextAndFin(e, u, t.m)
          ELSE Result(u, {}, u.state # "Closed")
  BY DEF SynchronizedInput
<1>2. /\ s.state \notin {"None", "SynSent", "Closed"} /\ b \in BOOLEAN
      /\ m.ack \in Nat /\ s.sendUna \in Nat /\ s.sendMax \in Nat /\ sent \in Int
      /\ s.sendUna > 0
  <2>1. m.ack \in Nat /\ s.sendUna \in Nat /\ s.sendMax \in Nat
    BY DEF Streams, Segments
  <2>2. s.sendUna > 0
    BY DEF EndOK, StateOK
  <2>3. s.state \notin {"None", "SynSent", "Closed"}
    BY DEF Synchronized
  <2>4. b \in BOOLEAN
    OBVIOUS
  <2> QED
    BY <2>1, <2>2, <2>3, <2>4
<1>3. Alike(s, s) /\ now \in Streams /\ Alike(s, now) /\ now.state = s.state
  BY DEF Alike, Streams
<1>4. BecomesOK(e, s, s, p) /\ BecomesOK(e, s, now, p)
  BY <1>2, <1>3, Same
<1> HIDE DEF b, now, t
<1>5. CASE "RST" \in m.flag
  BY <1>1, <1>2, <1>5, Believed
<1>6. CASE "RST" \notin m.flag
  <2>1. CarriesOK(m, p)
    BY <1>6 DEF SegmentOK
  <2>2. /\ t.m \in Segments /\ t.m.flag \subseteq m.flag /\ TrimmedOK(t.m, p)
        /\ "SYN" \notin t.m.flag /\ InputOK(e, s, Result(t.s, {}, TRUE), p)
        /\ t.ok => AtHand(s, t.m)
    BY <1>2, <2>1, Trimmed DEF t
  <2>3. CASE ~t.ok
    BY <1>1, <1>6, <2>2, <2>3
  <2>4. CASE t.ok /\ "ACK" \notin m.flag
    <3>1. r = Result(s, {}, FALSE)
      BY <1>1, <1>6, <2>2, <2>4
    <3> QED
      BY <1>4, <3>1 DEF Result, InputOK
  <2>5. CASE t.ok /\ "ACK" \in m.flag /\ s.sendMax < m.ack
    <3>1. r = Result(now, {}, TRUE)
      BY <1>1, <1>6, <2>2, <2>5
    <3> QED
      BY <1>4, <3>1 DEF Result, InputOK
  <2>6. CASE t.ok /\ "ACK" \in m.flag /\ ~(s.sendMax < m.ack)
    <3>1. AckOK(s, p, m.ack)
      BY <1>2, <2>1, <2>6 DEF AckOK, CarriesOK
    <3>2. sent = IF s.sendUna = 0 THEN m.ack - 1 ELSE m.ack - s.sendUna
      BY <1>2
    <3>3. a.finAcked \in BOOLEAN
      <4> DEFINE c == Len(s.sendRing) < sent
      <4>1. c \in BOOLEAN
        OBVIOUS
      <4>2. a.finAcked = TRUE \/ a.finAcked = c
        BY DEF Ack
      <4> HIDE DEF c, a
      <4> QED
        BY <4>1, <4>2
    <3> HIDE DEF sent
    <3>4. /\ BecomesOK(e, s, a.s, p) /\ a.s.state = s.state /\ a.s.asb = s.asb
          /\ a.s.recvNext = s.recvNext
      BY <1>2, <1>3, <3>1, <3>2, Acked
    <3> HIDE DEF a
    <3>5. a.s \in Streams /\ EndOK(e, a.s, p)
      BY <3>4 DEF BecomesOK
    <3>6. BecomesOK(e, a.s, u, p) /\ u.asb = a.s.asb /\ u.recvNext = a.s.recvNext
      BY <3>3, <3>4, <3>5, AfterAcks
    <3> HIDE DEF u
    <3>7. BecomesOK(e, s, u, p) /\ u.asb = s.asb
      BY <3>4, <3>6, BecomesTwice
    <3>8. u \in Streams /\ EndOK(e, u, p)
      BY <3>7 DEF BecomesOK
    <3>9. CASE u.state \in {"Established", "FinWait1", "FinWait2"}
      <4>1. r = TextAndFin(e, u, t.m)
        BY <1>1, <1>6, <2>2, <2>6, <3>9
      <4>2. u.state \in Taking /\ u.state # "SynReceived"
        BY <3>9 DEF Taking
      <4>5. AtHand(u, t.m)
        BY <2>2, <2>6, <3>4, <3>6 DEF AtHand
      <4>3. InputOK(e, u, r, p)
        BY <2>2, <3>8, <4>1, <4>2, <4>5, TextsAndFins
      <4>4. BecomesOK(e, s, r.s, p)
        BY <3>7, <4>3, BecomesTwice DEF InputOK
      <4> QED
        BY <4>3, <4>4 DEF InputOK
    <3>10. CASE u.state \notin {"Established", "FinWait1", "FinWait2"}
      <4>1. r = Result(u, {}, u.state # "Closed")
        BY <1>1, <1>6, <2>2, <2>6, <3>10
      <4> QED
        BY <3>7, <4>1 DEF Result, InputOK
    <3> QED
      BY <3>9, <3>10
  <2> QED
    BY <2>3, <2>4, <2>5, <2>6
<1> QED
  BY <1>5, <1>6

LEMMA Stays ==
  ASSUME NEW e \in End, NEW s \in Streams, NEW p \in Streams, EndOK(e, s, p)
  PROVE  BecomesOK(e, s, s, p)
<1>1. s.recvNext \in Nat /\ s.sendMax \in Nat /\ s.wrote \in Nat
  BY DEF Streams
<1> QED
  BY <1>1 DEF BecomesOK, Grows

LEMMA SynReceivedInputs ==
  ASSUME NEW e \in End, NEW s \in Streams, NEW p \in Streams,
         EndOK(e, s, p), EndOK(Peer(e), p, s), s.state = "SynReceived",
         NEW m \in Segments, SegmentOK(m, p), InTurn(s, m)
  PROVE  InputOK(e, s, SynReceivedInput(e, s, m), p)
<1> DEFINE t  == trim(s, m)
           sent == m.ack - s.sendUna - 1
           v  == setState(s, "Established")
           w  == Ack(v, m.ack, sent).s
           up == IF "ACK" \in m.flag /\ m.ack > 0 THEN w ELSE s
           r  == SynReceivedInput(e, s, m)
<1>1. r = IF "ACK" \in m.flag /\ (m.ack < s.sendUna \/ s.sendMax < m.ack)
          THEN Result(s, sendReset(e, m), FALSE)
          ELSE IF "RST" \in m.flag THEN Result(reset(s, m, TRUE), {}, FALSE)
          ELSE IF ~t.ok THEN Result(t.s, {}, TRUE)
          ELSE IF "SYN" \in t.m.flag THEN Result(abort(s), sendReset(e, m), FALSE)
          ELSE TextAndFin(e, up, t.m)
  BY DEF SynReceivedInput
<1>2. /\ m.ack \in Nat /\ s.sendUna \in Nat /\ s.sendMax \in Nat /\ sent \in Int
  <2>1. m.ack \in Nat /\ s.sendUna \in Nat /\ s.sendMax \in Nat
    BY DEF Streams, Segments
  <2> QED
    BY <2>1
<1>3. s.sendUna = 0
  BY DEF EndOK, StateOK, Early
<1>4. BecomesOK(e, s, s, p)
  BY Stays
<1>5. v \in Streams /\ v.state = "Established" /\ Alike(s, v)
  BY SetStates DEF States
<1> HIDE DEF v, t
<1>6. CASE "ACK" \in m.flag /\ (m.ack < s.sendUna \/ s.sendMax < m.ack)
  <2>1. r = Result(s, sendReset(e, m), FALSE)
    BY <1>1, <1>6
  <2> QED
    BY <1>4, <2>1, ResetsSent DEF Result, InputOK
<1>7. CASE ~("ACK" \in m.flag /\ (m.ack < s.sendUna \/ s.sendMax < m.ack))
  <2>1. CASE "RST" \in m.flag
    <3>1. r = Result(reset(s, m, TRUE), {}, FALSE)
      BY <1>1, <1>7, <2>1
    <3> QED
      BY <3>1, Believed
  <2>2. CASE "RST" \notin m.flag
    <3>1. CarriesOK(m, p)
      BY <2>2 DEF SegmentOK
    <3>2. /\ t.m \in Segments /\ t.m.flag \subseteq m.flag /\ TrimmedOK(t.m, p)
          /\ "SYN" \notin t.m.flag /\ InputOK(e, s, Result(t.s, {}, TRUE), p)
          /\ t.ok => AtHand(s, t.m)
      BY <3>1, Trimmed DEF t
    <3>3. CASE ~t.ok
      BY <1>1, <1>7, <2>2, <3>2, <3>3
    <3>4. CASE t.ok /\ "ACK" \notin m.flag
      <4>1. r = TextAndFin(e, s, t.m)
        BY <1>1, <1>7, <2>2, <3>2, <3>4
      <4>2. "FIN" \notin t.m.flag
        BY <3>1, <3>2, <3>4 DEF CarriesOK
      <4>3. s.state \in Taking
        BY DEF Taking
      <4> QED
        BY <3>2, <3>4, <4>1, <4>2, <4>3, TextsAndFins
    <3>5. CASE t.ok /\ "ACK" \in m.flag
      <4>1. AckOK(s, p, m.ack)
        BY <1>2, <1>7, <3>1, <3>5 DEF AckOK, CarriesOK
      <4>2. r = TextAndFin(e, w, t.m)
        <5>1. m.ack > 0
          BY <4>1 DEF AckOK
        <5>2. up = w
          BY <3>5, <5>1
        <5> QED
          BY <1>1, <1>7, <2>2, <3>2, <3>5, <5>2
      <4>3. sent = IF s.sendUna = 0 THEN m.ack - 1 ELSE m.ack - s.sendUna
        BY <1>2, <1>3
      <4> HIDE DEF sent
      <4>4. /\ BecomesOK(e, s, w, p) /\ w.state = "Established" /\ w.asb = s.asb
            /\ w.recvNext = s.recvNext
        BY <1>2, <1>5, <4>1, <4>3, Acked
      <4> HIDE DEF w
      <4>5. w \in Streams /\ EndOK(e, w, p) /\ w.state \in Taking /\ w.state # "SynReceived"
        BY <4>4 DEF BecomesOK, Taking
      <4>8. AtHand(w, t.m)
        BY <3>2, <3>5, <4>4 DEF AtHand
      <4>6. InputOK(e, w, r, p)
        BY <3>2, <4>2, <4>5, <4>8, TextsAndFins
      <4>7. BecomesOK(e, s, r.s, p)
        BY <4>4, <4>6, BecomesTwice DEF InputOK
      <4> QED
        BY <4>6, <4>7 DEF InputOK
    <3> QED
      BY <3>3, <3>4, <3>5
  <2> QED
    BY <2>1, <2>2
<1> QED
  BY <1>6, <1>7

LEMMA SynSentInputs ==
  ASSUME NEW e \in End, NEW s \in Streams, NEW p \in Streams,
         EndOK(e, s, p), EndOK(Peer(e), p, s), s.state = "SynSent",
         NEW m \in Segments, SegmentOK(m, p), m.from = Peer(e)
  PROVE  InputOK(e, s, SynSentInput(e, s, m), p)
<1> DEFINE next == Max({s.sendNext, 1})
           up  == [s EXCEPT !.state = "Established", !.sendUna = 1, !.sendNext = Max({@, 1}),
                            !.recvNext = m.seq + 1, !.ackNow = TRUE]
           sent == m.ack - 1
           w   == Ack(up, m.ack, sent).s
           t   == trim(up, m)
           bad == [s EXCEPT !.err = TRUE]
           r   == SynSentInput(e, s, m)
<1>1. r = IF "ACK" \in m.flag /\ (m.ack <= 0 \/ s.sendMax < m.ack)
          THEN Result(s, sendReset(e, m), FALSE)
          ELSE IF {"RST", "ACK"} \subseteq m.flag THEN Result(abort(bad), {}, FALSE)
          ELSE IF "RST" \in m.flag \/ "SYN" \notin m.flag THEN Result(s, {}, FALSE)
          ELSE TextAndFin(e, w, t.m)
  BY DEF SynSentInput
<1>2. /\ m.ack \in Nat /\ m.seq \in Nat /\ s.sendUna \in Nat /\ s.sendMax \in Nat
      /\ s.sendNext \in Nat /\ p.sendMax \in Nat /\ p.recvNext \in Nat /\ s.wrote \in Nat
      /\ sent \in Int
  <2>1. /\ m.ack \in Nat /\ m.seq \in Nat /\ s.sendUna \in Nat /\ s.sendMax \in Nat
        /\ s.sendNext \in Nat /\ p.sendMax \in Nat /\ p.recvNext \in Nat /\ s.wrote \in Nat
    BY DEF Streams, Segments
  <2> QED
    BY <2>1
<1>3. /\ s.sendUna = 0 /\ s.wrote = 0 /\ ~s.shutwr /\ s.recvNext = 1 /\ s.sendRing = << >>
      /\ e[2] = "client" /\ s.held
  <2>1. /\ s.sendUna = 0 /\ s.wrote = 0 /\ ~s.shutwr /\ s.recvNext = 1 /\ e[2] = "client"
    BY DEF EndOK, StateOK, Early
  <2>2. s.sendRing = << >>
    BY <2>1 DEF EndOK, SendRingOK
  <2>3. e[2] = "client" => s.held
    BY DEF EndOK, StateOK, NewStream
  <2> QED
    BY <2>1, <2>2, <2>3
<1>4. BecomesOK(e, s, s, p)
  BY Stays
<1>5. CASE "ACK" \in m.flag /\ (m.ack <= 0 \/ s.sendMax < m.ack)
  <2>1. r = Result(s, sendReset(e, m), FALSE)
    BY <1>1, <1>5
  <2> QED
    BY <1>4, <2>1, ResetsSent DEF Result, InputOK
<1>6. CASE /\ ~("ACK" \in m.flag /\ (m.ack <= 0 \/ s.sendMax < m.ack))
           /\ {"RST", "ACK"} \subseteq m.flag
  <2>1. r = Result(abort(bad), {}, FALSE)
    BY <1>1, <1>6
  <2>2. BecomesOK(e, s, abort(bad), p)
    BY Aborted
  <2> QED
    BY <2>1, <2>2 DEF Result, InputOK
<1>7. CASE /\ ~("ACK" \in m.flag /\ (m.ack <= 0 \/ s.sendMax < m.ack))
           /\ ~({"RST", "ACK"} \subseteq m.flag)
           /\ "RST" \in m.flag \/ "SYN" \notin m.flag
  <2>1. r = Result(s, {}, FALSE)
    BY <1>1, <1>7
  <2> QED
    BY <1>4, <2>1 DEF Result, InputOK
<1>8. CASE /\ ~("ACK" \in m.flag /\ (m.ack <= 0 \/ s.sendMax < m.ack))
           /\ "RST" \notin m.flag /\ "SYN" \in m.flag
  <2>1. r = TextAndFin(e, w, t.m)
    BY <1>1, <1>8
  <2>2. CarriesOK(m, p)
    BY <1>8 DEF SegmentOK
  <2>3. "ACK" \in m.flag /\ m.seq = 0
    <3>1. Peer(e)[2] = "server"
      BY <1>3, Peers
    <3>2. "ACK" \notin m.flag => m.from[2] = "client"
      BY <2>2 DEF CarriesOK
    <3> QED
      BY <1>8, <2>2, <3>1, <3>2 DEF CarriesOK
  <2>4. 1 <= m.ack /\ m.ack <= s.sendMax /\ m.ack <= p.recvNext
    BY <1>2, <1>8, <2>2, <2>3 DEF CarriesOK
  <2>5. next \in Nat /\ 1 <= next /\ next <= s.sendMax
    <3>1. next = IF s.sendNext >= 1 THEN s.sendNext ELSE 1
      BY <1>2, MaxOfTwo
    <3>2. s.sendNext <= s.sendMax
      BY DEF EndOK, NumbersOK
    <3> HIDE DEF next
    <3> QED
      BY <1>2, <2>4, <3>1, <3>2
  <2>6. up = [s EXCEPT !.state = "Established", !.sendUna = 1, !.sendNext = next,
                       !.recvNext = 1, !.ackNow = TRUE]
    BY <2>3 DEF Streams
  <2> HIDE DEF next
  <2>7. /\ up \in Streams /\ up.state = "Established" /\ up.sendUna = 1 /\ up.sendNext = next
        /\ up.recvNext = 1 /\ up.sendMax = s.sendMax /\ up.sendRing = << >> /\ ~up.shutwr
        /\ up.wrote = 0 /\ up.held /\ up.recvRing = s.recvRing /\ up.got = s.got
        /\ up.asb = s.asb
    <3> HIDE DEF up
    <3>1. up \in Streams
      BY <2>5, <2>6 DEF Streams, States
    <3>2. /\ up.state = "Established" /\ up.sendUna = 1 /\ up.sendNext = next
          /\ up.recvNext = 1 /\ up.sendMax = s.sendMax /\ up.sendRing = s.sendRing
          /\ up.shutwr = s.shutwr /\ up.wrote = s.wrote /\ up.held = s.held
          /\ up.recvRing = s.recvRing /\ up.got = s.got /\ up.asb = s.asb
      BY <2>6 DEF Streams
    <3> QED
      BY <1>3, <3>1, <3>2
  <2> HIDE DEF up
  <2>8. BecomesOK(e, s, up, p)
    <3>1. NumbersOK(up, p)
      BY <1>2, <2>4, <2>5, <2>7 DEF NumbersOK
    <3>2. EndOfStreamOK(up, p)
      BY <1>3, <2>7 DEF EndOK, EndOfStreamOK, Ended
    <3>3. SendRingOK(up)
      <4>1. Len(up.sendRing) = 0
        BY <2>7, EmptySeq
      <4> QED
        BY <2>7, <4>1 DEF SendRingOK
    <3>4. StateOK(e, up)
      BY <2>7 DEF StateOK, Early, Ending
    <3>5. Grows(s, up)
      BY <1>2, <1>3, <2>7 DEF Grows
    <3>6. ReceivedOK(s, p) => ReceivedOK(up, p)
      BY <1>3, <2>7 DEF ReceivedOK, Received
    <3> QED
      BY <2>7, <3>1, <3>2, <3>3, <3>4, <3>5, <3>6 DEF BecomesOK, EndOK
  <2>9. EndOK(e, up, p) /\ EndOK(Peer(e), p, up)
    BY <2>7, <2>8, Peers, EndKept DEF BecomesOK
  <2>10. BecomesOK(e, up, w, p) /\ w.state = "Established" /\ w.asb = up.asb
    <3>1. AckOK(up, p, m.ack)
      BY <1>2, <2>4, <2>7 DEF AckOK
    <3>2. sent = IF up.sendUna = 0 THEN m.ack - 1 ELSE m.ack - up.sendUna
      BY <2>7
    <3>3. Alike(up, up) /\ up.state \in Synchronized
      BY <2>7 DEF Alike, Synchronized
    <3> HIDE DEF sent
    <3> QED
      BY <1>2, <2>7, <2>9, <3>1, <3>2, <3>3, Acked
  <2> HIDE DEF w
  <2>11. BecomesOK(e, s, w, p) /\ w.asb = s.asb
    BY <2>7, <2>8, <2>10, BecomesTwice
  <2>12. /\ w \in Streams /\ EndOK(e, w, p) /\ w.state \in Taking /\ w.state # "SynReceived"
    BY <2>10, <2>11 DEF BecomesOK, Taking
  <2>16. m.data = << >>
    BY <1>8, <2>2 DEF CarriesOK
  <2>13. t.m \in Segments /\ TrimmedOK(t.m, p) /\ t.m.data = << >>
    <3>2. t = trim(up, m)
      OBVIOUS
    <3> HIDE DEF t
    <3>1. 1 <= up.recvNext
      BY <2>7
    <3>3. t.m \in Segments /\ TrimmedOK(t.m, p) /\ InPlace(up, m, t)
      BY <2>2, <2>7, <3>1, <3>2, Trims
    <3>4. Len(m.data) = 0
      BY <2>16, EmptySeq
    <3> QED
      BY <3>3, <3>4 DEF InPlace
  <2> HIDE DEF t
  <2>14. InputOK(e, w, r, p)
    BY <2>1, <2>12, <2>13, TextsAndFins DEF AtHand
  <2>15. BecomesOK(e, s, r.s, p)
    BY <2>11, <2>14, BecomesTwice DEF InputOK
  <2> QED
    BY <2>14, <2>15 DEF InputOK
<1> QED
  BY <1>5, <1>6, <1>7, <1>8

LEMMA Inputs ==
  ASSUME NEW e \in End, NEW s \in Streams, NEW p \in Streams,
         EndOK(e, s, p), EndOK(Peer(e), p, s), s.state # "None",
         NEW m \in Segments, SegmentOK(m, p), m.from = Peer(e), InTurn(s, m)
  PROVE  InputOK(e, s, input(e, s, m), p)
<1>1. CASE s.state = "Closed"
  <2>1. input(e, s, m) = Result(s, sendReset(e, m), FALSE)
    BY <1>1 DEF input
  <2>2. BecomesOK(e, s, s, p)
    BY Stays
  <2> QED
    BY <2>1, <2>2, ResetsSent DEF Result, InputOK
<1>2. CASE s.state = "SynSent"
  BY <1>2, SynSentInputs DEF input
<1>3. CASE s.state = "SynReceived"
  BY <1>3, SynReceivedInputs DEF input
<1>4. CASE s.state \notin {"Closed", "SynSent", "SynReceived"}
  <2>1. s.state \in Synchronized
    BY <1>4 DEF Streams, States, Synchronized
  <2>2. input(e, s, m) = SynchronizedInput(e, s, m)
    BY <1>4 DEF input
  <2> QED
    BY <2>1, <2>2, SynchronizedInputs
<1> QED
  BY <1>1, <1>2, <1>3, <1>4

-----------------------------------------------------------------------------
(* Output. *)

(* What is to be sent is the rest of the ring, with a SYN at its beginning or a FIN at its end. *)
SendableOK(s, w, count) ==
    /\ count \in Nat /\ w.flag \in {{}, {"SYN"}, {"FIN"}}
    /\ w.flag = {} => w.len = count
    /\ w.flag # {} => w.len = count + 1
    /\ w.flag # {} \/ count > 0 => s.sendNext + count = s.sendUna + Len(s.sendRing)
    /\ w.flag = {"SYN"} => s.sendNext = 0 /\ count = 0 /\ s.state \in {"SynSent", "SynReceived"}
    /\ w.flag = {"FIN"} => s.state \in Ending
    /\ w.flag = {"FIN"} \/ count > 0 => s.state \in Synchronized

LEMMA Sendables ==
  ASSUME NEW e \in End, NEW s \in Streams, NEW p \in Streams, EndOK(e, s, p),
         NEW w, w = Sendable(s),
         NEW count, count = w.len - Cardinality(w.flag)
  PROVE  SendableOK(s, w, count)
<1> DEFINE ring == Len(s.sendRing)
           unsent == ring - (s.sendNext - s.sendUna)
           most == Max({unsent, 0})
<1>1. /\ s.sendUna \in Nat /\ s.sendNext \in Nat /\ s.sendRing \in Seq(Nat) /\ ring \in Nat
      /\ s.sendUna <= s.sendNext
  <2>1. /\ s.sendUna \in Nat /\ s.sendNext \in Nat /\ s.sendRing \in Seq(Nat)
    BY DEF Streams
  <2>2. ring \in Nat
    BY <2>1, LenProperties
  <2>3. s.sendUna <= s.sendNext
    BY DEF EndOK, NumbersOK
  <2> QED
    BY <2>1, <2>2, <2>3
<1>2. Cardinality({}) = 0 /\ Cardinality({"SYN"}) = 1 /\ Cardinality({"FIN"}) = 1
  BY FS_EmptySet, FS_Singleton
<1>3. w = CASE s.state \in {"SynSent", "SynReceived"} /\ s.sendNext = 0 ->
                  [len |-> 1 + ring, flag |-> {"SYN"}]
            [] s.state \in {"Established", "FinWait2", "CloseWait"} ->
                  [len |-> most, flag |-> {}]
            [] s.state \in {"FinWait1", "LastAck", "Closing", "TimeWait"} /\ unsent >= 0 ->
                  [len |-> unsent + 1, flag |-> {"FIN"}]
            [] OTHER -> [len |-> 0, flag |-> {}]
  BY DEF Sendable
<1> HIDE DEF ring
<1>4. unsent \in Int
  BY <1>1
<1>5. most = IF unsent >= 0 THEN unsent ELSE 0
  BY <1>4, MaxOfTwo
<1> HIDE DEF most
<1>6. CASE s.state \in {"SynSent", "SynReceived"} /\ s.sendNext = 0
  <2>1. w = [len |-> 1 + ring, flag |-> {"SYN"}]
    BY <1>3, <1>6
  <2>2. s.sendUna = 0 /\ s.sendRing = << >>
    BY <1>6 DEF EndOK, StateOK, Early, SendRingOK
  <2>3. ring = 0
    BY <2>2, EmptySeq DEF ring
  <2>4. w.flag = {"SYN"} /\ w.len = 1
    BY <2>1, <2>3
  <2>5. count = 0
    BY <1>2, <2>4
  <2>6. s.sendNext + count = s.sendUna + Len(s.sendRing)
    <3>1. s.sendNext + count = 0 /\ s.sendUna + ring = 0
      BY <1>6, <2>2, <2>3, <2>5
    <3> QED
      BY <3>1 DEF ring
  <2>7. count \in Nat /\ w.len = count + 1 /\ ~(count > 0)
    BY <2>4, <2>5
  <2> QED
    BY <1>6, <2>4, <2>5, <2>6, <2>7 DEF SendableOK
<1>7. CASE s.state \in {"Established", "FinWait2", "CloseWait"}
  <2>1. w.len = most /\ w.flag = {}
    BY <1>3, <1>7
  <2>2. most \in Nat /\ (most > 0 => s.sendNext + most = s.sendUna + ring)
    BY <1>1, <1>5
  <2>3. count = most
    BY <1>2, <2>1, <2>2
  <2> QED
    BY <1>7, <2>1, <2>2, <2>3 DEF SendableOK, Synchronized, ring
<1>8. CASE s.state \in {"FinWait1", "LastAck", "Closing", "TimeWait"} /\ unsent >= 0
  <2>1. w.len = unsent + 1 /\ w.flag = {"FIN"}
    BY <1>3, <1>8
  <2>2. unsent \in Nat /\ s.sendNext + unsent = s.sendUna + ring
    BY <1>1, <1>4, <1>8
  <2>3. count = unsent
    BY <1>2, <2>1, <2>2
  <2> HIDE DEF unsent
  <2> QED
    BY <1>8, <2>1, <2>2, <2>3 DEF SendableOK, Synchronized, Ending, ring
<1>9. CASE /\ ~(s.state \in {"SynSent", "SynReceived"} /\ s.sendNext = 0)
           /\ s.state \notin {"Established", "FinWait2", "CloseWait"}
           /\ ~(s.state \in {"FinWait1", "LastAck", "Closing", "TimeWait"} /\ unsent >= 0)
  <2>1. w.len = 0 /\ w.flag = {}
    BY <1>3, <1>9
  <2>2. count = 0
    BY <1>2, <2>1
  <2> QED
    BY <2>1, <2>2 DEF SendableOK
<1> QED
  BY <1>6, <1>7, <1>8, <1>9

(* The bytes are the ones the application wrote at these places. *)
LEMMA Loads ==
  ASSUME NEW e \in End, NEW s \in Streams, NEW p \in Streams, EndOK(e, s, p),
         NEW w, NEW count, SendableOK(s, w, count)
  PROVE  /\ Load(s, count) \in Seq(Nat) /\ Len(Load(s, count)) = count
         /\ \A i \in 1 .. count : Load(s, count)[i] = s.sendNext - 1 + i
<1> DEFINE ring == Len(s.sendRing)
           a == s.sendNext - s.sendUna
           b == a + count
           data == SubSeq(s.sendRing, a + 1, b)
<1>1. /\ s.sendUna \in Nat /\ s.sendNext \in Nat /\ s.sendRing \in Seq(Nat) /\ ring \in Nat
      /\ s.sendUna <= s.sendNext /\ count \in Nat
  <2>1. /\ s.sendUna \in Nat /\ s.sendNext \in Nat /\ s.sendRing \in Seq(Nat)
    BY DEF Streams
  <2>2. ring \in Nat
    BY <2>1, LenProperties
  <2>3. s.sendUna <= s.sendNext /\ count \in Nat
    BY DEF EndOK, NumbersOK, SendableOK
  <2> QED
    BY <2>1, <2>2, <2>3
<1>2. Load(s, count) = data
  BY DEF Load
<1>3. count > 0 => b = ring
  <2> HIDE DEF ring
  <2>1. count > 0 => s.sendNext + count = s.sendUna + ring
    BY DEF SendableOK, ring
  <2> QED
    BY <1>1, <2>1
<1>4. a \in Nat /\ b \in Nat
  BY <1>1
<1>5. CASE count = 0
  <2>1. a + 1 \in Int /\ b \in Int /\ b < a + 1
    BY <1>4, <1>5
  <2>2. data = << >>
    BY <2>1, SubSeqEmpty
  <2>3. << >> \in Seq(Nat) /\ Len(<< >>) = 0
    BY EmptySeq
  <2>4. \A i \in 1 .. count : FALSE
    BY <1>5
  <2> QED
    BY <1>2, <1>5, <2>2, <2>3, <2>4
<1>6. CASE count > 0
  <2>1. b <= ring
    BY <1>1, <1>3, <1>6
  <2> HIDE DEF a, b
  <2>2. /\ data \in Seq(Nat)
        /\ Len(data) = IF a <= b THEN b - a ELSE 0
        /\ \A i \in 1 .. Len(data) : data[i] = s.sendRing[a + i]
    BY <1>1, <1>4, <2>1, Piece
  <2> HIDE DEF data
  <2>3. Len(data) = count
    BY <1>1, <1>4, <1>6, <2>2 DEF b
  <2>4. \A i \in 1 .. ring : s.sendRing[i] = s.sendUna - 1 + i
    BY DEF EndOK, SendRingOK
  <2>5. \A i \in 1 .. count : a + i \in 1 .. ring /\ s.sendUna - 1 + (a + i) = s.sendNext - 1 + i
    <3> HIDE DEF ring
    <3>1. a + count = ring /\ s.sendUna + a = s.sendNext
      BY <1>1, <1>3, <1>6 DEF a, b
    <3> QED
      BY <1>1, <1>4, <3>1
  <2>6. \A i \in 1 .. count : data[i] = s.sendNext - 1 + i
    <3> SUFFICES ASSUME NEW i \in 1 .. count PROVE data[i] = s.sendNext - 1 + i
      OBVIOUS
    <3>1. data[i] = s.sendRing[a + i]
      BY <2>2, <2>3
    <3>2. s.sendRing[a + i] = s.sendUna - 1 + (a + i)
      BY <2>4, <2>5
    <3> QED
      BY <2>5, <3>1, <3>2
  <2> QED
    BY <1>2, <2>2, <2>3, <2>6
<1> QED
  BY <1>1, <1>5, <1>6

(* What output() leaves of a StreamReceiver that may send, and the segment. *)
OutputOK(e, s, o, p) ==
    /\ BecomesOK(e, s, o.s, p) /\ o.s.state \in {s.state, "Closed"} /\ o.s.asb = s.asb
    /\ \A m \in o.seg : m \in Segments /\ m.from = e /\ SegmentOK(m, o.s)

(* A segment of some length is counted as sent. *)
LEMMA SentStream ==
  ASSUME NEW e \in End, NEW s \in Streams, NEW p \in Streams, EndOK(e, s, p),
         s.state \notin {"None", "Closed"},
         NEW len \in Nat, NEW next \in Nat, next = s.sendNext + len,
         NEW t, t = advanced(s, len)
  PROVE  /\ BecomesOK(e, s, t, p) /\ t.state = s.state /\ t.asb = s.asb
         /\ t.sendMax \in Nat /\ s.sendMax <= t.sendMax /\ next <= t.sendMax
         /\ t.recvNext = s.recvNext /\ t.wrote = s.wrote /\ t.shutwr = s.shutwr
         /\ t.sendUna = s.sendUna /\ t.sendNext = next /\ t.held = s.held
<1> DEFINE max == Max({s.sendMax, next})
<1>0. /\ s.sendUna \in Nat /\ s.sendMax \in Nat /\ s.recvNext \in Nat /\ s.sendNext \in Nat
      /\ s.wrote \in Nat /\ p.recvNext \in Nat /\ p.sendMax \in Nat
  BY DEF Streams
<1>1. /\ s.sendUna \in Nat /\ s.sendMax \in Nat /\ s.recvNext \in Nat
      /\ s.wrote \in Nat /\ p.recvNext \in Nat /\ p.sendMax \in Nat
      /\ s.sendUna <= next
  BY <1>0 DEF EndOK, NumbersOK
<1>2. max = IF s.sendMax >= next THEN s.sendMax ELSE next
  BY <1>1, MaxOfTwo
<1>3. t = [s EXCEPT !.ackNow = FALSE, !.sendNext = next, !.sendMax = max]
  BY DEF advanced, Streams
<1> HIDE DEF max
<1>4. max \in Nat /\ s.sendMax <= max /\ next <= max
  BY <1>1, <1>2
<1>5. /\ t \in Streams /\ t.sendUna = s.sendUna /\ t.sendNext = next /\ t.sendMax = max
      /\ t.sendRing = s.sendRing /\ t.recvNext = s.recvNext /\ t.recvRing = s.recvRing
      /\ t.asb = s.asb /\ t.shutwr = s.shutwr /\ t.got = s.got /\ t.wrote = s.wrote
      /\ t.held = s.held /\ t.state = s.state /\ ~t.ackNow
  BY <1>3, <1>4 DEF Streams
<1>6. NumbersOK(t, p)
  BY <1>1, <1>4, <1>5 DEF EndOK, NumbersOK
<1>7. EndOfStreamOK(t, p) /\ SendRingOK(t)
  BY <1>5 DEF EndOK, EndOfStreamOK, SendRingOK
<1>8. e[2] = "client" => s.held
  BY DEF EndOK, StateOK, NewStream
<1>9. StateOK(e, t)
  BY <1>5, <1>8 DEF EndOK, StateOK
<1>10. Grows(s, t)
  BY <1>1, <1>4, <1>5 DEF Grows
<1>11. ReceivedOK(s, p) => ReceivedOK(t, p)
  BY <1>5 DEF ReceivedOK, Received
<1> QED
  BY <1>4, <1>5, <1>6, <1>7, <1>9, <1>10, <1>11 DEF BecomesOK, EndOK

(* send(): what its segment is, and that it is counted. *)
LEMMA Sends ==
  ASSUME NEW e \in End, NEW s \in Streams, NEW p \in Streams, EndOK(e, s, p), ~Silent(s),
         NEW w, w = Sendable(s), NEW t, t = advanced(s, w.len),
         NEW m, m = segment(e, w, s, s)
  PROVE  /\ BecomesOK(e, s, t, p) /\ t.state = s.state /\ t.asb = s.asb /\ t.held = s.held
         /\ t.sendUna = s.sendUna /\ s.sendMax <= t.sendMax
         /\ m \in Segments /\ m.from = e /\ SegmentOK(m, t)
<1> DEFINE count == w.len - Cardinality(w.flag)
           seq   == IF w.len > 0 THEN s.sendNext ELSE s.sendMax
           next  == s.sendNext + w.len
           flag  == w.flag \union (IF s.state = "SynSent" THEN {} ELSE {"ACK"})
                           \union (IF w.len > 0 /\ w.flag = {} THEN {"PSH"} ELSE {})
           data  == Load(s, count)
           ack   == CASE s.state = "SynSent" -> 0
                      [] s.state = "SynReceived" -> 1
                      [] OTHER -> s.recvNext
<1>1. m = Segment(e, flag, seq, ack, data)
  BY DEF segment
<1>2. s.state \notin {"None", "Closed"} /\ (w.len = 0 => s.ackNow)
  BY DEF Silent
<1>3. SendableOK(s, w, count)
  BY Sendables
<1>4. /\ data \in Seq(Nat) /\ Len(data) = count
      /\ \A i \in 1 .. count : data[i] = s.sendNext - 1 + i
  BY <1>3, Loads
<1> HIDE DEF count, data
<1>6. /\ s.sendUna \in Nat /\ s.sendNext \in Nat /\ s.sendMax \in Nat /\ s.recvNext \in Nat
      /\ s.wrote \in Nat /\ count \in Nat /\ s.sendUna <= s.sendNext
      /\ w.len = count \/ w.len = count + 1
  BY <1>3 DEF Streams, EndOK, NumbersOK, SendableOK
<1>7. w.len \in Nat /\ next \in Nat /\ s.sendUna <= next /\ seq \in Nat /\ 1 <= s.recvNext
  BY <1>6 DEF EndOK, NumbersOK
<1>8. /\ BecomesOK(e, s, t, p) /\ t.state = s.state /\ t.asb = s.asb
      /\ t.sendMax \in Nat /\ s.sendMax <= t.sendMax /\ next <= t.sendMax
      /\ t.recvNext = s.recvNext /\ t.wrote = s.wrote /\ t.shutwr = s.shutwr
      /\ t.sendUna = s.sendUna /\ t.held = s.held
  <2>1. PICK len \in Nat : len = w.len
    BY <1>7
  <2>2. next \in Nat /\ next = s.sendNext + len /\ t = advanced(s, len)
    BY <1>7, <2>1
  <2> HIDE DEF next
  <2> QED
    BY <1>2, <2>2, SentStream
<1>9. flag \in SUBSET Flags
  BY <1>3 DEF SendableOK, Flags
<1>10. ack \in Nat /\ (s.state # "SynSent" => 1 <= ack /\ ack <= s.recvNext)
  BY <1>6, <1>7
<1>11. /\ "ACK" \in flag <=> s.state # "SynSent"
       /\ "SYN" \in flag <=> w.flag = {"SYN"}
       /\ "FIN" \in flag <=> w.flag = {"FIN"}
  BY <1>3 DEF SendableOK
<1>12. s.state = "SynSent" => flag = {"SYN"} /\ e[2] = "client"
  <2>1. SUFFICES ASSUME s.state = "SynSent" PROVE w.flag = {"SYN"} /\ e[2] = "client"
    OBVIOUS
  <2>2. ~s.ackNow /\ e[2] = "client"
    BY <2>1 DEF EndOK, StateOK
  <2>3. w.len # 0
    BY <1>2, <2>2
  <2>4. s.state \notin Synchronized /\ s.state \notin Ending
    BY <2>1 DEF Synchronized, Ending
  <2>5. w.flag = {} => count = 0
    BY <1>3, <1>6, <2>4 DEF SendableOK
  <2>6. w.flag # {}
    BY <1>3, <2>3, <2>5 DEF SendableOK
  <2> QED
    BY <1>3, <2>2, <2>4, <2>6 DEF SendableOK
<1> HIDE DEF flag, ack
<1>13. /\ m \in Segments /\ m.from = e /\ m.flag = flag /\ m.seq = seq /\ m.ack = ack
       /\ m.data = data
  BY <1>1, <1>4, <1>7, <1>9, <1>10 DEF Segment, Segments
<1>14. SegmentLength(m) = w.len
  <2>1. w.flag = {"SYN"} \/ w.flag = {"FIN"} => w.len = count + 1
    BY <1>3 DEF SendableOK
  <2>2. w.flag # {"SYN"} /\ w.flag # {"FIN"} => w.len = count
    BY <1>3 DEF SendableOK
  <2>3. /\ "SYN" \in m.flag /\ "FIN" \notin m.flag => SegmentLength(m) = count + 1
        /\ "SYN" \notin m.flag /\ "FIN" \in m.flag => SegmentLength(m) = count + 1
        /\ "SYN" \notin m.flag /\ "FIN" \notin m.flag => SegmentLength(m) = count
    BY <1>4, <1>13, Lengths
  <2> QED
    BY <1>11, <1>13, <2>1, <2>2, <2>3
<1>15. m.seq + SegmentLength(m) <= t.sendMax
  BY <1>6, <1>7, <1>8, <1>13, <1>14
<1>16. "ACK" \in m.flag => 1 <= m.ack /\ m.ack <= t.recvNext
  BY <1>8, <1>10, <1>11, <1>13
<1>17. "ACK" \notin m.flag => m.flag = {"SYN"} /\ m.from[2] = "client"
  BY <1>11, <1>12, <1>13
<1>18. "SYN" \in m.flag => m.seq = 0 /\ m.data = << >> /\ "FIN" \notin m.flag
  <2>1. SUFFICES ASSUME "SYN" \in m.flag PROVE m.seq = 0 /\ m.data = << >> /\ "FIN" \notin m.flag
    OBVIOUS
  <2>2. w.flag = {"SYN"}
    BY <1>11, <1>13, <2>1
  <2>3. s.sendNext = 0 /\ count = 0 /\ w.len = count + 1
    BY <1>3, <2>2 DEF SendableOK
  <2>4. seq = 0
    BY <2>3
  <2>5. data = << >>
    BY <1>4, <2>3, EmptySeq
  <2> QED
    BY <1>11, <1>13, <2>2, <2>4, <2>5
(* Where the bytes, or the FIN after them, end. *)
<1>19. ASSUME w.flag = {"FIN"} \/ count > 0
       PROVE  /\ seq = s.sendNext /\ 1 <= seq
              /\ \/ seq + count = s.wrote + 1
                 \/ count = 0 /\ seq = s.wrote + 2 /\ s.shutwr
  <2> DEFINE ring == Len(s.sendRing)
  <2>1. seq = s.sendNext
    <3>1. w.flag = {"FIN"} => w.len = count + 1
      BY <1>3 DEF SendableOK
    <3>2. w.len > 0
      BY <1>6, <1>19, <3>1
    <3> QED
      BY <3>2
  <2>2. s.sendNext + count = s.sendUna + ring /\ s.state \in Synchronized
    BY <1>3, <1>19 DEF SendableOK
  <2>3. s.sendUna > 0
    BY <2>2 DEF EndOK, StateOK
  <2>4. \/ s.sendUna + ring = s.wrote + 1
        \/ s.sendRing = << >> /\ s.sendUna = s.wrote + 2 /\ s.shutwr
    BY <2>3 DEF EndOK, SendRingOK
  <2>5. s.sendRing = << >> => ring = 0
    BY EmptySeq
  <2> HIDE DEF ring
  <2>6. CASE s.sendUna + ring = s.wrote + 1
    BY <1>6, <2>1, <2>2, <2>3, <2>6
  <2>7. CASE s.sendRing = << >> /\ s.sendUna = s.wrote + 2 /\ s.shutwr
    BY <1>6, <2>1, <2>2, <2>3, <2>5, <2>7
  <2> QED
    BY <2>4, <2>6, <2>7
<1> HIDE DEF seq, next
<1>20. m.data # << >> => 1 <= m.seq /\ m.seq + Len(m.data) <= t.wrote + 1
  <2>1. m.data # << >> => count > 0
    BY <1>4, <1>6, <1>13, EmptySeq
  <2> QED
    BY <1>4, <1>6, <1>7, <1>8, <1>13, <1>19, <2>1
<1>21. \A i \in 1 .. Len(m.data) : m.data[i] = m.seq - 1 + i
  <2>1. \A i \in 1 .. count : count > 0
    BY <1>6
  <2> QED
    BY <1>4, <1>13, <1>19, <2>1
<1>22. "FIN" \in m.flag => FinOK(m, t)
  <2>1. SUFFICES ASSUME "FIN" \in m.flag PROVE FinOK(m, t)
    OBVIOUS
  <2>2. w.flag = {"FIN"}
    BY <1>11, <1>13, <2>1
  <2>3. s.shutwr
    BY <1>3, <2>2 DEF SendableOK, EndOK, StateOK
  <2>4. count = 0 => m.data = << >>
    BY <1>4, <1>13, EmptySeq
  <2> QED
    BY <1>4, <1>8, <1>13, <1>19, <2>2, <2>3, <2>4 DEF FinOK
<1>23. SegmentOK(m, t)
  BY <1>15, <1>16, <1>17, <1>18, <1>20, <1>21, <1>22 DEF SegmentOK, CarriesOK
<1> QED
  BY <1>8, <1>13, <1>23

(* The timer may make an end send again what is not acknowledged. *)
Resends(s, t) ==
    /\ s.sendUna <= t.sendNext /\ t.sendNext <= s.sendMax
    /\ t.sendUna = s.sendUna /\ t.sendMax = s.sendMax
    /\ t.sendRing = s.sendRing /\ t.recvNext = s.recvNext /\ t.recvRing = s.recvRing
    /\ t.asb = s.asb /\ t.shutwr = s.shutwr /\ t.got = s.got /\ t.wrote = s.wrote
    /\ t.held = s.held /\ t.state = s.state /\ t.ackNow = s.ackNow

LEMMA Resent ==
  ASSUME NEW e \in End, NEW s \in Streams, NEW p \in Streams, EndOK(e, s, p),
         s.state # "None", e[2] = "client" => s.held, NEW t \in Streams, Resends(s, t)
  PROVE  BecomesOK(e, s, t, p)
<1>1. /\ s.sendUna \in Nat /\ s.sendNext \in Nat /\ s.sendMax \in Nat /\ s.recvNext \in Nat
      /\ s.wrote \in Nat
  BY DEF Streams
<1>2. Resends(s, t)
  OBVIOUS
<1>3. NumbersOK(t, p)
  BY <1>1, <1>2 DEF Resends, EndOK, NumbersOK
<1>4. EndOfStreamOK(t, p) /\ SendRingOK(t)
  BY <1>2 DEF Resends, EndOK, EndOfStreamOK, SendRingOK
<1>5. StateOK(e, t)
  BY <1>2 DEF Resends, EndOK, StateOK
<1>6. Grows(s, t)
  BY <1>1, <1>2 DEF Resends, Grows
<1>7. ReceivedOK(s, p) => ReceivedOK(t, p)
  BY <1>2 DEF Resends, ReceivedOK, Received
<1> QED
  BY <1>2, <1>3, <1>4, <1>5, <1>6, <1>7 DEF BecomesOK, EndOK, Resends

(* A client's end that is connected belongs to its application. *)
LEMMA Connected ==
  ASSUME NEW e \in End, NEW s \in Streams, NEW p, EndOK(e, s, p), s.state # "Closed"
  PROVE  e[2] = "client" => s.held
  BY DEF EndOK, StateOK, NewStream

LEMMA Timed ==
  ASSUME NEW s \in Streams
  PROVE  /\ timed(s) \in Streams /\ timed(s).sendNext = s.sendNext
         /\ s.sendUna <= s.sendNext /\ s.sendNext <= s.sendMax => Resends(s, timed(s))
<1> DEFINE b == s.rxmitTimer \/ s.sendNext # s.sendUna
<1>1. b \in BOOLEAN
  BY ZenonT(30)
<1>2. timed(s) = [s EXCEPT !.rxmitTimer = b]
  BY DEF timed, Streams
<1> HIDE DEF b
<1> QED
  BY <1>1, <1>2 DEF Streams, Resends

LEMMA Outputs ==
  ASSUME NEW e \in End, NEW s \in Streams, NEW p \in Streams, EndOK(e, s, p),
         NEW o, o = output(e, s)
  PROVE  OutputOK(e, s, o, p)
<1>1. CASE Silent(s)
  <2>1. o = [s |-> s, seg |-> {}]
    BY <1>1 DEF output
  <2> QED
    BY <2>1, Stays DEF OutputOK
<1>2. CASE ~Silent(s)
  <2> DEFINE w == Sendable(s)
             a == advanced(s, w.len)
             m == segment(e, w, s, s)
             t == timed(a)
  <2>1. o = [s |-> t, seg |-> {m}]
    BY <1>2 DEF output
  <2>2. /\ BecomesOK(e, s, a, p) /\ a.state = s.state /\ a.asb = s.asb /\ a.held = s.held
        /\ m \in Segments /\ m.from = e /\ SegmentOK(m, a)
    BY <1>2, Sends
  <2>3. s.state \notin {"None", "Closed"}
    BY <1>2 DEF Silent
  <2> HIDE DEF m, a
  <2>4. a \in Streams /\ EndOK(e, a, p) /\ (e[2] = "client" => a.held)
    BY <2>2, <2>3, Connected DEF BecomesOK
  <2>5. t \in Streams /\ Resends(a, t)
    BY <2>4, Timed DEF EndOK, NumbersOK
  <2> HIDE DEF t
  <2>6. BecomesOK(e, a, t, p) /\ Grows(a, t) /\ t.state = s.state /\ t.asb = a.asb
    BY <2>2, <2>3, <2>4, <2>5, Resent DEF Resends, BecomesOK
  <2>7. BecomesOK(e, s, t, p)
    BY <2>2, <2>6, BecomesTwice
  <2>8. SegmentOK(m, t)
    BY <2>2, <2>4, <2>5, <2>6, SegmentKept
  <2> QED
    BY <2>1, <2>2, <2>6, <2>7, <2>8 DEF OutputOK
<1> QED
  BY <1>1, <1>2

(* abort(), whatever was set before. *)
LEMMA AbortedAlike ==
  ASSUME NEW e \in End, NEW s \in Streams, NEW p \in Streams, EndOK(e, s, p),
         s.state # "Closed" \/ (e[2] = "client" => s.held),
         NEW u \in Streams, Alike(s, u), NEW seg, seg \subseteq Resets(e)
  PROVE  InputOK(e, s, Result(abort(u), seg, FALSE), p)
<1>1. abort(u) \in Streams /\ abort(u).state = "Closed" /\ Alike(u, abort(u))
  BY Aborts
<1>2. Alike(s, abort(u))
  BY <1>1 DEF Alike
<1>3. BecomesOK(e, s, abort(u), p)
  BY <1>1, <1>2, ClosedEnd, ReceivedAlike DEF BecomesOK, Alike
<1> QED
  BY <1>3 DEF Result, InputOK

(* expired(), up to its output(). *)
LEMMA TimesOut ==
  ASSUME NEW e \in End, NEW z \in Streams, NEW p \in Streams, EndOK(e, z, p),
         z.state # "None", e[2] = "client" => z.held, NEW r, r = timeout(z)
  PROVE  /\ InputOK(e, z, r, p) /\ r.s.state \in {z.state, "Closed"} /\ r.s.asb = z.asb
         /\ r.s.sendUna = z.sendUna /\ r.s.sendMax = z.sendMax /\ r.s.held = z.held
<1> DEFINE s == [z EXCEPT !.rxmitTimer = FALSE]
           u == [s EXCEPT !.err = TRUE]
           t == [s EXCEPT !.rxmitCount = @ + 1, !.sendNext = s.sendUna]
<1>1. r = IF s.state = "TimeWait" THEN Result(abort(s), {}, FALSE)
          ELSE IF s.rxmitCount = R2 THEN Result(abort(u), {}, FALSE)
          ELSE Result(t, {}, TRUE)
  BY DEF timeout
<1>2. s \in Streams /\ u \in Streams /\ Alike(z, s) /\ Alike(z, u)
  BY DEF Streams, Alike
<1>3. z.sendUna \in Nat /\ z.sendUna <= z.sendMax
  BY DEF Streams, EndOK, NumbersOK
<1>4. t \in Streams /\ Resends(z, t)
  <2>1. s \in Streams /\ s.rxmitCount + 1 \in Nat /\ s.sendUna \in Nat
    <3>1. s \in Streams
      BY <1>2
    <3> HIDE DEF s
    <3>2. s.rxmitCount \in Nat /\ s.sendUna \in Nat
      BY <3>1 DEF Streams
    <3> QED
      BY <3>1, <3>2
  <2>2. s.sendUna = z.sendUna /\ s.sendMax = z.sendMax /\ s.state = z.state /\ s.ackNow = z.ackNow
    BY DEF Streams
  <2> HIDE DEF s
  <2>3. t \in Streams
    BY <2>1 DEF Streams
  <2>4. /\ t.sendNext = s.sendUna /\ Alike(s, [t EXCEPT !.sendNext = s.sendNext])
        /\ t.state = s.state /\ t.ackNow = s.ackNow
    BY <2>1 DEF Alike, Streams
  <2>5. /\ t.sendUna = s.sendUna /\ t.sendMax = s.sendMax
        /\ t.sendRing = s.sendRing /\ t.recvNext = s.recvNext /\ t.recvRing = s.recvRing
        /\ t.asb = s.asb /\ t.shutwr = s.shutwr /\ t.got = s.got /\ t.wrote = s.wrote
        /\ t.held = s.held
    BY <2>1 DEF Streams
  <2> HIDE DEF t
  <2> QED
    BY <1>2, <1>3, <2>2, <2>3, <2>4, <2>5 DEF Resends, Alike
<1> HIDE DEF s, u, t
<1>5. ASSUME NEW x \in Streams, Alike(z, x), r = Result(abort(x), {}, FALSE)
      PROVE  /\ InputOK(e, z, r, p) /\ r.s.state \in {z.state, "Closed"} /\ r.s.asb = z.asb
             /\ r.s.sendUna = z.sendUna /\ r.s.sendMax = z.sendMax /\ r.s.held = z.held
  <2>1. InputOK(e, z, Result(abort(x), {}, FALSE), p)
    BY <1>5, AbortedAlike
  <2>2. r.s = abort(x) /\ abort(x).state = "Closed" /\ Alike(x, abort(x))
    BY <1>5, Aborts DEF Result
  <2> QED
    BY <1>5, <2>1, <2>2 DEF Alike
<1>6. ASSUME r = Result(t, {}, TRUE)
      PROVE  /\ InputOK(e, z, r, p) /\ r.s.state \in {z.state, "Closed"} /\ r.s.asb = z.asb
             /\ r.s.sendUna = z.sendUna /\ r.s.sendMax = z.sendMax /\ r.s.held = z.held
  <2>1. r.s = t /\ r.seg = {} /\ r.out = TRUE
    BY <1>6 DEF Result
  <2>2. BecomesOK(e, z, t, p)
    BY <1>4, Resent
  <2> QED
    BY <1>4, <2>1, <2>2 DEF InputOK, Resends
<1> QED
  BY <1>1, <1>2, <1>5, <1>6

(* output() with expired() between the end of its segment and its own end: the   *)
(* number of the interrupted call that is set again is one that it has sent.     *)
LEMMA Interrupted ==
  ASSUME NEW e \in End, NEW s \in Streams, NEW p \in Streams, EndOK(e, s, p), ~Silent(s),
         NEW o, o = interrupted(e, s, "counted")
  PROVE  OutputOK(e, s, o, p)
<1> DEFINE w    == Sendable(s)
           a    == advanced(s, w.len)
           m    == segment(e, w, s, s)
           c    == timeout(a).s
           d    == timed(c)
           next == Max({d.sendNext, s.sendNext})
           left == [d EXCEPT !.sendNext = next]
           again == output(e, left)
<1>1. o = [s |-> again.s, seg |-> {m} \union again.seg]
  BY DEF interrupted
<1>2. /\ BecomesOK(e, s, a, p) /\ a.state = s.state /\ a.asb = s.asb /\ a.held = s.held
      /\ a.sendUna = s.sendUna /\ s.sendMax <= a.sendMax
      /\ m \in Segments /\ m.from = e /\ SegmentOK(m, a)
  BY Sends
<1>3. s.state \notin {"None", "Closed"} /\ (e[2] = "client" => s.held)
  BY Connected DEF Silent
<1> HIDE DEF m, a
<1>4. /\ BecomesOK(e, a, c, p) /\ c.state \in {s.state, "Closed"} /\ c.asb = s.asb
      /\ c.sendUna = s.sendUna /\ c.sendMax = a.sendMax /\ c.held = s.held
  BY <1>2, <1>3, TimesOut DEF BecomesOK, InputOK
<1> HIDE DEF c
<1>5. c \in Streams /\ EndOK(e, c, p)
  BY <1>4 DEF BecomesOK
<1>6. /\ d \in Streams /\ Resends(c, d) /\ d.sendNext = c.sendNext
  BY <1>5, Timed DEF EndOK, NumbersOK
<1> HIDE DEF d
<1>7. next \in Nat /\ c.sendUna <= next /\ next <= c.sendMax
  <2>1. /\ s.sendNext \in Nat /\ s.sendMax \in Nat /\ a.sendMax \in Nat /\ c.sendNext \in Nat
        /\ c.sendUna \in Nat /\ c.sendMax \in Nat
    BY <1>2, <1>5 DEF Streams, BecomesOK
  <2>2. s.sendUna <= s.sendNext /\ s.sendNext <= s.sendMax
    BY DEF EndOK, NumbersOK
  <2>3. c.sendUna <= c.sendNext /\ c.sendNext <= c.sendMax
    BY <1>5 DEF EndOK, NumbersOK
  <2>4. next = IF c.sendNext >= s.sendNext THEN c.sendNext ELSE s.sendNext
    BY <1>6, <2>1, MaxOfTwo
  <2> HIDE DEF next
  <2> QED
    BY <1>2, <1>4, <2>1, <2>2, <2>3, <2>4
<1> HIDE DEF next
<1>8. left \in Streams /\ Resends(c, left)
  BY <1>6, <1>7 DEF Resends, Streams
<1> HIDE DEF left
<1>9. BecomesOK(e, c, left, p) /\ left.asb = c.asb /\ left.state = c.state
  BY <1>3, <1>4, <1>5, <1>8, Resent DEF Resends
<1>10. left \in Streams /\ EndOK(e, left, p)
  BY <1>9 DEF BecomesOK
<1>11. OutputOK(e, left, again, p)
  BY <1>10, Outputs
<1> HIDE DEF again
<1>12. BecomesOK(e, left, again.s, p) /\ again.s.asb = left.asb
       /\ again.s.state \in {left.state, "Closed"}
  BY <1>11 DEF OutputOK
<1>13. a \in Streams /\ again.s \in Streams
  BY <1>2, <1>12 DEF BecomesOK
<1>14. BecomesOK(e, a, again.s, p)
  <2>1. BecomesOK(e, a, left, p)
    BY <1>2, <1>4, <1>9, <1>13, BecomesTwice
  <2> QED
    BY <1>9, <1>12, <1>13, <2>1, BecomesTwice
<1>15. BecomesOK(e, s, again.s, p)
  BY <1>2, <1>14, BecomesTwice
<1>16. SegmentOK(m, again.s)
  BY <1>2, <1>13, <1>14, SegmentKept DEF BecomesOK
<1> QED
  BY <1>1, <1>2, <1>4, <1>9, <1>11, <1>12, <1>15, <1>16 DEF OutputOK

(* Whatever output() makes of what a handler left. *)
LEMMA Outcome ==
  ASSUME "build" \notin Allow, NEW e \in End, NEW s \in Streams, NEW p \in Streams,
         EndOK(e, s, p), NEW r, r.s = s, NEW o \in Outcomes(e, r)
  PROVE  OutputOK(e, s, o, p)
<1>2. \/ o = [s |-> s, seg |-> {}]
      \/ o = output(e, s)
      \/ s.rxmitTimer /\ o = output(e, timeout(s).s)
      \/ ~Silent(s) /\ o = interrupted(e, s, "counted")
  BY DEF Outcomes, Moments
<1>3. CASE o = [s |-> s, seg |-> {}]
  BY <1>3, Stays DEF OutputOK
<1>4. CASE o = output(e, s)
  BY <1>4, Outputs
<1>5. CASE s.rxmitTimer /\ o = output(e, timeout(s).s)
  <2> DEFINE t == timeout(s).s
  <2>1. s.state # "None" /\ (e[2] = "client" => s.held)
    BY <1>5 DEF EndOK, StateOK, NewStream
  <2>2. BecomesOK(e, s, t, p) /\ t.state \in {s.state, "Closed"} /\ t.asb = s.asb
    BY <2>1, TimesOut DEF InputOK
  <2> HIDE DEF t
  <2>3. t \in Streams /\ EndOK(e, t, p)
    BY <2>2 DEF BecomesOK
  <2>4. OutputOK(e, t, o, p)
    BY <1>5, <2>3, Outputs DEF t
  <2>5. BecomesOK(e, s, o.s, p)
    BY <2>2, <2>4, BecomesTwice DEF OutputOK
  <2> QED
    BY <2>2, <2>4, <2>5 DEF OutputOK
<1>6. CASE ~Silent(s) /\ o = interrupted(e, s, "counted")
  BY <1>6, Interrupted
<1> QED
  BY <1>2, <1>3, <1>4, <1>5, <1>6

-----------------------------------------------------------------------------
(* The steps. *)

(* The bytes that were received are in order after a step, too. *)
Kept ==
    /\ "gap" \notin Allow /\ InOrder => InOrder'
    /\ InOrder /\ InOrder' /\ StreamsOK => StreamsOK'

LEMMA OneEnd ==
  ASSUME IndInv, NEW e \in End, NEW t,
         BecomesOK(e, tcb[e], t, tcb[Peer(e)]),
         tcb' = [tcb EXCEPT ![e] = t],
         \A m \in net' : m \in net \/ (m \in Segments /\ m.from = e /\ SegmentOK(m, t)),
         listener' \in Listeners,
         \A c \in ToSet(listener'.accepted) :
            \/ c \in ToSet(listener.accepted)
            \/ e = <<c, "server">> /\ t.state \notin {"None", "SynReceived"}
  PROVE  IndInv' /\ Kept
<1> DEFINE s == tcb[e]
           p == tcb[Peer(e)]
<1>1. /\ tcb \in [End -> Streams] /\ net \subseteq Segments
      /\ EndsOK /\ SegmentsOK /\ AcceptedOK
  BY DEF IndInv, Types
<1>2. /\ Peer(e) \in End /\ Peer(Peer(e)) = e /\ Peer(e) # e
      /\ s \in Streams /\ p \in Streams
  BY <1>1, Peers
<1>3. t \in Streams /\ EndOK(e, t, p) /\ Grows(s, t)
  BY DEF BecomesOK
<1>4. /\ tcb' \in [End -> Streams] /\ tcb'[e] = t
      /\ \A f \in End : f # e => tcb'[f] = tcb[f]
  BY <1>1, <1>3
<1>5. Types'
  <2>1. net' \subseteq Segments
    BY <1>1
  <2> QED
    BY <1>4, <2>1 DEF Types
<1>6. \A f \in End : EndOK(f, tcb'[f], tcb'[Peer(f)])
  <2> SUFFICES ASSUME NEW f \in End PROVE EndOK(f, tcb'[f], tcb'[Peer(f)])
    OBVIOUS
  <2>1. CASE f = e
    BY <1>2, <1>3, <1>4, <2>1
  <2>2. CASE f = Peer(e)
    <3>1. EndOK(f, p, s)
      BY <1>1, <1>2, <2>2 DEF EndsOK
    <3>2. EndOK(f, p, t)
      BY <1>2, <1>3, <3>1, EndKept
    <3> QED
      BY <1>2, <1>4, <2>2, <3>2
  <2>3. CASE f # e /\ f # Peer(e)
    <3>1. Peer(f) \in End /\ Peer(f) # e
      BY <1>2, <2>3, Peers
    <3>2. EndOK(f, tcb[f], tcb[Peer(f)])
      BY <1>1 DEF EndsOK
    <3> QED
      BY <1>4, <2>3, <3>1, <3>2
  <2> QED
    BY <2>1, <2>2, <2>3
<1>7. \A m \in net' : SegmentOK(m, tcb'[m.from])
  <2> SUFFICES ASSUME NEW m \in net' PROVE SegmentOK(m, tcb'[m.from])
    OBVIOUS
  <2>1. CASE m \in net
    <3>1. m \in Segments /\ m.from \in End /\ SegmentOK(m, tcb[m.from])
      BY <1>1, <2>1 DEF SegmentsOK, Segments
    <3>2. CASE m.from = e
      BY <1>2, <1>3, <1>4, <3>1, <3>2, SegmentKept
    <3>3. CASE m.from # e
      BY <1>4, <3>1, <3>3
    <3> QED
      BY <3>2, <3>3
  <2>2. CASE m \notin net
    BY <1>4, <2>2
  <2> QED
    BY <2>1, <2>2
<1>8. \A c \in ToSet(listener'.accepted) : tcb'[<<c, "server">>].state \notin {"None", "SynReceived"}
  <2> SUFFICES ASSUME NEW c \in ToSet(listener'.accepted)
               PROVE  tcb'[<<c, "server">>].state \notin {"None", "SynReceived"}
    OBVIOUS
  <2>1. listener'.accepted \in Seq(Clients)
    BY DEF Listeners
  <2>2. c \in Clients
    BY <2>1, ListElements
  <2>3. <<c, "server">> \in End
    BY <2>2 DEF End
  <2>4. CASE c \in ToSet(listener.accepted)
    <3>1. tcb[<<c, "server">>].state \notin {"None", "SynReceived"}
      BY <1>1, <2>4 DEF AcceptedOK
    <3> QED
      BY <1>3, <1>4, <2>3, <3>1 DEF Grows
  <2>5. CASE e = <<c, "server">> /\ t.state \notin {"None", "SynReceived"}
    BY <1>4, <2>5
  <2> QED
    BY <2>4, <2>5
<1>9. IndInv'
  BY <1>5, <1>6, <1>7, <1>8 DEF IndInv, EndsOK, SegmentsOK, AcceptedOK
<1>10. ASSUME InOrder, InOrder', StreamsOK
       PROVE  \A f \in End : ReceivedOK(tcb'[f], tcb'[Peer(f)])
  <2> SUFFICES ASSUME NEW f \in End PROVE ReceivedOK(tcb'[f], tcb'[Peer(f)])
    OBVIOUS
  <2>0. ReceivedOK(tcb[f], tcb[Peer(f)])
    BY <1>10 DEF StreamsOK
  <2>1. CASE f = e
    <3>1. DOMAIN s.asb = {}
      BY <1>10 DEF InOrder
    <3>2. DOMAIN tcb'[e].asb = {}
      BY <1>10 DEF InOrder
    <3>3. ReceivedOK(t, p)
      BY <1>4, <2>0, <2>1, <3>1, <3>2 DEF BecomesOK
    <3> QED
      BY <1>2, <1>4, <2>1, <3>3
  <2>2. CASE f = Peer(e)
    <3>1. EndOK(f, p, s) /\ ReceivedOK(p, s)
      BY <1>1, <1>2, <2>0, <2>2 DEF EndsOK
    <3>2. ReceivedOK(p, t)
      BY <1>2, <1>3, <3>1, ReceivedKept
    <3> QED
      BY <1>2, <1>4, <2>2, <3>2
  <2>3. CASE f # e /\ f # Peer(e)
    <3>1. Peer(f) \in End /\ Peer(f) # e
      BY <1>2, <2>3, Peers
    <3> QED
      BY <1>4, <2>0, <2>3, <3>1
  <2> QED
    BY <2>1, <2>2, <2>3
<1>11. ASSUME "gap" \notin Allow, InOrder
       PROVE  \A f \in End : DOMAIN tcb'[f].asb = {}
  <2>1. \A f \in End : DOMAIN tcb[f].asb = {}
    BY <1>11 DEF InOrder
  <2>2. DOMAIN t.asb = {}
    BY <1>11, <2>1 DEF BecomesOK
  <2> QED
    BY <1>4, <2>1, <2>2
<1> QED
  BY <1>9, <1>10, <1>11 DEF Kept, StreamsOK, InOrder

(* Leave(): what a handler left, and what output() makes of it. *)
LEMMA Leaves ==
  ASSUME IndInv, "build" \notin Allow, NEW e \in End, NEW r, NEW flying \in SUBSET net, NEW l \in Listeners,
         InputOK(e, tcb[e], r, tcb[Peer(e)]),
         Leave(e, r, flying, l),
         \A c \in ToSet(l.accepted) :
            \/ c \in ToSet(listener.accepted)
            \/ e = <<c, "server">> /\ r.s.state \notin {"None", "SynReceived"}
  PROVE  IndInv' /\ Kept
<1> DEFINE s == tcb[e]
           p == tcb[Peer(e)]
<1>1. s \in Streams /\ p \in Streams /\ Peer(e) \in End
  BY Peers DEF IndInv, Types
<1>2. /\ BecomesOK(e, s, r.s, p) /\ r.s \in Streams /\ EndOK(e, r.s, p)
      /\ r.seg \subseteq Resets(e)
  BY DEF InputOK, BecomesOK
<1>3. PICK o \in Outcomes(e, r) :
        /\ tcb' = [tcb EXCEPT ![e] = o.s]
        /\ net' = Carry(flying, r.seg \union o.seg)
        /\ listener' = IF o.s.state = "Closed"
                       THEN [l EXCEPT !.accepted = Only(@, Clients \ {e[1]})] ELSE l
  BY DEF Leave
<1>4. OutputOK(e, r.s, o, p)
  BY <1>1, <1>2, Outcome
<1>5. BecomesOK(e, s, o.s, p) /\ o.s.state \in {r.s.state, "Closed"}
  BY <1>1, <1>2, <1>4, BecomesTwice DEF OutputOK
<1>6. \A m \in net' : m \in net \/ (m \in Segments /\ m.from = e /\ SegmentOK(m, o.s))
  <2>1. net' \subseteq flying \union (r.seg \union o.seg)
    BY <1>3 DEF Carry
  <2>2. \A m \in r.seg : m \in Segments /\ m.from = e /\ SegmentOK(m, o.s)
    BY <1>2 DEF Resets, SegmentOK
  <2>3. \A m \in o.seg : m \in Segments /\ m.from = e /\ SegmentOK(m, o.s)
    BY <1>4 DEF OutputOK
  <2> QED
    BY <2>1, <2>2, <2>3
<1>7. listener' \in Listeners /\ ToSet(listener'.accepted) \subseteq ToSet(l.accepted)
  <2> DEFINE q == Only(l.accepted, Clients \ {e[1]})
  <2>1. l.accepted \in Seq(Clients)
    BY DEF Listeners
  <2>2. q \in Seq(Clients) /\ ToSet(q) \subseteq ToSet(l.accepted)
    BY <2>1, OnlyLists
  <2>3. listener' = l \/ listener' = [l EXCEPT !.accepted = q]
    BY <1>3 DEF Listeners
  <2> HIDE DEF q
  <2> QED
    BY <2>2, <2>3 DEF Listeners
<1>8. \A c \in ToSet(listener'.accepted) :
         \/ c \in ToSet(listener.accepted)
         \/ e = <<c, "server">> /\ o.s.state \notin {"None", "SynReceived"}
  BY <1>5, <1>7
<1> QED
  BY <1>3, <1>5, <1>6, <1>7, <1>8, OneEnd

(* An action that makes one end into r.s and leaves the listening socket alone. *)
LEMMA LeavesAlone ==
  ASSUME IndInv, "build" \notin Allow, NEW e \in End, NEW r, NEW flying \in SUBSET net,
         InputOK(e, tcb[e], r, tcb[Peer(e)]),
         Leave(e, r, flying, listener)
  PROVE  IndInv' /\ Kept
  BY Leaves DEF IndInv, Types

(* What every action on end e starts with. *)
LEMMA Starts ==
  ASSUME IndInv, NEW e \in End
  PROVE  /\ tcb[e] \in Streams /\ tcb[Peer(e)] \in Streams /\ Peer(e) \in End
         /\ EndOK(e, tcb[e], tcb[Peer(e)]) /\ EndOK(Peer(e), tcb[Peer(e)], tcb[e])
         /\ listener \in Listeners
<1>1. Peer(e) \in End /\ Peer(Peer(e)) = e
  BY Peers
<1>2. EndOK(e, tcb[e], tcb[Peer(e)])
  BY DEF IndInv, EndsOK
<1>3. EndOK(Peer(e), tcb[Peer(e)], tcb[Peer(Peer(e))])
  BY <1>1 DEF IndInv, EndsOK
<1> QED
  BY <1>1, <1>2, <1>3 DEF IndInv, Types

LEMMA StepInput ==
  ASSUME IndInv, "build" \notin Allow, NEW m \in net, Input(m)
  PROVE  IndInv' /\ Kept
<1> DEFINE e == Peer(m.from)
           r == input(e, tcb[e], m)
           l == IF tcb[e].state = "SynReceived" /\ r.s.state \in {"Established", "CloseWait"}
                THEN [listener EXCEPT !.parConn = @ - 1, !.pendingConn = @ + 1,
                                      !.accepted = Append(@, e[1])]
                ELSE listener
<1>1. m \in Segments /\ m.from \in End /\ SegmentOK(m, tcb[m.from])
  BY DEF IndInv, Types, SegmentsOK, Segments
<1>2. e \in End /\ Peer(e) = m.from
  BY <1>1, Peers
<1>3. tcb[e].state # "None" /\ InTurn(tcb[e], m)
  BY DEF Input, InTurn
<1>4. PICK flying \in Taken(m) : Leave(e, r, flying, l)
  BY DEF Input
<1>5. flying \in SUBSET net
  BY DEF Taken
<1> HIDE DEF e
<1>6. InputOK(e, tcb[e], r, tcb[Peer(e)])
  BY <1>1, <1>2, <1>3, Starts, Inputs
<1> HIDE DEF r
<1>7. e[1] \in Clients /\ e \in End /\ listener \in Listeners
  BY <1>2, Peers, Starts
<1>8. CASE tcb[e].state = "SynReceived" /\ r.s.state \in {"Established", "CloseWait"}
  <2> DEFINE q == Append(listener.accepted, e[1])
  <2>1. q \in Seq(Clients) /\ ToSet(q) = ToSet(listener.accepted) \cup {e[1]}
    BY <1>7, AppendLists DEF Listeners
  <2> DEFINE i == listener.parConn - 1
             j == listener.pendingConn + 1
  <2>2. l = [listener EXCEPT !.parConn = i, !.pendingConn = j, !.accepted = q]
    BY <1>7, <1>8 DEF Listeners
  <2>3. l \in Listeners /\ l.accepted = q
    <3>1. i \in Int /\ j \in Int /\ q \in Seq(Clients)
      BY <1>7, <2>1 DEF Listeners
    <3> HIDE DEF i, j, q, l
    <3> QED
      BY <1>7, <2>2, <3>1 DEF Listeners
  <2> HIDE DEF q, l
  <2>4. e = <<e[1], "server">>
    <3>1. e[2] = "server"
      BY <1>2, <1>8, Starts DEF EndOK, StateOK
    <3> QED
      BY <1>2, <3>1, Peers
  <2>5. \A c \in ToSet(l.accepted) :
           \/ c \in ToSet(listener.accepted)
           \/ e = <<c, "server">> /\ r.s.state \notin {"None", "SynReceived"}
    BY <1>8, <2>1, <2>3, <2>4
  <2> QED
    BY <1>2, <1>4, <1>5, <1>6, <2>3, <2>5, Leaves
<1>9. CASE ~(tcb[e].state = "SynReceived" /\ r.s.state \in {"Established", "CloseWait"})
  <2>1. l = listener
    BY <1>9
  <2> QED
    BY <1>2, <1>4, <1>5, <1>6, <2>1, LeavesAlone
<1> QED
  BY <1>8, <1>9

(* The StreamReceiver a SYN makes. *)
Clone(m) == [NewStream("SynReceived") EXCEPT !.recvNext = m.seq + 1]

LEMMA Cloned ==
  ASSUME NEW e \in End, NEW s \in Streams, NEW p \in Streams, EndOK(e, s, p),
         s.state = "None", NEW m \in Segments, CarriesOK(m, p), "SYN" \in m.flag,
         NEW t, t = Clone(m)
  PROVE  BecomesOK(e, s, t, p) /\ t.asb = s.asb /\ t.state = "SynReceived"
<1>1. s = NewStream("None") /\ e[2] = "server"
  BY DEF EndOK, StateOK
<1>2. m.seq = 0
  BY DEF CarriesOK
<1>3. t = NewStream("SynReceived")
  BY <1>2 DEF Clone, NewStream
<1>4. t \in Streams /\ t.state = "SynReceived"
  BY <1>3, Constructed DEF States, NewStream
<1>5. Alike(s, t)
  BY <1>1, <1>3 DEF NewStream, Alike
<1>6. NumbersOK(t, p) /\ EndOfStreamOK(t, p) /\ SendRingOK(t)
  BY <1>4, <1>5 DEF EndOK, NumbersOK, EndOfStreamOK, SendRingOK, Alike, Ended
<1>7. t.held = FALSE /\ t.sendUna = 0 /\ t.wrote = 0 /\ t.shutwr = FALSE
  BY <1>3 DEF NewStream
<1>8. StateOK(e, t)
  BY <1>1, <1>4, <1>7 DEF StateOK, Early, Synchronized, Ending
<1>9. s.recvNext \in Nat /\ s.sendMax \in Nat /\ s.wrote \in Nat
  BY DEF Streams
<1>10. Grows(s, t)
  BY <1>5, <1>9 DEF Grows, Alike
<1> QED
  BY <1>4, <1>5, <1>6, <1>8, <1>10, ReceivedAlike DEF BecomesOK, EndOK, Alike

LEMMA StepListenInput ==
  ASSUME IndInv, "build" \notin Allow, NEW m \in net, ListenInput(m)
  PROVE  IndInv' /\ Kept
<1> DEFINE e    == Peer(m.from)
           full == listener.parConn + listener.pendingConn >= Backlog
           s    == Clone(m)
           l    == IF full THEN listener ELSE counted(listener)
           r    == IF "RST" \in m.flag \/ ("ACK" \notin m.flag /\ "SYN" \notin m.flag)
                   THEN Result(tcb[e], {}, FALSE)
                   ELSE IF "ACK" \in m.flag THEN Result(tcb[e], sendReset(e, m), FALSE)
                   ELSE IF full THEN Result(abort(s), {}, FALSE)
                   ELSE SynReceivedInput(e, s, m)
           k    == IF r.s.state = "None" THEN listener ELSE l
<1>1. m \in Segments /\ m.from \in End /\ SegmentOK(m, tcb[m.from])
  BY DEF IndInv, Types, SegmentsOK, Segments
<1>2. e \in End /\ Peer(e) = m.from
  BY <1>1, Peers
<1>3. tcb[e].state = "None"
  BY DEF ListenInput
<1>4. PICK flying \in Taken(m) : Leave(e, r, flying, k)
  BY DEF ListenInput, Clone
<1>5. flying \in SUBSET net
  BY DEF Taken
<1> HIDE DEF e, full, s
<1>6. k \in Listeners /\ k.accepted = listener.accepted
  <2>1. listener \in Listeners
    BY <1>2, Starts
  <2>2. k = listener \/ k = counted(listener)
    OBVIOUS
  <2> HIDE DEF k
  <2> QED
    BY <2>1, <2>2 DEF Listeners, counted
<1> HIDE DEF k
<1> DEFINE p == tcb[Peer(e)]
<1>7. /\ tcb[e] \in Streams /\ p \in Streams /\ Peer(e) \in End
      /\ EndOK(e, tcb[e], p) /\ EndOK(Peer(e), p, tcb[e]) /\ SegmentOK(m, p)
  BY <1>1, <1>2, Starts
<1>8. InputOK(e, tcb[e], r, p)
  <2>1. CASE "RST" \in m.flag \/ ("ACK" \notin m.flag /\ "SYN" \notin m.flag)
    <3>1. r = Result(tcb[e], {}, FALSE)
      BY <2>1
    <3> HIDE DEF r
    <3>2. BecomesOK(e, tcb[e], tcb[e], p)
      BY <1>2, <1>7, Stays
    <3> QED
      BY <3>1, <3>2 DEF Result, InputOK
  <2>2. CASE "RST" \notin m.flag /\ "ACK" \in m.flag
    <3>1. r = Result(tcb[e], sendReset(e, m), FALSE)
      BY <2>2
    <3> HIDE DEF r
    <3>2. BecomesOK(e, tcb[e], tcb[e], p) /\ sendReset(e, m) \subseteq Resets(e)
      BY <1>1, <1>2, <1>7, Stays, ResetsSent
    <3> QED
      BY <3>1, <3>2 DEF Result, InputOK
  <2>3. CASE "RST" \notin m.flag /\ "ACK" \notin m.flag /\ "SYN" \in m.flag
    <3>1. CarriesOK(m, p)
      BY <1>7, <2>3 DEF SegmentOK
    <3>2. BecomesOK(e, tcb[e], s, p) /\ s.asb = tcb[e].asb /\ s.state = "SynReceived"
      BY <1>1, <1>2, <1>3, <1>7, <2>3, <3>1, Cloned DEF s
    <3>3. s \in Streams /\ EndOK(e, s, p)
      BY <3>2 DEF BecomesOK
    <3>4. EndOK(Peer(e), p, s)
      BY <1>7, <3>2, <3>3, EndKept DEF BecomesOK
    <3>5. CASE full
      <4>1. r = Result(abort(s), {}, FALSE)
        BY <2>3, <3>5
      <4> HIDE DEF r
      <4>2. BecomesOK(e, s, abort(s), p)
        BY <1>2, <1>7, <3>2, <3>3, Aborted
      <4>3. BecomesOK(e, tcb[e], abort(s), p)
        BY <1>7, <3>2, <4>2, BecomesTwice
      <4> QED
        BY <4>1, <4>3 DEF Result, InputOK
    <3>6. CASE ~full
      <4>1. r = SynReceivedInput(e, s, m)
        BY <2>3, <3>6
      <4> HIDE DEF r
      <4>4. InTurn(s, m)
        BY <2>3, <3>1 DEF CarriesOK, InTurn
      <4>2. InputOK(e, s, r, p)
        BY <1>1, <1>2, <1>7, <3>2, <3>3, <3>4, <4>1, <4>4, SynReceivedInputs
      <4>3. BecomesOK(e, tcb[e], r.s, p)
        BY <1>7, <3>2, <4>2, BecomesTwice DEF InputOK
      <4> QED
        BY <4>2, <4>3 DEF InputOK
    <3> QED
      BY <3>5, <3>6
  <2> QED
    BY <2>1, <2>2, <2>3
<1> HIDE DEF r
<1> QED
  BY <1>2, <1>4, <1>5, <1>6, <1>8, Leaves

LEMMA StepLose ==
  ASSUME IndInv, NEW m \in net, Lose(m)
  PROVE  IndInv' /\ Kept
<1>1. net' \subseteq net /\ tcb' = tcb /\ listener' = listener
  BY DEF Lose
<1>2. Types' /\ EndsOK' /\ SegmentsOK' /\ AcceptedOK'
  BY <1>1 DEF IndInv, Types, EndsOK, SegmentsOK, AcceptedOK
<1>3. (StreamsOK => StreamsOK') /\ (InOrder => InOrder')
  BY <1>1 DEF StreamsOK, InOrder
<1> QED
  BY <1>2, <1>3 DEF IndInv, Kept

LEMMA StepError ==
  ASSUME IndInv, "build" \notin Allow, NEW e \in End, Error(e)
  PROVE  IndInv' /\ Kept
<1> DEFINE u == [tcb[e] EXCEPT !.err = TRUE]
           r == Result(abort(u), {}, FALSE)
<1>1. tcb[e].state # "Closed" /\ Leave(e, r, net, listener)
  BY DEF Error
<1>2. u \in Streams /\ Alike(tcb[e], u)
  <2>1. PICK s \in Streams : s = tcb[e]
    BY Starts
  <2>2. [s EXCEPT !.err = TRUE] \in Streams
    BY DEF Streams
  <2> QED
    BY <2>1, <2>2 DEF Streams, Alike
<1> HIDE DEF u
<1>3. InputOK(e, tcb[e], r, tcb[Peer(e)])
  BY <1>1, <1>2, Starts, AbortedAlike
<1> HIDE DEF r
<1> QED
  BY <1>1, <1>3, LeavesAlone

(* The timer goes off between two calls. *)
LEMMA StepExpired ==
  ASSUME IndInv, "build" \notin Allow, NEW e \in End, expired(e)
  PROVE  IndInv' /\ Kept
<1> DEFINE z == tcb[e]
<1>1. z.state # "Closed" /\ z.rxmitTimer /\ Leave(e, timeout(z), net, listener)
  BY DEF expired
<1>2. z \in Streams /\ EndOK(e, z, tcb[Peer(e)]) /\ tcb[Peer(e)] \in Streams
  BY Starts
<1>3. z.state # "None"
  BY <1>1, <1>2 DEF EndOK, StateOK, NewStream
<1> HIDE DEF z
<1>4. InputOK(e, z, timeout(z), tcb[Peer(e)])
  BY <1>1, <1>2, <1>3, Connected, TimesOut
<1> QED
  BY <1>1, <1>4, LeavesAlone DEF z

LEMMA StepConnect ==
  ASSUME IndInv, "build" \notin Allow, NEW e \in End, connect(e)
  PROVE  IndInv' /\ Kept
<1> DEFINE s == tcb[e]
           p == tcb[Peer(e)]
           t == [NewStream("SynSent") EXCEPT !.held = TRUE]
           r == Result(t, {}, TRUE)
<1>1. e[2] = "client" /\ ~s.held /\ Leave(e, r, net, listener)
  BY DEF connect
<1>2. s \in Streams /\ EndOK(e, s, p) /\ p \in Streams
  BY Starts
<1>3. s = NewStream("Closed")
  BY <1>1, <1>2 DEF EndOK, StateOK
<1>4. t \in Streams
  <2>1. PICK n \in Streams : n = NewStream("SynSent")
    BY Constructed DEF States
  <2>2. [n EXCEPT !.held = TRUE] \in Streams
    BY DEF Streams
  <2> QED
    BY <2>1, <2>2
<1>5. /\ s.sendUna = 0 /\ s.sendNext = 0 /\ s.sendMax = 0 /\ s.recvNext = 1 /\ s.wrote = 0
      /\ s.got = << >> /\ s.recvRing = << >> /\ s.asb = << >> /\ s.sendRing = << >>
      /\ s.shutwr = FALSE
      /\ t.sendUna = 0 /\ t.sendNext = 0 /\ t.sendMax = 0 /\ t.recvNext = 1 /\ t.wrote = 0
      /\ t.got = << >> /\ t.recvRing = << >> /\ t.asb = << >> /\ t.sendRing = << >>
      /\ t.shutwr = FALSE /\ t.held = TRUE /\ t.state = "SynSent" /\ t.ackNow = FALSE
  BY <1>3 DEF NewStream
<1> HIDE DEF s, p, t
<1>6. NumbersOK(t, p) /\ SendRingOK(t)
  BY <1>2, <1>5 DEF EndOK, NumbersOK, SendRingOK
<1>7. EndOfStreamOK(t, p)
  <2>1. p.wrote \in Nat
    BY <1>2 DEF Streams
  <2> QED
    BY <1>5, <2>1 DEF EndOfStreamOK, Ended
<1>8. StateOK(e, t)
  BY <1>1, <1>5 DEF StateOK, Early, Ending, Synchronized
<1>9. Grows(s, t)
  BY <1>5 DEF Grows
<1>10. ReceivedOK(s, p) => ReceivedOK(t, p)
  BY <1>5 DEF ReceivedOK, Received
<1>11. InputOK(e, s, r, p)
  BY <1>4, <1>5, <1>6, <1>7, <1>8, <1>9, <1>10 DEF Result, InputOK, BecomesOK, EndOK
<1> HIDE DEF r
<1> QED
  BY <1>1, <1>11, LeavesAlone DEF s, p

LEMMA StepAccept ==
  ASSUME IndInv, accept
  PROVE  IndInv' /\ Kept
<1> DEFINE q == listener.accepted
           c == Head(q)
           e == <<c, "server">>
           s == tcb[e]
           p == tcb[Peer(e)]
           t == [s EXCEPT !.held = TRUE]
<1>1. /\ q # << >> /\ net' = net
      /\ tcb' = [tcb EXCEPT ![e].held = TRUE]
      /\ listener' = [listener EXCEPT !.pendingConn = @ - 1, !.accepted = Tail(@)]
  BY DEF accept
<1>2. listener \in Listeners /\ q \in Seq(Clients)
  BY DEF IndInv, Types, Listeners
<1>3. /\ c \in Clients /\ Tail(q) \in Seq(Clients)
      /\ c \in ToSet(q) /\ ToSet(Tail(q)) \subseteq ToSet(q)
  <2>1. /\ c \in Clients /\ Tail(q) \in Seq(Clients) /\ Len(Tail(q)) = Len(q) - 1
        /\ \A i \in 1 .. Len(Tail(q)) : Tail(q)[i] = q[i + 1]
    BY <1>1, <1>2, HeadTailProperties
  <2>2. Len(q) \in Nat /\ Len(q) # 0
    BY <1>1, <1>2, EmptySeq, LenProperties
  <2>3. c = q[1]
    BY <1>2
  <2>4. c \in ToSet(q)
    BY <1>2, <2>2, <2>3, ListElements
  <2>5. ToSet(Tail(q)) \subseteq ToSet(q)
    <3> SUFFICES ASSUME NEW x \in ToSet(Tail(q)) PROVE x \in ToSet(q)
      OBVIOUS
    <3>1. PICK i \in 1 .. Len(Tail(q)) : Tail(q)[i] = x
      BY <2>1, ListElements
    <3>2. i + 1 \in 1 .. Len(q) /\ q[i + 1] = x
      BY <2>1, <2>2, <3>1
    <3> QED
      BY <1>2, <3>2, ListElements
  <2> QED
    BY <2>1, <2>4, <2>5
<1>4. e \in End /\ e[2] = "server"
  BY <1>3 DEF End
<1>5. s.state \notin {"None", "SynReceived"}
  BY <1>3 DEF IndInv, AcceptedOK
<1> HIDE DEF e
<1>6. s \in Streams /\ p \in Streams /\ EndOK(e, s, p) /\ tcb \in [End -> Streams]
  BY <1>4, Starts DEF IndInv, Types
<1>7. tcb' = [tcb EXCEPT ![e] = t]
  BY <1>1, <1>4, <1>6
<1>8. /\ t \in Streams /\ t.sendUna = s.sendUna /\ t.sendNext = s.sendNext /\ t.sendMax = s.sendMax
      /\ t.sendRing = s.sendRing /\ t.recvNext = s.recvNext /\ t.recvRing = s.recvRing
      /\ t.asb = s.asb /\ t.shutwr = s.shutwr /\ t.got = s.got /\ t.wrote = s.wrote
      /\ t.state = s.state /\ t.ackNow = s.ackNow
  BY <1>6 DEF Streams
<1> HIDE DEF s, p, t
<1>9. NumbersOK(t, p) /\ EndOfStreamOK(t, p) /\ SendRingOK(t)
  BY <1>6, <1>8 DEF EndOK, NumbersOK, EndOfStreamOK, SendRingOK
<1>10. StateOK(e, t)
  BY <1>4, <1>5, <1>6, <1>8 DEF EndOK, StateOK
<1>11. s.recvNext \in Nat /\ s.sendMax \in Nat /\ s.wrote \in Nat
  BY <1>6 DEF Streams
<1>12. Grows(s, t)
  BY <1>8, <1>11 DEF Grows
<1>13. ReceivedOK(s, p) => ReceivedOK(t, p)
  BY <1>8 DEF ReceivedOK, Received
<1>14. BecomesOK(e, s, t, p)
  BY <1>8, <1>9, <1>10, <1>12, <1>13 DEF BecomesOK, EndOK
<1>15. listener' \in Listeners /\ ToSet(listener'.accepted) \subseteq ToSet(q)
  <2> DEFINE j == listener.pendingConn - 1
             a == Tail(q)
  <2>1. listener' = [listener EXCEPT !.pendingConn = j, !.accepted = a] /\ j \in Int
    BY <1>1, <1>2 DEF Listeners
  <2>2. a \in Seq(Clients) /\ ToSet(a) \subseteq ToSet(q)
    BY <1>3
  <2> HIDE DEF j, a
  <2> QED
    BY <1>2, <2>1, <2>2 DEF Listeners
<1> QED
  BY <1>1, <1>4, <1>7, <1>14, <1>15, OneEnd DEF s, p

(* An end that its application may use. *)
LEMMA Uses ==
  ASSUME NEW e \in End, NEW s \in Streams, NEW p \in Streams, EndOK(e, s, p),
         s.held, s.state \notin {"Closed", "SynSent"}
  PROVE  s.state \in Synchronized /\ s.sendUna > 0
<1>1. s.state \notin {"None", "SynReceived"}
  BY DEF EndOK, StateOK
<1>2. s.state \in Synchronized
  BY <1>1 DEF Streams, States, Synchronized
<1> QED
  BY <1>2 DEF EndOK, StateOK

LEMMA OneMore ==
  ASSUME NEW u \in Nat, NEW o \in Nat, NEW w \in Nat, NEW n, u + o = w + 1, n = o + 1
  PROVE  u + n = w + 2 /\ u - 1 + n = w + 1
  OBVIOUS

(* One more byte. *)
LEMMA Writes ==
  ASSUME NEW e \in End, NEW s \in Streams, NEW p \in Streams, EndOK(e, s, p),
         s.state \in Synchronized, s.sendUna > 0, s.held, ~s.shutwr, NEW t,
         NEW ring, ring = Append(s.sendRing, s.wrote + 1),
         t = [s EXCEPT !.wrote = s.wrote + 1, !.sendRing = ring]
  PROVE  BecomesOK(e, s, t, p)
<1> DEFINE old == Len(s.sendRing)
           n   == Len(ring)
<1>1. /\ s.sendUna \in Nat /\ s.sendNext \in Nat /\ s.sendMax \in Nat /\ s.recvNext \in Nat
      /\ s.wrote \in Nat /\ s.wrote + 1 \in Nat /\ s.sendRing \in Seq(Nat)
  <2>1. /\ s.sendUna \in Nat /\ s.sendNext \in Nat /\ s.sendMax \in Nat /\ s.recvNext \in Nat
        /\ s.wrote \in Nat /\ s.sendRing \in Seq(Nat)
    BY DEF Streams
  <2> QED
    BY <2>1
<1>2. old \in Nat
  BY <1>1, LenProperties
<1>3. /\ ring \in Seq(Nat) /\ n = old + 1 /\ ring[old + 1] = s.wrote + 1
      /\ \A i \in 1 .. old : ring[i] = s.sendRing[i]
  BY <1>1, AppendProperties
<1>4. /\ t \in Streams /\ t.sendUna = s.sendUna /\ t.sendNext = s.sendNext
      /\ t.sendMax = s.sendMax /\ t.sendRing = ring /\ t.recvNext = s.recvNext
      /\ t.recvRing = s.recvRing /\ t.asb = s.asb /\ t.shutwr = s.shutwr /\ t.got = s.got
      /\ t.wrote = s.wrote + 1 /\ t.held = s.held /\ t.state = s.state /\ t.ackNow = s.ackNow
  BY <1>1, <1>3 DEF Streams
<1>5. /\ s.sendUna + old = s.wrote + 1
      /\ \A i \in 1 .. old : s.sendRing[i] = s.sendUna - 1 + i
  BY DEF EndOK, SendRingOK
<1> HIDE DEF old, n
<1>6. \A i \in 1 .. n : ring[i] = s.sendUna - 1 + i
  <2> SUFFICES ASSUME NEW i \in 1 .. old + 1 PROVE ring[i] = s.sendUna - 1 + i
    BY <1>3
  <2>1. CASE i = old + 1
    <3>1. s.sendUna - 1 + i = s.wrote + 1
      BY <1>1, <1>2, <1>5, <2>1, OneMore
    <3>2. ring[i] = s.wrote + 1
      BY <1>3, <2>1
    <3> QED
      BY <3>1, <3>2
  <2>2. CASE i # old + 1
    <3>1. i \in 1 .. old
      BY <1>2, <2>2
    <3> QED
      BY <1>3, <1>5, <3>1
  <2> QED
    BY <2>1, <2>2
<1>7. s.sendUna + n = s.wrote + 2
  BY <1>1, <1>2, <1>3, <1>5, OneMore
<1>8. SendRingOK(t)
  <2>1. t.sendUna + Len(t.sendRing) = t.wrote + 1
    <3>1. t.wrote + 1 = s.wrote + 2
      BY <1>1, <1>4
    <3> QED
      BY <1>4, <1>7, <3>1 DEF n
  <2>2. \A i \in 1 .. Len(t.sendRing) : t.sendRing[i] = t.sendUna - 1 + i
    BY <1>4, <1>6 DEF n
  <2>3. ~(t.sendUna = 0)
    BY <1>1, <1>4
  <2> QED
    BY <2>1, <2>2, <2>3 DEF SendRingOK
<1>9. NumbersOK(t, p) /\ EndOfStreamOK(t, p)
  BY <1>4 DEF EndOK, NumbersOK, EndOfStreamOK
<1>10. StateOK(e, t)
  BY <1>4 DEF EndOK, StateOK, Synchronized, Early
<1>11. Grows(s, t)
  BY <1>1, <1>4 DEF Grows
<1>12. ReceivedOK(s, p) => ReceivedOK(t, p)
  BY <1>4 DEF ReceivedOK, Received
<1> QED
  BY <1>4, <1>8, <1>9, <1>10, <1>11, <1>12 DEF BecomesOK, EndOK

LEMMA StepWrite ==
  ASSUME IndInv, "build" \notin Allow, NEW e \in End, write(e)
  PROVE  IndInv' /\ Kept
<1> DEFINE s == tcb[e]
           p == tcb[Peer(e)]
           t == [s EXCEPT !.wrote = @ + 1, !.sendRing = Append(@, s.wrote + 1)]
           r == Result(t, {}, TRUE)
<1>1. /\ s.held /\ s.state \notin {"Closed", "SynSent"} /\ ~s.shutwr
      /\ Leave(e, r, net, listener)
  BY DEF write, InUse
<1>2. s \in Streams /\ EndOK(e, s, p) /\ p \in Streams
  BY Starts
<1>3. t = [s EXCEPT !.wrote = s.wrote + 1, !.sendRing = Append(s.sendRing, s.wrote + 1)]
  BY <1>2 DEF Streams
<1>4. s.state \in Synchronized /\ s.sendUna > 0
  BY <1>1, <1>2, Uses
<1> HIDE DEF s, p, t
<1>5. BecomesOK(e, s, t, p)
  BY <1>1, <1>2, <1>3, <1>4, Writes
<1>6. InputOK(e, s, r, p)
  BY <1>5 DEF Result, InputOK
<1> HIDE DEF r
<1> QED
  BY <1>1, <1>6, LeavesAlone DEF s, p

(* The first byte of recvRing becomes the last one that was read. *)
LEMMA HeadMoves ==
  ASSUME NEW g \in Seq(Nat), NEW q \in Seq(Nat), q # << >>
  PROVE  /\ Append(g, Head(q)) \in Seq(Nat) /\ Tail(q) \in Seq(Nat)
         /\ Append(g, Head(q)) \o Tail(q) = g \o q
<1> DEFINE h == Head(q)
           z == Tail(q)
           n == Len(q)
<1>1. h \in Nat /\ z \in Seq(Nat) /\ h = q[1]
  BY HeadTailProperties
<1>2. n \in Nat /\ n # 0
  BY EmptySeq, LenProperties
<1>3. q = << h >> \o z
  <2>1. SubSeq(q, 1, n) = q
    BY SubSeqFull
  <2>2. z = SubSeq(q, 1 + 1, n)
    BY TailIsSubSeq
  <2>3. 1 \in 1 .. n /\ n \in 1 .. n
    BY <1>2
  <2>4. SubSeq(q, 1, n) = << q[1] >> \o SubSeq(q, 1 + 1, n)
    BY <2>3, SubSeqRecursiveFirst
  <2> QED
    BY <1>1, <2>1, <2>2, <2>4
<1>4. Append(g, h) = g \o << h >> /\ << h >> \in Seq(Nat)
  BY <1>1, AppendIsConcat
<1> HIDE DEF h, z
<1>5. Append(g, h) \o z = g \o (<< h >> \o z)
  <2>1. PICK k \in Seq(Nat) : k = << h >>
    BY <1>4
  <2>2. g \o (k \o z) = (g \o k) \o z
    BY <1>1, Regroup
  <2> QED
    BY <1>4, <2>1, <2>2
<1>6. Append(g, h) \in Seq(Nat)
  BY <1>1, AppendProperties
<1> QED
  BY <1>1, <1>3, <1>5, <1>6 DEF h, z

LEMMA StepRead ==
  ASSUME IndInv, "build" \notin Allow, NEW e \in End, read(e)
  PROVE  IndInv' /\ Kept
<1> DEFINE s == tcb[e]
           p == tcb[Peer(e)]
           g == Append(s.got, Head(s.recvRing))
           q == Tail(s.recvRing)
           t == [s EXCEPT !.got = Append(@, Head(s.recvRing)), !.recvRing = Tail(@)]
           r == Result(t, {}, TRUE)
<1>1. /\ s.held /\ s.state \notin {"Closed", "SynSent"} /\ s.recvRing # << >>
      /\ Leave(e, r, net, listener)
  BY DEF read, InUse
<1>2. s \in Streams /\ EndOK(e, s, p) /\ p \in Streams
  BY Starts
<1>3. s.got \in Seq(Nat) /\ s.recvRing \in Seq(Nat)
  BY <1>2 DEF Streams
<1>4. g \in Seq(Nat) /\ q \in Seq(Nat) /\ g \o q = Received(s)
  BY <1>1, <1>3, HeadMoves DEF Received
<1>5. t = [s EXCEPT !.got = g, !.recvRing = q]
  BY <1>2 DEF Streams
<1>6. s.state \in Synchronized /\ s.sendUna > 0
  BY <1>1, <1>2, Uses
<1> HIDE DEF s, p, g, q, t
<1>7. /\ t \in Streams /\ t.sendUna = s.sendUna /\ t.sendNext = s.sendNext
      /\ t.sendMax = s.sendMax /\ t.sendRing = s.sendRing /\ t.recvNext = s.recvNext
      /\ t.recvRing = q /\ t.asb = s.asb /\ t.shutwr = s.shutwr /\ t.got = g
      /\ t.wrote = s.wrote /\ t.held = s.held /\ t.state = s.state /\ t.ackNow = s.ackNow
  BY <1>2, <1>4, <1>5 DEF Streams
<1>8. NumbersOK(t, p) /\ EndOfStreamOK(t, p) /\ SendRingOK(t)
  BY <1>2, <1>7 DEF EndOK, NumbersOK, EndOfStreamOK, SendRingOK
<1>9. StateOK(e, t)
  BY <1>1, <1>2, <1>6, <1>7 DEF EndOK, StateOK, Synchronized
<1>10. s.recvNext \in Nat /\ s.sendMax \in Nat /\ s.wrote \in Nat
  BY <1>2 DEF Streams
<1>11. Grows(s, t)
  BY <1>7, <1>10 DEF Grows
<1>12. ReceivedOK(s, p) => ReceivedOK(t, p)
  <2>1. Received(t) = Received(s) /\ t.recvNext = s.recvNext
    BY <1>4, <1>7 DEF Received
  <2> QED
    BY <2>1 DEF ReceivedOK
<1>13. InputOK(e, s, r, p)
  BY <1>7, <1>8, <1>9, <1>11, <1>12 DEF Result, InputOK, BecomesOK, EndOK
<1> HIDE DEF r
<1> QED
  BY <1>1, <1>13, LeavesAlone DEF s, p

(* close() and shutdownOutput(): the application writes no more. *)
Closes(s, t) ==
    /\ t.sendUna = s.sendUna /\ t.sendNext = s.sendNext /\ t.sendMax = s.sendMax
    /\ t.sendRing = s.sendRing /\ t.recvNext = s.recvNext /\ t.recvRing = s.recvRing
    /\ t.asb = s.asb /\ t.shutwr = TRUE /\ t.got = s.got /\ t.wrote = s.wrote
    /\ t.held = s.held

LEMMA Closed ==
  ASSUME NEW e \in End, NEW s \in Streams, NEW p \in Streams, EndOK(e, s, p),
         s.held, s.state # "Closed", NEW t \in Streams, Closes(s, t),
         \/ t.state = "Closed"
         \/ s.state # "SynSent" /\ t.state \in Synchronized
              /\ (t.state \in Ended <=> s.state \in Ended)
  PROVE  BecomesOK(e, s, t, p)
<1>1. NumbersOK(t, p) /\ SendRingOK(t)
  BY DEF EndOK, NumbersOK, SendRingOK, Closes
<1>2. EndOfStreamOK(t, p)
  BY DEF EndOK, EndOfStreamOK, Closes, Ended, Synchronized
<1>3. s.state # "SynSent" => s.sendUna > 0
  BY Uses
<1>4. StateOK(e, t)
  BY <1>3 DEF EndOK, StateOK, Closes, Synchronized, Early
<1>5. s.recvNext \in Nat /\ s.sendMax \in Nat /\ s.wrote \in Nat
  BY DEF Streams
<1>6. Grows(s, t)
  BY <1>5 DEF Grows, Closes, Synchronized
<1>7. ReceivedOK(s, p) => ReceivedOK(t, p)
  BY DEF ReceivedOK, Received, Closes
<1> QED
  BY <1>1, <1>2, <1>4, <1>6, <1>7 DEF BecomesOK, EndOK, Closes

LEMMA Shuts ==
  ASSUME IndInv, "build" \notin Allow, NEW e \in End, tcb[e].held, tcb[e].state # "Closed",
         NEW u \in Streams, Closes(tcb[e], u), u.state = tcb[e].state, Shut(e, u)
  PROVE  IndInv' /\ Kept
<1> DEFINE s == tcb[e]
           p == tcb[Peer(e)]
           r == CASE u.state = "Established" -> Result(setState(u, "FinWait1"), {}, TRUE)
                  [] u.state = "CloseWait"   -> Result(setState(u, "LastAck"), {}, TRUE)
                  [] u.state = "SynSent"     -> Result(abort(u), {}, FALSE)
                  [] OTHER                   -> Result(u, {}, FALSE)
<1>1. Leave(e, r, net, listener)
  BY DEF Shut
<1>2. s \in Streams /\ EndOK(e, s, p) /\ p \in Streams
  BY Starts
<1>3. u.state # "SynSent" => u.state \in Synchronized
  BY <1>2, Uses
<1>4. ASSUME NEW t \in Streams, Alike(u, t) PROVE Closes(s, t)
  BY <1>4 DEF Closes, Alike
<1> HIDE DEF s, p
<1>5. s.held /\ s.state # "Closed" /\ u.state = s.state
  BY DEF s
<1>6. CASE u.state = "Established"
  <2> DEFINE t == setState(u, "FinWait1")
  <2>1. r = Result(t, {}, TRUE)
    BY <1>6
  <2>2. t \in Streams /\ t.state = "FinWait1" /\ Alike(u, t)
    BY SetStates DEF States
  <2> HIDE DEF t, r
  <2>3. BecomesOK(e, s, t, p)
    BY <1>2, <1>4, <1>5, <1>6, <2>2, Closed DEF Synchronized, Ended
  <2>4. InputOK(e, s, r, p)
    BY <2>1, <2>3 DEF Result, InputOK
  <2> QED
    BY <1>1, <2>4, LeavesAlone DEF s, p, r
<1>7. CASE u.state = "CloseWait"
  <2> DEFINE t == setState(u, "LastAck")
  <2>1. r = Result(t, {}, TRUE)
    BY <1>7
  <2>2. t \in Streams /\ t.state = "LastAck" /\ Alike(u, t)
    BY SetStates DEF States
  <2> HIDE DEF t, r
  <2>3. BecomesOK(e, s, t, p)
    BY <1>2, <1>4, <1>5, <1>7, <2>2, Closed DEF Synchronized, Ended
  <2>4. InputOK(e, s, r, p)
    BY <2>1, <2>3 DEF Result, InputOK
  <2> QED
    BY <1>1, <2>4, LeavesAlone DEF s, p, r
<1>8. CASE u.state = "SynSent"
  <2> DEFINE t == abort(u)
  <2>1. r = Result(t, {}, FALSE)
    BY <1>8
  <2>2. t \in Streams /\ t.state = "Closed" /\ Alike(u, t)
    BY Aborts
  <2> HIDE DEF t, r
  <2>3. BecomesOK(e, s, t, p)
    BY <1>2, <1>4, <1>5, <2>2, Closed
  <2>4. InputOK(e, s, r, p)
    BY <2>1, <2>3 DEF Result, InputOK
  <2> QED
    BY <1>1, <2>4, LeavesAlone DEF s, p, r
<1>9. CASE u.state \notin {"Established", "CloseWait", "SynSent"}
  <2>1. r = Result(u, {}, FALSE)
    BY <1>9
  <2> HIDE DEF r
  <2>2. Closes(s, u)
    BY DEF s
  <2>3. BecomesOK(e, s, u, p)
    BY <1>2, <1>3, <1>5, <1>9, <2>2, Closed
  <2>4. InputOK(e, s, r, p)
    BY <2>1, <2>3 DEF Result, InputOK
  <2> QED
    BY <1>1, <2>4, LeavesAlone DEF s, p, r
<1> QED
  BY <1>6, <1>7, <1>8, <1>9

LEMMA StepShutdownOutput ==
  ASSUME IndInv, "build" \notin Allow, NEW e \in End, shutdownOutput(e)
  PROVE  IndInv' /\ Kept
<1> DEFINE u == [tcb[e] EXCEPT !.shutwr = TRUE]
<1>1. tcb[e].held /\ tcb[e].state # "Closed" /\ Shut(e, u)
  BY DEF shutdownOutput, InUse
<1>2. u \in Streams /\ Closes(tcb[e], u) /\ u.state = tcb[e].state
  <2>1. PICK s \in Streams : s = tcb[e]
    BY Starts
  <2>2. [s EXCEPT !.shutwr = TRUE] \in Streams
    BY DEF Streams
  <2> QED
    BY <2>1, <2>2 DEF Streams, Closes
<1> HIDE DEF u
<1> QED
  BY <1>1, <1>2, Shuts

LEMMA StepClose ==
  ASSUME IndInv, "build" \notin Allow, NEW e \in End, close(e)
  PROVE  IndInv' /\ Kept
<1> DEFINE u == [tcb[e] EXCEPT !.shutrd = TRUE, !.shutwr = TRUE]
<1>1. tcb[e].held /\ tcb[e].state # "Closed" /\ Shut(e, u)
  BY DEF close
<1>2. u \in Streams /\ Closes(tcb[e], u) /\ u.state = tcb[e].state
  <2>1. PICK s \in Streams : s = tcb[e]
    BY Starts
  <2>2. [s EXCEPT !.shutrd = TRUE, !.shutwr = TRUE] \in Streams
    BY DEF Streams
  <2> QED
    BY <2>1, <2>2 DEF Streams, Closes
<1> HIDE DEF u
<1> QED
  BY <1>1, <1>2, Shuts

LEMMA StepShutdownInput ==
  ASSUME IndInv, NEW e \in End, shutdownInput(e)
  PROVE  IndInv' /\ Kept
<1> DEFINE s == tcb[e]
           p == tcb[Peer(e)]
           t == [s EXCEPT !.shutrd = TRUE]
<1>1. /\ s.held /\ s.state \notin {"Closed", "SynSent"}
      /\ tcb' = [tcb EXCEPT ![e].shutrd = TRUE] /\ net' = net /\ listener' = listener
  BY DEF shutdownInput, InUse
<1>2. s \in Streams /\ EndOK(e, s, p) /\ p \in Streams /\ listener \in Listeners
  BY Starts
<1>3. tcb' = [tcb EXCEPT ![e] = t]
  BY <1>1 DEF IndInv, Types
<1>4. t \in Streams /\ Alike(s, t) /\ t.state = s.state
  BY <1>2 DEF Streams, Alike
<1> HIDE DEF s, p, t
<1>5. s.state \notin {"None", "SynSent", "Closed"}
  BY <1>1, <1>2 DEF EndOK, StateOK
<1>6. BecomesOK(e, s, t, p)
  BY <1>2, <1>4, <1>5, Same
<1> QED
  BY <1>1, <1>2, <1>3, <1>6, OneEnd DEF s, p

LEMMA StepNonBlockingClose ==
  ASSUME IndInv, "build" \notin Allow, NEW e \in End, nonBlockingClose(e)
  PROVE  IndInv' /\ Kept
<1> DEFINE s == tcb[e]
           p == tcb[Peer(e)]
           m == Segment(e, {"RST"}, s.sendMax, 0, << >>)
           seg == IF s.state \in {"SynReceived", "Established", "FinWait1", "FinWait2", "CloseWait"}
                  THEN {m} ELSE {}
           r == Result(abort(s), seg, FALSE)
<1>1. s.state # "Closed" /\ Leave(e, r, net, listener)
  BY DEF nonBlockingClose
<1>2. s \in Streams /\ EndOK(e, s, p) /\ p \in Streams
  BY Starts
<1>3. m \in Resets(e)
  <2>1. s.sendMax \in Nat /\ {"RST"} \in SUBSET Flags /\ << >> \in Seq(Nat)
    BY <1>2 DEF Streams, Flags
  <2> QED
    BY <2>1 DEF Resets, Segments, Segment
<1> HIDE DEF m
<1>4. seg \subseteq Resets(e)
  BY <1>3
<1> HIDE DEF s, p, seg
<1>5. Alike(s, s)
  BY DEF Alike
<1>6. InputOK(e, s, r, p)
  BY <1>1, <1>2, <1>4, <1>5, AbortedAlike
<1> HIDE DEF r
<1> QED
  BY <1>1, <1>6, LeavesAlone DEF s, p

-----------------------------------------------------------------------------
(* The specification. *)

LEMMA IndInvInit ==
  ASSUME Init
  PROVE  IndInv /\ StreamsOK
<1> DEFINE s0 == NewStream("Closed")
           q0 == NewStream("None")
<1>1. /\ tcb = [e \in End |-> NewStream(IF e[2] = "client" THEN "Closed" ELSE "None")]
      /\ listener = [parConn |-> 0, pendingConn |-> 0, accepted |-> << >>]
      /\ net = {}
  BY DEF Init
<1>2. s0 \in Streams /\ q0 \in Streams
  BY Constructed DEF States
<1>3. \A e \in End : tcb[e] = IF e[2] = "client" THEN s0 ELSE q0
  BY <1>1
<1>4. Types
  <2>1. tcb \in [End -> Streams]
    BY <1>1, <1>2
  <2>2. listener \in Listeners
    BY <1>1 DEF Listeners
  <2> QED
    BY <1>1, <2>1, <2>2 DEF Types
<1>5. /\ NumbersOK(s0, q0) /\ EndOfStreamOK(s0, q0) /\ SendRingOK(s0)
      /\ NumbersOK(q0, s0) /\ EndOfStreamOK(q0, s0) /\ SendRingOK(q0)
  BY DEF NumbersOK, EndOfStreamOK, SendRingOK, NewStream, Ended
<1>6. ReceivedOK(s0, q0) /\ ReceivedOK(q0, s0)
  <2> DEFINE n == Len(<< >> \o << >>)
  <2>1. n = 0
    <3>1. << >> \in Seq(Nat)
      OBVIOUS
    <3>2. << >> \o << >> = << >>
      BY <3>1, ConcatEmptySeq
    <3> QED
      BY <3>2, EmptySeq
  <2>2. /\ Received(s0) = << >> \o << >> /\ Received(q0) = << >> \o << >>
        /\ s0.recvNext = 1 /\ q0.recvNext = 1 /\ s0.wrote = 0 /\ q0.wrote = 0
    BY DEF Received, NewStream
  <2> HIDE DEF s0, q0
  <2>3. Len(Received(s0)) = 0 /\ Len(Received(q0)) = 0
    BY <2>1, <2>2
  <2> QED
    BY <2>2, <2>3 DEF ReceivedOK
<1>7. /\ s0.state = "Closed" /\ q0.state = "None" /\ q0.sendUna = 0 /\ q0.wrote = 0
      /\ q0.shutwr = FALSE /\ q0.held = FALSE
  BY DEF NewStream
<1>8. \A e \in End : IF e[2] = "client" THEN StateOK(e, s0) ELSE e[2] = "server" /\ StateOK(e, q0)
  <2> SUFFICES ASSUME NEW e \in End
               PROVE  IF e[2] = "client" THEN StateOK(e, s0) ELSE e[2] = "server" /\ StateOK(e, q0)
    OBVIOUS
  <2>1. e[2] \in {"client", "server"}
    BY Peers
  <2>2. CASE e[2] = "client"
    BY <1>7, <2>2 DEF StateOK, Early, Ending, Synchronized
  <2>3. CASE e[2] = "server"
    BY <1>7, <2>3 DEF StateOK, Early, Ending, Synchronized
  <2> QED
    BY <2>1, <2>2, <2>3
<1> HIDE DEF s0, q0
<1>9. \A e \in End : EndOK(e, tcb[e], tcb[Peer(e)]) /\ ReceivedOK(tcb[e], tcb[Peer(e)])
  <2> SUFFICES ASSUME NEW e \in End
               PROVE  EndOK(e, tcb[e], tcb[Peer(e)]) /\ ReceivedOK(tcb[e], tcb[Peer(e)])
    OBVIOUS
  <2>1. Peer(e) \in End /\ e[2] \in {"client", "server"}
        /\ (e[2] = "client" <=> Peer(e)[2] = "server") /\ Peer(e)[2] \in {"client", "server"}
    BY Peers
  <2>2. CASE e[2] = "client"
    <3>1. tcb[e] = s0 /\ tcb[Peer(e)] = q0
      BY <1>3, <2>1, <2>2
    <3> QED
      BY <1>5, <1>6, <1>8, <2>2, <3>1 DEF EndOK
  <2>3. CASE e[2] = "server"
    <3>1. tcb[e] = q0 /\ tcb[Peer(e)] = s0
      BY <1>3, <2>1, <2>3
    <3> QED
      BY <1>5, <1>6, <1>8, <2>3, <3>1 DEF EndOK
  <2> QED
    BY <2>1, <2>2, <2>3
<1>10. SegmentsOK
  BY <1>1 DEF SegmentsOK
<1>11. AcceptedOK
  <2>0. << >> \in Seq(Clients)
    BY EmptySeq
  <2>1. PICK q \in Seq(Clients) : q = << >>
    BY <2>0
  <2>2. Len(q) = 0 /\ listener.accepted = q
    BY <1>1, <2>1, EmptySeq
  <2>3. ToSet(q) = {}
    <3>1. \A x : x \in ToSet(q) <=> \E i \in 1 .. Len(q) : q[i] = x
      BY ListElements
    <3>2. 1 .. Len(q) = {}
      BY <2>2
    <3> QED
      BY <3>1, <3>2
  <2> QED
    BY <2>2, <2>3 DEF AcceptedOK
<1> QED
  BY <1>4, <1>9, <1>10, <1>11 DEF IndInv, EndsOK, StreamsOK

LEMMA IndInvStep ==
  ASSUME IndInv, "build" \notin Allow, [Next]_vars
  PROVE  IndInv' /\ Kept
<1>1. CASE UNCHANGED vars
  <2>1. tcb' = tcb /\ listener' = listener /\ net' = net
    BY <1>1 DEF vars
  <2>2. IndInv' /\ (StreamsOK => StreamsOK') /\ (InOrder => InOrder')
    BY <2>1 DEF IndInv, Types, EndsOK, SegmentsOK, AcceptedOK, StreamsOK, InOrder
  <2> QED
    BY <2>2 DEF Kept
<1>2. ASSUME NEW m \in net, Input(m) PROVE IndInv' /\ Kept
  BY <1>2, StepInput
<1>3. ASSUME NEW m \in net, ListenInput(m) PROVE IndInv' /\ Kept
  BY <1>3, StepListenInput
<1>4. ASSUME NEW m \in net, Lose(m) PROVE IndInv' /\ Kept
  BY <1>4, StepLose
<1>5. CASE accept
  BY <1>5, StepAccept
<1>6. ASSUME NEW e \in End,
             \/ expired(e) \/ Error(e) \/ connect(e) \/ write(e) \/ read(e)
             \/ shutdownOutput(e) \/ shutdownInput(e) \/ close(e) \/ nonBlockingClose(e)
      PROVE  IndInv' /\ Kept
  BY <1>6, StepExpired, StepError, StepConnect, StepWrite, StepRead, StepShutdownOutput,
     StepShutdownInput, StepClose, StepNonBlockingClose
<1> QED
  BY <1>1, <1>2, <1>3, <1>4, <1>5, <1>6 DEF Next

(* The ends of every connection and the segments between them, whatever the   *)
(* network loses, duplicates and reorders and wherever expired() begins but   *)
(* while send() puts a segment together.                                      *)
THEOREM TcpInductive ==
  ASSUME "build" \notin Allow
  PROVE  Spec => []IndInv
<1>1. Init => IndInv
  BY IndInvInit
<1>2. IndInv /\ [Next]_vars => IndInv'
  BY IndInvStep
<1> QED
  BY <1>1, <1>2, PTL DEF Spec

(* ack() with output(): the receiver of a connection is between what its peer *)
(* knows to be acknowledged and what it has sent at most, unless expired()    *)
(* begins while send() puts a segment together.                               *)
THEOREM TcpEndsAgree ==
  ASSUME "build" \notin Allow
  PROVE  Spec => []EndsAgree
<1>1. IndInv => EndsAgree
  <2> SUFFICES ASSUME IndInv, NEW e \in End, {tcb[e].state, tcb[Peer(e)].state} \subseteq Synchronized
               PROVE  /\ tcb[e].sendUna <= tcb[Peer(e)].recvNext
                      /\ tcb[Peer(e)].recvNext <= tcb[e].sendMax
                      /\ tcb[e].sendUna <= tcb[e].sendNext /\ tcb[e].sendNext <= tcb[e].sendMax
    BY DEF EndsAgree
  <2> DEFINE s == tcb[e]
             p == tcb[Peer(e)]
  <2>1. s \in Streams /\ p \in Streams /\ EndOK(e, s, p) /\ EndOK(Peer(e), p, s)
    BY Starts
  <2>2. s.state \in Synchronized
    OBVIOUS
  <2> HIDE DEF s, p
  <2>3. s.sendUna > 0 /\ s.sendUna <= s.sendNext /\ s.sendNext <= s.sendMax /\ s.sendUna <= p.recvNext
    BY <2>1, <2>2 DEF EndOK, StateOK, NumbersOK
  <2>4. s.sendUna \in Nat /\ s.sendMax \in Nat /\ s.sendNext \in Nat /\ p.recvNext \in Nat
    BY <2>1 DEF Streams
  <2>5. p.recvNext = 1 \/ p.recvNext <= s.sendMax
    BY <2>1 DEF EndOK, NumbersOK
  <2>6. p.recvNext <= s.sendMax
    BY <2>3, <2>4, <2>5
  <2> QED
    BY <2>3, <2>6 DEF s, p
<1>2. Spec => []IndInv
  BY TcpInductive
<1> QED
  BY <1>1, <1>2, PTL

(* TextAndFin(): an end that took a FIN counted it last, and its peer writes no *)
(* more, unless expired() begins while send() puts the FIN together.            *)
EndedLast ==
    \A e \in End : tcb[e].state \in Ended =>
        tcb[Peer(e)].shutwr /\ tcb[e].recvNext = tcb[Peer(e)].wrote + 2

THEOREM TcpEndedLast ==
  ASSUME "build" \notin Allow
  PROVE  Spec => []EndedLast
<1>1. IndInv => EndedLast
  BY Starts DEF EndedLast, EndOK, EndOfStreamOK
<1>2. Spec => []IndInv
  BY TcpInductive
<1> QED
  BY <1>1, <1>2, PTL

(* The streams, while no segment is kept beyond a gap. *)
LEMMA InOrderStreams ==
  ASSUME "build" \notin Allow
  PROVE  Spec /\ []InOrder => []StreamsOK
<1>1. Init => StreamsOK
  BY IndInvInit
<1>2. IndInv /\ InOrder /\ InOrder' /\ StreamsOK /\ [Next]_vars => StreamsOK'
  BY IndInvStep DEF Kept
<1>3. Spec => []IndInv
  BY TcpInductive
<1> QED
  BY <1>1, <1>2, <1>3, PTL DEF Spec

(* And none is, when data does not overtake data. *)
LEMMA AlwaysInOrder ==
  ASSUME "build" \notin Allow, "gap" \notin Allow
  PROVE  Spec => []InOrder
<1>1. Init => InOrder
  <2> SUFFICES ASSUME Init, NEW e \in End PROVE DOMAIN tcb[e].asb = {}
    BY DEF InOrder
  <2>1. tcb[e].asb = << >>
    BY DEF Init, NewStream
  <2> QED
    BY <2>1
<1>2. IndInv /\ InOrder /\ [Next]_vars => InOrder'
  BY IndInvStep DEF Kept
<1>3. Spec => []IndInv
  BY TcpInductive
<1> QED
  BY <1>1, <1>2, <1>3, PTL DEF Spec

(* text(), ringWrite(), trim() and ack(): the bytes an application reads are *)
(* the ones its peer wrote, in their order, however many there are, when     *)
(* expired() does not begin while send() puts a segment together and data    *)
(* does not overtake data.                                                   *)
THEOREM TcpStreamIntact ==
  ASSUME "build" \notin Allow, "gap" \notin Allow
  PROVE  Spec => []StreamIntact
<1>1. IndInv /\ StreamsOK => StreamIntact
  <2> SUFFICES ASSUME IndInv, StreamsOK, NEW e \in End
               PROVE  IsPrefix(tcb[e].got \o tcb[e].recvRing, Upto(tcb[Peer(e)].wrote))
    BY DEF StreamIntact
  <2> DEFINE s == tcb[e]
             p == tcb[Peer(e)]
             q == Received(s)
             n == Len(q)
  <2>1. s \in Streams /\ p \in Streams /\ ReceivedOK(s, p)
    BY Starts DEF StreamsOK
  <2> HIDE DEF s, p
  <2>2. q \in Seq(Nat) /\ n \in Nat /\ p.wrote \in Nat /\ s.recvNext \in Nat
    BY <2>1, RingEnds, LenProperties DEF Streams
  <2>3. (\A i \in 1 .. n : q[i] = i) /\ n <= p.wrote
    <3>1. /\ \A i \in 1 .. n : q[i] = i
          /\ \/ s.recvNext = n + 1 /\ s.recvNext <= p.wrote + 1
             \/ s.recvNext = n + 2 /\ s.recvNext = p.wrote + 2
      BY <2>1 DEF ReceivedOK
    <3>2. n \in Nat
      BY <2>1, RingEnds
    <3> HIDE DEF n, q
    <3>3. n <= p.wrote
      BY <2>2, <3>1, <3>2
    <3> QED
      BY <3>1, <3>3
  <2> DEFINE u == Upto(p.wrote)
  <2>4. u \in Seq(Nat) /\ Len(u) = p.wrote /\ \A i \in 1 .. p.wrote : u[i] = i
    <3>1. u = [i \in 1 .. p.wrote |-> i]
      BY DEF Upto
    <3>2. u \in [1 .. p.wrote -> Nat]
      BY <2>2, <3>1
    <3>3. u \in Seq(Nat)
      <4>1. PICK k \in Nat : k = p.wrote
        BY <2>2
      <4>2. u \in [1 .. k -> Nat]
        BY <3>2, <4>1
      <4> HIDE DEF u
      <4> QED
        BY <4>2
    <3> QED
      BY <2>2, <3>1, <3>3, LenProperties
  <2> HIDE DEF q, u, n
  <2>5. IsPrefix(q, u)
    BY <2>2, <2>3, <2>4 DEF IsPrefix, n
  <2> QED
    BY <2>5 DEF q, u, s, p, Received
<1>2. Spec => []IndInv
  BY TcpInductive
<1>3. Spec /\ []InOrder => []StreamsOK
  BY InOrderStreams
<1>4. Spec => []InOrder
  BY AlwaysInOrder
<1> QED
  BY <1>1, <1>2, <1>3, <1>4, PTL

(* And the FIN comes after all of them, then. *)
THEOREM TcpFinIsLast ==
  ASSUME "build" \notin Allow, "gap" \notin Allow
  PROVE  Spec => []FinIsLast
<1>1. IndInv /\ StreamsOK => FinIsLast
  <2> SUFFICES ASSUME IndInv, StreamsOK, NEW e \in End, tcb[e].state \in Ended
               PROVE  /\ tcb[Peer(e)].shutwr
                      /\ Len(tcb[e].got \o tcb[e].recvRing) = tcb[Peer(e)].wrote
                      /\ tcb[e].recvNext = tcb[Peer(e)].wrote + 2
    BY DEF FinIsLast, Ended
  <2> DEFINE s == tcb[e]
             p == tcb[Peer(e)]
             n == Len(Received(s))
  <2>1. s \in Streams /\ p \in Streams /\ ReceivedOK(s, p) /\ EndOK(e, s, p)
    BY Starts DEF StreamsOK
  <2>2. p.shutwr /\ s.recvNext = p.wrote + 2
    BY <2>1 DEF EndOK, EndOfStreamOK
  <2> HIDE DEF s, p
  <2>3. p.wrote \in Nat /\ n \in Nat
    BY <2>1, RingEnds DEF Streams
  <2>4. \/ s.recvNext = n + 1 /\ s.recvNext <= p.wrote + 1
        \/ s.recvNext = n + 2 /\ s.recvNext = p.wrote + 2
    BY <2>1 DEF ReceivedOK
  <2> HIDE DEF n
  <2>5. n = p.wrote
    BY <2>2, <2>3, <2>4
  <2> QED
    BY <2>2, <2>5 DEF s, p, n, Received
<1>2. Spec => []IndInv
  BY TcpInductive
<1>3. Spec /\ []InOrder => []StreamsOK
  BY InOrderStreams
<1>4. Spec => []InOrder
  BY AlwaysInOrder
<1> QED
  BY <1>1, <1>2, <1>3, <1>4, PTL
====
