----------------------------- MODULE TCPProofs ------------------------------
(***************************************************************************)
(* What is proved about TCP for any plans, any window and any limits of    *)
(* repetitions.                                                            *)
(***************************************************************************)
EXTENDS TCP, BlockerSetProofs

State == {"new", "SynSent", "SynReceived", "Established", "FinWait1", "FinWait2",
          "CloseWait", "LastAck", "TimeWait", "Closed"}
Flags == {"SYN", "SYN_ACK", "ACK", "PSH_ACK", "FIN_ACK", "RST", "RST_ACK"}
Packets == [to : Side, flags : Flags, data : Nat, seq : Nat, ack : Nat]
Unacked == [end : Nat, packet : Packets]
Socket == [state : State, seq : Nat, ack : Nat, last_ack : Nat, unacked : Seq(Unacked),
           attempts : Nat, dups : Nat, delayed : BOOLEAN]

TypeOK ==
    /\ sock \in [Side -> Socket]
    /\ net \subseteq Packets
    /\ plan \in Plans
    /\ sent \in [Side -> Nat]
    /\ received \in [Side -> Seq(Nat)]
    /\ jumped \in SUBSET Side

(* The states of a socket that has sent its FIN, or will never do so.      *)
Shut == {"FinWait1", "FinWait2", "LastAck", "TimeWait", "Closed"}

(* The sequence number counts the SYN and the bytes that were written.     *)
Numbered ==
    \A e \in Side :
        /\ sock[e].state = "new" => sock[e].seq = 0 /\ ~sock[e].delayed /\ sock[e].attempts = 0
        /\ sock[e].state # "new" => sock[e].seq = sent[e] + 1
        /\ sock[e].state \in {"new", "SynSent", "SynReceived"} =>
             sent[e] = 0 /\ received[e] = <<>>

(* The client opens, the server answers.                                   *)
Handshake ==
    /\ sock["client"].state # "SynReceived" /\ sock["server"].state # "SynSent"
    /\ sock["server"].state = "new" => sock["client"].state \in {"new", "SynSent", "Closed"}
                                       /\ sent["client"] = 0
    /\ sock["client"].state = "new" => sock["server"].state = "new"

(* What is in the network says what its sender has written.                *)
PacketOK(p) ==
    LET w == Peer(p.to)
    IN  /\ sock["client"].state # "new" /\ sock[w].state # "new"
        /\ p.data # 0 => p.flags = "PSH_ACK" /\ p.seq = p.data /\ p.data <= sent[w]
        /\ p.flags = "FIN_ACK" => p.seq = sent[w] + 1 /\ sock[w].state \in Shut
        /\ p.flags \in {"SYN", "SYN_ACK"} => p.seq = 0
        /\ p.flags = "ACK" => p.seq \in 1..sent[w] + 1
        /\ p.flags = "SYN" => w = "client"
        /\ p.flags = "SYN_ACK" => w = "server"

NetOK == \A p \in net : PacketOK(p)

(* Unless the end of the handshake changed it, the next byte that a side   *)
(* expects is the one after those that it has received, and a side that    *)
(* has seen the FIN has received everything.                               *)
InStepAt(e) ==
    /\ received[e] = [i \in 1..Len(received[e]) |-> i]
    /\ Len(received[e]) <= sent[Peer(e)]
    /\ sock[e].state \in {"SynReceived", "Established"} => sock[e].ack = Len(received[e]) + 1
    /\ sock[e].state \in {"CloseWait", "LastAck"} =>
         sock[Peer(e)].state \in Shut /\ Len(received[e]) = sent[Peer(e)]

InStep == \A e \in Side \ jumped : InStepAt(e)

StreamInv == TypeOK /\ Numbered /\ Handshake /\ NetOK /\ InStep

(* What is waiting for an acknowledgement is in the network, and a packet  *)
(* with byte i is covered by i + 1.                                        *)
UnackedOK ==
    \A e \in Side : \A i \in DOMAIN sock[e].unacked :
        LET u == sock[e].unacked[i]
        IN  /\ u.packet \in net /\ u.packet.to = Peer(e)
            /\ u.packet.data # 0 => u.end = u.packet.data + 1

(* The receivers that look at sequence numbers, and those before them.     *)
Honest == {"new", "SynSent", "SynReceived", "Established", "CloseWait", "LastAck"}

(* They acknowledge what they have received, and the FIN after that.       *)
Receiving == {"new", "SynSent", "SynReceived", "Established"}

AcksOK ==
    \A e \in Side \ jumped :
        sock[e].state \in Receiving =>
            /\ sock[e].ack <= Len(received[e]) + 1
            /\ \A p \in net : p.to = Peer(e) => p.ack <= Len(received[e]) + 1

Open(e) == {sock[e].unacked[i].packet.data : i \in DOMAIN sock[e].unacked}

NothingLost ==
    \A e \in Side :
        Peer(e) \notin jumped /\ sock[Peer(e)].state \in Honest =>
            \A i \in 1..sent[e] : i \in Open(e) \/ i <= Len(received[Peer(e)])

-----------------------------------------------------------------------------
(* Sending.                                                                *)

(* There are two sides, each the other's peer.                             *)
LEMMA PeerFacts == \A e \in Side : Peer(e) \in Side /\ Peer(e) # e /\ Peer(Peer(e)) = e
BY DEF Side, Peer

(* What a packet that is sent carries; a reset carries no numbers.         *)
LEMMA PacketFacts ==
  ASSUME NEW e \in Side, NEW s \in Socket, NEW f \in Flags, NEW d \in Nat
  PROVE  LET p == Packet(e, s, f, d)
         IN  /\ p \in Packets
             /\ p.to = Peer(e) /\ p.flags = f /\ p.data = d
             /\ p.seq = IF f \in {"RST", "RST_ACK"} THEN 0 ELSE s.seq
             /\ p.ack = IF f \in {"SYN", "RST", "RST_ACK"} THEN 0 ELSE s.ack
BY PeerFacts DEF Packet, Packets, HasRst, Socket

(* What sending leaves of the socket: only SYN, SYN_ACK and data use up a  *)
(* sequence number and are kept for retransmission.                        *)
LEMMA SentFacts ==
  ASSUME NEW e \in Side, NEW s \in Socket, NEW f \in Flags, NEW d \in Nat
  PROVE  LET t == Sent(e, s, f, d)
         IN  /\ t \in Socket
             /\ t.state = s.state /\ t.ack = s.ack /\ t.delayed = s.delayed
             /\ t.attempts = s.attempts /\ t.dups = s.dups
             /\ f \notin {"SYN", "SYN_ACK"} /\ d = 0 => t.seq = s.seq /\ t.unacked = s.unacked
             /\ f \in {"SYN", "SYN_ACK"} \/ d # 0 =>
                  /\ t.seq = s.seq + 1
                  /\ t.unacked = Append(s.unacked, [end |-> s.seq + 1, packet |-> Packet(e, s, f, d)])
<1> DEFINE u == [end |-> s.seq + 1, packet |-> Packet(e, s, f, d)]
<1>1. Packet(e, s, f, d) \in Packets
  BY PacketFacts
<1>2. s.seq \in Nat /\ s.ack \in Nat /\ s.last_ack \in Nat /\ s.unacked \in Seq(Unacked)
  BY DEF Socket
<1>3. u \in Unacked
  BY <1>1, <1>2 DEF Unacked
<1>4. Append(s.unacked, u) \in Seq(Unacked)
  BY <1>2, <1>3
<1>5. CASE f \in {"SYN", "SYN_ACK"} \/ d # 0
  <2> DEFINE t == Sent(e, s, f, d)
             a == IF HasAck([flags |-> f]) THEN s.ack ELSE s.last_ack
             v == Append(s.unacked, u)
             n == s.seq + 1
  <2>1. s.seq + 1 # s.seq
    BY <1>2
  <2>2. t = [s EXCEPT !.seq = n, !.last_ack = a, !.unacked = v]
    BY <1>5, <2>1, Zenon DEF Sent
  <2>3. a \in Nat /\ v \in Seq(Unacked) /\ n \in Nat
    BY <1>2, <1>4
  <2> HIDE DEF u, a, t, v, n
  <2>4. /\ t \in Socket
        /\ t.state = s.state /\ t.ack = s.ack /\ t.delayed = s.delayed
        /\ t.attempts = s.attempts /\ t.dups = s.dups
        /\ t.seq = n /\ t.unacked = v
    BY <1>2, <2>2, <2>3 DEF Socket
  <2> QED
    BY <1>5, <2>4 DEF t, u, v, n
<1>6. CASE f \notin {"SYN", "SYN_ACK"} /\ d = 0
  <2>1. Sent(e, s, f, d) = [s EXCEPT !.seq = s.seq,
                                     !.last_ack = IF HasAck([flags |-> f]) THEN s.ack ELSE @,
                                     !.unacked = s.unacked]
    BY <1>2, <1>6 DEF Sent, Socket
  <2> QED
    BY <1>2, <1>6, <2>1 DEF Socket
<1> QED
  BY <1>5, <1>6

-----------------------------------------------------------------------------
(* What the handlers of packets do.                                        *)

Results == [sock : Socket, out : SUBSET Packets, got : Seq(Nat)]

(* A handler that sends no SYN keeps the sequence number and the list of   *)
(* unacknowledged packets, and sends acknowledgements and resets only.     *)
Quiet(e, s, r) ==
    /\ r \in Results
    /\ r.sock.seq = s.seq /\ r.sock.unacked = s.unacked
    /\ \A o \in r.out : /\ o.to = Peer(e) /\ o.data = 0
                        /\ \/ o.flags = "ACK" /\ o.seq = s.seq /\ o.ack = r.sock.ack
                           \/ o.flags \in {"RST", "RST_ACK"} /\ o.seq = 0 /\ o.ack = 0

(* No reply.                                                               *)
LEMMA QuietResult ==
  ASSUME NEW e \in Side, NEW s \in Socket
  PROVE  LET r == Result(s)
         IN  Quiet(e, s, r) /\ r.sock = s /\ r.out = {} /\ r.got = <<>>
BY DEF Result, Quiet, Results

(* A reply without data.                                                   *)
LEMMA QuietReply ==
  ASSUME NEW e \in Side, NEW s \in Socket, NEW f \in {"ACK", "RST", "RST_ACK"}
  PROVE  LET r == Reply(e, s, f)
         IN  /\ Quiet(e, s, r)
             /\ r.sock.state = s.state /\ r.sock.ack = s.ack /\ r.got = <<>>
<1>1. f \in Flags /\ f \notin {"SYN", "SYN_ACK"} /\ 0 \in Nat
  BY DEF Flags
<1> DEFINE t == Sent(e, s, f, 0)
           o == Packet(e, s, f, 0)
<1>2. t \in Socket /\ t.state = s.state /\ t.ack = s.ack /\ t.seq = s.seq /\ t.unacked = s.unacked
  BY <1>1, SentFacts
<1>3. /\ o \in Packets /\ o.to = Peer(e) /\ o.data = 0 /\ o.flags = f
      /\ o.seq = IF f \in {"RST", "RST_ACK"} THEN 0 ELSE s.seq
      /\ o.ack = IF f \in {"SYN", "RST", "RST_ACK"} THEN 0 ELSE s.ack
  BY <1>1, PacketFacts
<1>4. Reply(e, s, f) = [sock |-> t, out |-> {o}, got |-> <<>>]
  BY DEF Reply
<1> HIDE DEF t, o
<1> QED
  BY <1>2, <1>3, <1>4 DEF Quiet, Results

(* A change of state after a reply.                                        *)
LEMMA InFacts ==
  ASSUME NEW s, NEW out, NEW got, NEW st
  PROVE  In([sock |-> s, out |-> out, got |-> got], st)
           = [sock |-> SetState(s, st), out |-> out, got |-> got]
BY DEF In

(* It is as quiet as the reply.                                            *)
LEMMA QuietIn ==
  ASSUME NEW e \in Side, NEW s \in Socket, NEW r, Quiet(e, s, r), NEW st \in State
  PROVE  LET q == In(r, st)
         IN  /\ Quiet(e, s, q)
             /\ q.sock.state = st /\ q.sock.ack = r.sock.ack /\ q.got = r.got /\ q.out = r.out
<1> DEFINE t == SetState(r.sock, st)
<1>1. r.sock \in Socket /\ r.out \in SUBSET Packets /\ r.got \in Seq(Nat)
      /\ r = [sock |-> r.sock, out |-> r.out, got |-> r.got]
  BY DEF Quiet, Results
<1>2. t \in Socket /\ t.state = st /\ t.ack = r.sock.ack /\ t.seq = r.sock.seq
      /\ t.unacked = r.sock.unacked
  BY <1>1 DEF SetState, Socket
<1>3. In(r, st) = [sock |-> t, out |-> r.out, got |-> r.got]
  BY <1>1 DEF In
<1> HIDE DEF t
<1> QED
  BY <1>1, <1>2, <1>3 DEF Quiet, Results

(* Quiet with respect to a socket that only differs in what Quiet does not *)
(* look at.                                                                *)
LEMMA QuietFrom ==
  ASSUME NEW e, NEW s, NEW t, NEW r, Quiet(e, t, r), t.seq = s.seq, t.unacked = s.unacked
  PROVE  Quiet(e, s, r)
BY DEF Quiet

(* A reset.                                                                *)
LEMMA QuietReset ==
  ASSUME NEW e \in Side, NEW s \in Socket
  PROVE  LET r == Reset(e, s)
         IN  Quiet(e, s, r) /\ r.sock.state = "Closed" /\ r.got = <<>>
BY QuietReply, QuietIn DEF Reset, State

(* An acknowledgement, now or later.                                       *)
LEMMA QuietDelayedAck ==
  ASSUME NEW e \in Side, NEW s \in Socket, NEW delay \in BOOLEAN
  PROVE  LET r == DelayedAck(e, s, delay)
         IN  /\ Quiet(e, s, r)
             /\ r.sock.state = s.state /\ r.sock.ack = s.ack /\ r.got = <<>>
<1>1. CASE delay
  <2> DEFINE t == [s EXCEPT !.delayed = TRUE]
  <2>1. t \in Socket /\ t.seq = s.seq /\ t.unacked = s.unacked /\ t.state = s.state /\ t.ack = s.ack
    BY DEF Socket
  <2>2. DelayedAck(e, s, delay) = Result(t)
    BY <1>1 DEF DelayedAck
  <2> HIDE DEF t
  <2> QED
    BY <2>1, <2>2, QuietResult, QuietFrom
<1>2. CASE ~delay
  BY <1>2, QuietResult, QuietReply DEF DelayedAck, AckIfNew, Ack
<1> QED
  BY <1>1, <1>2

(* The handlers by state: where they go, and under which conditions.       *)
Moves(s, p, r) ==
    /\ s.state = "SynSent" =>
         \/ r.sock.state = "Closed"
         \/ r.sock.state = "Established" /\ p.flags = "SYN_ACK" /\ r.sock.ack = After(p) + 1
    /\ s.state = "SynReceived" =>
         \/ r.sock.state = "Closed"
         \/ r.sock.state = "Established" /\ p.flags = "ACK" /\ r.sock.ack = After(p)
         \/ r.sock = s
    /\ s.state = "Established" =>
         \/ r.sock.state = "Closed"
         \/ r.sock.state = "Established" /\ (r.got = <<>> => r.sock.ack = s.ack)
         \/ r.sock.state = "CloseWait" /\ p.flags = "FIN_ACK" /\ p.seq = s.ack /\ r.got = <<>>
    /\ s.state = "CloseWait" => r.sock.state = "Closed"
    /\ s.state \in Shut => r.sock.state \in Shut \ {"LastAck"}
    /\ s.state = "Closed" => r.sock.state = "Closed"
    /\ r.got # <<>> => /\ s.state = "Established" /\ r.sock.state = "Established"
                       /\ p.data # 0 /\ p.seq = s.ack
                       /\ r.got = <<p.data>> /\ r.sock.ack = p.seq + 1

(* What setting the acknowledgement number leaves alone.                   *)
LEMMA WithAck ==
  ASSUME NEW s \in Socket, NEW a \in Nat
  PROVE  LET t == [s EXCEPT !.ack = a]
         IN  /\ t \in Socket /\ t.ack = a
             /\ t.state = s.state /\ t.seq = s.seq /\ t.unacked = s.unacked /\ t.delayed = s.delayed
BY DEF Socket

(* What setting the state leaves alone.                                    *)
LEMMA WithState ==
  ASSUME NEW s \in Socket, NEW st \in State
  PROVE  LET t == SetState(s, st)
         IN  /\ t \in Socket /\ t.state = st
             /\ t.ack = s.ack /\ t.seq = s.seq /\ t.unacked = s.unacked /\ t.delayed = s.delayed
BY DEF Socket, SetState

(* What counting duplicates leaves alone.                                  *)
LEMMA WithDups ==
  ASSUME NEW s \in Socket, NEW n \in Nat
  PROVE  LET t == [s EXCEPT !.dups = n]
         IN  /\ t \in Socket /\ t.dups = n
             /\ t.ack = s.ack /\ t.state = s.state /\ t.seq = s.seq /\ t.unacked = s.unacked
BY DEF Socket

(* The number after a packet: one more if it has data.                     *)
LEMMA AfterFacts ==
  ASSUME NEW p \in Packets
  PROVE  /\ After(p) \in Nat /\ After(p) + 1 \in Nat
         /\ p.data = 0 => After(p) = p.seq
         /\ p.data # 0 => After(p) = p.seq + 1
BY DEF After, Packets

(* An acknowledgement from a socket whose number was set, and a new state. *)
LEMMA QuietAckIn ==
  ASSUME NEW e \in Side, NEW s \in Socket, NEW a \in Nat, NEW st \in State
  PROVE  LET r == In(Ack(e, [s EXCEPT !.ack = a]), st)
         IN  Quiet(e, s, r) /\ r.sock.state = st /\ r.sock.ack = a /\ r.got = <<>>
<1> DEFINE t == [s EXCEPT !.ack = a]
<1>1. t \in Socket /\ t.ack = a /\ t.seq = s.seq /\ t.unacked = s.unacked
  BY WithAck
<1> HIDE DEF t
<1>2. Quiet(e, t, Ack(e, t)) /\ Ack(e, t).sock.ack = a /\ Ack(e, t).got = <<>>
  BY <1>1, QuietReply DEF Ack
<1>3. LET r == In(Ack(e, t), st)
      IN  Quiet(e, t, r) /\ r.sock.state = st /\ r.sock.ack = a /\ r.got = <<>>
  BY <1>1, <1>2, QuietIn
<1> QED
  BY <1>1, <1>3, QuietFrom DEF t

(* The same without an acknowledgement.                                    *)
LEMMA QuietSet ==
  ASSUME NEW e \in Side, NEW s \in Socket, NEW a \in Nat, NEW st \in State
  PROVE  LET r == Result([SetState(s, st) EXCEPT !.ack = a])
         IN  Quiet(e, s, r) /\ r.sock.state = st /\ r.sock.ack = a /\ r.got = <<>>
<1> DEFINE t == SetState(s, st)
           u == [t EXCEPT !.ack = a]
<1>1. t \in Socket /\ t.state = st /\ t.seq = s.seq /\ t.unacked = s.unacked
  BY WithState
<1> HIDE DEF t
<1>2. u \in Socket /\ u.state = st /\ u.ack = a /\ u.seq = s.seq /\ u.unacked = s.unacked
  BY <1>1, WithAck
<1> HIDE DEF u
<1>3. Quiet(e, u, Result(u)) /\ Result(u).sock = u /\ Result(u).got = <<>>
  BY <1>2, QuietResult
<1>4. Quiet(e, s, Result(u)) /\ Result(u).sock.state = st /\ Result(u).sock.ack = a /\ Result(u).got = <<>>
  BY <1>2, <1>3, QuietFrom
<1> QED
  BY <1>4 DEF t, u

(* A change of state without a reply.                                      *)
LEMMA QuietState ==
  ASSUME NEW e \in Side, NEW s \in Socket, NEW st \in State
  PROVE  LET r == Result(SetState(s, st))
         IN  Quiet(e, s, r) /\ r.sock.state = st /\ r.got = <<>>
<1> DEFINE t == SetState(s, st)
<1>1. t \in Socket /\ t.state = st /\ t.seq = s.seq /\ t.unacked = s.unacked
  BY WithState
<1> HIDE DEF t
<1>3. Quiet(e, t, Result(t)) /\ Result(t).sock = t /\ Result(t).got = <<>>
  BY <1>1, QuietResult
<1>4. Quiet(e, s, Result(t)) /\ Result(t).sock.state = st /\ Result(t).got = <<>>
  BY <1>1, <1>3, QuietFrom
<1> QED
  BY <1>4 DEF t

(* In every state but Established, handling a packet sends no data and     *)
(* moves to a state that the packet justifies.                             *)
LEMMA HandleSimple ==
  ASSUME NEW e \in Side, NEW s \in Socket, NEW p \in Packets, NEW delay \in BOOLEAN
  PROVE  /\ s.state = "Closed" =>
              LET r == HandleClosed(e, s, p) IN Quiet(e, s, r) /\ Moves(s, p, r)
         /\ s.state = "SynSent" =>
              LET r == HandleSynSent(e, s, p, delay) IN Quiet(e, s, r) /\ Moves(s, p, r)
         /\ s.state = "SynReceived" =>
              LET r == HandleSynReceived(e, s, p) IN Quiet(e, s, r) /\ Moves(s, p, r)
         /\ s.state = "FinWait1" =>
              LET r == HandleFinWait1(e, s, p) IN Quiet(e, s, r) /\ Moves(s, p, r)
         /\ s.state = "FinWait2" =>
              LET r == HandleFinWait2(e, s, p) IN Quiet(e, s, r) /\ Moves(s, p, r)
         /\ s.state = "LastAck" =>
              LET r == HandleLastAck(e, s, p) IN Quiet(e, s, r) /\ Moves(s, p, r)
         /\ s.state \in {"CloseWait", "TimeWait"} =>
              LET r == Reset(e, s) IN Quiet(e, s, r) /\ Moves(s, p, r)
<1> DEFINE a == After(p)
           b == After(p) + 1
<1>0. a \in Nat /\ b \in Nat
  BY AfterFacts
<1>00. \A c \in Nat, st \in State :
         LET r == Result([SetState(s, st) EXCEPT !.ack = c])
         IN  Quiet(e, s, r) /\ r.sock.state = st /\ r.sock.ack = c /\ r.got = <<>>
  BY QuietSet
<1>01. {"Established", "FinWait2", "Closed"} \subseteq State
  BY DEF State
<1> USE DEF Shut
<1>1. CASE s.state = "Closed"
  <2>1. Quiet(e, s, Result(s)) /\ Result(s).sock = s /\ Result(s).got = <<>>
    BY QuietResult
  <2>2. LET r == Reply(e, s, "RST_ACK") IN Quiet(e, s, r) /\ r.sock.state = s.state /\ r.got = <<>>
    BY QuietReply
  <2> QED
    BY <1>1, <2>1, <2>2 DEF HandleClosed, Moves
<1>2. CASE s.state = "SynSent"
  <2>1. LET r == In(Ack(e, [s EXCEPT !.ack = b]), "Established")
        IN  Quiet(e, s, r) /\ r.sock.state = "Established" /\ r.sock.ack = b /\ r.got = <<>>
    BY <1>0, QuietAckIn DEF State
  <2>2. LET r == Result(SetState(s, "Closed")) IN Quiet(e, s, r) /\ r.sock.state = "Closed" /\ r.got = <<>>
    BY QuietState DEF State
  <2>3. LET r == Reset(e, s) IN Quiet(e, s, r) /\ r.sock.state = "Closed" /\ r.got = <<>>
    BY QuietReset
  <2>4. LET r == In(DelayedAck(e, [s EXCEPT !.ack = b], delay), "Closed")
        IN  Quiet(e, s, r) /\ r.sock.state = "Closed" /\ r.got = <<>>
    <3> DEFINE t == [s EXCEPT !.ack = b]
               v == DelayedAck(e, t, delay)
    <3>1. t \in Socket /\ t.seq = s.seq /\ t.unacked = s.unacked
      BY <1>0, WithAck
    <3> HIDE DEF t
    <3>2. Quiet(e, s, v) /\ v.got = <<>>
      BY <3>1, QuietDelayedAck, QuietFrom
    <3> HIDE DEF v
    <3>3. Quiet(e, s, In(v, "Closed")) /\ In(v, "Closed").sock.state = "Closed"
          /\ In(v, "Closed").got = <<>>
      BY <3>2, QuietIn DEF State
    <3> QED BY <3>3 DEF v, t
  <2> QED
    BY <1>2, <2>1, <2>2, <2>3, <2>4 DEF HandleSynSent, Moves
<1>3. CASE s.state = "SynReceived"
  <2>1. LET r == Result([SetState(s, "Established") EXCEPT !.ack = a])
        IN  Quiet(e, s, r) /\ r.sock.state = "Established" /\ r.sock.ack = a /\ r.got = <<>>
    BY <1>0, <1>00, <1>01, Zenon
  <2>2. Quiet(e, s, Result(s)) /\ Result(s).sock = s /\ Result(s).got = <<>>
    BY QuietResult
  <2>3. LET r == Reset(e, s) IN Quiet(e, s, r) /\ r.sock.state = "Closed" /\ r.got = <<>>
    BY QuietReset
  <2> QED
    BY <1>3, <2>1, <2>2, <2>3 DEF HandleSynReceived, Moves
<1>4. CASE s.state = "FinWait1"
  <2>1. LET r == Result([SetState(s, "FinWait2") EXCEPT !.ack = a])
        IN  Quiet(e, s, r) /\ r.sock.state = "FinWait2" /\ r.got = <<>>
    BY <1>0, <1>00, <1>01, Zenon
  <2>2. LET r == In(Ack(e, [s EXCEPT !.ack = b]), "TimeWait")
        IN  Quiet(e, s, r) /\ r.sock.state = "TimeWait" /\ r.got = <<>>
    BY <1>0, QuietAckIn DEF State
  <2>3. LET r == Reset(e, s) IN Quiet(e, s, r) /\ r.sock.state = "Closed" /\ r.got = <<>>
    BY QuietReset
  <2> QED
    BY <1>4, <2>1, <2>2, <2>3 DEF HandleFinWait1, Moves
<1>5. CASE s.state = "FinWait2"
  <2>1. Quiet(e, s, Result(s)) /\ Result(s).sock = s /\ Result(s).got = <<>>
    BY QuietResult
  <2>2. LET r == In(Ack(e, [s EXCEPT !.ack = b]), "TimeWait")
        IN  Quiet(e, s, r) /\ r.sock.state = "TimeWait" /\ r.got = <<>>
    BY <1>0, QuietAckIn DEF State
  <2>3. LET r == Reset(e, s) IN Quiet(e, s, r) /\ r.sock.state = "Closed" /\ r.got = <<>>
    BY QuietReset
  <2>4. LET r == Result(SetState(s, "Closed")) IN Quiet(e, s, r) /\ r.sock.state = "Closed" /\ r.got = <<>>
    BY QuietState DEF State
  <2> QED
    BY <1>5, <2>1, <2>2, <2>3, <2>4 DEF HandleFinWait2, Moves
<1>6. CASE s.state = "LastAck"
  <2>1. LET r == Result([SetState(s, "Closed") EXCEPT !.ack = a])
        IN  Quiet(e, s, r) /\ r.sock.state = "Closed" /\ r.got = <<>>
    BY <1>0, <1>00, <1>01, Zenon
  <2>2. LET r == Reset(e, s) IN Quiet(e, s, r) /\ r.sock.state = "Closed" /\ r.got = <<>>
    BY QuietReset
  <2> QED
    BY <1>6, <2>1, <2>2 DEF HandleLastAck, Moves
<1>7. CASE s.state \in {"CloseWait", "TimeWait"}
  <2>1. LET r == Reset(e, s) IN Quiet(e, s, r) /\ r.sock.state = "Closed" /\ r.got = <<>>
    BY QuietReset
  <2> QED
    BY <1>7, <2>1 DEF Moves
<1> QED
  BY <1>1, <1>2, <1>3, <1>4, <1>5, <1>6, <1>7

(* In Established it also takes the data of the packet it waits for, and   *)
(* of no other.                                                            *)
LEMMA HandleEstablishedFacts ==
  ASSUME NEW e \in Side, NEW s \in Socket, NEW p \in Packets, s.state = "Established",
         p.data # 0 => p.flags = "PSH_ACK", NEW fits \in BOOLEAN, NEW delay \in BOOLEAN
  PROVE  LET r == HandleEstablished(e, s, p, fits, delay) IN Quiet(e, s, r) /\ Moves(s, p, r)
<1> DEFINE r == HandleEstablished(e, s, p, fits, delay)
           a == After(p)
           s0 == [s EXCEPT !.dups = 0]
           t == [s0 EXCEPT !.ack = a]
           d == s.dups + 1
           more == [s EXCEPT !.dups = d]
           u == [t EXCEPT !.ack = a + 1]
<1>0. a \in Nat /\ a + 1 \in Nat /\ d \in Nat /\ 0 \in Nat
  BY AfterFacts DEF Socket
<1>1. s0 \in Socket /\ s0.ack = s.ack /\ s0.state = s.state /\ s0.seq = s.seq /\ s0.unacked = s.unacked
  BY <1>0, WithDups
<1>2. more \in Socket /\ more.ack = s.ack /\ more.state = s.state /\ more.seq = s.seq /\ more.unacked = s.unacked
  BY <1>0, WithDups
<1>3. t \in Socket /\ t.ack = a /\ t.state = s.state /\ t.seq = s.seq /\ t.unacked = s.unacked
  <2> HIDE DEF s0, a
  <2> QED BY <1>0, <1>1, WithAck
<1>4. u \in Socket /\ u.ack = a + 1 /\ u.state = s.state /\ u.seq = s.seq /\ u.unacked = s.unacked
  <2> HIDE DEF t, a
  <2> QED BY <1>0, <1>3, WithAck
<1>5. /\ [s EXCEPT !.dups = 0, !.ack = After(p)] = t
      /\ [[s EXCEPT !.dups = 0, !.ack = After(p)] EXCEPT !.ack = @ + 1] = u
      /\ [s EXCEPT !.dups = @ + 1] = more
  BY <1>3 DEF Socket
<1> HIDE DEF s0, t, more, u, d
<1>6. r = CASE HasRst(p) -> Result(SetState(s, "Closed"))
            [] ~HasRst(p) /\ ~InOrder(s, p) ->
                  IF s.dups < maximum_duplicate_acks THEN Ack(e, more) ELSE Result(s)
            [] p.flags = "FIN_ACK" /\ InOrder(s, p) -> In(DelayedAck(e, u, delay), "CloseWait")
            [] p.data # 0 /\ InOrder(s, p) /\ fits -> [DelayedAck(e, t, delay) EXCEPT !.got = <<p.data>>]
            [] OTHER -> Result(s0)
  BY <1>5 DEF HandleEstablished, s0
<1> HIDE DEF r
<1>7. CASE HasRst(p)
  <2>1. r = Result(SetState(s, "Closed"))
    BY <1>6, <1>7 DEF HasRst
  <2>2. Quiet(e, s, r) /\ r.sock.state = "Closed" /\ r.got = <<>>
    BY <2>1, QuietState DEF State
  <2> QED
    BY <2>2 DEF Moves, Shut, r
<1>8. CASE ~HasRst(p) /\ ~InOrder(s, p)
  <2>1. r \in {Ack(e, more), Result(s)}
    BY <1>6, <1>8
  <2>2. Quiet(e, s, Ack(e, more)) /\ Ack(e, more).sock.state = s.state
        /\ Ack(e, more).sock.ack = s.ack /\ Ack(e, more).got = <<>>
    BY <1>2, QuietReply, QuietFrom DEF Ack
  <2>3. Quiet(e, s, Result(s)) /\ Result(s).sock = s /\ Result(s).got = <<>>
    BY QuietResult
  <2>4. Quiet(e, s, r) /\ r.sock.state = s.state /\ r.sock.ack = s.ack /\ r.got = <<>>
    BY <2>1, <2>2, <2>3
  <2> QED
    BY <2>4 DEF Moves, Shut, r
<1>9. CASE ~HasRst(p) /\ InOrder(s, p) /\ p.flags = "FIN_ACK"
  <2> DEFINE v == DelayedAck(e, u, delay)
  <2>1. r = In(v, "CloseWait")
    BY <1>6, <1>9
  <2>2. Quiet(e, s, v) /\ v.got = <<>>
    BY <1>4, QuietDelayedAck, QuietFrom
  <2> HIDE DEF v
  <2>3. Quiet(e, s, r) /\ r.sock.state = "CloseWait" /\ r.got = <<>>
    BY <2>1, <2>2, QuietIn DEF State
  <2> QED
    BY <1>9, <2>3 DEF Moves, Shut, r, InOrder
<1>10. CASE ~HasRst(p) /\ InOrder(s, p) /\ p.flags # "FIN_ACK" /\ p.data # 0 /\ fits
  <2> DEFINE v == DelayedAck(e, t, delay)
             g == <<p.data>>
  <2>1. r = [v EXCEPT !.got = g]
    BY <1>6, <1>10
  <2>2. Quiet(e, s, v) /\ v.sock.state = s.state /\ v.sock.ack = a
    BY <1>3, QuietDelayedAck, QuietFrom
  <2>3. a = p.seq + 1 /\ p.data \in Nat /\ g \in Seq(Nat) /\ g # <<>>
    BY <1>10, AfterFacts DEF Packets
  <2> HIDE DEF v, a, g
  <2>4. r \in Results /\ r.sock = v.sock /\ r.out = v.out /\ r.got = g
    BY <2>1, <2>2, <2>3 DEF Quiet, Results
  <2>5. Quiet(e, s, r)
    BY <2>2, <2>4 DEF Quiet
  <2>6. p.seq = s.ack /\ p.data # 0 /\ r.sock.state = "Established" /\ r.sock.ack = p.seq + 1
    BY <1>10, <2>2, <2>3, <2>4 DEF InOrder
  <2>7. Moves(s, p, r)
    BY <2>3, <2>4, <2>6 DEF Moves, Shut, g
  <2> QED
    BY <2>5, <2>7 DEF r
<1>11. CASE ~HasRst(p) /\ InOrder(s, p) /\ p.flags # "FIN_ACK" /\ ~(p.data # 0 /\ fits)
  <2>1. r = Result(s0)
    BY <1>6, <1>11
  <2>2. Quiet(e, s, r) /\ r.sock.state = s.state /\ r.sock.ack = s.ack /\ r.got = <<>>
    BY <1>1, <2>1, QuietResult, QuietFrom
  <2> QED
    BY <2>2 DEF Moves, Shut, r
<1> QED
  BY <1>7, <1>8, <1>9, <1>10, <1>11 DEF r

(* Every handler of a socket that is not new.                              *)
LEMMA HandleFacts ==
  ASSUME NEW e \in Side, NEW s \in Socket, NEW p \in Packets, s.state # "new",
         p.data # 0 => p.flags = "PSH_ACK", NEW fits \in BOOLEAN, NEW delay \in BOOLEAN
  PROVE  LET r == Handle(e, s, p, fits, delay) IN Quiet(e, s, r) /\ Moves(s, p, r)
<1>1. s.state \in State \ {"new"}
  BY DEF Socket
<1>2. CASE s.state = "Established"
  BY <1>2, HandleEstablishedFacts DEF Handle
<1>3. CASE s.state # "Established"
  BY <1>1, <1>3, HandleSimple DEF Handle, State
<1> QED
  BY <1>2, <1>3

(* The listening socket: nothing, or a connection in SynReceived that      *)
(* waits for the acknowledgement of its own SYN.                           *)
LEMMA HandleListenFacts ==
  ASSUME NEW e \in Side, NEW s \in Socket, NEW p \in Packets, s.state = "new",
         NEW fits \in BOOLEAN, NEW delay \in BOOLEAN
  PROVE  LET r == Handle(e, s, p, fits, delay)
         IN  \/ r = Result(s)
             \/ \E u \in Unacked :
                  /\ p.flags = "SYN"
                  /\ r \in Results /\ r.got = <<>> /\ r.out = {u.packet}
                  /\ r.sock.state = "SynReceived" /\ r.sock.seq = s.seq + 1
                  /\ r.sock.ack = After(p) + 1 /\ r.sock.delayed = s.delayed
                  /\ r.sock.unacked = Append(s.unacked, u)
                  /\ u.packet.to = Peer(e) /\ u.packet.data = 0 /\ u.packet.flags = "SYN_ACK"
                  /\ u.packet.seq = s.seq /\ u.packet.ack = After(p) + 1
<1> DEFINE r == Handle(e, s, p, fits, delay)
           a == After(p) + 1
           t == [s EXCEPT !.ack = a]
           u == [end |-> t.seq + 1, packet |-> Packet(e, t, "SYN_ACK", 0)]
           w == Sent(e, t, "SYN_ACK", 0)
           x == SetState(w, "SynReceived")
<1>0. a \in Nat /\ "SYN_ACK" \in Flags /\ 0 \in Nat /\ "SynReceived" \in State
  BY AfterFacts DEF Flags, State
<1>1. r = HandleListen(e, s, p)
  BY DEF Handle
<1>2. CASE p.flags # "SYN"
  BY <1>1, <1>2 DEF HandleListen
<1>3. CASE p.flags = "SYN"
  <2>1. t \in Socket /\ t.ack = a /\ t.state = s.state /\ t.seq = s.seq
        /\ t.unacked = s.unacked /\ t.delayed = s.delayed
    BY <1>0, WithAck
  <2>2. r = In(Reply(e, t, "SYN_ACK"), "SynReceived")
    BY <1>1, <1>3 DEF HandleListen
  <2> HIDE DEF t, a
  <2>3. w \in Socket /\ w.ack = a /\ w.delayed = s.delayed /\ w.seq = s.seq + 1
        /\ w.unacked = Append(s.unacked, u)
    BY <1>0, <2>1, SentFacts
  <2>4. /\ u.packet \in Packets /\ u.packet.to = Peer(e) /\ u.packet.flags = "SYN_ACK"
        /\ u.packet.data = 0 /\ u.packet.seq = s.seq /\ u.packet.ack = a
    BY <1>0, <2>1, PacketFacts
  <2>5. u \in Unacked
    BY <2>1, <2>4 DEF Unacked, Socket
  <2>6. Reply(e, t, "SYN_ACK") = [sock |-> w, out |-> {u.packet}, got |-> <<>>]
    BY DEF Reply
  <2> HIDE DEF u, w
  <2>7. x \in Socket /\ x.state = "SynReceived" /\ x.ack = a /\ x.seq = s.seq + 1
        /\ x.unacked = Append(s.unacked, u) /\ x.delayed = s.delayed
    BY <1>0, <2>3, WithState
  <2>8. r = [sock |-> x, out |-> {u.packet}, got |-> <<>>]
    <3> DEFINE o == u.packet
    <3>1. r = In([sock |-> w, out |-> {o}, got |-> <<>>], "SynReceived")
      BY <2>2, <2>6
    <3> HIDE DEF o
    <3>2. In([sock |-> w, out |-> {o}, got |-> <<>>], "SynReceived")
            = [sock |-> x, out |-> {o}, got |-> <<>>]
      BY InFacts
    <3> QED BY <3>1, <3>2 DEF o
  <2> HIDE DEF x, r
  <2>9. r \in Results /\ r.got = <<>> /\ r.out = {u.packet} /\ r.sock = x
    BY <2>4, <2>7, <2>8 DEF Results
  <2> QED
    BY <1>3, <2>4, <2>5, <2>7, <2>9 DEF r, a
<1> QED
  BY <1>2, <1>3

(* An acknowledgement removes packets from the head of the list: only such *)
(* as it covers.                                                           *)
LEMMA AckedFacts ==
  ASSUME NEW s \in Socket, NEW p \in Packets
  PROVE  LET t == Acked(s, p)
         IN  /\ t \in Socket
             /\ t.state = s.state /\ t.seq = s.seq /\ t.ack = s.ack /\ t.delayed = s.delayed
             /\ t.last_ack = s.last_ack /\ t.dups = s.dups /\ t.attempts \in {0, s.attempts}
             /\ \A i \in DOMAIN t.unacked : \E j \in DOMAIN s.unacked : t.unacked[i] = s.unacked[j]
             /\ \A j \in DOMAIN s.unacked :
                  \/ \E i \in DOMAIN t.unacked : t.unacked[i] = s.unacked[j]
                  \/ s.unacked[j].end <= p.ack
<1>1. CASE ~HasAck(p)
  BY <1>1 DEF Acked
<1>2. CASE HasAck(p)
  <2> DEFINE q == s.unacked
             n == CoveredPackets(s, p.ack)
             open == SubSeq(q, n + 1, Len(q))
             Stop == {k \in 0..Len(q) : k = Len(q) \/ ~Covered(q[k + 1], p.ack)}
             att == IF open = <<>> THEN 0 ELSE s.attempts
  <2>1. q \in Seq(Unacked) /\ Len(q) \in Nat
    BY DEF Socket
  <2>2. PICK m \in Stop : \A k \in Stop : m <= k
    <3>1. Stop \in SUBSET Nat /\ Len(q) \in Stop
      BY <2>1
    <3> HIDE DEF Stop
    <3> QED BY <3>1, Least
  <2>3. \A i \in 1..m : Covered(q[i], p.ack)
    <3> SUFFICES ASSUME NEW i \in 1..m, ~Covered(q[i], p.ack) PROVE FALSE
      OBVIOUS
    <3>1. m \in Nat /\ i - 1 \in 0..Len(q) /\ i - 1 < m /\ (i - 1) + 1 = i
      BY <2>1, <2>2
    <3>2. i - 1 \in Stop
      BY <3>1
    <3> HIDE DEF Stop
    <3> QED
      BY <2>1, <2>2, <3>1, <3>2
  <2>4. n \in 0..Len(q) /\ \A i \in 1..n : Covered(q[i], p.ack)
    BY <2>2, <2>3 DEF CoveredPackets
  <2> HIDE DEF n
  <2>5. /\ open \in Seq(Unacked) /\ Len(open) = Len(q) - n
        /\ \A i \in 1..Len(open) : open[i] = q[i + n]
    BY <2>1, <2>4
  <2>6. Acked(s, p) = [s EXCEPT !.unacked = open, !.attempts = att]
    BY <1>2 DEF Acked, n
  <2>7. att \in Nat /\ att \in {0, s.attempts}
    BY DEF Socket
  <2> HIDE DEF open, att
  <2> DEFINE t == Acked(s, p)
  <2>8. t \in Socket /\ t.unacked = open
        /\ t.state = s.state /\ t.seq = s.seq /\ t.ack = s.ack /\ t.delayed = s.delayed
        /\ t.last_ack = s.last_ack /\ t.dups = s.dups /\ t.attempts \in {0, s.attempts}
    BY <2>5, <2>6, <2>7 DEF Socket
  <2> HIDE DEF q, t
  <2>9. \A i \in DOMAIN open : i + n \in DOMAIN q /\ open[i] = q[i + n]
    BY <2>1, <2>4, <2>5
  <2>10. ASSUME NEW j \in DOMAIN q
         PROVE  (\E i \in DOMAIN open : open[i] = q[j]) \/ q[j].end <= p.ack
    <3>1. CASE j <= n
      BY <2>1, <2>4, <3>1 DEF Covered
    <3>2. CASE ~(j <= n)
      <4>1. j - n \in DOMAIN open /\ (j - n) + n = j
        BY <2>1, <2>4, <2>5, <3>2
      <4>2. open[j - n] = q[j]
        BY <4>1, <2>9
      <4> QED BY <4>1, <4>2
    <3> QED BY <3>1, <3>2
  <2> QED
    BY <2>8, <2>9, <2>10 DEF q, t
<1> QED
  BY <1>1, <1>2

-----------------------------------------------------------------------------
(* A step of a socket that is open, by what it has to respect.             *)

(* What a socket may send that has not been sent before.                   *)
MaySend(e, r, o) ==
    /\ o \in Packets /\ o.to = Peer(e) /\ o.data = 0
    /\ \/ o.flags = "ACK" /\ o.seq = sock[e].seq
       \/ o.flags \in {"RST", "RST_ACK"}
       \/ o.flags = "FIN_ACK" /\ o.seq = sock[e].seq /\ r.sock.state \in Shut

Legal(e, r) ==
    /\ sock[e].state # "new" /\ r.sock.state # "new"
    /\ r \in [sock : Socket, out : SUBSET Packets, got : Seq(Nat)]
    /\ r.sock.seq = sock[e].seq
    /\ \A o \in r.out : o \in net \/ MaySend(e, r, o)
    /\ \A i \in DOMAIN r.sock.unacked :
         \E j \in DOMAIN sock[e].unacked : r.sock.unacked[i] = sock[e].unacked[j]
    /\ r.sock.state \in {"SynSent", "SynReceived"} => r.sock.state = sock[e].state /\ r.got = <<>>
    /\ sock[e].state \in Shut => r.sock.state \in Shut
    /\ sock[e].state \in {"SynSent", "Closed"} /\ sock[Peer(e)].state = "new" =>
         r.sock.state \in {"SynSent", "Closed"}
    /\ e \notin jumped' =>
         /\ r.got = <<>> \/ (r.got = <<Len(received[e]) + 1>> /\ Len(received[e]) < sent[Peer(e)])
         /\ r.sock.state \in {"SynReceived", "Established"} =>
              r.sock.ack = Len(received[e]) + Len(r.got) + 1
         /\ r.sock.state \in {"CloseWait", "LastAck"} =>
              /\ sock[Peer(e)].state \in Shut /\ r.got = <<>>
              /\ Len(received[e]) = sent[Peer(e)]

(* The bytes 1 to n, and the next one.                                     *)
LEMMA CountFacts ==
  ASSUME NEW s \in Seq(Nat), s = [i \in 1..Len(s) |-> i]
  PROVE  LET t == s \o <<Len(s) + 1>>
         IN  t \in Seq(Nat) /\ Len(t) = Len(s) + 1 /\ t = [i \in 1..Len(t) |-> i]
<1> DEFINE t == s \o <<Len(s) + 1>>
<1>1. Len(s) \in Nat /\ t \in Seq(Nat) /\ Len(t) = Len(s) + 1
  OBVIOUS
<1>2. DOMAIN t = 1..Len(t)
  BY <1>1
<1>3. \A i \in 1..Len(t) : t[i] = i
  BY <1>1
<1> HIDE DEF t
<1>4. t = [i \in 1..Len(t) |-> i]
  BY <1>1, <1>2, <1>3
<1> QED
  BY <1>1, <1>4 DEF t

(* A legal step keeps the stream and the list of unacknowledged packets.   *)
LEMMA LegalStep ==
  ASSUME StreamInv, UnackedOK, NEW e \in Side, NEW r, Legal(e, r), Apply(e, r),
         UNCHANGED <<plan, sent>>, jumped' \in SUBSET Side, jumped \subseteq jumped'
  PROVE  StreamInv' /\ UnackedOK'
<1> DEFINE f == Peer(e)
<1>0. f \in Side /\ f # e /\ Peer(f) = e /\ \A x \in Side : x = e \/ x = f
  BY PeerFacts DEF Side, Peer
<1>1. /\ r.sock \in Socket /\ r.out \subseteq Packets /\ r.got \in Seq(Nat)
      /\ sock \in [Side -> Socket] /\ net \subseteq Packets /\ plan \in Plans
      /\ sent \in [Side -> Nat] /\ received \in [Side -> Seq(Nat)]
  BY DEF StreamInv, TypeOK, Legal
<1>2. /\ sock' \in [Side -> Socket] /\ sock'[e] = r.sock /\ sock'[f] = sock[f]
      /\ \A x \in Side : x # e => sock'[x] = sock[x]
  BY <1>0, <1>1 DEF Apply
<1>3. received[e] \in Seq(Nat) /\ received[e] \o r.got \in Seq(Nat)
  BY <1>1
<1>4. received' \in [Side -> Seq(Nat)] /\ received'[e] = received[e] \o r.got /\ received'[f] = received[f]
  <2> DEFINE g == received[e] \o r.got
  <2>1. received' = [received EXCEPT ![e] = g] /\ g \in Seq(Nat)
    BY <1>3 DEF Apply
  <2> HIDE DEF g
  <2>2. received' \in [Side -> Seq(Nat)] /\ received'[e] = g /\ received'[f] = received[f]
    BY <1>0, <1>1, <2>1
  <2> QED BY <2>2 DEF g
<1>5. net' = net \cup r.out /\ sent' = sent /\ plan' = plan
  BY DEF Apply
<1>6. r.got = <<>> => received'[e] = received[e]
  BY <1>3, <1>4
<1>7. TypeOK'
  BY <1>1, <1>2, <1>4, <1>5 DEF TypeOK
<1>8. Numbered'
  <2>1. ASSUME NEW x \in Side
        PROVE  /\ sock'[x].state = "new" =>
                           sock'[x].seq = 0 /\ ~sock'[x].delayed /\ sock'[x].attempts = 0
               /\ sock'[x].state # "new" => sock'[x].seq = sent[x] + 1
               /\ sock'[x].state \in {"new", "SynSent", "SynReceived"} =>
                    sent[x] = 0 /\ received'[x] = <<>>
    <3>1. CASE x = e
      BY <1>2, <1>6, <3>1 DEF StreamInv, Numbered, Legal
    <3>2. CASE x = f
      BY <1>0, <1>2, <1>4, <3>2 DEF StreamInv, Numbered
    <3> QED BY <1>0, <3>1, <3>2
  <2> QED
    BY <2>1, <1>5 DEF Numbered
<1>9. Handshake'
  <2>1. CASE e = "client"
    <3>1. f = "server"
      BY <2>1 DEF Peer
    <3> QED
      BY <1>2, <1>5, <2>1, <3>1 DEF StreamInv, Handshake, Legal
  <2>2. CASE e = "server"
    <3>1. f = "client"
      BY <2>2 DEF Peer
    <3> QED
      BY <1>2, <1>5, <2>2, <3>1 DEF StreamInv, Handshake, Legal
  <2> QED
    BY <2>1, <2>2 DEF Side
<1>10. sock'["client"].state # "new"
  <2>1. "client" \in Side /\ sock["client"].state # "new"
    <3>1. CASE e = "client"
      BY <3>1 DEF Legal, Side
    <3>2. CASE e = "server"
      BY <3>2 DEF StreamInv, Handshake, Legal, Side
    <3> QED BY <3>1, <3>2 DEF Side
  <2> QED
    BY <1>2, <2>1 DEF Legal
<1>11. NetOK'
  <2> SUFFICES ASSUME NEW p \in net' PROVE PacketOK(p)'
    BY DEF NetOK
  <2>1. CASE p \in net
    <3>1. PacketOK(p) /\ p \in Packets
      BY <1>1, <2>1 DEF StreamInv, NetOK
    <3>2. Peer(p.to) \in Side
      BY <3>1, PeerFacts DEF Packets
    <3>3. sock[Peer(p.to)].state # "new" => sock'[Peer(p.to)].state # "new"
      BY <1>2, <3>2 DEF Legal
    <3>4. sock[Peer(p.to)].state \in Shut => sock'[Peer(p.to)].state \in Shut
      BY <1>2, <3>2 DEF Legal
    <3> QED
      BY <1>5, <1>10, <3>1, <3>3, <3>4 DEF PacketOK
  <2>2. CASE p \notin net
    <3>1. MaySend(e, r, p)
      BY <1>5, <2>2 DEF Legal
    <3>2. Peer(p.to) = e
      BY <1>0, <3>1 DEF MaySend
    <3>3. sock'[e].state # "new" /\ sock[e].seq = sent[e] + 1 /\ sent[e] \in Nat
      BY <1>1, <1>2 DEF Legal, StreamInv, Numbered
    <3>4. p.data = 0 /\ p.flags \notin {"SYN", "SYN_ACK"}
      BY <3>1 DEF MaySend
    <3>5. p.flags = "FIN_ACK" => p.seq = sent[e] + 1 /\ sock'[e].state \in Shut
      BY <1>2, <3>1, <3>3 DEF MaySend
    <3>6. p.flags = "ACK" => p.seq \in 1..sent[e] + 1
      BY <3>1, <3>3 DEF MaySend
    <3> QED
      BY <1>5, <1>10, <3>2, <3>3, <3>4, <3>5, <3>6 DEF PacketOK
  <2> QED
    BY <2>1, <2>2
<1>12. InStep'
  <2> SUFFICES ASSUME NEW x \in Side, x \notin jumped' PROVE InStepAt(x)'
    BY DEF InStep
  <2>0. InStepAt(x)
    BY DEF StreamInv, InStep
  <2>2. CASE x = f
    <3>1. sock'[e].state \in Shut \/ sock[e].state \notin Shut
      BY <1>2 DEF Legal
    <3> QED
      BY <1>0, <1>2, <1>4, <1>5, <2>0, <2>2, <3>1 DEF InStepAt
  <2>3. CASE x = e /\ r.got = <<>>
    <3>1. received'[e] = received[e] /\ Len(r.got) = 0 /\ Len(received[e]) \in Nat
      BY <1>3, <1>6, <2>3
    <3>2. sock'[e].state \in {"SynReceived", "Established"} => sock'[e].ack = Len(received[e]) + 1
      BY <1>2, <2>3, <3>1 DEF Legal
    <3>3. sock'[e].state \in {"CloseWait", "LastAck"} => sock'[f].state \in Shut /\ Len(received[e]) = sent[f]
      BY <1>2, <2>3 DEF Legal
    <3> QED
      BY <1>5, <2>0, <2>3, <3>1, <3>2, <3>3 DEF InStepAt
  <2>4. CASE x = e /\ r.got # <<>>
    <3>1. r.got = <<Len(received[e]) + 1>> /\ Len(received[e]) < sent[f]
      BY <2>4 DEF Legal
    <3>2. received'[e] = received[e] \o <<Len(received[e]) + 1>>
      BY <1>4, <3>1
    <3>3. received'[e] = [i \in 1..Len(received'[e]) |-> i] /\ Len(received'[e]) = Len(received[e]) + 1
      BY <1>3, <2>0, <2>4, <3>2, CountFacts DEF InStepAt
    <3>4. Len(received[e]) \in Nat /\ sent[f] \in Nat /\ Len(r.got) = 1
      BY <1>0, <1>1, <1>3, <3>1
    <3>5. sock'[e].state \in {"SynReceived", "Established"} => sock'[e].ack = Len(received'[e]) + 1
      BY <1>2, <2>4, <3>3, <3>4 DEF Legal
    <3>6. sock'[e].state \notin {"CloseWait", "LastAck"}
      BY <1>2, <2>4 DEF Legal
    <3>7. Len(received'[e]) <= sent[f]
      BY <3>1, <3>3, <3>4
    <3> QED
      BY <1>5, <2>4, <3>3, <3>5, <3>6, <3>7 DEF InStepAt
  <2> QED
    BY <1>0, <2>2, <2>3, <2>4
<1>13. UnackedOK'
  <2> SUFFICES ASSUME NEW x \in Side, NEW i \in DOMAIN sock'[x].unacked
               PROVE  LET u == sock'[x].unacked[i]
                      IN  /\ u.packet \in net' /\ u.packet.to = Peer(x)
                          /\ u.packet.data # 0 => u.end = u.packet.data + 1
    BY DEF UnackedOK
  <2>1. PICK j \in DOMAIN sock[x].unacked : sock'[x].unacked[i] = sock[x].unacked[j]
    BY <1>0, <1>2 DEF Legal
  <2> QED
    BY <1>5, <2>1 DEF UnackedOK
<1> QED
  BY <1>7, <1>8, <1>9, <1>11, <1>12, <1>13 DEF StreamInv

-----------------------------------------------------------------------------
(* Each action is such a step, or it opens a socket, or it writes.         *)

(* Delivering a packet is legal.                                           *)
LEMMA DeliverLegal ==
  ASSUME StreamInv, NEW p \in net, sock[p.to].state # "new",
         jumped' = IF Jumps(sock[p.to], p) THEN jumped \cup {p.to} ELSE jumped,
         NEW fits \in BOOLEAN, NEW delay \in BOOLEAN
  PROVE  LET r == Handle(p.to, Acked(sock[p.to], p), p, fits, delay)
             s == Acked(sock[p.to], p)
         IN  Legal(p.to, r) /\ Quiet(p.to, s, r) /\ Moves(s, p, r)
<1> DEFINE e == p.to
           w == Peer(e)
           s == Acked(sock[e], p)
           r == Handle(e, s, p, fits, delay)
<1>1. p \in Packets /\ PacketOK(p) /\ e \in Side
  BY DEF StreamInv, TypeOK, NetOK, Packets
<1>2. /\ sock[e] \in Socket /\ received[e] \in Seq(Nat) /\ Len(received[e]) \in Nat
      /\ w \in Side /\ sent[w] \in Nat /\ Peer(w) = e
  BY <1>1, PeerFacts DEF StreamInv, TypeOK
<1>3. /\ s \in Socket /\ s.state = sock[e].state /\ s.seq = sock[e].seq /\ s.ack = sock[e].ack
      /\ \A i \in DOMAIN s.unacked : \E j \in DOMAIN sock[e].unacked : s.unacked[i] = sock[e].unacked[j]
  BY <1>1, <1>2, AckedFacts
<1>4. /\ sock[w].state # "new"
      /\ p.data # 0 => p.flags = "PSH_ACK" /\ p.seq = p.data /\ p.data <= sent[w]
      /\ p.flags = "FIN_ACK" => p.seq = sent[w] + 1 /\ sock[w].state \in Shut
      /\ p.flags = "SYN_ACK" => p.seq = 0
      /\ p.flags = "ACK" => p.seq \in 1..sent[w] + 1
  BY <1>1 DEF PacketOK
<1> HIDE DEF s
<1>5. Quiet(e, s, r) /\ Moves(s, p, r)
  BY <1>1, <1>3, <1>4, HandleFacts
<1>6. p.data = 0 => After(p) = p.seq
  BY <1>1, AfterFacts
<1>7. /\ p.seq \in Nat /\ p.data \in Nat /\ s.ack \in Nat
      /\ s.state \in State \ {"new"}
  BY <1>1, <1>3 DEF Packets, Socket
<1> HIDE DEF r, e
<1>8. r.sock.state # "new"
  BY <1>5, <1>7 DEF Moves, Shut, State
<1>9. /\ r \in [sock : Socket, out : SUBSET Packets, got : Seq(Nat)]
      /\ r.sock.seq = sock[e].seq
      /\ \A o \in r.out : MaySend(e, r, o)
      /\ r.sock.unacked = s.unacked
  BY <1>3, <1>5 DEF Quiet, Results, MaySend
<1>10. /\ r.sock.state \in {"SynSent", "SynReceived"} => r.sock.state = sock[e].state /\ r.got = <<>>
       /\ sock[e].state \in Shut => r.sock.state \in Shut
       /\ sock[e].state \in {"SynSent", "Closed"} /\ sock[w].state = "new" =>
             r.sock.state \in {"SynSent", "Closed"}
  BY <1>3, <1>4, <1>5, <1>7 DEF Moves, Shut, State
<1>11. ASSUME e \notin jumped'
       PROVE  /\ r.got = <<>> \/ (r.got = <<Len(received[e]) + 1>> /\ Len(received[e]) < sent[w])
              /\ r.sock.state \in {"SynReceived", "Established"} =>
                   r.sock.ack = Len(received[e]) + Len(r.got) + 1
              /\ r.sock.state \in {"CloseWait", "LastAck"} =>
                   /\ sock[w].state \in Shut /\ r.got = <<>>
                   /\ Len(received[e]) = sent[w]
  <2>0. /\ e \in Side /\ InStepAt(e) /\ ~Jumps(sock[e], p)
        /\ s.state \in {"SynReceived", "Established"} => s.ack = Len(received[e]) + 1
    <3>1. e \in Side \ jumped /\ ~Jumps(sock[e], p)
      BY <1>1, <1>11 DEF e
    <3> QED BY <1>3, <3>1 DEF StreamInv, InStep, InStepAt
  <2>1. CASE r.got # <<>>
    <3>1. /\ s.state = "Established" /\ r.sock.state = "Established"
          /\ p.data # 0 /\ p.seq = s.ack /\ r.got = <<p.data>> /\ r.sock.ack = p.seq + 1
      BY <1>5, <2>1 DEF Moves
    <3>2. p.data = Len(received[e]) + 1 /\ Len(received[e]) < sent[w]
      BY <1>2, <1>4, <1>7, <2>0, <3>1
    <3>3. Len(r.got) = 1
      BY <3>1
    <3>4. r.sock.ack = Len(received[e]) + Len(r.got) + 1
      BY <1>2, <1>4, <3>1, <3>2, <3>3
    <3> QED
      BY <3>1, <3>2, <3>4
  <2>2. CASE r.got = <<>>
    <3>1. Len(r.got) = 0
      BY <2>2
    <3>2. ASSUME r.sock.state \in {"SynReceived", "Established"}
          PROVE  r.sock.ack = Len(received[e]) + 1
      <4>1. CASE s.state = "SynSent"
        <5>1. p.flags = "SYN_ACK" /\ r.sock.ack = After(p) + 1
          BY <1>5, <3>2, <4>1 DEF Moves
        <5>2. After(p) = 0
          BY <1>4, <1>6, <1>7, <5>1
        <5>3. received[e] = <<>>
          BY <1>3, <2>0, <4>1 DEF StreamInv, Numbered
        <5> QED
          BY <5>1, <5>2, <5>3
      <4>2. CASE s.state = "SynReceived"
        <5>1. r.sock = s \/ (p.flags = "ACK" /\ r.sock.ack = After(p))
          BY <1>5, <3>2, <4>2 DEF Moves
        <5> QED
          BY <1>3, <2>0, <4>2, <5>1 DEF Jumps
      <4>3. CASE s.state = "Established"
        BY <1>5, <2>0, <2>2, <3>2, <4>3 DEF Moves
      <4>4. CASE s.state \in Shut \cup {"CloseWait"}
        BY <1>5, <3>2, <4>4 DEF Moves, Shut
      <4> QED
        BY <1>7, <4>1, <4>2, <4>3, <4>4 DEF State, Shut
    <3>3. ASSUME r.sock.state \in {"CloseWait", "LastAck"}
          PROVE  sock[w].state \in Shut /\ Len(received[e]) = sent[w]
      <4>1. s.state = "Established" /\ p.flags = "FIN_ACK" /\ p.seq = s.ack
        BY <1>5, <1>7, <3>3 DEF Moves, Shut, State
      <4> QED
        BY <1>2, <1>4, <1>7, <2>0, <4>1
    <3> QED
      BY <1>2, <2>2, <3>1, <3>2, <3>3
  <2> QED
    BY <2>1, <2>2
<1>12. Legal(e, r)
  BY <1>3, <1>8, <1>9, <1>10, <1>11 DEF Legal, e
<1> QED
  BY <1>5, <1>12 DEF e, s, r

(* What a step has to respect for the acknowledgements to be true.         *)
Faithful(e, r) ==
    /\ r.sock.state \in Receiving => sock[e].state \in Receiving
    /\ r.sock.state \in Honest => sock[e].state \in Honest
    /\ e \notin jumped' /\ r.sock.state \in Receiving =>
         /\ r.sock.ack <= Len(received[e]) + Len(r.got) + 1
         /\ \A o \in r.out : o \in net \/ o.ack <= r.sock.ack
    /\ \A j \in DOMAIN sock[e].unacked :
         \/ \E i \in DOMAIN r.sock.unacked : r.sock.unacked[i] = sock[e].unacked[j]
         \/ \E p \in net : p.to = e /\ sock[e].unacked[j].end <= p.ack

(* Delivering a packet is faithful.                                        *)
LEMMA DeliverFaithful ==
  ASSUME StreamInv, AcksOK, NEW p \in net, sock[p.to].state # "new",
         jumped' = IF Jumps(sock[p.to], p) THEN jumped \cup {p.to} ELSE jumped,
         NEW fits \in BOOLEAN, NEW delay \in BOOLEAN
  PROVE  Faithful(p.to, Handle(p.to, Acked(sock[p.to], p), p, fits, delay))
<1> DEFINE e == p.to
           s == Acked(sock[e], p)
           r == Handle(e, s, p, fits, delay)
<1>1. p \in Packets /\ e \in Side /\ sock[e] \in Socket /\ received[e] \in Seq(Nat)
  BY DEF StreamInv, TypeOK, Packets
<1>2. /\ s \in Socket /\ s.state = sock[e].state /\ s.ack = sock[e].ack
      /\ \A j \in DOMAIN sock[e].unacked :
           \/ \E i \in DOMAIN s.unacked : s.unacked[i] = sock[e].unacked[j]
           \/ sock[e].unacked[j].end <= p.ack
  BY <1>1, AckedFacts
<1>3. Legal(e, r) /\ Quiet(e, s, r) /\ Moves(s, p, r)
  BY DeliverLegal
<1>4. s.state \in State \ {"new"} /\ r.sock.state \in State \ {"new"} /\ r.sock.ack \in Nat /\ r.got \in Seq(Nat)
  BY <1>2, <1>3 DEF Legal, Socket
<1> HIDE DEF s, r
<1>5. /\ r.sock.state \in Receiving => s.state \in Receiving
      /\ r.sock.state \in Honest => s.state \in Honest
      /\ r.sock.state \in Receiving => r.sock = s \/ r.sock.state = "Established"
      /\ r.got # <<>> => r.sock.state = "Established"
  BY <1>3, <1>4 DEF Moves, Shut, State, Receiving, Honest
<1>6. ASSUME e \notin jumped', r.sock.state \in Receiving
      PROVE  /\ r.sock.ack <= Len(received[e]) + Len(r.got) + 1
             /\ \A o \in r.out : o.ack <= r.sock.ack
  <2>1. Len(received[e]) \in Nat /\ Len(r.got) \in Nat
    BY <1>1, <1>4
  <2>2. r.sock.ack <= Len(received[e]) + Len(r.got) + 1
    <3>1. CASE r.sock.state = "Established"
      BY <1>3, <1>4, <1>6, <2>1, <3>1 DEF Legal
    <3>2. CASE r.sock = s
      <4>1. r.sock.ack <= Len(received[e]) + 1
        BY <1>1, <1>2, <1>5, <1>6, <3>2 DEF AcksOK
      <4>2. \A x, y, z \in Nat : x <= y + 1 => x <= y + z + 1
        OBVIOUS
      <4> QED BY <1>4, <2>1, <4>1, <4>2, Zenon
    <3> QED BY <1>5, <1>6, <3>1, <3>2
  <2>3. \A o \in r.out : o.ack <= r.sock.ack
    BY <1>3, <1>4 DEF Quiet
  <2> QED BY <2>2, <2>3
<1>7. r.sock.unacked = s.unacked
  BY <1>3 DEF Quiet
<1> HIDE DEF e
<1>8. Faithful(e, r)
  BY <1>2, <1>5, <1>6, <1>7 DEF Faithful, e
<1> QED
  BY <1>8 DEF e, s, r

(* A step that closes the socket, or leaves its state as it is.            *)
LEMMA IdleStep ==
  ASSUME StreamInv, AcksOK, jumped' = jumped, NEW e \in Side, sock[e].state # "new",
         NEW r \in [sock : Socket, out : SUBSET Packets, got : {<<>>}],
         r.sock.seq = sock[e].seq, r.sock.unacked = sock[e].unacked,
         r.sock.state = "Closed" \/ (r.sock.state = sock[e].state /\ r.sock.ack = sock[e].ack),
         \A o \in r.out : o \in net \/ (MaySend(e, r, o) /\ o.ack <= r.sock.ack)
  PROVE  Legal(e, r) /\ Faithful(e, r)
<1>1. /\ r.got = <<>> /\ <<>> \in Seq(Nat) /\ Len(<<>>) = 0
      /\ r.sock \in Socket /\ r.out \in SUBSET Packets
      /\ r = [sock |-> r.sock, out |-> r.out, got |-> r.got]
  OBVIOUS
<1>2. /\ r \in [sock : Socket, out : SUBSET Packets, got : Seq(Nat)]
      /\ received[e] \in Seq(Nat) /\ Len(received[e]) \in Nat
  <2>1. r \in [sock : Socket, out : SUBSET Packets, got : Seq(Nat)]
    BY <1>1
  <2> QED BY <2>1 DEF StreamInv, TypeOK
<1>3. ASSUME e \notin jumped
      PROVE  /\ r.sock.state \in {"SynReceived", "Established"} =>
                  r.sock.ack = Len(received[e]) + Len(r.got) + 1
             /\ r.sock.state \in {"CloseWait", "LastAck"} =>
                  /\ sock[Peer(e)].state \in Shut /\ r.got = <<>>
                  /\ Len(received[e]) = sent[Peer(e)]
  <2>1. InStepAt(e)
    BY <1>3 DEF StreamInv, InStep
  <2>2. CASE r.sock.state = "Closed"
    BY <2>2
  <2>3. CASE r.sock.state = sock[e].state /\ r.sock.ack = sock[e].ack
    BY <1>1, <1>2, <2>1, <2>3 DEF InStepAt
  <2> QED BY <2>2, <2>3
<1>4. Legal(e, r)
  BY <1>1, <1>2, <1>3 DEF Legal, Shut
<1>5. ASSUME e \notin jumped, r.sock.state \in Receiving
      PROVE  r.sock.ack <= Len(received[e]) + Len(r.got) + 1
  <2>1. r.sock.state = sock[e].state /\ r.sock.ack = sock[e].ack
    BY <1>5 DEF Receiving
  <2> QED
    BY <1>1, <1>2, <1>5, <2>1 DEF AcksOK
<1>6. Faithful(e, r)
  BY <1>5 DEF Faithful, Receiving, Honest
<1> QED
  BY <1>4, <1>6

(* A FIN, and the state after it.                                          *)
LEMMA FinReply ==
  ASSUME NEW e \in Side, NEW s \in Socket, NEW st \in State
  PROVE  LET r == In(Reply(e, s, "FIN_ACK"), st)
         IN  /\ r \in Results /\ r.got = <<>>
             /\ r.sock.state = st /\ r.sock.ack = s.ack /\ r.sock.seq = s.seq
             /\ r.sock.unacked = s.unacked
             /\ \A o \in r.out : o.to = Peer(e) /\ o.data = 0 /\ o.flags = "FIN_ACK" /\ o.seq = s.seq
<1> DEFINE w == Sent(e, s, "FIN_ACK", 0)
           o == Packet(e, s, "FIN_ACK", 0)
           out == {o}
           x == SetState(w, st)
           r == In(Reply(e, s, "FIN_ACK"), st)
<1>0. "FIN_ACK" \in Flags /\ 0 \in Nat
  BY DEF Flags
<1>1. w \in Socket /\ w.ack = s.ack /\ w.seq = s.seq /\ w.unacked = s.unacked
  BY <1>0, SentFacts
<1>2. o \in Packets /\ o.to = Peer(e) /\ o.data = 0 /\ o.flags = "FIN_ACK" /\ o.seq = s.seq
  BY <1>0, PacketFacts
<1>3. Reply(e, s, "FIN_ACK") = [sock |-> w, out |-> out, got |-> <<>>]
  BY DEF Reply
<1> HIDE DEF w, o
<1>4. x \in Socket /\ x.state = st /\ x.ack = s.ack /\ x.seq = s.seq /\ x.unacked = s.unacked
  BY <1>1, WithState
<1>5. out \in SUBSET Packets /\ \A y \in out : y = o
  BY <1>2
<1> HIDE DEF out
<1>6. r = [sock |-> x, out |-> out, got |-> <<>>]
  <2>1. In([sock |-> w, out |-> out, got |-> <<>>], st) = [sock |-> x, out |-> out, got |-> <<>>]
    BY InFacts
  <2> QED BY <1>3, <2>1, Zenon
<1> HIDE DEF x, r
<1>7. r \in Results /\ r.sock = x /\ r.out = out /\ r.got = <<>>
  BY <1>4, <1>5, <1>6 DEF Results
<1> QED
  BY <1>2, <1>4, <1>5, <1>7 DEF r

(* The two actions that send it.                                           *)
LEMMA FinStep ==
  ASSUME StreamInv, jumped' = jumped, NEW e \in Side, NEW st \in {"FinWait1", "LastAck"},
         st = "FinWait1" => sock[e].state = "Established",
         st = "LastAck" => sock[e].state = "CloseWait"
  PROVE  LET r == In(Reply(e, sock[e], "FIN_ACK"), st) IN Legal(e, r) /\ Faithful(e, r)
<1> DEFINE r == In(Reply(e, sock[e], "FIN_ACK"), st)
<1>0. sock[e] \in Socket /\ st \in State /\ st \in Shut
  BY DEF StreamInv, TypeOK, State, Shut
<1>1. /\ r \in Results /\ r.got = <<>>
      /\ r.sock.state = st /\ r.sock.ack = sock[e].ack /\ r.sock.seq = sock[e].seq
      /\ r.sock.unacked = sock[e].unacked
      /\ \A o \in r.out : o.to = Peer(e) /\ o.data = 0 /\ o.flags = "FIN_ACK" /\ o.seq = sock[e].seq
  BY <1>0, FinReply
<1> HIDE DEF r
<1>2. e \notin jumped /\ st = "LastAck" => sock[Peer(e)].state \in Shut /\ Len(received[e]) = sent[Peer(e)]
  BY DEF StreamInv, InStep, InStepAt
<1>3. \A o \in r.out : MaySend(e, r, o)
  BY <1>0, <1>1 DEF MaySend, Results
<1>4. Legal(e, r)
  BY <1>0, <1>1, <1>2, <1>3 DEF Legal, Results
<1>5. Faithful(e, r)
  BY <1>1 DEF Faithful, Receiving, Honest
<1> QED
  BY <1>4, <1>5 DEF r

(* A faithful step acknowledges only what was received, and drops from the *)
(* list of unacknowledged packets only what was acknowledged.              *)
LEMMA FaithfulStep ==
  ASSUME StreamInv, UnackedOK, AcksOK, NothingLost, NEW e \in Side, NEW r,
         Legal(e, r), Faithful(e, r), Apply(e, r),
         UNCHANGED <<plan, sent>>, jumped' \in SUBSET Side, jumped \subseteq jumped'
  PROVE  AcksOK' /\ NothingLost'
<1> DEFINE f == Peer(e)
<1>0. f \in Side /\ f # e /\ Peer(f) = e /\ \A x \in Side : x = e \/ x = f
  BY PeerFacts DEF Side, Peer
<1>1. /\ r.sock \in Socket /\ r.got \in Seq(Nat) /\ sock \in [Side -> Socket] /\ net \subseteq Packets
      /\ sent \in [Side -> Nat] /\ received \in [Side -> Seq(Nat)] /\ r.out \subseteq Packets
  BY DEF StreamInv, TypeOK, Legal
<1>2. sock'[e] = r.sock /\ sock'[f] = sock[f]
  BY <1>0, <1>1 DEF Apply
<1>3. received'[e] = received[e] \o r.got /\ received'[f] = received[f]
  BY <1>0, <1>1 DEF Apply
<1>4. Len(received[e]) \in Nat /\ Len(r.got) \in Nat /\ Len(received[f]) \in Nat
  BY <1>0, <1>1
<1>5. Len(received'[e]) = Len(received[e]) + Len(r.got)
  BY <1>1, <1>3
<1>6. net' = net \cup r.out /\ sent' = sent
  BY DEF Apply
<1>7. \A o \in r.out : o \in net \/ o.to = f
  BY DEF Legal, MaySend
<1>8. AcksOK'
  <2> SUFFICES ASSUME NEW x \in Side \ jumped', sock'[x].state \in Receiving
               PROVE  /\ sock'[x].ack <= Len(received'[x]) + 1
                      /\ \A p \in net' : p.to = Peer(x) => p.ack <= Len(received'[x]) + 1
    BY <1>6 DEF AcksOK
  <2>1. CASE x = f
    BY <1>0, <1>2, <1>3, <1>6, <1>7, <2>1 DEF AcksOK
  <2>2. CASE x = e
    <3>1. r.sock.state \in Receiving /\ sock[e].state \in Receiving
      BY <1>2, <2>2 DEF Faithful
    <3> DEFINE n == Len(received[e])
               m == Len(r.got)
    <3>2. r.sock.ack <= n + m + 1 /\ r.sock.ack \in Nat
      BY <1>1, <2>2, <3>1 DEF Faithful, Socket
    <3>3. ASSUME NEW p \in net', p.to = f PROVE p.ack <= n + m + 1
      <4>1. p.ack \in Nat
        BY <1>1, <1>6 DEF Packets
      <4>2. CASE p \in net
        <5>1. p.ack <= n + 1
          BY <2>2, <3>1, <3>3, <4>2 DEF AcksOK
        <5>2. \A a, b, c \in Nat : a <= b + 1 => a <= b + c + 1
          OBVIOUS
        <5> QED BY <1>4, <4>1, <5>1, <5>2, Zenon
      <4>3. CASE p \notin net
        <5>1. p.ack <= r.sock.ack
          BY <1>6, <2>2, <3>1, <4>3 DEF Faithful
        <5> HIDE DEF n, m
        <5>2. n \in Nat /\ m \in Nat
          BY <1>4 DEF n, m
        <5> QED BY <3>2, <4>1, <5>1, <5>2
      <4> QED BY <4>2, <4>3
    <3> QED
      BY <1>2, <1>5, <2>2, <3>2, <3>3
  <2> QED
    BY <1>0, <2>1, <2>2
<1>9. NothingLost'
  <2> SUFFICES ASSUME NEW x \in Side, Peer(x) \notin jumped', sock'[Peer(x)].state \in Honest,
                      NEW i \in 1..sent[x]
               PROVE  (\E k \in DOMAIN sock'[x].unacked : sock'[x].unacked[k].packet.data = i)
                      \/ i <= Len(received'[Peer(x)])
    BY <1>6 DEF NothingLost, Open
  <2>0. i \in Nat /\ i # 0 /\ i <= sent[x]
    BY <1>1
  <2>1. CASE x = f
    <3>1. sock[e].state \in Honest
      BY <1>0, <1>2, <2>1 DEF Faithful
    <3>2. i \in Open(f) \/ i <= Len(received[e])
      BY <1>0, <2>1, <3>1 DEF NothingLost
    <3>3. CASE i \in Open(f)
      BY <1>2, <2>1, <3>3 DEF Open
    <3>4. CASE i <= Len(received[e])
      <4>1. \A a, b, c \in Nat : a <= b => a <= b + c
        OBVIOUS
      <4> QED BY <1>0, <1>4, <1>5, <2>0, <2>1, <3>4, <4>1, Zenon
    <3> QED BY <3>2, <3>3, <3>4
  <2>2. CASE x = e
    <3>1. sock[f].state \in Honest
      BY <1>2, <2>2
    <3>2. CASE i <= Len(received[f])
      BY <1>3, <2>2, <3>2
    <3>3. CASE ~(i <= Len(received[f]))
      <4>1. PICK j \in DOMAIN sock[e].unacked : sock[e].unacked[j].packet.data = i
        BY <2>2, <3>1, <3>3 DEF NothingLost, Open
      <4>2. sock[e].unacked[j].end = i + 1
        BY <2>0, <4>1 DEF UnackedOK
      <4>3. CASE \E k \in DOMAIN r.sock.unacked : r.sock.unacked[k] = sock[e].unacked[j]
        BY <1>2, <2>2, <4>1, <4>3
      <4>4. ASSUME NEW p \in net, p.to = e, sock[e].unacked[j].end <= p.ack PROVE FALSE
        <5>1. CASE sock[f].state \in Receiving
          <6>1. p.ack <= Len(received[f]) + 1 /\ p.ack \in Nat
            BY <1>0, <1>1, <2>2, <4>4, <5>1 DEF AcksOK, Packets
          <6>2. i + 1 <= p.ack
            BY <4>2, <4>4
          <6>3. \A a, b, c \in Nat : a + 1 <= b /\ b <= c + 1 => a <= c
            OBVIOUS
          <6> QED BY <1>4, <2>0, <3>3, <6>1, <6>2, <6>3, Zenon
        <5>2. CASE sock[f].state \in {"CloseWait", "LastAck"}
          <6>1. Len(received[f]) = sent[e]
            BY <1>0, <2>2, <5>2 DEF StreamInv, InStep, InStepAt
          <6> QED BY <2>0, <2>2, <3>3, <6>1
        <5> QED BY <3>1, <5>1, <5>2 DEF Honest, Receiving
      <4> QED BY <4>3, <4>4 DEF Faithful
    <3> QED BY <3>2, <3>3
  <2> QED BY <1>0, <2>1, <2>2
<1> QED
  BY <1>8, <1>9

(* The inductive invariant.                                                *)
ConnectionInv == StreamInv /\ UnackedOK /\ AcksOK /\ NothingLost

(* The entries of a list after one more.                                   *)
LEMMA AppendFacts ==
  ASSUME NEW S, NEW s \in Seq(S), NEW u \in S
  PROVE  /\ \A i \in DOMAIN Append(s, u) :
              (i \in DOMAIN s /\ Append(s, u)[i] = s[i]) \/ Append(s, u)[i] = u
         /\ \A i \in DOMAIN s : i \in DOMAIN Append(s, u) /\ Append(s, u)[i] = s[i]
         /\ \E i \in DOMAIN Append(s, u) : Append(s, u)[i] = u
<1>1. Len(s) \in Nat /\ Len(s) + 1 \in DOMAIN Append(s, u) /\ Append(s, u)[Len(s) + 1] = u
  OBVIOUS
<1>2. DOMAIN Append(s, u) = 1..Len(s) + 1 /\ DOMAIN s = 1..Len(s)
  OBVIOUS
<1>3. \A i \in 1..Len(s) : Append(s, u)[i] = s[i]
  OBVIOUS
<1> QED
  BY <1>1, <1>2, <1>3

(* Opening a socket: the client sends its SYN, the server its SYN_ACK.     *)
LEMMA OpenStep ==
  ASSUME ConnectionInv, NEW e \in Side, sock[e].state = "new",
         NEW r \in Results, NEW u \in Unacked, Apply(e, r), UNCHANGED <<plan, sent, jumped>>,
         r.got = <<>>, r.out = {u.packet}, r.sock.seq = 1,
         e \notin jumped => r.sock.ack <= 1 /\ u.packet.ack <= 1,
         r.sock.unacked = Append(sock[e].unacked, u),
         u.packet.to = Peer(e), u.packet.data = 0, u.packet.seq = 0,
         \/ e = "client" /\ r.sock.state = "SynSent" /\ u.packet.flags = "SYN"
         \/ e = "server" /\ r.sock.state = "SynReceived" /\ r.sock.ack = 1 /\ u.packet.flags = "SYN_ACK"
            /\ sock["client"].state # "new"
  PROVE  ConnectionInv'
<1> USE DEF ConnectionInv
<1> DEFINE f == Peer(e)
           o == u.packet
<1>0. f \in Side /\ f # e /\ Peer(f) = e /\ \A x \in Side : x = e \/ x = f
  BY PeerFacts DEF Side, Peer
<1>1. /\ r.sock \in Socket /\ o \in Packets /\ sock \in [Side -> Socket] /\ net \subseteq Packets
      /\ plan \in Plans /\ sent \in [Side -> Nat] /\ received \in [Side -> Seq(Nat)] /\ jumped \in SUBSET Side
  BY DEF StreamInv, TypeOK, Results, Unacked
<1>2. sock' \in [Side -> Socket] /\ sock'[e] = r.sock /\ sock'[f] = sock[f]
  BY <1>0, <1>1 DEF Apply
<1>3. received' = received
  <2>1. received[e] \o <<>> = received[e]
    BY <1>1
  <2>2. received' = [received EXCEPT ![e] = received[e]]
    BY <2>1 DEF Apply
  <2> QED BY <1>1, <2>2
<1>4. net' = net \cup {o} /\ plan' = plan /\ sent' = sent /\ jumped' = jumped
  BY DEF Apply
<1>5. sent[e] = 0 /\ received[e] = <<>> /\ sock[e].seq = 0
  BY DEF StreamInv, Numbered
<1> HIDE DEF o
<1>6. TypeOK'
  BY <1>1, <1>2, <1>3, <1>4 DEF TypeOK
<1>7. Numbered'
  <2>1. r.sock.state \in {"SynSent", "SynReceived"}
    OBVIOUS
  <2> SUFFICES ASSUME NEW x \in Side
               PROVE  /\ sock'[x].state = "new" =>
                           sock'[x].seq = 0 /\ ~sock'[x].delayed /\ sock'[x].attempts = 0
                      /\ sock'[x].state # "new" => sock'[x].seq = sent[x] + 1
                      /\ sock'[x].state \in {"new", "SynSent", "SynReceived"} =>
                           sent[x] = 0 /\ received[x] = <<>>
    BY <1>3, <1>4 DEF Numbered
  <2>2. CASE x = e
    BY <1>2, <1>5, <2>1, <2>2
  <2>3. CASE x = f
    BY <1>0, <1>2, <2>3 DEF StreamInv, Numbered
  <2> QED BY <1>0, <2>2, <2>3
<1>8. Handshake' /\ sock'["client"].state # "new"
  <2>1. CASE e = "client"
    <3>1. f = "server" /\ r.sock.state = "SynSent"
      BY <2>1 DEF Peer
    <3> QED
      BY <1>2, <1>4, <1>5, <2>1, <3>1 DEF StreamInv, Handshake
  <2>2. CASE e = "server"
    <3>1. f = "client" /\ r.sock.state = "SynReceived"
      BY <2>2 DEF Peer
    <3> QED
      BY <1>2, <1>4, <2>2, <3>1 DEF StreamInv, Handshake
  <2> QED
    BY <2>1, <2>2 DEF Side
<1>9. NetOK'
  <2> SUFFICES ASSUME NEW p \in net' PROVE PacketOK(p)'
    BY DEF NetOK
  <2>1. CASE p \in net
    <3>1. PacketOK(p) /\ p \in Packets
      BY <1>1, <2>1 DEF StreamInv, NetOK
    <3>2. Peer(p.to) = f
      BY <1>0, <3>1, PeerFacts DEF PacketOK, Packets
    <3> QED
      BY <1>2, <1>4, <1>8, <3>1, <3>2 DEF PacketOK
  <2>2. CASE p = o
    <3>1. Peer(p.to) = e /\ p.data = 0 /\ p.seq = 0 /\ sock'[e].state # "new"
          /\ \/ p.flags = "SYN" /\ e = "client"
             \/ p.flags = "SYN_ACK" /\ e = "server"
      BY <1>0, <1>2, <2>2 DEF o
    <3> QED
      BY <1>8, <3>1 DEF PacketOK
  <2> QED
    BY <1>4, <2>1, <2>2
<1>10. InStep'
  <2> SUFFICES ASSUME NEW x \in Side \ jumped PROVE InStepAt(x)'
    BY <1>4 DEF InStep
  <2>0. InStepAt(x)
    BY DEF StreamInv, InStep
  <2>1. x = e /\ sock'[x].state = "SynReceived" => sock'[x].ack = Len(received[x]) + 1
    BY <1>2, <1>5
  <2>2. sock'[x].state \in {"Established", "CloseWait", "LastAck"} => sock'[x] = sock[x] /\ x = f
    BY <1>0, <1>2
  <2>3. sock[e].state \notin Shut
    BY DEF Shut
  <2> QED
    BY <1>0, <1>2, <1>3, <1>4, <2>0, <2>1, <2>2, <2>3 DEF InStepAt
<1>11. UnackedOK'
  <2> SUFFICES ASSUME NEW x \in Side, NEW i \in DOMAIN sock'[x].unacked
               PROVE  LET v == sock'[x].unacked[i]
                      IN  /\ v.packet \in net' /\ v.packet.to = Peer(x)
                          /\ v.packet.data # 0 => v.end = v.packet.data + 1
    BY DEF UnackedOK
  <2>1. \/ i \in DOMAIN sock[x].unacked /\ sock'[x].unacked[i] = sock[x].unacked[i]
        \/ x = e /\ sock'[x].unacked[i] = u
    <3>1. sock[e].unacked \in Seq(Unacked)
      BY <1>1 DEF Socket
    <3>2. CASE x = e
      <4> DEFINE q == sock[e].unacked
      <4> HIDE DEF q
      <4>1. \A k \in DOMAIN Append(q, u) :
              (k \in DOMAIN q /\ Append(q, u)[k] = q[k]) \/ Append(q, u)[k] = u
        BY <3>1, AppendFacts DEF q
      <4>2. sock'[x].unacked = Append(q, u)
        BY <1>2, <3>2 DEF q
      <4> QED BY <3>2, <4>1, <4>2 DEF q
    <3>3. CASE x = f
      BY <1>2, <3>3
    <3> QED BY <1>0, <3>2, <3>3
  <2> QED
    BY <1>4, <2>1 DEF UnackedOK, o
<1>12. AcksOK'
  <2> SUFFICES ASSUME NEW x \in Side \ jumped, sock'[x].state \in Receiving
               PROVE  /\ sock'[x].ack <= Len(received[x]) + 1
                      /\ \A p \in net' : p.to = Peer(x) => p.ack <= Len(received[x]) + 1
    BY <1>3, <1>4 DEF AcksOK
  <2>1. CASE x = f
    BY <1>0, <1>2, <1>4, <2>1 DEF AcksOK, o
  <2>2. CASE x = e
    <3>1. Len(received[e]) = 0
      BY <1>5
    <3>2. \A p \in net : p.to = f => p.ack <= Len(received[e]) + 1
      BY <2>2 DEF AcksOK, Receiving
    <3> QED
      BY <1>2, <1>4, <2>2, <3>1, <3>2 DEF o
  <2> QED BY <1>0, <2>1, <2>2
<1>13. NothingLost'
  <2> SUFFICES ASSUME NEW x \in Side, Peer(x) \notin jumped, sock'[Peer(x)].state \in Honest,
                      NEW i \in 1..sent[x]
               PROVE  i \in Open(x)' \/ i <= Len(received[Peer(x)])
    BY <1>3, <1>4 DEF NothingLost
  <2>1. x = f
    BY <1>0, <1>1, <1>5
  <2>2. i \in Open(f) \/ i <= Len(received[e])
    BY <1>0, <2>1 DEF NothingLost, Honest
  <2> QED
    BY <1>0, <1>2, <2>1, <2>2 DEF Open
<1> QED
  BY <1>6, <1>7, <1>8, <1>9, <1>10, <1>11, <1>12, <1>13 DEF StreamInv

(* Writing one more byte.                                                  *)
LEMMA WriteStep ==
  ASSUME ConnectionInv, NEW e \in Side, Write(e)
  PROVE  ConnectionInv'
<1> USE DEF ConnectionInv
<1> DEFINE f == Peer(e)
           n == sent[e] + 1
           o == Packet(e, sock[e], "PSH_ACK", n)
           u == [end |-> sock[e].seq + 1, packet |-> o]
           s == Sent(e, sock[e], "PSH_ACK", n)
<1>0. f \in Side /\ f # e /\ Peer(f) = e /\ \A x \in Side : x = e \/ x = f
  BY PeerFacts DEF Side, Peer
<1>1. /\ sock \in [Side -> Socket] /\ net \subseteq Packets /\ plan \in Plans
      /\ sent \in [Side -> Nat] /\ received \in [Side -> Seq(Nat)] /\ jumped \in SUBSET Side
      /\ sock[e] \in Socket /\ sent[e] \in Nat /\ n \in Nat /\ n # 0 /\ "PSH_ACK" \in Flags
  BY DEF StreamInv, TypeOK, Flags
<1>2. sent' = [sent EXCEPT ![e] = n] /\ sent'[e] = n /\ sent'[f] = sent[f] /\ sent' \in [Side -> Nat]
  BY <1>0, <1>1 DEF Write
<1>3. /\ sock' = [sock EXCEPT ![e] = s] /\ net' = net \cup {o}
      /\ plan' = plan /\ received' = received
      /\ jumped' = jumped
      /\ sock[e].state \in {"Established", "CloseWait"}
  BY <1>2 DEF Write
<1>4. sock[e].seq = n
  BY <1>3 DEF StreamInv, Numbered
<1>5. /\ s \in Socket /\ s.state = sock[e].state /\ s.ack = sock[e].ack /\ s.delayed = sock[e].delayed
      /\ s.seq = n + 1 /\ s.unacked = Append(sock[e].unacked, u)
  BY <1>1, <1>4, SentFacts
<1>6. /\ o \in Packets /\ o.to = f /\ o.flags = "PSH_ACK" /\ o.data = n /\ o.seq = n
      /\ o.ack = sock[e].ack
  <2>1. \A d \in Nat : LET p == Packet(e, sock[e], "PSH_ACK", d)
                        IN  /\ p \in Packets
                            /\ p.to = Peer(e) /\ p.flags = "PSH_ACK" /\ p.data = d
                            /\ p.seq = sock[e].seq /\ p.ack = sock[e].ack
    <3> SUFFICES ASSUME NEW d \in Nat
                 PROVE  LET p == Packet(e, sock[e], "PSH_ACK", d)
                        IN  /\ p \in Packets
                            /\ p.to = Peer(e) /\ p.flags = "PSH_ACK" /\ p.data = d
                            /\ p.seq = sock[e].seq /\ p.ack = sock[e].ack
      OBVIOUS
    <3> DEFINE q == sock[e]
    <3>1. q \in Socket /\ "PSH_ACK" \in Flags
      BY <1>1
    <3> HIDE DEF q
    <3>2. LET p == Packet(e, q, "PSH_ACK", d)
          IN  /\ p \in Packets
              /\ p.to = Peer(e) /\ p.flags = "PSH_ACK" /\ p.data = d
              /\ p.seq = q.seq /\ p.ack = q.ack
      BY <3>1, PacketFacts
    <3> QED BY <3>2 DEF q
  <2> QED BY <1>1, <1>4, <2>1
<1>7. u \in Unacked /\ u.packet = o /\ u.end = n + 1
  BY <1>1, <1>4, <1>6 DEF Unacked
<1> HIDE DEF s, o, u
<1>8. sock' \in [Side -> Socket] /\ sock'[e] = s /\ sock'[f] = sock[f]
  BY <1>0, <1>1, <1>3, <1>5
<1>9. \A x \in Side : sock'[x].state = sock[x].state /\ sock'[x].ack = sock[x].ack /\ sock'[x].delayed = sock[x].delayed
  BY <1>0, <1>5, <1>8
<1>10. \A x \in Side : sent[x] \in Nat /\ sent'[x] \in Nat /\ sent[x] <= sent'[x]
  <2> HIDE DEF n
  <2>1. sent[e] <= n
    BY <1>1 DEF n
  <2> QED BY <1>0, <1>1, <1>2, <2>1
<1>11. TypeOK'
  BY <1>1, <1>2, <1>3, <1>6, <1>8 DEF TypeOK
<1>12. Numbered'
  <2> SUFFICES ASSUME NEW x \in Side
               PROVE  /\ sock'[x].state = "new" =>
                           sock'[x].seq = 0 /\ ~sock'[x].delayed /\ sock'[x].attempts = 0
                      /\ sock'[x].state # "new" => sock'[x].seq = sent'[x] + 1
                      /\ sock'[x].state \in {"new", "SynSent", "SynReceived"} =>
                           sent'[x] = 0 /\ received[x] = <<>>
    BY <1>3 DEF Numbered
  <2>1. CASE x = e
    BY <1>2, <1>3, <1>5, <1>8, <2>1
  <2>2. CASE x = f
    BY <1>0, <1>2, <1>8, <2>2 DEF StreamInv, Numbered
  <2> QED BY <1>0, <2>1, <2>2
<1>13. Handshake'
  <2>1. "client" \in Side /\ "server" \in Side
    BY DEF Side
  <2>2. sock'["server"].state = "new" => sent'["client"] = sent["client"]
    BY <1>0, <1>2, <1>3, <1>9, <2>1 DEF StreamInv, Handshake
  <2> QED
    BY <1>9, <2>1, <2>2 DEF StreamInv, Handshake
<1>14. NetOK'
  <2> SUFFICES ASSUME NEW p \in net' PROVE PacketOK(p)'
    BY DEF NetOK
  <2>0. "client" \in Side
    BY DEF Side
  <2>1. CASE p \in net
    <3>1. PacketOK(p) /\ p \in Packets
      BY <1>1, <2>1 DEF StreamInv, NetOK
    <3> DEFINE w == Peer(p.to)
    <3>2. w \in Side /\ p.data \in Nat /\ p.seq \in Nat
      BY <3>1, PeerFacts DEF Packets
    <3>3. p.flags = "FIN_ACK" => w = f
      BY <1>0, <1>3, <3>1, <3>2 DEF PacketOK, Shut
    <3>4. p.data # 0 => p.flags = "PSH_ACK" /\ p.seq = p.data /\ p.data <= sent'[w]
      BY <1>10, <3>1, <3>2 DEF PacketOK
    <3>5. p.flags = "ACK" => p.seq \in 1..sent'[w] + 1
      BY <1>10, <3>1, <3>2 DEF PacketOK
    <3> QED
      BY <1>2, <1>9, <2>0, <3>1, <3>2, <3>3, <3>4, <3>5 DEF PacketOK
  <2>2. CASE p = o
    <3>1. Peer(p.to) = e /\ sock'[e].state # "new"
      BY <1>0, <1>3, <1>6, <1>9, <2>2
    <3>2. sock["client"].state # "new"
      BY <1>3 DEF StreamInv, Handshake, Side
    <3>3. n <= sent'[e]
      BY <1>1, <1>2
    <3> HIDE DEF n
    <3> QED
      BY <1>6, <1>9, <2>0, <2>2, <3>1, <3>2, <3>3 DEF PacketOK
  <2> QED
    BY <1>3, <2>1, <2>2
<1>15. InStep'
  <2> SUFFICES ASSUME NEW x \in Side \ jumped PROVE InStepAt(x)'
    BY <1>3 DEF InStep
  <2>0. InStepAt(x)
    BY DEF StreamInv, InStep
  <2>2. Peer(x) \in Side /\ Len(received[x]) \in Nat
    BY <1>1, PeerFacts
  <2>3. Len(received[x]) <= sent'[Peer(x)]
    BY <1>10, <2>0, <2>2 DEF InStepAt
  <2>4. sock[x].state \in {"CloseWait", "LastAck"} => Peer(x) = f
    BY <1>0, <1>3, <2>0, <2>2 DEF InStepAt, Shut
  <2> QED
    BY <1>2, <1>3, <1>9, <2>0, <2>2, <2>3, <2>4 DEF InStepAt
<1>16. sock[e].unacked \in Seq(Unacked)
  BY <1>1 DEF Socket
<1>17. UnackedOK'
  <2> SUFFICES ASSUME NEW x \in Side, NEW i \in DOMAIN sock'[x].unacked
               PROVE  LET v == sock'[x].unacked[i]
                      IN  /\ v.packet \in net' /\ v.packet.to = Peer(x)
                          /\ v.packet.data # 0 => v.end = v.packet.data + 1
    BY DEF UnackedOK
  <2>1. \/ i \in DOMAIN sock[x].unacked /\ sock'[x].unacked[i] = sock[x].unacked[i]
        \/ x = e /\ sock'[x].unacked[i] = u
    <3>1. CASE x = e
      BY <1>5, <1>7, <1>8, <1>16, <3>1, AppendFacts
    <3>2. CASE x = f
      BY <1>8, <3>2
    <3> QED BY <1>0, <3>1, <3>2
  <2> QED
    BY <1>3, <1>6, <1>7, <2>1 DEF UnackedOK
<1>18. AcksOK'
  <2> SUFFICES ASSUME NEW x \in Side \ jumped, sock[x].state \in Receiving
               PROVE  /\ sock[x].ack <= Len(received[x]) + 1
                      /\ \A p \in net' : p.to = Peer(x) => p.ack <= Len(received[x]) + 1
    BY <1>3, <1>9 DEF AcksOK
  <2> QED
    BY <1>0, <1>3, <1>6 DEF AcksOK
<1>19. NothingLost'
  <2> SUFFICES ASSUME NEW x \in Side, Peer(x) \notin jumped, sock[Peer(x)].state \in Honest,
                      NEW i \in 1..sent'[x]
               PROVE  i \in Open(x)' \/ i <= Len(received[Peer(x)])
    <3>1. \A x \in Side : Peer(x) \in Side
      BY PeerFacts
    <3> QED
      BY <1>3, <1>9, <3>1 DEF NothingLost
  <2>1. CASE x = f
    BY <1>0, <1>2, <1>8, <2>1 DEF NothingLost, Open
  <2>2. CASE x = e /\ i = n
    <3>1. PICK k \in DOMAIN s.unacked : s.unacked[k] = u
      BY <1>5, <1>7, <1>16, AppendFacts
    <3> QED
      BY <1>6, <1>7, <1>8, <2>2, <3>1 DEF Open
  <2>3. CASE x = e /\ i # n
    <3>1. i \in 1..sent[e]
      BY <1>1, <1>2, <2>3
    <3>2. \A k \in DOMAIN sock[e].unacked : k \in DOMAIN s.unacked /\ s.unacked[k] = sock[e].unacked[k]
      BY <1>5, <1>7, <1>16, AppendFacts
    <3>3. Open(e) \subseteq Open(e)'
      BY <1>8, <3>2 DEF Open
    <3> QED
      BY <2>3, <3>1, <3>3 DEF NothingLost
  <2> QED BY <1>0, <2>1, <2>2, <2>3
<1> QED
  BY <1>11, <1>12, <1>13, <1>14, <1>15, <1>17, <1>18, <1>19 DEF StreamInv

(* ConnectionInv holds at first.                                           *)
LEMMA InitConnectionInv == Init => ConnectionInv
<1> SUFFICES ASSUME Init PROVE ConnectionInv
  OBVIOUS
<1>1. NewSocket \in Socket /\ NewSocket.state = "new" /\ NewSocket.unacked = <<>>
      /\ NewSocket.seq = 0 /\ NewSocket.ack = 0 /\ ~NewSocket.delayed /\ NewSocket.attempts = 0
  <2>1. <<>> \in Seq(Unacked)
    OBVIOUS
  <2> DEFINE q == <<>>
  <2> HIDE DEF q
  <2>2. NewSocket = [state |-> "new", seq |-> 0, ack |-> 0, last_ack |-> 0, unacked |-> q,
                     attempts |-> 0, dups |-> 0, delayed |-> FALSE] /\ q \in Seq(Unacked)
    BY <2>1 DEF NewSocket, q
  <2>3. NewSocket \in Socket /\ NewSocket.state = "new" /\ NewSocket.unacked = q
        /\ NewSocket.seq = 0 /\ NewSocket.ack = 0 /\ ~NewSocket.delayed /\ NewSocket.attempts = 0
    BY <2>2 DEF Socket, State
  <2> QED BY <2>3 DEF q
<1>2. /\ sock \in [Side -> Socket] /\ \A e \in Side : sock[e] = NewSocket
      /\ net = {} /\ plan \in Plans /\ sent \in [Side -> Nat] /\ \A e \in Side : sent[e] = 0
      /\ jumped = {}
  BY <1>1 DEF Init
<1>3. received \in [Side -> Seq(Nat)] /\ \A e \in Side : received[e] = <<>>
  BY DEF Init
<1>4. "client" \in Side /\ "server" \in Side /\ \A e \in Side : Peer(e) \in Side
  BY PeerFacts DEF Side
<1>5. TypeOK
  BY <1>2, <1>3 DEF TypeOK
<1>6. Numbered /\ Handshake /\ NetOK
  BY <1>1, <1>2, <1>3, <1>4 DEF Numbered, Handshake, NetOK
<1>7. InStep
  <2> SUFFICES ASSUME NEW e \in Side PROVE InStepAt(e)
    BY DEF InStep
  <2>1. Len(received[e]) = 0 /\ received[e] = [i \in 1..0 |-> i]
    BY <1>3
  <2> QED
    BY <1>1, <1>2, <1>4, <2>1 DEF InStepAt
<1>8. UnackedOK
  <2>1. \A e \in Side : DOMAIN sock[e].unacked = {}
    BY <1>1, <1>2
  <2> QED BY <2>1 DEF UnackedOK
<1>9. AcksOK /\ NothingLost
  <2>1. \A e \in Side : Len(received[e]) = 0
    BY <1>3
  <2>2. \A e \in Side : sock[e].ack = 0 /\ 1..sent[e] = {}
    BY <1>1, <1>2
  <2> QED BY <1>2, <2>1, <2>2 DEF AcksOK, NothingLost
<1> QED
  BY <1>5, <1>6, <1>7, <1>8, <1>9 DEF ConnectionInv, StreamInv

(* A legal and faithful step preserves the invariant.                      *)
LEMMA OrdinaryStep ==
  ASSUME ConnectionInv, NEW e \in Side, NEW r, Legal(e, r), Faithful(e, r), Apply(e, r),
         UNCHANGED <<plan, sent, jumped>>
  PROVE  ConnectionInv'
<1>1. jumped' \in SUBSET Side /\ jumped \subseteq jumped'
  BY DEF ConnectionInv, StreamInv, TypeOK
<1> QED
  BY <1>1, LegalStep, FaithfulStep DEF ConnectionInv

(* A stuttering step.                                                      *)
LEMMA IdleVars == ConnectionInv /\ UNCHANGED vars => ConnectionInv'
<1> SUFFICES ASSUME ConnectionInv, UNCHANGED vars PROVE ConnectionInv'
  OBVIOUS
<1> USE DEF vars
<1>1. TypeOK' /\ Numbered' /\ Handshake'
  BY DEF ConnectionInv, StreamInv, TypeOK, Numbered, Handshake
<1>2. NetOK'
  BY DEF ConnectionInv, StreamInv, NetOK, PacketOK
<1>3. InStep'
  BY DEF ConnectionInv, StreamInv, InStep, InStepAt
<1>4. UnackedOK' /\ AcksOK' /\ NothingLost'
  BY DEF ConnectionInv, UnackedOK, AcksOK, NothingLost, Open
<1> QED
  BY <1>1, <1>2, <1>3, <1>4 DEF ConnectionInv, StreamInv

(* The client connects.                                                    *)
LEMMA ConnectStep == ASSUME ConnectionInv, Connect PROVE ConnectionInv'
<1> DEFINE s == sock["client"]
           w == Sent("client", s, "SYN", 0)
           u == [end |-> s.seq + 1, packet |-> Packet("client", s, "SYN", 0)]
           out == {u.packet}
           x == SetState(w, "SynSent")
           r == In(Reply("client", s, "SYN"), "SynSent")
<1>0. "client" \in Side /\ "SYN" \in Flags /\ 0 \in Nat /\ "SynSent" \in State
  BY DEF Side, Flags, State
<1>1. s \in Socket /\ s.state = "new" /\ s.seq = 0
  BY <1>0 DEF ConnectionInv, StreamInv, TypeOK, Numbered, Connect
<1>2. s.ack \in Nat /\ ("client" \notin jumped => s.ack <= 1)
  <2>1. received["client"] = <<>>
    BY <1>0, <1>1 DEF ConnectionInv, StreamInv, Numbered
  <2>2. Len(received["client"]) = 0
    BY <2>1
  <2> QED
    BY <1>0, <1>1, <2>2 DEF ConnectionInv, AcksOK, Receiving, Socket
<1>3. Apply("client", r) /\ UNCHANGED <<plan, sent, jumped>>
  BY DEF Connect
<1> HIDE DEF s
<1>4. w \in Socket /\ w.ack = s.ack /\ w.seq = 1 /\ w.unacked = Append(s.unacked, u)
  BY <1>0, <1>1, SentFacts
<1>5. /\ u.packet \in Packets /\ u.packet.to = Peer("client") /\ u.packet.flags = "SYN"
      /\ u.packet.data = 0 /\ u.packet.seq = 0 /\ u.packet.ack = 0
  BY <1>0, <1>1, PacketFacts
<1>6. u \in Unacked
  BY <1>1, <1>5 DEF Unacked
<1>7. Reply("client", s, "SYN") = [sock |-> w, out |-> out, got |-> <<>>]
  BY DEF Reply
<1> HIDE DEF w, u
<1>8. x \in Socket /\ x.state = "SynSent" /\ x.ack = s.ack /\ x.seq = 1 /\ x.unacked = Append(s.unacked, u)
  BY <1>0, <1>4, WithState
<1>9. out \in SUBSET Packets /\ out = {u.packet}
  BY <1>5
<1> HIDE DEF out
<1>10. r = [sock |-> x, out |-> out, got |-> <<>>]
  <2>1. In([sock |-> w, out |-> out, got |-> <<>>], "SynSent") = [sock |-> x, out |-> out, got |-> <<>>]
    BY InFacts
  <2> QED BY <1>7, <2>1, Zenon
<1> HIDE DEF x, r
<1>11. r \in Results /\ r.sock = x /\ r.out = {u.packet} /\ r.got = <<>>
  BY <1>8, <1>9, <1>10 DEF Results
<1> QED
  BY <1>0, <1>1, <1>2, <1>3, <1>5, <1>6, <1>8, <1>11, OpenStep DEF s

(* A packet arrives, possibly once more, late or out of order.             *)
LEMMA DeliverStep == ASSUME ConnectionInv, NEW p \in net, Deliver(p) PROVE ConnectionInv'
<1> DEFINE e == p.to
           s == Acked(sock[e], p)
<1>1. PICK fits \in BOOLEAN, delay \in BOOLEAN : Apply(e, Handle(e, s, p, fits, delay))
  BY DEF Deliver, Choice
<1> DEFINE r == Handle(e, s, p, fits, delay)
<1>2. /\ Apply(e, r) /\ UNCHANGED <<plan, sent>>
      /\ jumped' = IF Jumps(sock[e], p) THEN jumped \cup {e} ELSE jumped
  BY <1>1 DEF Deliver
<1>3. p \in Packets /\ PacketOK(p) /\ e \in Side /\ sock[e] \in Socket
  BY DEF ConnectionInv, StreamInv, TypeOK, NetOK, Packets
<1>4. CASE sock[e].state # "new"
  <2>1. Legal(e, r) /\ Faithful(e, r)
    BY <1>2, <1>4, DeliverLegal, DeliverFaithful DEF ConnectionInv
  <2>2. jumped' \in SUBSET Side /\ jumped \subseteq jumped'
    BY <1>2, <1>3 DEF ConnectionInv, StreamInv, TypeOK
  <2> HIDE DEF r
  <2> QED
    BY <1>2, <1>3, <2>1, <2>2, LegalStep, FaithfulStep DEF ConnectionInv
<1>5. CASE sock[e].state = "new"
  <2>0. jumped' = jumped
    BY <1>2, <1>5 DEF Jumps
  <2>1. /\ s \in Socket /\ s.state = "new" /\ s.seq = 0
        /\ \A i \in DOMAIN s.unacked : \E j \in DOMAIN sock[e].unacked : s.unacked[i] = sock[e].unacked[j]
    BY <1>3, <1>5, AckedFacts DEF ConnectionInv, StreamInv, Numbered
  <2>2. sock[e].unacked = <<>>
    <3> SUFFICES ASSUME sock[e].unacked # <<>> PROVE FALSE
      OBVIOUS
    <3>1. 1 \in DOMAIN sock[e].unacked
      BY <1>3 DEF Socket
    <3> DEFINE o == sock[e].unacked[1].packet
    <3>2. o \in net /\ o.to = Peer(e)
      BY <1>3, <3>1 DEF ConnectionInv, UnackedOK
    <3> HIDE DEF o
    <3>3. sock[e].state # "new"
      BY <1>3, <3>2, PeerFacts DEF ConnectionInv, StreamInv, NetOK, PacketOK
    <3> QED BY <1>5, <3>3
  <2>3. s.unacked = sock[e].unacked
    <3>1. DOMAIN sock[e].unacked = {}
      BY <2>2
    <3>2. s.unacked \in Seq(Unacked) /\ DOMAIN s.unacked = {}
      BY <2>1, <3>1 DEF Socket
    <3> DEFINE q == s.unacked
    <3> HIDE DEF q
    <3>3. q \in Seq(Unacked) /\ DOMAIN q = {}
      BY <3>2 DEF q
    <3>4. q = <<>>
      BY <3>3
    <3> QED BY <2>2, <3>4 DEF q
  <2>4. CASE r = Result(s)
    <3>1. /\ s.state = sock[e].state /\ s.seq = sock[e].seq /\ s.ack = sock[e].ack
          /\ s.delayed = sock[e].delayed /\ s.last_ack = sock[e].last_ack
          /\ s.dups = sock[e].dups /\ s.attempts = sock[e].attempts
      BY <1>3, <1>5, AckedFacts DEF ConnectionInv, StreamInv, Numbered
    <3>2. s = sock[e]
      BY <1>3, <2>1, <2>3, <3>1 DEF Socket
    <3>3. r.sock = sock[e] /\ r.out = {} /\ r.got = <<>>
      BY <2>4, <3>2 DEF Result
    <3>4. received[e] \o <<>> = received[e]
      BY <1>3 DEF ConnectionInv, StreamInv, TypeOK
    <3>5. sock' = sock /\ net' = net
      BY <1>2, <3>3 DEF Apply, ConnectionInv, StreamInv, TypeOK
    <3>6. received' = [received EXCEPT ![e] = received[e]]
      BY <1>2, <3>3, <3>4 DEF Apply
    <3>7. received' = received
      BY <3>6 DEF ConnectionInv, StreamInv, TypeOK
    <3> QED
      BY <1>2, <2>0, <3>5, <3>7, IdleVars DEF vars
  <2>5. CASE r # Result(s)
    <3>1. PICK u \in Unacked :
                  /\ p.flags = "SYN"
                  /\ r \in Results /\ r.got = <<>> /\ r.out = {u.packet}
                  /\ r.sock.state = "SynReceived" /\ r.sock.seq = s.seq + 1
                  /\ r.sock.ack = After(p) + 1 /\ r.sock.delayed = s.delayed
                  /\ r.sock.unacked = Append(s.unacked, u)
                  /\ u.packet.to = Peer(e) /\ u.packet.data = 0 /\ u.packet.flags = "SYN_ACK"
                  /\ u.packet.seq = s.seq /\ u.packet.ack = After(p) + 1
      BY <1>3, <2>1, <2>5, HandleListenFacts
    <3>2. p.seq = 0 /\ p.data = 0 /\ Peer(e) = "client" /\ sock["client"].state # "new"
      BY <1>3, <3>1 DEF PacketOK
    <3>3. After(p) + 1 = 1
      BY <1>3, <3>2, AfterFacts
    <3>4. e = "server"
      BY <1>3, <3>2 DEF Side, Peer
    <3>5. r.sock.seq = 1 /\ u.packet.seq = 0 /\ r.sock.ack = 1 /\ u.packet.ack = 1
      BY <2>1, <3>1, <3>3
    <3> HIDE DEF r, s, e
    <3> QED
      BY <1>2, <1>3, <1>5, <2>0, <2>3, <3>1, <3>2, <3>4, <3>5, OpenStep
  <2> QED BY <2>4, <2>5
<1> QED
  BY <1>4, <1>5

(* The delayed acknowledgements are sent.                                  *)
LEMMA FlushStep == ASSUME ConnectionInv, NEW e \in Side, FlushDelayedAcks(e) PROVE ConnectionInv'
<1> DEFINE s == [sock[e] EXCEPT !.delayed = FALSE]
           r == AckIfNew(e, s)
<1>1. sock[e] \in Socket /\ sock[e].state # "new"
  BY DEF ConnectionInv, StreamInv, TypeOK, Numbered, FlushDelayedAcks
<1>2. s \in Socket /\ s.state = sock[e].state /\ s.ack = sock[e].ack /\ s.seq = sock[e].seq
      /\ s.unacked = sock[e].unacked
  BY <1>1 DEF Socket
<1>3. Apply(e, r) /\ UNCHANGED <<plan, sent, jumped>>
  BY DEF FlushDelayedAcks
<1> HIDE DEF s
<1>4. Quiet(e, s, r) /\ r.sock.state = s.state /\ r.sock.ack = s.ack /\ r.got = <<>>
  BY <1>2, QuietResult, QuietReply DEF AckIfNew, Ack
<1> HIDE DEF r
<1>5. r \in [sock : Socket, out : SUBSET Packets, got : {<<>>}] /\ r.sock.ack \in Nat
  BY <1>4 DEF Quiet, Results, Socket
<1>6. \A o \in r.out : MaySend(e, r, o) /\ o.ack <= r.sock.ack
  BY <1>2, <1>4, <1>5 DEF Quiet, MaySend
<1>7. r.sock.seq = sock[e].seq /\ r.sock.unacked = sock[e].unacked
  BY <1>2, <1>4 DEF Quiet
<1>8. Legal(e, r) /\ Faithful(e, r)
  BY <1>1, <1>2, <1>3, <1>4, <1>5, <1>6, <1>7, IdleStep DEF ConnectionInv
<1> QED
  BY <1>3, <1>8, OrdinaryStep

(* Closing a socket without sending, or sending again.                     *)
LEMMA SilentStep ==
  ASSUME ConnectionInv, NEW e \in Side, sock[e].state # "new", NEW s \in Socket, NEW out \in SUBSET net,
         s.seq = sock[e].seq, s.unacked = sock[e].unacked,
         s.state = "Closed" \/ (s.state = sock[e].state /\ s.ack = sock[e].ack),
         sock' = [sock EXCEPT ![e] = s], net' = net \cup out, UNCHANGED <<plan, sent, received, jumped>>
  PROVE  ConnectionInv'
<1> DEFINE r == [sock |-> s, out |-> out, got |-> <<>>]
<1>1. out \in SUBSET Packets
  BY DEF ConnectionInv, StreamInv, TypeOK
<1>2. r \in [sock : Socket, out : SUBSET Packets, got : {<<>>}]
      /\ r.sock = s /\ r.out = out /\ r.got = <<>>
  BY <1>1
<1> HIDE DEF r
<1>3. Legal(e, r) /\ Faithful(e, r)
  BY <1>2, IdleStep DEF ConnectionInv
<1>4. received' = [received EXCEPT ![e] = @ \o <<>>]
  <2>1. received \in [Side -> Seq(Nat)] /\ received[e] \o <<>> = received[e]
    BY DEF ConnectionInv, StreamInv, TypeOK
  <2>2. received = [received EXCEPT ![e] = received[e]]
    BY <2>1
  <2> QED BY <2>1, <2>2
<1>5. Apply(e, r)
  BY <1>2, <1>4 DEF Apply
<1> QED
  BY <1>3, <1>5, OrdinaryStep

(* What is not acknowledged is sent again, or the socket gives up.         *)
LEMMA RetransmitStep == ASSUME ConnectionInv, NEW e \in Side, Retransmit(e) PROVE ConnectionInv'
<1> DEFINE s == [sock[e] EXCEPT !.attempts = @ + 1]
           c == SetState(s, "Closed")
           out == {s.unacked[i].packet : i \in DOMAIN s.unacked}
<1>1. sock[e] \in Socket /\ sock[e].unacked \in Seq(Unacked) /\ sock[e].unacked # <<>>
  BY DEF ConnectionInv, StreamInv, TypeOK, Retransmit, Socket
<1>2. s \in Socket /\ s.state = sock[e].state /\ s.ack = sock[e].ack /\ s.seq = sock[e].seq
      /\ s.unacked = sock[e].unacked
  BY <1>1 DEF Socket
<1>3. \/ sock' = [sock EXCEPT ![e] = c] /\ net' = net
      \/ sock' = [sock EXCEPT ![e] = s] /\ net' = net \cup out
  BY DEF Retransmit
<1>4. UNCHANGED <<plan, sent, received, jumped>>
  BY DEF Retransmit
<1> HIDE DEF s
<1>5. c \in Socket /\ c.state = "Closed" /\ c.seq = sock[e].seq /\ c.unacked = sock[e].unacked
  BY <1>2, WithState DEF State
<1>6. \A i \in DOMAIN sock[e].unacked :
        sock[e].unacked[i].packet \in net /\ sock[e].unacked[i].packet.to = Peer(e)
  BY DEF ConnectionInv, UnackedOK
<1>7. out \in SUBSET net
  BY <1>2, <1>6
<1>8. sock[e].state # "new"
  <2>1. 1 \in DOMAIN sock[e].unacked
    BY <1>1
  <2> DEFINE o == sock[e].unacked[1].packet
  <2>2. o \in net /\ o.to = Peer(e)
    BY <1>6, <2>1
  <2> HIDE DEF o
  <2> QED
    BY <2>2, PeerFacts DEF ConnectionInv, StreamInv, NetOK, PacketOK
<1> HIDE DEF c, out
<1>9. CASE sock' = [sock EXCEPT ![e] = c] /\ net' = net
  <2>1. {} \in SUBSET net /\ net' = net \cup {}
    BY <1>9
  <2> QED
    BY <1>4, <1>5, <1>8, <1>9, <2>1, SilentStep
<1>10. CASE sock' = [sock EXCEPT ![e] = s] /\ net' = net \cup out
  BY <1>2, <1>4, <1>7, <1>8, <1>10, SilentStep
<1> QED
  BY <1>3, <1>9, <1>10

(* TimeWait has elapsed.                                                   *)
LEMMA TimeWaitStep == ASSUME ConnectionInv, NEW e \in Side, TimeWaitElapsed(e) PROVE ConnectionInv'
<1> DEFINE c == SetState(sock[e], "Closed")
<1>1. sock[e] \in Socket /\ sock[e].state # "new"
  BY DEF ConnectionInv, StreamInv, TypeOK, TimeWaitElapsed
<1>2. c \in Socket /\ c.state = "Closed" /\ c.seq = sock[e].seq /\ c.unacked = sock[e].unacked
  BY <1>1, WithState DEF State
<1>3. sock' = [sock EXCEPT ![e] = c] /\ UNCHANGED <<plan, sent, received, jumped>>
      /\ {} \in SUBSET net /\ net' = net \cup {}
  BY DEF TimeWaitElapsed
<1> HIDE DEF c
<1> QED
  BY <1>1, <1>2, <1>3, SilentStep

-----------------------------------------------------------------------------
(* Every step preserves ConnectionInv.                                     *)
LEMMA NextConnectionInv == ConnectionInv /\ [Next]_vars => ConnectionInv'
<1> SUFFICES ASSUME ConnectionInv, [Next]_vars PROVE ConnectionInv'
  OBVIOUS
<1>1. CASE Connect
  BY <1>1, ConnectStep
<1>2. ASSUME NEW p \in net, Deliver(p) PROVE ConnectionInv'
  BY <1>2, DeliverStep
<1>3. ASSUME NEW e \in Side, Write(e) PROVE ConnectionInv'
  BY <1>3, WriteStep
<1>4. ASSUME NEW e \in Side, ShutDownForWriting(e) PROVE ConnectionInv'
  <2> DEFINE r == In(Reply(e, sock[e], "FIN_ACK"), "FinWait1")
  <2>1. Legal(e, r) /\ Faithful(e, r)
    BY <1>4, FinStep DEF ConnectionInv, ShutDownForWriting
  <2>2. Apply(e, r) /\ UNCHANGED <<plan, sent, jumped>>
    BY <1>4 DEF ShutDownForWriting
  <2> HIDE DEF r
  <2> QED BY <2>1, <2>2, OrdinaryStep
<1>5. ASSUME NEW e \in Side, Close(e) PROVE ConnectionInv'
  <2> DEFINE r == In(Reply(e, sock[e], "FIN_ACK"), "LastAck")
  <2>1. Legal(e, r) /\ Faithful(e, r)
    BY <1>5, FinStep DEF ConnectionInv, Close
  <2>2. Apply(e, r) /\ UNCHANGED <<plan, sent, jumped>>
    BY <1>5 DEF Close
  <2> HIDE DEF r
  <2> QED BY <2>1, <2>2, OrdinaryStep
<1>6. ASSUME NEW e \in Side, FlushDelayedAcks(e) PROVE ConnectionInv'
  BY <1>6, FlushStep
<1>7. ASSUME NEW e \in Side, Retransmit(e) PROVE ConnectionInv'
  BY <1>7, RetransmitStep
<1>8. ASSUME NEW e \in Side, TimeWaitElapsed(e) PROVE ConnectionInv'
  BY <1>8, TimeWaitStep
<1>9. CASE UNCHANGED vars
  BY <1>9, IdleVars
<1> QED
  BY <1>1, <1>2, <1>3, <1>4, <1>5, <1>6, <1>7, <1>8, <1>9 DEF Next

(* So it holds in every reachable state.                                   *)
LEMMA ConnectionInvariance == Spec => []ConnectionInv
BY InitConnectionInv, NextConnectionInv, PTL DEF Spec

(* Whatever the network loses, repeats and reorders, and however many      *)
(* bytes are written, a side receives what the other has written, in order *)
(* and without gaps, and has received all of it when it has seen the FIN;  *)
(* unless the packet that ended the handshake changed the number that it   *)
(* expects.                                                                *)
THEOREM StreamPrefixHolds == Spec => []StreamPrefix
<1>1. ConnectionInv => StreamPrefix
  BY DEF ConnectionInv, StreamInv, InStep, InStepAt, StreamPrefix
<1> QED
  BY <1>1, ConnectionInvariance, PTL

(* No byte leaves the list of unacknowledged packets before the peer has   *)
(* accepted it, with the exceptions that AckedWasReceived names.           *)
THEOREM AckedWasReceivedHolds == Spec => []AckedWasReceived
<1>1. ConnectionInv => AckedWasReceived
  <2> SUFFICES ASSUME ConnectionInv, NEW e \in Side, Peer(e) \notin jumped,
                      sock[Peer(e)].state \in {"SynReceived", "Established", "CloseWait", "LastAck"},
                      NEW i \in 1..sent[e], i \notin Open(e)
               PROVE  i \in Range(received[Peer(e)])
    BY DEF AckedWasReceived, Open
  <2> DEFINE q == received[Peer(e)]
  <2>1. i <= Len(q)
    BY DEF ConnectionInv, NothingLost, Honest
  <2>2. q = [k \in 1..Len(q) |-> k] /\ q \in Seq(Nat) /\ i \in Nat /\ i >= 1
    BY PeerFacts DEF ConnectionInv, StreamInv, TypeOK, InStep, InStepAt
  <2> HIDE DEF q
  <2>3. i \in DOMAIN q /\ q[i] = i
    BY <2>1, <2>2
  <2>4. i \in Range(q)
    BY <2>3 DEF Range
  <2> QED BY <2>4 DEF q
<1> QED
  BY <1>1, ConnectionInvariance, PTL
=============================================================================
