-------------------------------- MODULE TCP --------------------------------
(***************************************************************************)
(* One TCP connection between two machines that run this kernel:           *)
(* TCPSocket (Kernel/Net/TCPSocket.cpp) and the packet handler of the      *)
(* network task (Kernel/Net/NetworkTask.cpp), over a network that loses,   *)
(* duplicates, delays and reorders packets.                                *)
(*                                                                         *)
(* The client connects, the server listens; both write, shut down and      *)
(* close.  Handlers run under the socket's mutex and are one action.  A    *)
(* packet with data carries one byte.  Sequence numbers are relative and   *)
(* do not wrap; the window is a number of packets; did_receive may refuse  *)
(* a packet at any time, as the buffer may be full.  There is a route, and *)
(* the listening socket stays open with room in its backlog.  A process    *)
(* may do nothing at any time, so that it does not matter here whether     *)
(* the server has accepted the connection, or whether a process has closed *)
(* a socket that close sends no FIN for.                                   *)
(***************************************************************************)
EXTENDS Naturals, Sequences, Functions

CONSTANTS Plans,                   \* bound: what the two processes may do
          Window,                  \* m_send_window_size
          maximum_retransmits,
          maximum_duplicate_acks

(* A plan says how many bytes each side may write, which sides may close a *)
(* connection that the other has not closed, and which sides write through *)
(* a descriptor that is non-blocking.                                      *)
ASSUME BoundAssumption ==
    /\ \A p \in Plans :
         /\ p.client \in Nat /\ p.server \in Nat
         /\ p.shut \subseteq {"client", "server"} /\ p.nonblocking \subseteq {"client", "server"}
    /\ Window \in Nat /\ maximum_retransmits \in Nat /\ maximum_duplicate_acks \in Nat

VARIABLES
    sock,       \* the two sockets
    net,        \* every packet ever sent: it may arrive any number of times
    plan,       \* the plan of this behaviour
    sent,       \* ghost: how many bytes each side has written
    received,   \* ghost: what each side's did_receive has accepted
    jumped      \* ghost: the sides whose expected number the end of the handshake has changed

vars == <<sock, net, plan, sent, received, jumped>>

Side == {"client", "server"}
Peer(e) == IF e = "client" THEN "server" ELSE "client"

HasAck(p) == p.flags \in {"SYN_ACK", "ACK", "PSH_ACK", "FIN_ACK", "RST_ACK"}
HasRst(p) == p.flags \in {"RST", "RST_ACK"}

(* "new" is a client before connect, or the tuple of a connection that the *)
(* listening socket has not made a socket for.                             *)
NewSocket ==
    [state |-> "new", seq |-> 0, ack |-> 0, last_ack |-> 0, unacked |-> <<>>,
     attempts |-> 0, dups |-> 0, delayed |-> FALSE]

Init ==
    /\ sock = [e \in Side |-> NewSocket]
    /\ net = {}
    /\ plan \in Plans
    /\ sent = [e \in Side |-> 0]
    /\ received = [e \in Side |-> <<>>]
    /\ jumped = {}

-----------------------------------------------------------------------------
(* send_tcp_packet: the packet, and the socket after it.  SYN and data     *)
(* wait for their acknowledgement; nothing else does, FIN included, which  *)
(* does not take a sequence number either.                                 *)

(* (The numbers of an RST only reach a socket that it closes.)             *)
Packet(e, s, flags, data) ==
    [to |-> Peer(e), flags |-> flags, data |-> data,
     seq |-> IF HasRst([flags |-> flags]) THEN 0 ELSE s.seq,
     ack |-> IF flags \in {"SYN", "RST", "RST_ACK"} THEN 0 ELSE s.ack]

Sent(e, s, flags, data) ==
    LET next == IF flags \in {"SYN", "SYN_ACK"} \/ data # 0 THEN s.seq + 1 ELSE s.seq
    IN  [s EXCEPT
          !.seq = next,
          !.last_ack = IF HasAck([flags |-> flags]) THEN s.ack ELSE @,
          !.unacked = IF next = s.seq THEN @
                      ELSE Append(@, [end |-> next, packet |-> Packet(e, s, flags, data)])]

(* What a handler does: the socket afterwards, the packets that it sends,  *)
(* and the bytes that it has received.                                     *)
Result(s) == [sock |-> s, out |-> {}, got |-> <<>>]
Reply(e, s, flags) == [sock |-> Sent(e, s, flags, 0), out |-> {Packet(e, s, flags, 0)}, got |-> <<>>]

(* set_state                                                               *)
SetState(s, state) == [s EXCEPT !.state = state]

In(r, state) == [r EXCEPT !.sock = SetState(@, state)]

(* The answer to flags that the state does not expect.                     *)
Reset(e, s) == In(Reply(e, s, "RST"), "Closed")

(* send_ack(true), and send_ack(), which does not repeat itself.           *)
Ack(e, s) == Reply(e, s, "ACK")
AckIfNew(e, s) == IF s.last_ack = s.ack THEN Result(s) ELSE Ack(e, s)

(* send_delayed_tcp_ack                                                    *)
DelayedAck(e, s, delay) == IF delay THEN Result([s EXCEPT !.delayed = TRUE]) ELSE AckIfNew(e, s)

-----------------------------------------------------------------------------
(* receive_tcp_packet                                                      *)

(* Mutant: an off-by-one.                                                  *)
CoveredEarly(u, ack) == u.end <= ack + 1

Covered(u, ack) == u.end <= ack

(* How many packets at the head of the list are covered.                   *)
CoveredPackets(s, ack) ==
    CHOOSE n \in 0..Len(s.unacked) :
        /\ \A i \in 1..n : Covered(s.unacked[i], ack)
        /\ n = Len(s.unacked) \/ ~Covered(s.unacked[n + 1], ack)

Acked(s, p) ==
    LET open == SubSeq(s.unacked, CoveredPackets(s, p.ack) + 1, Len(s.unacked))
    IN  IF ~HasAck(p) THEN s
        ELSE [s EXCEPT !.unacked = open, !.attempts = IF open = <<>> THEN 0 ELSE @]

(* The number after packet p.                                              *)
After(p) == p.seq + (IF p.data = 0 THEN 0 ELSE 1)

-----------------------------------------------------------------------------
(* handle_tcp, by the state of the socket.  Flags that this kernel never   *)
(* sends in that situation (a FIN without an ACK, a second active opener)  *)
(* are left out, and with them the state Closing.                          *)

(* Nothing is sent after this that would show the new numbers of the       *)
(* socket.                                                                 *)
HandleClosed(e, s, p) == IF HasRst(p) THEN Result(s) ELSE Reply(e, s, "RST_ACK")

(* The listening socket makes a client of its own for a SYN.               *)
HandleListen(e, s, p) ==
    IF p.flags # "SYN" THEN Result(s)
    ELSE In(Reply(e, [s EXCEPT !.ack = After(p) + 1], "SYN_ACK"), "SynReceived")

HandleSynSent(e, s, p, delay) ==
    CASE p.flags = "SYN_ACK" ->
            In(Ack(e, [s EXCEPT !.ack = After(p) + 1]), "Established")
      [] p.flags = "FIN_ACK" ->
            In(DelayedAck(e, [s EXCEPT !.ack = After(p) + 1], delay), "Closed")
      [] p.flags = "RST_ACK" -> Result(SetState(s, "Closed"))
      [] OTHER -> Reset(e, s)

(* The acknowledgement is accepted whatever sequence number it has.        *)
HandleSynReceived(e, s, p) ==
    CASE p.flags = "ACK" ->
            Result([SetState(s, "Established") EXCEPT !.ack = After(p)])
      [] p.flags = "SYN" -> Result(s)
      [] OTHER -> Reset(e, s)

(* Mutant: a packet beyond the one that is due is taken as well.           *)
InOrderOrLater(s, p) == p.seq >= s.ack

InOrder(s, p) == p.seq = s.ack

HandleEstablished(e, s, p, fits, delay) ==
    LET t == [s EXCEPT !.dups = 0, !.ack = After(p)]
    IN  CASE HasRst(p) -> Result(SetState(s, "Closed"))
          [] ~HasRst(p) /\ ~InOrder(s, p) ->
                IF s.dups < maximum_duplicate_acks THEN Ack(e, [s EXCEPT !.dups = @ + 1])
                                                   ELSE Result(s)
          [] p.flags = "FIN_ACK" /\ InOrder(s, p) ->
                In(DelayedAck(e, [t EXCEPT !.ack = @ + 1], delay), "CloseWait")
          [] p.data # 0 /\ InOrder(s, p) /\ fits ->
                [DelayedAck(e, t, delay) EXCEPT !.got = <<p.data>>]
          [] OTHER -> Result([s EXCEPT !.dups = 0])

HandleFinWait1(e, s, p) ==
    CASE p.flags = "ACK" -> Result([SetState(s, "FinWait2") EXCEPT !.ack = After(p)])
      [] p.flags = "FIN_ACK" -> In(Ack(e, [s EXCEPT !.ack = After(p) + 1]), "TimeWait")
      [] OTHER -> Reset(e, s)

HandleFinWait2(e, s, p) ==
    CASE p.flags = "FIN_ACK" -> In(Ack(e, [s EXCEPT !.ack = After(p) + 1]), "TimeWait")
      [] p.flags = "RST_ACK" -> Result(SetState(s, "Closed"))
      [] p.flags = "ACK" -> Result(s)
      [] OTHER -> Reset(e, s)

HandleLastAck(e, s, p) ==
    IF p.flags = "ACK" THEN Result([SetState(s, "Closed") EXCEPT !.ack = After(p)])
    ELSE Reset(e, s)

Handle(e, s, p, fits, delay) ==
    CASE s.state = "new" -> HandleListen(e, s, p)
      [] s.state = "SynSent" -> HandleSynSent(e, s, p, delay)
      [] s.state = "SynReceived" -> HandleSynReceived(e, s, p)
      [] s.state = "Established" -> HandleEstablished(e, s, p, fits, delay)
      [] s.state = "FinWait1" -> HandleFinWait1(e, s, p)
      [] s.state = "FinWait2" -> HandleFinWait2(e, s, p)
      [] s.state = "LastAck" -> HandleLastAck(e, s, p)
      [] s.state = "Closed" -> HandleClosed(e, s, p)
      [] s.state \in {"CloseWait", "TimeWait"} -> Reset(e, s)

(* The effect of a handler on the state.                                   *)
Apply(e, r) ==
    /\ sock' = [sock EXCEPT ![e] = r.sock]
    /\ net' = net \cup r.out
    /\ received' = [received EXCEPT ![e] = @ \o r.got]

-----------------------------------------------------------------------------
(* The network task.                                                       *)

Choice(relevant) == IF relevant THEN BOOLEAN ELSE {FALSE}

(* Ghost: the acknowledgement that ends the handshake has another sequence *)
(* number than the one that its receiver waits for.                        *)
Jumps(s, p) == s.state = "SynReceived" /\ p.flags = "ACK" /\ After(p) # s.ack

(* A packet arrives, and stays in the network.                             *)
Deliver(p) ==
    /\ \E fits \in Choice(p.data # 0), delay \in Choice(p.flags \in {"PSH_ACK", "FIN_ACK"}) :
         Apply(p.to, Handle(p.to, Acked(sock[p.to], p), p, fits, delay))
    /\ jumped' = IF Jumps(sock[p.to], p) THEN jumped \cup {p.to} ELSE jumped
    /\ UNCHANGED <<plan, sent>>

(* flush_delayed_tcp_acks, when the delay is over.                         *)
FlushDelayedAcks(e) ==
    /\ sock[e].delayed
    /\ Apply(e, AckIfNew(e, [sock[e] EXCEPT !.delayed = FALSE]))
    /\ UNCHANGED <<plan, sent, jumped>>

(* Mutant: the attempts are not counted.                                   *)
RetransmitForever(e) ==
    /\ sock[e].unacked # <<>>
    /\ sock[e].attempts <= maximum_retransmits
    /\ net' = net \cup {sock[e].unacked[i].packet : i \in DOMAIN sock[e].unacked}
    /\ UNCHANGED <<sock, plan, sent, received, jumped>>

(* retransmit_packets, when the interval is over.  (It goes on trying to   *)
(* close a socket that it has closed; that is left out.)                   *)
Retransmit(e) ==
    /\ sock[e].unacked # <<>>
    /\ sock[e].attempts <= maximum_retransmits
    /\ LET s == [sock[e] EXCEPT !.attempts = @ + 1]
       IN  IF s.attempts > maximum_retransmits
           THEN /\ sock' = [sock EXCEPT ![e] = SetState(s, "Closed")]
                /\ UNCHANGED net
           ELSE /\ sock' = [sock EXCEPT ![e] = s]
                /\ net' = net \cup {s.unacked[i].packet : i \in DOMAIN s.unacked}
    /\ UNCHANGED <<plan, sent, received, jumped>>

(* The timer that was set on the way into TimeWait.                        *)
TimeWaitElapsed(e) ==
    /\ sock[e].state = "TimeWait"
    /\ sock' = [sock EXCEPT ![e] = SetState(@, "Closed")]
    /\ UNCHANGED <<net, plan, sent, received, jumped>>

-----------------------------------------------------------------------------
(* The system calls.                                                       *)

(* protocol_connect                                                        *)
Connect ==
    /\ sock["client"].state = "new"
    /\ Apply("client", In(Reply("client", sock["client"], "SYN"), "SynSent"))
    /\ UNCHANGED <<plan, sent, jumped>>

(* A write, of one byte: can_write, sendto and protocol_send.  The code    *)
(* does not refuse to write to a connection that is Closed, with the       *)
(* sequence number that the last packet to it asked for; the processes     *)
(* here do not do that, and the properties hold for such processes.        *)
Write(e) ==
    /\ sock[e].state \in {"Established", "CloseWait"}
    /\ sent[e] < plan[e]
    /\ e \in plan.nonblocking \/ Len(sock[e].unacked) < Window
    /\ sent' = [sent EXCEPT ![e] = @ + 1]
    /\ sock' = [sock EXCEPT ![e] = Sent(e, @, "PSH_ACK", sent'[e])]
    /\ net' = net \cup {Packet(e, sock[e], "PSH_ACK", sent'[e])}
    /\ UNCHANGED <<plan, received, jumped>>

(* Socket::shutdown(SHUT_WR) and close: shut_down_for_writing sends a FIN  *)
(* from Established only.                                                  *)
ShutDownForWriting(e) ==
    /\ e \in plan.shut
    /\ sock[e].state = "Established"
    /\ Apply(e, In(Reply(e, sock[e], "FIN_ACK"), "FinWait1"))
    /\ UNCHANGED <<plan, sent, jumped>>

(* TCPSocket::close sends the FIN from CloseWait.                          *)
Close(e) ==
    /\ sock[e].state = "CloseWait"
    /\ Apply(e, In(Reply(e, sock[e], "FIN_ACK"), "LastAck"))
    /\ UNCHANGED <<plan, sent, jumped>>

-----------------------------------------------------------------------------
Next ==
    \/ Connect
    \/ \E p \in net : Deliver(p)
    \/ \E e \in Side : Write(e)
    \/ \E e \in Side : ShutDownForWriting(e)
    \/ \E e \in Side : Close(e)
    \/ \E e \in Side : FlushDelayedAcks(e)
    \/ \E e \in Side : Retransmit(e)
    \/ \E e \in Side : TimeWaitElapsed(e)

Spec == Init /\ [][Next]_vars

(* The network task retransmits as long as there is something to be        *)
(* acknowledged.  No packet has to arrive.                                 *)
FairSpec == Spec /\ \A e \in Side : WF_vars(Retransmit(e))

-----------------------------------------------------------------------------
(* Properties.                                                             *)

(* What a side has received is what the other has written, from the        *)
(* beginning, without gaps and repetitions, whatever the network does, and *)
(* a side that has seen the end of the stream has received all of it.      *)
(* Except for a side that has left SynReceived with a number that is not   *)
(* the one after the SYN (see HandleSynReceived).                          *)
StreamPrefix ==
    \A e \in Side \ jumped :
        /\ received[e] = [i \in 1..Len(received[e]) |-> i]
        /\ sock[e].state \in {"CloseWait", "LastAck"} => Len(received[e]) = sent[Peer(e)]

(* What has been acknowledged has been received: no byte leaves the list   *)
(* of unacknowledged packets that the peer's did_receive has not accepted. *)
(* Except where the receiver has left SynReceived with a wrong number,     *)
(* where the sender is closed (an RST acknowledges, too), and where the    *)
(* receiver has shut down its own writing: in FinWait1 and FinWait2 it     *)
(* does not look at sequence numbers.                                      *)
AckedWasReceived ==
    \A e \in Side :
        LET open == {sock[e].unacked[i].packet.data : i \in DOMAIN sock[e].unacked}
        IN  /\ Peer(e) \notin jumped
            /\ sock[e].state # "Closed"
            /\ sock[Peer(e)].state \in {"SynReceived", "Established", "CloseWait", "LastAck"}
            => (1..sent[e]) \ open \subseteq Range(received[Peer(e)])

(* Whatever the network does, a side that waits for an acknowledgement,    *)
(* of its SYN or its data, gets it or gives up.                            *)
SenderFinishes ==
    \A e \in Side :
        sock[e].unacked # <<>> ~> (sock[e].unacked = <<>> \/ sock[e].state = "Closed")
=============================================================================
