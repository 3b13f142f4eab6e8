------------------------------ MODULE ClientTcp ------------------------------
(***************************************************************************)
(* The client's connection to the match server.  The logic thread sends    *)
(* requests and, every tick, reads what has come, cuts packets out of it   *)
(* and, when the connection has failed, connects again and sends the       *)
(* request that could not be sent.  There is one buffer for what is sent.  *)
(* Some requests go straight to the socket instead, and the thread sleeps  *)
(* and connects again until they are out.                                  *)
(*                                                                         *)
(* A packet is two halves: that is enough for it to come in pieces.  The   *)
(* server's packets are numbered; which requests they answer is left open. *)
(* The web pages of the other connection (tcp_ttl) are left out.           *)
(***************************************************************************)
EXTENDS Integers, Sequences

CONSTANTS
  Ordinary,    \* requests of tcp_send_sendbuf: QUERYNICK, QUEUE3, ...
  NoRequest,
  Direct,      \* the others: GETLEADERBOARD, PUSHTOKEN, ...
  BufLen,      \* LW_TCP_BUFLEN, in halves
  Tries,       \* sends of a direct request, until its pause is over 10 s (7)
  MaxPackets,  \* bound: packets of the server
  MaxBreaks    \* bound: connections that break

ASSUME TcpAssumption ==
  /\ NoRequest \notin Ordinary \cup Direct
  /\ Ordinary # {} /\ Ordinary \cap Direct = {}
  /\ BufLen \in Nat /\ BufLen > 2 /\ Tries \in Nat \ {0}
  /\ MaxPackets \in Nat /\ MaxBreaks \in Nat

Requests == Ordinary \cup Direct
Halves == [n : 1 .. MaxPackets, half : {1, 2}]

VARIABLES
  \* The client's LWTCP.
  socket,     \* connect_socket: "up", "shut" by the other end, or "none"
  sendBuf,    \* send_buf: the request written last
  sendLen,    \* send_buf_len: the request whose length it is, if any
  sendFail,   \* send_fail
  recvBuf,    \* recv_buf, as far as it has not been parsed
  tries,      \* of the direct request that keeps the thread; 0: there is none
  \* Outside.
  stream,     \* bytes for the client on this socket
  packets,    \* sent by the server so far
  breaks,
  \* What became of it.
  due,        \* the number of the next packet of this connection
  mangled,    \* the client took for a packet what the server had not sent
  misread,    \* the server got one request with the length of another
  cut,        \* a connection has been replaced in the middle of a packet
  overwritten,  \* a direct request was made while another was to be resent
  gaveUp      \* a direct request was given up

sendVars == <<sendBuf, sendLen, misread, overwritten>>
recvVars == <<recvBuf, mangled>>
outside == <<packets, breaks>>
tcpVars == <<socket, sendVars, sendFail, recvVars, tries, stream, outside, due, cut, gaveUp>>

TcpTypeOK ==
  /\ socket \in {"up", "shut", "none"}
  /\ sendBuf \in Requests /\ sendLen \in Requests \cup {NoRequest}
  /\ sendFail \in BOOLEAN
  /\ recvBuf \in Seq(Halves) /\ Len(recvBuf) <= BufLen
  /\ tries \in 0 .. Tries
  /\ stream \in Seq(Halves) /\ packets \in 0 .. MaxPackets /\ breaks \in 0 .. MaxBreaks
  /\ due \in 1 .. MaxPackets + 1
  /\ {mangled, misread, cut, overwritten, gaveUp} \subseteq BOOLEAN

\* new_tcp has connected, and tcp_on_connect comes to its direct request.
TcpInit ==
  /\ socket = "up" /\ sendBuf \in Ordinary /\ sendLen = NoRequest /\ sendFail = FALSE
  /\ recvBuf = <<>> /\ tries = 1
  /\ stream = <<>> /\ packets = 0 /\ breaks = 0 /\ due = 1
  /\ mangled = FALSE /\ misread = FALSE /\ cut = FALSE
  /\ overwritten = FALSE /\ gaveUp = FALSE

-----------------------------------------------------------------------------
\* send() returns a length or -1.  The first one after the other end has gone
\* succeeds, for nothing.
MaySend(ok) == IF ok THEN socket # "none" ELSE socket # "up"

\* Fault: the flag is cleared before the connection is made.
ConnectedFlagEarly(ok, fail) == FALSE
\* What tcp_connect leaves in send_fail.
ConnectedFlag(ok, fail) == ~ok /\ fail

\* tcp_connect: "none" if it fails, "shut" if what it made has broken again by
\* the next call.  What was read of the old connection stays in the buffer.
Connect(made, unread) ==
  /\ socket' = made
  /\ stream' = <<>> /\ due' = packets + 1
  /\ cut' = (cut \/ unread # <<>>)

-----------------------------------------------------------------------------
(* Requests.                                                               *)

LenAfter(r, ok) == IF ok THEN NoRequest ELSE r

\* tcp_send_sendbuf, of what was written to the buffer before.
Request(r) ==
  /\ tries = 0 /\ r \in Ordinary /\ sendBuf' = r
  /\ \E ok \in BOOLEAN :
       MaySend(ok) /\ sendLen' = LenAfter(r, ok) /\ sendFail' = ~ok
  /\ UNCHANGED <<socket, misread, overwritten, recvVars, tries, stream, outside,
                 due, cut, gaveUp>>

\* A direct request writes the same buffer, whatever waits in it.
StartDirect(d) ==
  /\ tries = 0 /\ d \in Direct /\ sendBuf' = d /\ tries' = 1
  /\ overwritten' = (overwritten \/ sendLen # NoRequest)
  /\ UNCHANGED <<socket, sendLen, misread, sendFail, recvVars, stream, outside,
                 due, cut, gaveUp>>

DirectSent ==
  /\ tries > 0 /\ MaySend(TRUE) /\ tries' = 0
  /\ UNCHANGED <<socket, sendVars, sendFail, recvVars, stream, outside, due, cut, gaveUp>>

DirectFails ==
  /\ tries > 0 /\ MaySend(FALSE)
  /\ IF tries = Tries
     THEN /\ tries' = 0 /\ gaveUp' = TRUE
          /\ UNCHANGED <<socket, sendFail, stream, due, cut>>
     ELSE /\ tries' = tries + 1 /\ UNCHANGED gaveUp
          /\ \E made \in {"up", "none"} :
               Connect(made, recvBuf) /\ sendFail' = ConnectedFlag(made = "up", sendFail)
  /\ UNCHANGED <<sendVars, recvVars, outside>>

-----------------------------------------------------------------------------
(* tcp_update.                                                             *)

\* Fault: the loop goes on with a packet that has not come as a whole.
IncompleteNever(buf) == FALSE
Incomplete(buf) == Len(buf) = 1

From(buf, i) == SubSeq(buf, i, Len(buf))
Packet(n) == <<[n |-> n, half |-> 1], [n |-> n, half |-> 2]>>

\* The buffer begins with k packets, the ones that are due.
Begins(buf, next, k) ==
  \A i \in 1 .. k : 2 * i <= Len(buf) /\ SubSeq(buf, 2 * i - 1, 2 * i) = Packet(next + i - 1)

\* The loop may end here: what is not the start of a packet has any length, so
\* it may be waited for like a packet that has not come as a whole.
MayEnd(buf) == buf = <<>> \/ buf[1].half = 2 \/ Incomplete(buf)
\* It may go on here, and with something that is not the packet that is due.
MayMiss(buf, next) ==
  buf # <<>> /\ (buf[1].half = 2 \/ ~Incomplete(buf)) /\ ~Begins(buf, next, 1)

\* parse_recv_packets: what may be left of the buffer, the packet that is due
\* then, and whether all that was taken were packets.
Parsed(buf, next) ==
  LET good == {k \in 0 .. Len(buf) : Begins(buf, next, k)}
      bad == {j \in 1 .. Len(buf) :
                \E k \in good : 2 * k < j /\ MayMiss(From(buf, 2 * k + 1), next + k)}
  IN  {[left |-> From(buf, 2 * k + 1), due |-> next + k, good |-> TRUE] :
         k \in {k \in good : MayEnd(From(buf, 2 * k + 1))}}
      \cup {[left |-> From(buf, j + 1), due |-> next, good |-> FALSE] :
              j \in {j \in bad : MayEnd(From(buf, j + 1))}}

\* Fault: recv may fill the whole buffer, behind what has not been parsed.
SpaceWhole(buf) == BufLen
Space(buf) == BufLen - Len(buf)

\* Fault: nothing is sent again.
ResentNot(r, ok) == UNCHANGED <<sendLen, misread>>
\* tcp_send_sendbuf again, of what is in the buffer now.
Resent(r, ok) ==
  /\ sendLen' = LenAfter(r, ok)
  /\ misread' = (misread \/ (ok /\ r \notin {NoRequest, sendBuf}))

\* The end of tcp_update: a retry, unless it is too early for one.
Retry(fail, now, unread, next, rest) ==
  \/ /\ fail
     /\ \/ /\ Connect("none", unread) /\ sendFail' = ConnectedFlag(FALSE, fail)
           /\ UNCHANGED <<sendLen, misread, breaks>>
        \/ /\ Connect("up", unread) /\ sendFail' = ConnectedFlag(TRUE, fail)
           /\ Resent(sendLen, TRUE) /\ UNCHANGED breaks
        \/ /\ sendLen # NoRequest /\ breaks < MaxBreaks /\ breaks' = breaks + 1
           /\ Connect("shut", unread) /\ sendFail' = TRUE /\ Resent(sendLen, FALSE)
  \/ /\ ~(fail /\ now) /\ sendFail' = fail /\ due' = next /\ stream' = rest
     /\ UNCHANGED <<socket, sendLen, misread, breaks, cut>>

Receive ==
  /\ tries = 0 /\ socket # "none"
  /\ \E k \in 1 .. Len(stream) :
       /\ k <= Space(recvBuf)
       /\ \E p \in Parsed(recvBuf \o SubSeq(stream, 1, k), due) :
            /\ recvBuf' = p.left /\ mangled' = (mangled \/ ~p.good)
            /\ Retry(sendFail, FALSE, p.left, p.due, SubSeq(stream, k + 1, Len(stream)))
  /\ UNCHANGED <<sendBuf, overwritten, tries, packets, gaveUp>>

\* recv returns 0: the other end is gone, or there is no room to read into.
ReceiveEnd ==
  /\ tries = 0
  /\ \/ socket = "shut" /\ stream = <<>>
     \/ socket # "none" /\ Space(recvBuf) = 0
  /\ Retry(TRUE, TRUE, recvBuf, due, stream)
  /\ UNCHANGED <<sendBuf, overwritten, recvVars, tries, packets, gaveUp>>

\* recv returns -1: there is nothing to read, or no socket.
ReceiveNothing ==
  /\ tries = 0
  /\ \/ socket = "none"
     \/ socket = "up" /\ stream = <<>> /\ Space(recvBuf) > 0
  /\ sendFail /\ Retry(TRUE, TRUE, recvBuf, due, stream)
  /\ UNCHANGED <<sendBuf, overwritten, recvVars, tries, packets, gaveUp>>

Update == Receive \/ ReceiveEnd \/ ReceiveNothing

-----------------------------------------------------------------------------
(* The other end.                                                          *)

ServerSends ==
  /\ socket = "up" /\ packets < MaxPackets /\ packets' = packets + 1
  /\ stream' = stream \o <<[n |-> packets', half |-> 1], [n |-> packets', half |-> 2]>>
  /\ UNCHANGED <<socket, sendVars, sendFail, recvVars, tries, breaks, due, cut, gaveUp>>

\* The connection ends; some of what was sent may be lost with it.
Break ==
  /\ socket = "up" /\ breaks < MaxBreaks /\ breaks' = breaks + 1 /\ socket' = "shut"
  /\ \E k \in 0 .. Len(stream) : stream' = SubSeq(stream, 1, k)
  /\ UNCHANGED <<sendVars, sendFail, recvVars, tries, packets, due, cut, gaveUp>>

-----------------------------------------------------------------------------
TcpNext ==
  \/ \E r \in Ordinary : Request(r)
  \/ \E d \in Direct : StartDirect(d)
  \/ DirectSent \/ DirectFails \/ Update \/ ServerSends \/ Break

TcpSpec == TcpInit /\ [][TcpNext]_tcpVars

\* The thread goes on with a direct request until it ends, comes back to
\* tcp_update, and the server can be reached again and again.
TcpFairSpec ==
  TcpSpec /\ WF_tcpVars(DirectSent \/ DirectFails) /\ SF_tcpVars(Update /\ socket' = "up")

-----------------------------------------------------------------------------
\* TCP is a stream, cut into packets at either end: what is handled as a packet
\* is one the server sent, the next one, and the buffer never fills up, unless a
\* connection was replaced in the middle of a packet (tcp_connect does not empty
\* the buffer); and the server gets each request with its own length, unless a
\* direct request was written over one that was to be sent again.
StreamsWhole ==
  /\ mangled \/ Len(recvBuf) = BufLen => cut
  /\ misread => overwritten

\* "send_fail flag set": a request that waits, and a socket that is not there,
\* are noticed by a later tick, but for what direct requests leave behind.
FailureIsNoticed ==
  tries = 0 =>
    /\ sendLen # NoRequest => sendFail \/ overwritten
    /\ socket = "none" => sendFail \/ gaveUp

\* "try to reconnect & resend if send_fail flag set": a request that could not
\* be sent is sent in the end, or the one that took its place in the buffer is.
RequestsSent == sendLen # NoRequest ~> sendLen = NoRequest \/ overwritten
=============================================================================
