-------------------------------- MODULE Rook -------------------------------
(***************************************************************************)
(* One session of the Rook transport (src/src/conn.rs, wire.rs, crypto.rs):*)
(* the PSK handshake over TCP, records over TCP, datagrams over UDP with   *)
(* latest-wins and fragments, and the keepalive.  Both ends are single     *)
(* threads that call send and poll.                                        *)
(*                                                                         *)
(* Time passes in seconds.  Both applications poll at least once a second, *)
(* and TCP delivers what is written to a live peer; UDP loses, reorders    *)
(* and duplicates.  There is one channel; audio, which is delivered in any *)
(* order and state, is left out.                                           *)
(***************************************************************************)
EXTENDS Integers, Sequences, FiniteSets

CONSTANTS
  PingIdle,    \* PING_IDLE
  DeadAfter,   \* DEAD_AFTER
  Window,      \* window ids
  Parts,       \* fragments of a message larger than the MTU
  TcpCap,      \* records a TCP connection holds before a write waits
  SeqSpace,    \* datagram sequence numbers are modulo SeqSpace (2^32)
  TcpSenders, UdpSenders,  \* sides whose applications send records, datagrams
  Limits       \* bounds of a behaviour: records sent, datagram messages sent that
               \* may arrive, the sequence number of the first of them, copies of a
               \* datagram, whether the session lasts, and whether datagrams may be
               \* sent in vain

ASSUME RookAssumption ==
  /\ PingIdle \in Nat \ {0} /\ DeadAfter \in Nat /\ PingIdle < DeadAfter
  /\ Parts \in Nat /\ Parts > 1 /\ TcpCap \in Nat \ {0}
  /\ SeqSpace \in Nat /\ SeqSpace % 2 = 0 /\ Parts < SeqSpace \div 2
  /\ TcpSenders \subseteq {"client", "host"} /\ UdpSenders \subseteq {"client", "host"}
  /\ Limits \subseteq [tcp : Nat, udp : Nat, seq : 0 .. SeqSpace - 1, copies : Nat \ {0},
                       time : BOOLEAN, vain : BOOLEAN]

Side == {"client", "host"}
Other(s) == IF s = "client" THEN "host" ELSE "client"

VARIABLES
  psk,    \* the pre-shared key each side has loaded
  nat,    \* whether the client's datagrams come from another address than it says
  conn,   \* conn[s]: s's end
  out,    \* out[s]: records s is in the middle of writing
  pipe,   \* pipe[s]: what s has written and the other side has not read
  net,    \* datagrams under way, with the copies left
  sent,   \* history: number of records, and of datagram messages that may arrive
  got,    \* history: got[s], the datagram messages delivered to s
  limit

vars == <<psk, nat, conn, out, pipe, net, sent, got, limit>>

\* Conn::new: the client knows the host's address, the host takes the advertised
\* one until it has heard the client.  seq_tx starts at 1; a later first number
\* stands for datagrams sent and lost before.
NewConn(s) ==
  [st |-> "up", alive |-> TRUE, bound |-> s = "client", peer |-> "advertised",
   seq |-> limit.seq, mid |-> 1, last |-> [w \in Window |-> SeqSpace], frags |-> <<>>,
   rx |-> 0, tx |-> 0, ping |-> 0, pc |-> "run", polled |-> FALSE]

Init ==
  /\ psk \in [Side -> {1, 2}] /\ psk["client"] = 1
  /\ limit \in Limits
  /\ nat \in IF limit.udp > 0 THEN BOOLEAN ELSE {FALSE}
  /\ conn = [s \in Side |-> [NewConn(s) EXCEPT !.st = "start"]]
  /\ out = [s \in Side |-> <<>>] /\ pipe = [s \in Side |-> <<>>]
  /\ net = {}
  /\ sent = [tcp |-> 0, udp |-> 0]
  /\ got = [s \in Side |-> <<>>]

Up(s) == conn[s].st = "up"

\* The end of a side that has closed its sockets, or is silent for ever.
Ended(s, how) == [NewConn(s) EXCEPT !.st = how]

Closed(s) == conn[s].st = "closed"
Silent(s) == conn[s].st \in {"vanished", "wedged"}
Wedged(s) == conn[s].st = "wedged"

\* The application runs the session: no write is in progress.
Running(s) == Up(s) /\ conn[s].alive /\ out[s] = <<>> /\ conn[s].pc = "run"

-----------------------------------------------------------------------------
(* Datagrams.                                                              *)

\* Where datagrams for s arrive, which is also where its own come from.
Address(s) == IF s = "client" /\ nat THEN "translated" ELSE "advertised"

\* Under way for so long that half of the sequence space has passed.
Expired(d, seq) == (seq - d.seq) % SeqSpace >= SeqSpace \div 2

\* Datagrams ds of s are sent; those that have a chance to arrive are under way.
Launched(s, ds, seq) ==
  {p \in net : p[1].from = s => ~Expired(p[1], seq)}
  \cup IF conn[s].peer = Address(Other(s)) THEN {<<d, limit.copies>> : d \in ds} ELSE {}

Taken(p) == (net \ {p}) \cup IF p[2] > 1 THEN {<<p[1], p[2] - 1>>} ELSE {}

\* Fault: the datagram delivered last is newer than itself.
NewerOrSame(seq, last) == (seq - last) % SeqSpace < SeqSpace \div 2

Newer(seq, last) == seq # last /\ (seq - last) % SeqSpace < SeqSpace \div 2

\* Nothing heard for the window yet, or newer than what was: on_data.
Fresh(c, d) == c.last[d.win] = SeqSpace \/ Newer(d.seq, c.last[d.win])

\* Fault: a fragment seen twice counts twice.
WithPartTwice(have, i) == [idx |-> have.idx \cup {i}, n |-> have.n + 1]

\* on_frag: a set counts the distinct parts it has.
WithPart(have, i) ==
  IF i \in have.idx THEN have ELSE [idx |-> have.idx \cup {i}, n |-> have.n + 1]

\* The sets kept when a fragment of message mid arrives: itself and newer ones.
Kept(c, mid) == {f \in DOMAIN c.frags : f = mid \/ Newer(f, mid)}

Have(c, mid) == IF mid \in DOMAIN c.frags THEN c.frags[mid] ELSE [idx |-> {}, n |-> 0]

\* A datagram at the receiving end: the first authentic one binds the address,
\* each counts as a sign of life.
Heard(c, from) == [c EXCEPT !.peer = IF c.bound THEN @ ELSE from, !.bound = TRUE, !.rx = 0]

\* A set is removed as it is complete.
OnFrag(c, d) ==
  LET have == WithPart(Have(c, d.mid), d.idx) IN
  [c EXCEPT !.frags =
     [f \in IF have.n = Parts THEN Kept(c, d.mid) \ {d.mid} ELSE Kept(c, d.mid) \cup {d.mid} |->
        IF f = d.mid THEN have ELSE c.frags[f]]]

OnDatagram(c, d) ==
  LET h == Heard(c, Address(d.from)) IN
  CASE d.type = "hello" -> h
    [] d.type = "data" -> IF Fresh(h, d) THEN [h EXCEPT !.last[d.win] = d.seq] ELSE h
    [] d.type = "frag" -> OnFrag(h, d)

\* What the application is given.
Delivered(c, d) ==
  CASE d.type = "hello" -> <<>>
    [] d.type = "data" -> IF Fresh(c, d) THEN <<[type |-> "data", msg |-> d.msg, win |-> d.win]>>
                          ELSE <<>>
    [] d.type = "frag" -> LET have == WithPart(Have(c, d.mid), d.idx) IN
                          IF have.n = Parts THEN <<[type |-> "frag", msg |-> d.msg, idx |-> have.idx]>>
                          ELSE <<>>

\* send_udp: a small message is one DATA; a large one takes a sequence number that
\* stays unused and one for each of its fragments.
Datagrams(s, c, kind, w) ==
  IF kind = "data"
  THEN {[type |-> "data", from |-> s, seq |-> c.seq, win |-> w, msg |-> sent.udp + 1]}
  ELSE {[type |-> "frag", from |-> s, seq |-> (c.seq + i) % SeqSpace, mid |-> c.mid, idx |-> i,
         msg |-> sent.udp + 1] : i \in 1 .. Parts}

Advanced(c, kind) ==
  IF kind = "data" THEN [c EXCEPT !.seq = (@ + 1) % SeqSpace, !.tx = 0]
  ELSE [c EXCEPT !.seq = (@ + 1 + Parts) % SeqSpace, !.mid = (@ + 1) % SeqSpace, !.tx = 0]

SendUdp(s, kind, w) ==
  LET c == Advanced(conn[s], kind) IN
  /\ Running(s) /\ s \in UdpSenders /\ sent.udp < limit.udp
  /\ net' = Launched(s, Datagrams(s, conn[s], kind, w), c.seq)
  /\ conn' = [conn EXCEPT ![s] = c]
  /\ sent' = [sent EXCEPT !.udp = @ + 1]
  /\ UNCHANGED <<psk, nat, out, pipe, got, limit>>

\* A message none of whose datagrams arrive; the gap it leaves in the sequence
\* numbers means nothing to the receiver, and is left out here.
SendUdpInVain(s) ==
  /\ Running(s) /\ s \in UdpSenders /\ limit.vain /\ conn[s].tx # 0
  /\ conn' = [conn EXCEPT ![s].tx = 0]
  /\ UNCHANGED <<psk, nat, out, pipe, net, sent, got, limit>>

-----------------------------------------------------------------------------
(* The handshake, blocking on both sides.                                  *)

\* confirm: the MAC is made with a key derived from the sender's PSK, and taken to be
\* one that nobody makes or repeats without it.
Proves(s, m) == m.psk = psk[s]

Record(kind, s) == [kind |-> kind, psk |-> psk[s]]

ClientConnect ==
  /\ conn["client"].st = "start"
  /\ pipe' = [pipe EXCEPT !["client"] = Append(@, Record("hello1", "client"))]
  /\ conn' = [conn EXCEPT !["client"].st = "hello"]
  /\ UNCHANGED <<psk, nat, out, net, sent, got, limit>>

\* host_accept up to its second read.
HostRespond ==
  /\ conn["host"].st = "start" /\ pipe["client"] # <<>>
  /\ pipe' = [pipe EXCEPT !["client"] = Tail(@), !["host"] = <<Record("hello2", "host")>>]
  /\ conn' = [conn EXCEPT !["host"].st = "confirm"]
  /\ UNCHANGED <<psk, nat, out, net, sent, got, limit>>

\* The rest of client_connect: on a good proof it sends its own, and a UDP hello.
RecvHello2 ==
  LET c == NewConn("client") IN
  /\ conn["client"].st = "hello" /\ pipe["host"] # <<>>
  /\ IF Proves("client", Head(pipe["host"]))
     THEN /\ pipe' = [pipe EXCEPT !["client"] = <<Record("confirm3", "client")>>, !["host"] = Tail(@)]
          /\ conn' = [conn EXCEPT !["client"] = [c EXCEPT !.seq = (@ + 1) % SeqSpace]]
          /\ net' = {<<[type |-> "hello", from |-> "client", seq |-> c.seq], limit.copies>>}
     ELSE /\ pipe' = [pipe EXCEPT !["host"] = Tail(@)]
          /\ conn' = [conn EXCEPT !["client"] = Ended("client", "closed")] /\ UNCHANGED net
  /\ UNCHANGED <<psk, nat, out, sent, got, limit>>

RecvConfirm3 ==
  /\ conn["host"].st = "confirm" /\ pipe["client"] # <<>>
  /\ pipe' = [pipe EXCEPT !["client"] = Tail(@)]
  /\ conn' = [conn EXCEPT !["host"] = IF Proves("host", Head(pipe["client"])) THEN NewConn("host")
                                      ELSE Ended("host", "closed")]
  /\ UNCHANGED <<psk, nat, out, net, sent, got, limit>>

\* A blocking read meets the end of the stream.
HandshakeEof(s) ==
  /\ conn[s].st \in {"hello", "confirm"}
  /\ pipe[Other(s)] = <<>> /\ Closed(Other(s))
  /\ conn' = [conn EXCEPT ![s] = Ended(s, "closed")]
  /\ UNCHANGED <<psk, nat, out, pipe, net, sent, got, limit>>

-----------------------------------------------------------------------------
(* Records.                                                                *)

\* A record of the session: a message, or PING and PONG on their own channel.
Framed(kind) == [kind |-> kind]

SendTcp(s) ==
  /\ Running(s) /\ s \in TcpSenders /\ sent.tcp < limit.tcp
  /\ out' = [out EXCEPT ![s] = <<Framed("msg")>>]
  /\ sent' = [sent EXCEPT !.tcp = @ + 1]
  /\ UNCHANGED <<psk, nat, conn, pipe, net, got, limit>>

\* write_all_tcp spins until the connection has room, whatever else is due.
Write(s) ==
  /\ Up(s) /\ out[s] # <<>> /\ Len(pipe[s]) < TcpCap
  /\ pipe' = [pipe EXCEPT ![s] = Append(@, Head(out[s]))]
  /\ out' = [out EXCEPT ![s] = Tail(@)]
  /\ conn' = [conn EXCEPT ![s].tx = 0]
  /\ UNCHANGED <<psk, nat, net, sent, got, limit>>

\* Fault: every error is taken for a full connection.
WriteFailsNever(s) == FALSE /\ UNCHANGED vars

\* A write to a closed connection fails, to a host that is gone in the end too; not
\* to a process that is wedged, whose kernel acknowledges.
WriteFails(s) ==
  /\ Up(s) /\ out[s] # <<>> /\ (Closed(Other(s)) \/ (Silent(Other(s)) /\ ~Wedged(Other(s))))
  /\ out' = [out EXCEPT ![s] = <<>>]
  /\ conn' = [conn EXCEPT ![s].alive = FALSE]
  /\ UNCHANGED <<psk, nat, pipe, net, sent, got, limit>>

\* on_ctrl: each PING among the records read is answered.
OnCtrl(ms) ==
  LET pings == {i \in DOMAIN ms : ms[i].kind = "ping"}
  IN [i \in 1 .. Cardinality(pings) |-> Framed("pong")]

\* Fault: silence is no reason to give the peer up.
KeepalivePatient(c) ==
  IF c.tx > PingIdle /\ c.ping > PingIdle
  THEN [c |-> [c EXCEPT !.ping = 0], out |-> <<Framed("ping")>>] ELSE [c |-> c, out |-> <<>>]

\* Fault: a side that hears the other sends no PING.
KeepaliveWhenQuiet(c) ==
  IF c.rx > DeadAfter THEN [c |-> [c EXCEPT !.alive = FALSE], out |-> <<>>]
  ELSE IF c.rx > PingIdle /\ c.tx > PingIdle /\ c.ping > PingIdle
       THEN [c |-> [c EXCEPT !.ping = 0], out |-> <<Framed("ping")>>]
       ELSE [c |-> c, out |-> <<>>]

\* service_keepalive: the new end, and the record it sends.
Keepalive(c) ==
  IF c.rx > DeadAfter THEN [c |-> [c EXCEPT !.alive = FALSE], out |-> <<>>]
  ELSE IF c.tx > PingIdle /\ c.ping > PingIdle
       THEN [c |-> [c EXCEPT !.ping = 0], out |-> <<Framed("ping")>>]
       ELSE [c |-> c, out |-> <<>>]

\* The last part of poll.
Serviced(c) == [Keepalive(c) EXCEPT !.c.pc = "run", !.c.polled = TRUE]

\* poll: every record there is, and at most one datagram (several are several
\* polls; one that finds nothing more in the same second changes nothing).  The end
\* of the stream is read once all records are.  The keepalive waits for answers to
\* be written.
Poll(s, ps) ==
  LET o == Other(s)
      answers == OnCtrl(pipe[o])
      read == [conn[s] EXCEPT !.rx = IF pipe[o] # <<>> THEN 0 ELSE @, !.alive = @ /\ ~Closed(o)]
      Finish(c) == IF answers = <<>> THEN Serviced(c)
                   ELSE [c |-> [c EXCEPT !.pc = "keepalive"], out |-> answers]
      Done(f) == conn' = [conn EXCEPT ![s] = f.c] /\ out' = [out EXCEPT ![s] = f.out]
  IN
  /\ Running(s)
  /\ pipe' = [pipe EXCEPT ![o] = <<>>]
  /\ \/ /\ ps = {} /\ (~conn[s].polled \/ pipe[o] # <<>> \/ Closed(o))
        /\ Done(Finish(read)) /\ UNCHANGED <<net, got>>
     \/ \E p \in ps : /\ Done(Finish(OnDatagram(read, p[1])))
                      /\ got' = [got EXCEPT ![s] = @ \o Delivered(read, p[1])]
                      /\ net' = Taken(p)
  /\ UNCHANGED <<psk, nat, sent, limit>>

PollKeepalive(s) ==
  LET f == Serviced(conn[s]) IN
  /\ Up(s) /\ conn[s].pc = "keepalive" /\ out[s] = <<>>
  /\ conn' = [conn EXCEPT ![s] = f.c]
  /\ out' = [out EXCEPT ![s] = f.out]
  /\ UNCHANGED <<psk, nat, pipe, net, sent, got, limit>>

-----------------------------------------------------------------------------
(* The environment.                                                        *)

\* The application drops the session, or the process ends: the stream ends.
Close(s) ==
  /\ limit.time /\ Up(s) /\ out[s] = <<>> /\ conn[s].pc = "run"
  /\ conn' = [conn EXCEPT ![s] = Ended(s, "closed")]
  /\ UNCHANGED <<psk, nat, out, pipe, net, sent, got, limit>>

\* From now on there is not a word from s.
FallSilent(s, how) ==
  /\ limit.time /\ conn[s].st \in {"hello", "confirm", "up"}
  /\ conn' = [conn EXCEPT ![s] = Ended(s, how)]
  /\ out' = [out EXCEPT ![s] = <<>>]
  /\ UNCHANGED <<psk, nat, pipe, net, sent, got, limit>>

\* Its host is gone from the network; or its process is wedged, and the sockets stay.
Vanish(s) == FallSilent(s, "vanished")
Wedge(s) == FallSilent(s, "wedged")

\* Whether s has done what it does within a second.
Settled(s) ==
  \/ conn[s].st \in {"start", "closed", "vanished", "wedged"} \/ ~conn[s].alive
  \/ conn[s].st \in {"hello", "confirm"} /\ pipe[Other(s)] = <<>>
  \/ conn[s].st = "up" /\ IF out[s] = <<>> THEN conn[s].polled /\ conn[s].pc = "run"
                          ELSE Len(pipe[s]) = TcpCap

Older(c) ==
  [c EXCEPT !.rx = IF @ > DeadAfter THEN @ ELSE @ + 1, !.tx = IF @ > PingIdle THEN @ ELSE @ + 1,
            !.ping = IF @ > PingIdle THEN @ ELSE @ + 1, !.polled = FALSE]

Tick ==
  /\ limit.time /\ \A s \in Side : Settled(s)
  /\ conn' = [s \in Side |-> IF Up(s) /\ conn[s].alive THEN Older(conn[s]) ELSE conn[s]]
  /\ UNCHANGED <<psk, nat, out, pipe, net, sent, got, limit>>

Handshake ==
  ClientConnect \/ HostRespond \/ RecvHello2 \/ RecvConfirm3 \/ \E s \in Side : HandshakeEof(s)

Arrivals(s) == {p \in net : p[1].from = Other(s)}

Polls(s) == Poll(s, {}) \/ Poll(s, Arrivals(s)) \/ PollKeepalive(s)

Next ==
  \/ Handshake \/ Tick
  \/ \E s \in Side :
       \/ SendTcp(s) \/ SendUdpInVain(s) \/ Write(s) \/ WriteFails(s) \/ Polls(s)
       \/ Close(s) \/ Vanish(s) \/ Wedge(s)
       \/ \E kind \in {"data", "frag"}, w \in Window : SendUdp(s, kind, w)

Spec == Init /\ [][Next]_vars

\* Both loops run and time passes; datagrams need not arrive, sockets need not
\* close and nobody need send.
FairSpec ==
  /\ Spec /\ WF_vars(Handshake) /\ WF_vars(Tick)
  /\ \A s \in Side : WF_vars(Write(s) \/ WriteFails(s)) /\ WF_vars(Poll(s, {}) \/ PollKeepalive(s))

-----------------------------------------------------------------------------
(* Properties.                                                             *)

\* Ends and connections are well formed, and no set of fragments that on_frag has
\* completed stays behind, whatever parts arrive twice or late.
TypeOK ==
  /\ psk \in [Side -> {1, 2}] /\ nat \in BOOLEAN /\ limit \in Limits
  /\ sent \in [tcp : Nat, udp : Nat]
  /\ \A s \in Side :
       LET c == conn[s] IN
       /\ c.st \in {"start", "hello", "confirm", "up", "closed", "vanished", "wedged"}
       /\ {c.alive, c.bound, c.polled} \subseteq BOOLEAN /\ c.pc \in {"run", "keepalive"}
       /\ c.peer \in {"advertised", "translated"}
       /\ {c.seq, c.mid} \subseteq 0 .. SeqSpace - 1 /\ c.last \in [Window -> 0 .. SeqSpace]
       /\ \A f \in DOMAIN c.frags : /\ c.frags[f].idx \subseteq 1 .. Parts
                                    /\ c.frags[f].n < Parts
       /\ c.rx \in 0 .. DeadAfter + 1 /\ c.tx \in 0 .. PingIdle + 1 /\ c.ping \in 0 .. PingIdle + 1
       /\ Len(pipe[s]) <= TcpCap

\* spec 2: per window the DATA messages on_data delivers are in the order they were sent
\* in and none is delivered twice, whatever UDP reorders and duplicates, also when
\* the sequence numbers wrap.
LatestWins ==
  \A s \in Side : \A i, j \in DOMAIN got[s] :
    i < j /\ got[s][i].type = "data" /\ got[s][j].type = "data" /\ got[s][i].win = got[s][j].win
      => got[s][i].msg < got[s][j].msg

\* spec 5: a fragmented message leaves on_frag with all of its fragments, however
\* sets of several messages mix and parts are repeated.
WholeMessages ==
  \A s \in Side : \A i \in DOMAIN got[s] :
    got[s][i].type = "frag" => got[s][i].idx = 1 .. Parts

\* spec 6: service_keepalive does not declare a session dead whose ends both run and
\* poll, however idle it is and whichever side sends records, also when both are stuck in a
\* write.  It takes datagrams to do that: those that do not arrive count as traffic for
\* their sender's keepalive all the same.
NoFalseDeath ==
  \A s \in Side : Up(s) /\ ~conn[s].alive /\ ~limit.vain /\ sent.udp = 0
                 => Closed(Other(s)) \/ Silent(Other(s))

\* write_all_tcp spins for ever: there is no room and the wedged peer makes none.
Spins(s) == out[s] # <<>> /\ Len(pipe[s]) = TcpCap /\ Wedged(Other(s))

\* spec 6: service_keepalive notices a peer that is silent, be it gone or wedged, also
\* from within a write when it is gone.  Only a side that spins in a write to a wedged
\* peer does not: its poll never gets to the keepalive (README, known failures).
SilentPeerNoticed ==
  \A s \in Side : limit.time /\ Up(s) /\ Silent(Other(s)) ~> ~Up(s) \/ ~conn[s].alive \/ Spins(s)

\* Both sides spin in a write, and neither reads.
Jammed == \A s \in Side : out[s] # <<>> /\ Len(pipe[s]) = TcpCap

\* write_all_tcp, "brief spin is fine": a write that waits for room ends, with what it
\* had to write or with the session, also when the peer closes or is gone.  Only two
\* cases are left in which it spins on (README, known failures).
WritesEnd == \A s \in Side : out[s] # <<>> ~> out[s] = <<>> \/ Spins(s) \/ Jammed
=============================================================================
